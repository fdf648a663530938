---------------------------- MODULE MCAiJobQueue ----------------------------
(* Instances of AiJobQueue for TLC; the .cfg files choose the numbers. *)
EXTENDS AiJobQueue

=============================================================================
