---------------------------- MODULE MCAiBotJobs ----------------------------
(* Instances of AiBotJobs for TLC; the .cfg files choose the numbers. *)
EXTENDS AiBotJobs

=============================================================================
