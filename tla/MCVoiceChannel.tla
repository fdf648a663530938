--------------------------- MODULE MCVoiceChannel ---------------------------
(* Sessions of two users, the second of whom may come back, or of three. *)
EXTENDS VoiceChannel

CONSTANTS ann, bob, cem

OwnerReconnect == <<ann, bob, bob>>
OwnerThree     == <<ann, bob, cem>>

=============================================================================
