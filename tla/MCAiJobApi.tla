----------------------------- MODULE MCAiJobApi -----------------------------
(* Instances of AiJobApi for TLC. *)
EXTENDS AiJobApi, TLC

CONSTANTS c1, c2, c3, u1, u2

\* One user with two conversations, and another with one.
TwoOwners == (c1 :> u1) @@ (c2 :> u1) @@ (c3 :> u2)

\* One user, one conversation.
OneOwner == c1 :> u1

\* With a system prompt of 200 characters and 128 tokens: messages 1 and 3 just
\* fit together, message 2 does not even fit alone.
Lengths == <<0, 400, 260>>

=============================================================================
