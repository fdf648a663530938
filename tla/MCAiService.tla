----------------------------- MODULE MCAiService -----------------------------
(* The requests of the AI service, and the client of the AI gateway, which *)
(* share no state: the initial state chooses the part that moves.          *)
EXTENDS MCAiJobApi, OllamaClient

CONSTANTS m1, m2, x1, x2

\* The requests of the first caller meet everything; the model they ask for is
\* installed in the course of the run.
Calls == (x1 :> Ops) @@ (x2 :> {"health"})
Outcomes == (x1 :> Causes) @@ (x2 :> {"ok", "broken", "invalid", "keyless"})
CatalogHistory == <<{m1}, {m1, m2}>>

VARIABLE part

ServiceInit ==
  /\ Init /\ ClientInit
  /\ part = "client" \/ (part = "requests" /\ setup = "good")

ServiceNext ==
  \/ part = "requests" /\ Next /\ UNCHANGED <<clientVars, part>>
  \/ part = "client"   /\ ClientNext /\ UNCHANGED <<vars, part>>

ServiceSpec ==
  /\ ServiceInit
  /\ [][ServiceNext]_<<vars, clientVars, part>>
  /\ \A t \in Threads : WF_vars(RequestStep(t))

=============================================================================
