----------------------------- MODULE PowerOrder -----------------------------
(***************************************************************************)
(* What bringing up one power gate promises, free of how the walk goes     *)
(* about it: gates come up parents-first, none goes down, and the caller   *)
(* is told once, "active" only when every gate it needs is up.             *)
(***************************************************************************)
CONSTANTS Gate,      \* the gates that have a PS register
          Above,     \* Above[g] \subseteq Gate: the gates that must be up before g
          Needed     \* the gates (of Gate) whose being up the verdict asserts

VARIABLES on,        \* the gates that are up
          verdict    \* what the caller was told

orderVars == <<on, verdict>>

\* A set of gates that could be the result of powering parents first.
Ordered(S) == \A g \in S : Above[g] \subseteq S

OrderInit == /\ on \in SUBSET Gate
             /\ Ordered(on)
             /\ verdict = "none"

TurnOn(g) == /\ Above[g] \subseteq on
             /\ on' = on \cup {g}
             /\ UNCHANGED verdict

Tell(v) == /\ verdict = "none"
           /\ v = "active" => Needed \subseteq on
           /\ verdict' = v
           /\ UNCHANGED on

OrderNext == \/ \E g \in Gate : TurnOn(g)
             \/ \E v \in {"active", "refused"} : Tell(v)

OrderSpec == OrderInit /\ [][OrderNext]_orderVars
=============================================================================
