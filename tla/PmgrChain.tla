------------------------------ MODULE PmgrChain ------------------------------
(***************************************************************************)
(* The parents-first power-up of a PMGR gate: probe_phaseD_gate151_poke,   *)
(* _pmgr_direct_poke_chain, _pmgr_direct_poke_gate and _poll_ps_actual of  *)
(* Scripts/m1n1/perstn.py, running against PS registers that change on     *)
(* their own.  The recursion of the walk is an explicit stack of frames,   *)
(* one action is one proxy call (a register read or a mask32) together     *)
(* with the local code up to the next one.                                 *)
(*                                                                         *)
(* Of a PS register the walk tells apart only whether PS_ACTUAL is 0xf     *)
(* and whether AUTO_ENABLE is set; of what it wrote, whether PS_TARGET     *)
(* (write #1) and the PS_AUTO floor (write #2) were raised.                *)
(***************************************************************************)
EXTENDS Naturals, Sequences, FiniteSets

CONSTANTS
    Device,        \* the ids listed in pmgr.devices (dev_by_idx)
    Virtual,       \* the devices with flags.no_ps: no PS register
    Parents,       \* Parents[d]: the parent slots of d in order, 0 = none
    Root,          \* the gate to bring up (gate 151)
    MaxDepth,      \* the recursion bound (10 in the source)
    ClosedHandoff, \* the boot firmware hands over no gate that is up below
                   \* a gate that is off
    AutoGating     \* PMGR moves gates whose AUTO_ENABLE is set by itself

NoGate == 0

ASSUME PmgrAssumption ==
    /\ Device \subseteq Nat \ {NoGate}
    /\ Virtual \subseteq Device
    /\ Parents \in [Device -> Seq(Nat)]
    /\ Root \in Nat \ {NoGate}
    /\ MaxDepth \in Nat
    /\ ClosedHandoff \in BOOLEAN
    /\ AutoGating \in BOOLEAN

-----------------------------------------------------------------------------
(* The parent graph.                                                       *)

Real == Device \ Virtual

\* A parent slot the walk follows: not empty, not the gate itself.
Follows(d, i) == Parents[d][i] \notin {NoGate, d}

ParentsOf(d) ==
    IF d \in Device
    THEN {Parents[d][i] : i \in {j \in 1..Len(Parents[d]) : Follows(d, j)}}
    ELSE {}

Id == Device \cup {Root} \cup UNION {ParentsOf(d) : d \in Device}

UpClosed(S) == \A d \in S : ParentsOf(d) \subseteq S

\* The least set that holds the parents of g and the parents of its members.
AncestorsOf ==
    [g \in Id |->
        {a \in Id : \A S \in SUBSET Id :
                        (ParentsOf(g) \subseteq S /\ UpClosed(S)) => a \in S}]

RealAbove(g) == AncestorsOf[g] \cap Real

Acyclic == \A g \in Id : g \notin AncestorsOf[g]

Chain == (AncestorsOf[Root] \cup {Root}) \cap Real

-----------------------------------------------------------------------------
VARIABLES
    actual,   \* [Device -> BOOLEAN]: PS_ACTUAL reads 0xf
    auto,     \* [Device -> BOOLEAN]: AUTO_ENABLE is set
    target,   \* gates whose PS_TARGET was raised by write #1
    floor,    \* gates whose PS_AUTO floor was raised by write #2
    pc,       \* the next proxy call of the walk
    arg,      \* gate_idx of the _pmgr_direct_poke_chain call being entered
    gateAt,   \* gateAt[i]: the gate of the i-th call in progress
    slotAt,   \* slotAt[i]: the parent slot it is at
    depth,    \* how many calls are in progress (_depth of the call being entered)
    visited,  \* _visited
    active,   \* apcie.phaseD_gate151_active
    failing,  \* apcie.phaseD_failing_gate, 0 = None
    faulted   \* some proxy call or ADT accessor raised (history)

hw == <<actual, auto, target, floor>>
walk == <<pc, arg, gateAt, slotAt, depth, visited>>
verdict == <<active, failing, faulted>>
vars == <<hw, walk, verdict>>

Frame == 1..(MaxDepth + 1)
Pc == {"start", "call", "walk", "write1", "poll1", "write2", "poll2", "done"}

TypeOK ==
    /\ actual \in [Device -> BOOLEAN]
    /\ auto \in [Device -> BOOLEAN]
    /\ target \subseteq Real /\ floor \subseteq Real
    /\ pc \in Pc
    /\ arg \in Nat
    /\ gateAt \in [Frame -> Nat]
    /\ slotAt \in [Frame -> Nat \ {0}]
    /\ depth \in 0..(MaxDepth + 1)
    /\ visited \subseteq Nat
    /\ active \in BOOLEAN
    /\ failing \in Nat
    /\ faulted \in BOOLEAN

\* Every real gate above an active gate is active.
Closed(up) == \A g \in Real : up[g] => \A a \in RealAbove(g) : up[a]

Init ==
    /\ actual \in {up \in [Device -> BOOLEAN] : \A v \in Virtual : ~up[v]}
    /\ ClosedHandoff => Closed(actual)
    /\ auto \in {en \in [Device -> BOOLEAN] : \A v \in Virtual : ~en[v]}
    /\ target = {} /\ floor = {}
    /\ pc = "start"
    /\ arg = NoGate
    /\ gateAt = [i \in Frame |-> NoGate]
    /\ slotAt = [i \in Frame |-> 1]
    /\ depth = 0
    /\ visited = {}
    /\ active = FALSE
    /\ failing = NoGate
    /\ faulted = FALSE

-----------------------------------------------------------------------------
(* How a call of the walk ends.                                            *)

\* (True, None) reaches the caller, the call at depth d: it moves on to its
\* next parent, or Phase D itself records the success.
ReturnOk(d) ==
    /\ depth' = d
    /\ IF d = 0
       THEN pc' = "done" /\ active' = TRUE /\ UNCHANGED slotAt
       ELSE /\ pc' = "walk"
            /\ slotAt' = [slotAt EXCEPT ![d] = @ + 1]
            /\ UNCHANGED active
    /\ UNCHANGED <<arg, gateAt, failing>>

\* (False, g) is returned through every caller to Phase D.
ReturnFailed(g) ==
    /\ pc' = "done"
    /\ depth' = 0
    /\ failing' = g
    /\ UNCHANGED <<arg, gateAt, slotAt, active>>

-----------------------------------------------------------------------------
(* Phase D, and the entry of one _pmgr_direct_poke_chain call.             *)

Start ==
    /\ pc = "start"
    /\ pc' = "call"
    /\ arg' = Root
    /\ UNCHANGED <<hw, gateAt, slotAt, depth, visited, verdict>>

\* The device list cannot be loaded, or the exception count cannot be read.
StartFails ==
    /\ pc = "start"
    /\ pc' = "done"
    /\ faulted' = TRUE
    /\ UNCHANGED <<hw, arg, gateAt, slotAt, depth, visited, active, failing>>

TooDeep ==
    /\ pc = "call" /\ depth > MaxDepth
    /\ ReturnFailed(arg)
    /\ UNCHANGED <<hw, visited, faulted>>

AlreadyVisited ==
    /\ pc = "call" /\ depth <= MaxDepth
    /\ arg \in visited
    /\ ReturnOk(depth)
    /\ UNCHANGED <<hw, visited, faulted>>

\* The call gets past the depth and the cycle guard.
Entered ==
    /\ pc = "call" /\ depth <= MaxDepth
    /\ arg \notin visited
    /\ visited' = visited \cup {arg}
    /\ UNCHANGED hw

NotFound ==
    /\ Entered
    /\ arg \notin Device
    /\ ReturnFailed(arg)
    /\ UNCHANGED faulted

\* Mutant of FastPath: the register is not compared with ACTIVE.
FastPathUnchecked ==
    /\ Entered
    /\ arg \in Real
    /\ ReturnOk(depth)
    /\ UNCHANGED faulted

\* A real gate that already reads ACTIVE: its parents are taken to be up.
FastPath ==
    /\ Entered
    /\ arg \in Real /\ actual[arg]
    /\ ReturnOk(depth)
    /\ UNCHANGED faulted

Push ==
    /\ pc' = "walk"
    /\ depth' = depth + 1
    /\ gateAt' = [gateAt EXCEPT ![depth + 1] = arg]
    /\ slotAt' = [slotAt EXCEPT ![depth + 1] = 1]
    /\ UNCHANGED <<arg, active, failing>>

Descend ==
    /\ Entered
    /\ arg \in Virtual \/ (arg \in Real /\ ~actual[arg])
    /\ Push
    /\ UNCHANGED faulted

\* The fast-path read raises: the walk goes on as if the gate were off.
DescendUnread ==
    /\ Entered
    /\ arg \in Real
    /\ Push
    /\ faulted' = TRUE

ParentsUnreadable ==
    /\ Entered
    /\ arg \in Virtual \/ (arg \in Real /\ ~actual[arg])
    /\ ReturnFailed(arg)
    /\ faulted' = TRUE

-----------------------------------------------------------------------------
(* The loop over the parents of the innermost call.                        *)

Top == gateAt[depth]
TopSlot == slotAt[depth]
Slots == Len(Parents[Top])

SkipParent ==
    /\ pc = "walk" /\ TopSlot <= Slots
    /\ ~Follows(Top, TopSlot)
    /\ slotAt' = [slotAt EXCEPT ![depth] = @ + 1]
    /\ UNCHANGED <<hw, pc, arg, gateAt, depth, visited, verdict>>

CallParent ==
    /\ pc = "walk" /\ TopSlot <= Slots
    /\ Follows(Top, TopSlot)
    /\ pc' = "call"
    /\ arg' = Parents[Top][TopSlot]
    /\ UNCHANGED <<hw, gateAt, slotAt, depth, visited, verdict>>

-----------------------------------------------------------------------------
(* _pmgr_direct_poke_gate for the innermost call, its parents done.        *)

\* Mutant of ParentsDone: only the first parent slot is walked.
FirstParentDone == pc = "walk" /\ TopSlot > 1

ParentsDone == pc = "walk" /\ TopSlot > Slots

PokeVirtual ==
    /\ ParentsDone
    /\ Top \in Virtual
    /\ ReturnOk(depth - 1)
    /\ UNCHANGED <<hw, visited, faulted>>

PokeActive ==
    /\ ParentsDone
    /\ Top \in Real /\ actual[Top]
    /\ ReturnOk(depth - 1)
    /\ UNCHANGED <<hw, visited, faulted>>

\* Mutant of PokeOff: flags.no_ps is not looked at.
PokeAnyOff ==
    /\ ParentsDone
    /\ ~actual[Top]
    /\ pc' = "write1"
    /\ UNCHANGED <<hw, arg, gateAt, slotAt, depth, visited, verdict>>

PokeOff ==
    /\ ParentsDone
    /\ Top \in Real /\ ~actual[Top]
    /\ pc' = "write1"
    /\ UNCHANGED <<hw, arg, gateAt, slotAt, depth, visited, verdict>>

PokeUnread ==
    /\ ParentsDone
    /\ Top \in Real
    /\ ReturnFailed(Top)
    /\ faulted' = TRUE
    /\ UNCHANGED <<hw, visited>>

\* mask32 #1 lands: PS_TARGET := 0xf, AUTO_ENABLE cleared.
RaiseTarget ==
    /\ target' = target \cup {Top}
    /\ auto' = [auto EXCEPT ![Top] = FALSE]
    /\ UNCHANGED <<actual, floor>>

Write1 ==
    /\ pc = "write1"
    /\ RaiseTarget
    /\ pc' = "poll1"
    /\ UNCHANGED <<arg, gateAt, slotAt, depth, visited, verdict>>

\* mask32 raises; the write may have landed before its reply was lost.
Write1Raises ==
    /\ pc = "write1"
    /\ RaiseTarget \/ UNCHANGED hw
    /\ ReturnFailed(Top)
    /\ faulted' = TRUE
    /\ UNCHANGED visited

\* A poll that reads ACTIVE ends at once, whichever write it follows.
PollConverges ==
    /\ pc \in {"poll1", "poll2"}
    /\ actual[Top]
    /\ ReturnOk(depth - 1)
    /\ UNCHANGED <<hw, visited, faulted>>

\* Mutants of Poll1TimesOut: the poll has no deadline, the timeout is taken
\* for a success, or for a refusal.
Poll1NoDeadline ==
    /\ pc = "poll1"
    /\ ~actual[Top]
    /\ UNCHANGED vars

Poll1TimeoutIsOk ==
    /\ pc = "poll1"
    /\ ~actual[Top]
    /\ ReturnOk(depth - 1)
    /\ UNCHANGED <<hw, visited, faulted>>

Poll1TimeoutRefuses ==
    /\ pc = "poll1"
    /\ ~actual[Top]
    /\ ReturnFailed(Top)
    /\ UNCHANGED <<hw, visited, faulted>>

\* The deadline passes with the gate still off: escalate.
Poll1TimesOut ==
    /\ pc = "poll1"
    /\ ~actual[Top]
    /\ pc' = "write2"
    /\ UNCHANGED <<hw, arg, gateAt, slotAt, depth, visited, verdict>>

\* A read inside _poll_ps_actual raises: nothing below try_() in main()
\* catches it, so Phase D ends with its flag still False and no gate named.
PollRaises ==
    /\ pc \in {"poll1", "poll2"}
    /\ pc' = "done"
    /\ depth' = 0
    /\ faulted' = TRUE
    /\ UNCHANGED <<hw, arg, gateAt, slotAt, visited, active, failing>>

\* mask32 #2 lands: the PS_AUTO floor := 0xf.
RaiseFloor ==
    /\ floor' = floor \cup {Top}
    /\ UNCHANGED <<actual, auto, target>>

Write2 ==
    /\ pc = "write2"
    /\ RaiseFloor
    /\ pc' = "poll2"
    /\ UNCHANGED <<arg, gateAt, slotAt, depth, visited, verdict>>

Write2Raises ==
    /\ pc = "write2"
    /\ RaiseFloor \/ UNCHANGED hw
    /\ ReturnFailed(Top)
    /\ faulted' = TRUE
    /\ UNCHANGED visited

\* Mutants of Poll2TimesOut: the timeout is taken for a success, or the failing
\* gate is noted and the walk goes on.
Poll2TimeoutIsOk ==
    /\ pc = "poll2"
    /\ ~actual[Top]
    /\ ReturnOk(depth - 1)
    /\ UNCHANGED <<hw, visited, faulted>>

Poll2TimeoutNoted ==
    /\ pc = "poll2"
    /\ ~actual[Top]
    /\ failing' = Top
    /\ depth > 1
    /\ depth' = depth - 1
    /\ pc' = "walk"
    /\ slotAt' = [slotAt EXCEPT ![depth - 1] = @ + 1]
    /\ UNCHANGED <<hw, arg, gateAt, visited, active, faulted>>

Poll2TimesOut ==
    /\ pc = "poll2"
    /\ ~actual[Top]
    /\ ReturnFailed(Top)
    /\ UNCHANGED <<hw, visited, faulted>>

-----------------------------------------------------------------------------
(* The PMGR block itself.                                                  *)

\* A gate that was asked to comes up, some time or never.
Ramp(g) ==
    /\ g \in target /\ ~actual[g]
    /\ actual' = [actual EXCEPT ![g] = TRUE]
    /\ UNCHANGED <<auto, target, floor, walk, verdict>>

\* A gate whose AUTO_ENABLE is set is moved by the hardware.
AutoMove(g) ==
    /\ AutoGating /\ auto[g]
    /\ actual' = [actual EXCEPT ![g] = ~@]
    /\ UNCHANGED <<auto, target, floor, walk, verdict>>

-----------------------------------------------------------------------------
EnterCall ==
    \/ TooDeep \/ AlreadyVisited \/ NotFound \/ FastPath
    \/ Descend \/ DescendUnread \/ ParentsUnreadable

PokeGate ==
    \/ PokeVirtual \/ PokeActive \/ PokeOff \/ PokeUnread
    \/ Write1 \/ Write1Raises \/ PollConverges \/ Poll1TimesOut
    \/ PollRaises \/ Write2 \/ Write2Raises \/ Poll2TimesOut

WalkStep ==
    Start \/ StartFails \/ EnterCall \/ SkipParent \/ CallParent \/ PokeGate

Hardware == \E g \in Real : Ramp(g) \/ AutoMove(g)

Next == WalkStep \/ Hardware

\* The steps on which no proxy call raises: some one of them is always open
\* until the walk ends.
Progress ==
    \/ Start \/ TooDeep \/ AlreadyVisited \/ NotFound \/ FastPath \/ Descend
    \/ SkipParent \/ CallParent
    \/ PokeVirtual \/ PokeActive \/ PokeOff
    \/ Write1 \/ PollConverges \/ Poll1TimesOut \/ Write2 \/ Poll2TimesOut

\* The script itself keeps running: no call is assumed to raise.
Spec == Init /\ [][Next]_vars /\ WF_vars(Progress)

-----------------------------------------------------------------------------
(* Properties.                                                             *)

\* Phase D's promise: the flag it sets means that every real gate of the
\* chain reads ACTIVE.
ChainActive == active => \A g \in Chain : actual[g]

\* A gate's PS_TARGET is only raised while every real ancestor is ACTIVE
\* ("a real gate is only poked after every ancestor is confirmed ACTIVE").
ParentsFirst ==
    [][\A g \in target' \ target : \A a \in RealAbove(g) : actual[a]]_vars

\* The walk ended on a gate of the chain that did not converge: no call
\* raised, and the gate has a PS register.
Refused == failing \in Real /\ ~faulted

\* Once a gate refuses, no gate below it was ever poked ("returns immediately
\* -- the child is never poked").
NothingPokedBelowRefusal ==
    Refused => \A g \in target : failing \notin AncestorsOf[g]

\* A gate that is said to refuse was given both writes, the PS_AUTO
\* escalation included, unless the recursion bound was hit.
RefusalWasEscalated ==
    Refused /\ Cardinality(AncestorsOf[Root]) <= MaxDepth => failing \in floor

\* g and everything above it is up, virtual devices counting as up.
SettledUp(g) == /\ g \in Real => actual[g]
                /\ \A a \in RealAbove(g) : actual[a]

\* A gate the walk asked for, like one that is up, has its ancestors up.
HwOrdered ==
    \A g \in Real : actual[g] \/ g \in target => \A a \in RealAbove(g) : actual[a]

\* The frames are a path up the parent graph, from Root to the call.
PathUp ==
    /\ depth > 0 => gateAt[1] = Root
    /\ \A i, j \in 1..depth : i < j => gateAt[j] \in AncestorsOf[gateAt[i]]
    /\ \A i \in 1..(depth - 1) :
          LET g == gateAt[i] IN
          /\ slotAt[i] <= Len(Parents[g]) /\ Follows(g, slotAt[i])
          /\ gateAt[i + 1] = Parents[g][slotAt[i]]
    /\ pc = "call" =>
          IF depth = 0 THEN arg = Root
          ELSE /\ TopSlot <= Slots /\ Follows(Top, TopSlot)
               /\ arg = Parents[Top][TopSlot]
    /\ pc \in {"write1", "poll1", "write2", "poll2"} => TopSlot > Slots

\* The parent slots a frame has passed lead to gates that are settled.
PassedUp ==
    \A i \in 1..depth : \A k \in 1..Len(Parents[gateAt[i]]) :
        k < slotAt[i] /\ Follows(gateAt[i], k) => SettledUp(Parents[gateAt[i]][k])

\* Before the walk ends, every visited gate is settled or still in progress.
VisitedUp ==
    pc # "done" =>
        \A g \in visited : SettledUp(g) \/ \E i \in 1..depth : gateAt[i] = g

FlagUp == active => pc = "done" /\ SettledUp(Root)

\* Why ChainActive and ParentsFirst hold (given a closed handoff and an
\* acyclic graph): every call that returned left its gate settled.
WalkInv == HwOrdered /\ PathUp /\ PassedUp /\ VisitedUp /\ FlagUp

\* Phase D ends: cyclic graphs, deadlines and refusals included.
Terminates == <>(pc = "done")

\* The walk implements parents-first power-up with an honest verdict.
OnGates == {g \in Real : actual[g]}
Verdict == IF pc # "done" THEN "none" ELSE IF active THEN "active" ELSE "refused"

Order == INSTANCE PowerOrder
           WITH Gate <- Real, Above <- [g \in Real |-> RealAbove(g)],
                Needed <- Chain, on <- OnGates, verdict <- Verdict

ParentsFirstPowerUp == Order!OrderSpec
=============================================================================
