-------------------------- MODULE PmgrChainProofs --------------------------
(* Theorems about the parents-first power-up of PmgrChain. *)
EXTENDS PmgrChain, FiniteSetTheorems, TLAPS

-----------------------------------------------------------------------------
(* The parent graph.                                                       *)

\* Parents are ids, and only devices have any.
LEMMA ParentsAreIds ==
    ASSUME NEW g
    PROVE  /\ ParentsOf(g) \subseteq Id
           /\ g \notin Device => ParentsOf(g) = {}
  BY DEF ParentsOf, Id

\* The ancestors of an id contain its parents and are closed upwards.
LEMMA AncestorsClosed ==
    ASSUME NEW g \in Id
    PROVE  /\ AncestorsOf[g] \subseteq Id
           /\ ParentsOf(g) \subseteq AncestorsOf[g]
           /\ UpClosed(AncestorsOf[g])
<1>1. AncestorsOf[g] \subseteq Id
  BY DEF AncestorsOf
<1>2. ParentsOf(g) \subseteq AncestorsOf[g]
  BY ParentsAreIds DEF AncestorsOf
<1>3. ASSUME NEW a \in AncestorsOf[g], NEW b \in ParentsOf(a)
      PROVE  b \in AncestorsOf[g]
  <2>1. b \in Id
    BY <1>3, ParentsAreIds
  <2>2. ASSUME NEW S \in SUBSET Id, ParentsOf(g) \subseteq S, UpClosed(S)
        PROVE  b \in S
    <3>1. a \in S
      BY <2>2 DEF AncestorsOf
    <3>2. QED
      BY <3>1, <2>2, <1>3 DEF UpClosed
  <2>3. QED
    BY <2>1, <2>2 DEF AncestorsOf
<1>4. QED
  BY <1>1, <1>2, <1>3 DEF UpClosed

\* ... and they are the least such set.
LEMMA AncestorsLeast ==
    ASSUME NEW g \in Id, NEW S \in SUBSET Id,
           ParentsOf(g) \subseteq S, UpClosed(S)
    PROVE  AncestorsOf[g] \subseteq S
  BY DEF AncestorsOf

\* An ancestor's ancestors are ancestors.
LEMMA AncestorsTransitive ==
    ASSUME NEW g \in Id, NEW a \in AncestorsOf[g]
    PROVE  AncestorsOf[a] \subseteq AncestorsOf[g]
<1>1. a \in Id
  BY AncestorsClosed
<1>2. ParentsOf(a) \subseteq AncestorsOf[g]
  BY AncestorsClosed DEF UpClosed
<1>3. QED
  BY <1>1, <1>2, AncestorsClosed, AncestorsLeast

\* An ancestor is a parent or an ancestor of a parent.
LEMMA AncestorsSplit ==
    ASSUME NEW g \in Id, NEW a \in AncestorsOf[g]
    PROVE  a \in ParentsOf(g) \/ \E p \in ParentsOf(g) : a \in AncestorsOf[p]
<1> DEFINE S == ParentsOf(g) \cup UNION {AncestorsOf[p] : p \in ParentsOf(g)}
<1>1. S \in SUBSET Id
  BY ParentsAreIds, AncestorsClosed
<1>2. ASSUME NEW x \in S
      PROVE  ParentsOf(x) \subseteq S
  <2>1. CASE x \in ParentsOf(g)
    <3>1. ParentsOf(x) \subseteq AncestorsOf[x]
      BY <2>1, ParentsAreIds, AncestorsClosed
    <3>2. QED
      BY <2>1, <3>1
  <2>2. ASSUME NEW p \in ParentsOf(g), x \in AncestorsOf[p]
        PROVE  ParentsOf(x) \subseteq S
    <3>1. ParentsOf(x) \subseteq AncestorsOf[p]
      BY <2>2, ParentsAreIds, AncestorsClosed DEF UpClosed
    <3>2. QED
      BY <3>1
  <2>3. QED
    BY <2>1, <2>2
<1>3. UpClosed(S)
  BY <1>2 DEF UpClosed
<1>4. AncestorsOf[g] \subseteq S
  BY <1>1, <1>3, AncestorsLeast
<1>5. QED
  BY <1>4

-----------------------------------------------------------------------------
(* Type correctness.                                                       *)

\* The live frames belong to devices, and a gate being written is real.
StackShape ==
    /\ pc \in {"start", "done"} => depth = 0
    /\ pc \in {"walk", "write1", "poll1", "write2", "poll2"} => depth > 0
    /\ \A i \in 1..depth : gateAt[i] \in Device
    /\ pc \in {"write1", "poll1", "write2", "poll2"} => Top \in Real

\* The control of the walk, and the data it moves, apart: a step's effect on
\* the first is one of three shapes.
ControlInv ==
    /\ pc \in Pc
    /\ arg \in Nat
    /\ gateAt \in [Frame -> Nat]
    /\ slotAt \in [Frame -> Nat \ {0}]
    /\ depth \in 0..(MaxDepth + 1)
    /\ active \in BOOLEAN
    /\ failing \in Nat
    /\ StackShape

DataInv ==
    /\ actual \in [Device -> BOOLEAN]
    /\ auto \in [Device -> BOOLEAN]
    /\ target \subseteq Real /\ floor \subseteq Real
    /\ visited \subseteq Nat
    /\ faulted \in BOOLEAN

TypeInv == ControlInv /\ DataInv

LEMMA TypeInit == Init => TypeInv
<1> SUFFICES ASSUME Init PROVE TypeInv
  OBVIOUS
<1>1. DataInv
  BY DEF Init, DataInv
<1>2. /\ gateAt \in [Frame -> Nat]
      /\ slotAt \in [Frame -> Nat \ {0}]
      /\ depth \in 0..(MaxDepth + 1)
  BY PmgrAssumption DEF Init, NoGate
<1>3. StackShape
  BY DEF Init, StackShape
<1>4. ControlInv
  BY <1>2, <1>3 DEF Init, ControlInv, Pc, NoGate
<1>5. QED
  BY <1>1, <1>4 DEF TypeInv

LEMMA ReturnOkControl ==
    ASSUME ControlInv, NEW d \in 0..depth, ReturnOk(d)
    PROVE  ControlInv'
<1>1. CASE d = 0
  BY <1>1, PmgrAssumption DEF ReturnOk, ControlInv, StackShape, Pc
<1>2. CASE d # 0
  <2>1. /\ pc' = "walk" /\ depth' = d /\ gateAt' = gateAt
        /\ slotAt' = [slotAt EXCEPT ![d] = @ + 1]
        /\ UNCHANGED <<arg, failing, active>>
    BY <1>2 DEF ReturnOk
  <2>2. d \in Frame /\ d \in 0..(MaxDepth + 1) /\ d > 0
    BY <1>2, PmgrAssumption DEF ControlInv, Frame
  <2>3. slotAt' \in [Frame -> Nat \ {0}]
    BY <2>1, <2>2 DEF ControlInv
  <2>4. \A i \in 1..d : gateAt[i] \in Device
    BY PmgrAssumption DEF ControlInv, StackShape
  <2>5. StackShape'
    BY <2>1, <2>2, <2>4 DEF StackShape
  <2>6. QED
    BY <2>1, <2>2, <2>3, <2>5 DEF ControlInv, Pc
<1>3. QED
  BY <1>1, <1>2

LEMMA ReturnFailedControl ==
    ASSUME ControlInv, NEW g \in Nat, ReturnFailed(g)
    PROVE  ControlInv'
  BY PmgrAssumption DEF ReturnFailed, ControlInv, StackShape, Pc

LEMMA PushControl ==
    ASSUME ControlInv, depth <= MaxDepth, arg \in Device, Push
    PROVE  ControlInv'
<1>1. depth + 1 \in Frame /\ depth' \in 0..(MaxDepth + 1) /\ depth' > 0
  BY PmgrAssumption DEF ControlInv, Push, Frame
<1>2. gateAt' \in [Frame -> Nat] /\ slotAt' \in [Frame -> Nat \ {0}]
  BY <1>1 DEF ControlInv, Push
<1>3. ASSUME NEW i \in 1..depth'
      PROVE  gateAt'[i] \in Device
  <2>1. i \in 1..depth \/ i = depth + 1
    BY <1>1, PmgrAssumption DEF ControlInv, Push
  <2>2. QED
    BY <1>1, <2>1, PmgrAssumption DEF ControlInv, Push, StackShape, Frame
<1>4. StackShape'
  BY <1>1, <1>3 DEF StackShape, Push
<1>5. QED
  BY <1>1, <1>2, <1>4 DEF ControlInv, Push, Pc

\* The innermost gate, when there is one.
LEMMA TopFacts ==
    ASSUME ControlInv, pc \in {"walk", "write1", "poll1", "write2", "poll2"}
    PROVE  /\ depth > 0 /\ depth \in Frame
           /\ Top \in Device /\ Top \in Nat
           /\ depth - 1 \in 0..depth
           /\ pc # "walk" => Top \in Real
  BY PmgrAssumption DEF ControlInv, StackShape, Frame, Top

LEMMA TypeEnter == TypeInv /\ EnterCall => TypeInv'
<1> SUFFICES ASSUME ControlInv, DataInv, EnterCall
             PROVE  ControlInv' /\ DataInv'
  BY DEF TypeInv
<1>1. depth \in 0..depth /\ arg \in Nat /\ Real \subseteq Device
  BY PmgrAssumption DEF ControlInv, Real
<1>2. DataInv'
  <2>1. /\ UNCHANGED hw
        /\ visited' = visited \/ visited' = visited \cup {arg}
        /\ faulted' = faulted \/ faulted' = TRUE
    BY DEF EnterCall, TooDeep, AlreadyVisited, NotFound, FastPath, Descend,
           DescendUnread, ParentsUnreadable, Entered
  <2>2. QED
    BY <1>1, <2>1 DEF DataInv, hw
<1>3. CASE TooDeep \/ NotFound \/ ParentsUnreadable
  BY <1>1, <1>2, <1>3, ReturnFailedControl DEF TooDeep, NotFound, ParentsUnreadable
<1>4. CASE AlreadyVisited \/ FastPath
  BY <1>1, <1>2, <1>4, ReturnOkControl DEF AlreadyVisited, FastPath
<1>5. CASE Descend \/ DescendUnread
  BY <1>1, <1>2, <1>5, PushControl, PmgrAssumption DEF Descend, DescendUnread, Entered
<1>6. QED
  BY <1>2, <1>3, <1>4, <1>5 DEF EnterCall

LEMMA TypePoke == TypeInv /\ PokeGate => TypeInv'
<1> SUFFICES ASSUME ControlInv, DataInv, PokeGate
             PROVE  ControlInv' /\ DataInv'
  BY DEF TypeInv
<1> DEFINE At == pc \in {"walk", "write1", "poll1", "write2", "poll2"}
<1>1. At
  BY DEF PokeGate, PokeVirtual, PokeActive, PokeOff, PokeUnread, ParentsDone,
         Write1, Write1Raises, PollConverges, Poll1TimesOut, PollRaises,
         Write2, Write2Raises, Poll2TimesOut
<1>2. /\ depth > 0 /\ Top \in Nat /\ Top \in Device
      /\ depth - 1 \in 0..depth
      /\ pc # "walk" => Top \in Real
  BY <1>1, TopFacts
<1>3. CASE PokeVirtual \/ PokeActive \/ PollConverges
  <2>1. ReturnOk(depth - 1) /\ UNCHANGED <<hw, visited, faulted>>
    BY <1>3 DEF PokeVirtual, PokeActive, PollConverges
  <2>2. QED
    BY <1>2, <2>1, ReturnOkControl DEF DataInv, hw
<1>4. CASE PokeUnread \/ Poll2TimesOut
  <2>1. /\ ReturnFailed(Top) /\ UNCHANGED <<hw, visited>>
        /\ faulted' = faulted \/ faulted' = TRUE
    BY <1>4 DEF PokeUnread, Poll2TimesOut
  <2>2. QED
    BY <1>2, <2>1, ReturnFailedControl DEF DataInv, hw
<1>5. CASE Write1Raises \/ Write2Raises
  <2>1. /\ ReturnFailed(Top) /\ UNCHANGED visited /\ faulted' = TRUE
        /\ pc # "walk"
        /\ RaiseTarget \/ RaiseFloor \/ UNCHANGED hw
    BY <1>5 DEF Write1Raises, Write2Raises
  <2>2. DataInv'
    BY <1>2, <2>1 DEF DataInv, hw, RaiseTarget, RaiseFloor
  <2>3. QED
    BY <1>2, <2>1, <2>2, ReturnFailedControl
<1>6. CASE PokeOff \/ Write1 \/ Poll1TimesOut \/ Write2
  <2>1. /\ UNCHANGED <<arg, gateAt, slotAt, depth, visited, verdict>>
        /\ pc' \in {"write1", "poll1", "write2", "poll2"}
        /\ Top \in Real
        /\ RaiseTarget \/ RaiseFloor \/ UNCHANGED hw
    BY <1>2, <1>6 DEF PokeOff, Write1, Poll1TimesOut, Write2
  <2>2. DataInv'
    BY <2>1 DEF DataInv, hw, verdict, RaiseTarget, RaiseFloor
  <2>3. ControlInv'
    BY <1>2, <2>1 DEF ControlInv, StackShape, verdict, Top, Pc
  <2>4. QED
    BY <2>2, <2>3
<1>7. CASE PollRaises
  BY <1>7, PmgrAssumption DEF PollRaises, ControlInv, StackShape, Pc, DataInv, hw
<1>8. QED
  BY <1>3, <1>4, <1>5, <1>6, <1>7 DEF PokeGate

LEMMA TypeStep == TypeInv /\ [Next]_vars => TypeInv'
<1> SUFFICES ASSUME ControlInv, DataInv, [Next]_vars
             PROVE  ControlInv' /\ DataInv'
  BY DEF TypeInv
<1>1. CASE Start
  BY <1>1, PmgrAssumption
  DEF Start, ControlInv, StackShape, DataInv, Pc, hw, verdict
<1>2. CASE StartFails
  BY <1>2 DEF StartFails, ControlInv, StackShape, DataInv, Pc, hw
<1>3. CASE EnterCall
  BY <1>3, TypeEnter DEF TypeInv
<1>4. CASE SkipParent
  <2>1. depth \in Frame
    BY <1>4, TopFacts DEF SkipParent
  <2>2. slotAt' \in [Frame -> Nat \ {0}]
    BY <1>4, <2>1 DEF SkipParent, ControlInv
  <2>3. QED
    BY <1>4, <2>2
    DEF SkipParent, ControlInv, StackShape, DataInv, hw, verdict, Top
<1>5. CASE CallParent
  <2>1. Parents[Top] \in Seq(Nat)
    BY <1>5, TopFacts, PmgrAssumption DEF CallParent
  <2>2. TopSlot \in Nat \ {0}
    BY <1>5, TopFacts DEF CallParent, TopSlot, ControlInv
  <2>3. Parents[Top][TopSlot] \in Nat
    BY <1>5, <2>1, <2>2 DEF CallParent, Slots
  <2>4. QED
    BY <1>5, <2>3
    DEF CallParent, ControlInv, StackShape, DataInv, Pc, hw, verdict
<1>6. CASE PokeGate
  BY <1>6, TypePoke DEF TypeInv
<1>7. CASE Hardware
  <2>1. /\ UNCHANGED <<auto, target, floor, walk, verdict>>
        /\ actual' \in [Device -> BOOLEAN]
    BY <1>7, PmgrAssumption DEF Hardware, Ramp, AutoMove, DataInv, Real
  <2>2. QED
    BY <2>1 DEF walk, verdict, ControlInv, StackShape, DataInv, Top
<1>8. CASE UNCHANGED vars
  BY <1>8
  DEF vars, hw, walk, verdict, ControlInv, StackShape, DataInv, Top
<1>9. QED
  BY <1>1, <1>2, <1>3, <1>4, <1>5, <1>6, <1>7, <1>8 DEF Next, WalkStep

\* The walk's variables keep their types on every parent graph, cyclic ones
\* included, and whatever the hardware does.
THEOREM TypeCorrect == Spec => []TypeOK
<1>1. Init => TypeInv
  BY TypeInit
<1>2. TypeInv /\ [Next]_vars => TypeInv'
  BY TypeStep
<1>3. TypeInv => TypeOK
  BY DEF TypeInv, ControlInv, DataInv, TypeOK
<1>4. QED
  BY <1>1, <1>2, <1>3, PTL DEF Spec

-----------------------------------------------------------------------------
(* The walk settles every gate it returns from.                            *)

\* What the promise of Phase D rests on: firmware hands over no gate that is
\* up below a gate that is off, PMGR does not gate on its own meanwhile,
\* and the ADT's parent graph has no cycle.
Premise == ClosedHandoff /\ ~AutoGating /\ Acyclic

LEMMA SlotIsParent ==
    ASSUME NEW d \in Device, NEW k \in 1..Len(Parents[d]), Follows(d, k)
    PROVE  Parents[d][k] \in ParentsOf(d)
  BY DEF ParentsOf

LEMMA ParentHasSlot ==
    ASSUME NEW d \in Device, NEW p \in ParentsOf(d)
    PROVE  \E k \in 1..Len(Parents[d]) : Follows(d, k) /\ p = Parents[d][k]
  BY DEF ParentsOf

\* A gate whose parents are settled has everything above it up.
LEMMA ParentsSettled ==
    ASSUME NEW g \in Id, \A p \in ParentsOf(g) : SettledUp(p)
    PROVE  \A a \in RealAbove(g) : actual[a]
<1> SUFFICES ASSUME NEW a \in RealAbove(g) PROVE actual[a]
  OBVIOUS
<1>1. a \in AncestorsOf[g] /\ a \in Real
  BY DEF RealAbove
<1>2. CASE a \in ParentsOf(g)
  BY <1>1, <1>2 DEF SettledUp
<1>3. CASE \E p \in ParentsOf(g) : a \in AncestorsOf[p]
  BY <1>1, <1>3 DEF SettledUp, RealAbove
<1>4. QED
  BY <1>1, <1>2, <1>3, AncestorsSplit

\* ... so the innermost gate may be poked once its parent slots are passed.
LEMMA TopAbove ==
    ASSUME ControlInv, PassedUp, depth > 0, TopSlot > Slots
    PROVE  /\ Top \in Id
           /\ \A a \in RealAbove(Top) : actual[a]
<1>1. depth \in 1..depth /\ depth \in Nat /\ Top \in Device /\ Top \in Id
  BY PmgrAssumption DEF ControlInv, StackShape, Top, Id
<1>2. TopSlot \in Nat /\ Len(Parents[Top]) \in Nat
  BY <1>1, PmgrAssumption DEF ControlInv, TopSlot, Frame
<1>3. ASSUME NEW p \in ParentsOf(Top)
      PROVE  SettledUp(p)
  <2>1. PICK k \in 1..Len(Parents[Top]) :
            Follows(Top, k) /\ p = Parents[Top][k]
    BY <1>1, ParentHasSlot
  <2>2. k < TopSlot
    BY <1>2 DEF Slots
  <2>3. QED
    BY <1>1, <2>1, <2>2 DEF PassedUp, Top, TopSlot
<1>4. QED
  BY <1>1, <1>3, ParentsSettled

\* The gate a call names is an id above every frame.
LEMMA CallAbove ==
    ASSUME ControlInv, PathUp, pc = "call"
    PROVE  /\ arg \in Id
           /\ \A i \in 1..depth : arg \in AncestorsOf[gateAt[i]]
<1>1. CASE depth = 0
  BY <1>1 DEF PathUp, Id
<1>2. CASE depth # 0
  <2>1. depth \in 1..depth /\ depth > 0 /\ depth \in Nat /\ Top \in Device
    BY <1>2, PmgrAssumption DEF ControlInv, StackShape, Top
  <2>2. TopSlot \in 1..Len(Parents[Top])
    BY <1>2, <2>1, PmgrAssumption
    DEF ControlInv, PathUp, TopSlot, Slots, Frame
  <2>3. arg \in ParentsOf(Top)
    BY <1>2, <2>1, <2>2, SlotIsParent DEF PathUp
  <2>4. arg \in Id /\ arg \in AncestorsOf[Top] /\ Top \in Id
    BY <2>1, <2>3, ParentsAreIds, AncestorsClosed DEF Id
  <2>5. ASSUME NEW i \in 1..depth
        PROVE  arg \in AncestorsOf[gateAt[i]]
    <3>1. CASE i = depth
      BY <2>4, <3>1 DEF Top
    <3>2. CASE i < depth
      <4>1. Top \in AncestorsOf[gateAt[i]]
        BY <2>1, <3>2 DEF PathUp, Top
      <4>2. gateAt[i] \in Id
        BY DEF ControlInv, StackShape, Id
      <4>3. QED
        BY <2>4, <4>1, <4>2, AncestorsTransitive
    <3>3. QED
      BY <2>1, <3>1, <3>2
  <2>6. QED
    BY <2>4, <2>5
<1>3. QED
  BY <1>1, <1>2

\* A visited gate that is called again has returned: on an acyclic graph it
\* is not one of the calls in progress.
LEMMA RevisitedSettled ==
    ASSUME ControlInv, PathUp, VisitedUp, Acyclic, pc = "call", arg \in visited
    PROVE  SettledUp(arg)
<1>1. ASSUME NEW i \in 1..depth, gateAt[i] = arg
      PROVE  FALSE
  BY <1>1, CallAbove DEF Acyclic
<1>2. QED
  BY <1>1 DEF VisitedUp

\* The gate the call at depth d is waiting for, when it is about to return.
Awaited(d, g) ==
    IF d = 0 THEN g = Root
    ELSE LET c == gateAt[d] IN
         /\ slotAt[d] <= Len(Parents[c]) /\ Follows(c, slotAt[d])
         /\ g = Parents[c][slotAt[d]]

\* Returning success for a settled gate keeps the invariant.
LEMMA ReturnOkInv ==
    ASSUME ControlInv, WalkInv, pc # "done",
           NEW d \in 0..depth, NEW g, SettledUp(g), Awaited(d, g),
           \A i \in 1..depth : i > d => gateAt[i] = g,
           ReturnOk(d), UNCHANGED hw,
           visited' \subseteq visited \cup {g}
    PROVE  WalkInv'
<1> USE DEF WalkInv
<1>1. /\ depth' = d /\ gateAt' = gateAt
      /\ UNCHANGED <<actual, target>>
      /\ pc' \in {"walk", "done"}
      /\ \A i \in 1..depth : i # d => slotAt'[i] = slotAt[i]
      /\ d # 0 => slotAt'[d] = slotAt[d] + 1
      /\ d \in Nat /\ depth \in Nat /\ d <= depth
  <2>1. CASE d = 0
    BY <2>1, PmgrAssumption DEF ReturnOk, hw, ControlInv
  <2>2. CASE d # 0
    BY <2>2, PmgrAssumption DEF ReturnOk, hw, ControlInv, Frame
  <2>3. QED
    BY <2>1, <2>2
<1>2. \A h : SettledUp(h)' <=> SettledUp(h)
  BY <1>1 DEF SettledUp
<1>3. HwOrdered'
  BY <1>1 DEF HwOrdered
<1>4. PathUp'
  <2>1. d > 0 => gateAt[1] = Root
    BY <1>1 DEF PathUp
  <2>2. \A i, j \in 1..d : i < j => gateAt[j] \in AncestorsOf[gateAt[i]]
    BY <1>1 DEF PathUp
  <2>3. ASSUME NEW i \in 1..(d - 1)
        PROVE  LET h == gateAt[i] IN
               /\ slotAt'[i] <= Len(Parents[h]) /\ Follows(h, slotAt'[i])
               /\ gateAt[i + 1] = Parents[h][slotAt'[i]]
    <3>1. i \in 1..(depth - 1) /\ i \in 1..depth /\ i # d
      BY <1>1
    <3>2. QED
      BY <1>1, <3>1 DEF PathUp
  <2>4. QED
    BY <1>1, <2>1, <2>2, <2>3 DEF PathUp
<1>5. PassedUp'
  <2> SUFFICES ASSUME NEW i \in 1..d, NEW k \in 1..Len(Parents[gateAt[i]]),
                      k < slotAt'[i], Follows(gateAt[i], k)
               PROVE  SettledUp(Parents[gateAt[i]][k])
    BY <1>1, <1>2 DEF PassedUp
  <2>1. i \in 1..depth /\ slotAt[i] \in Nat
    BY <1>1, PmgrAssumption DEF ControlInv, Frame
  <2>2. CASE k < slotAt[i]
    BY <2>1, <2>2 DEF PassedUp
  <2>3. CASE ~(k < slotAt[i])
    <3>1. i = d /\ k = slotAt[d] /\ d # 0
      BY <1>1, <2>1, <2>3
    <3>2. QED
      BY <3>1 DEF Awaited
  <2>4. QED
    BY <2>2, <2>3
<1>6. VisitedUp'
  <2> SUFFICES ASSUME pc' # "done", NEW v \in visited'
               PROVE  SettledUp(v) \/ \E i \in 1..d : gateAt[i] = v
    BY <1>1, <1>2 DEF VisitedUp
  <2>1. CASE v = g
    BY <2>1
  <2>2. CASE v \in visited
    BY <1>1, <2>2 DEF VisitedUp
  <2>3. QED
    BY <2>1, <2>2
<1>7. FlagUp'
  BY <1>1, <1>2 DEF FlagUp, ReturnOk, Awaited
<1>8. QED
  BY <1>3, <1>4, <1>5, <1>6, <1>7

\* A walk that ends without success leaves nothing to keep but the order of
\* the gates.
LEMMA EndInv ==
    ASSUME WalkInv, pc # "done", pc' = "done", depth' = 0,
           UNCHANGED active, HwOrdered'
    PROVE  WalkInv'
  BY DEF WalkInv, PathUp, PassedUp, VisitedUp, FlagUp

\* The part of the invariant about the frames survives a step that leaves
\* the frames, the visited set and the gates alone.
LEMMA SameFramesInv ==
    ASSUME WalkInv, pc # "done", pc' # "done",
           UNCHANGED <<gateAt, slotAt, depth, visited, active, actual>>,
           HwOrdered', PathUp'
    PROVE  WalkInv'
<1>1. \A h : SettledUp(h)' <=> SettledUp(h)
  BY DEF SettledUp
<1>2. QED
  BY <1>1 DEF WalkInv, PassedUp, VisitedUp, FlagUp

LEMMA PushInv ==
    ASSUME ControlInv, WalkInv, pc = "call", depth <= MaxDepth,
           arg \in Device, Push, UNCHANGED hw, visited' = visited \cup {arg}
    PROVE  WalkInv'
<1> USE DEF WalkInv
<1>1. /\ depth \in Nat /\ depth' = depth + 1 /\ depth + 1 \in Frame
      /\ pc' = "walk"
      /\ \A i \in 1..depth : gateAt'[i] = gateAt[i] /\ slotAt'[i] = slotAt[i]
      /\ gateAt'[depth + 1] = arg /\ slotAt'[depth + 1] = 1
      /\ UNCHANGED <<actual, target, active>>
  BY PmgrAssumption DEF Push, ControlInv, Frame, hw
<1>2. \A h : SettledUp(h)' <=> SettledUp(h)
  BY <1>1 DEF SettledUp
<1>3. HwOrdered'
  BY <1>1 DEF HwOrdered
<1>4. PathUp'
  <2>1. gateAt'[1] = Root
    <3>1. CASE depth = 0
      BY <1>1, <3>1 DEF PathUp
    <3>2. CASE depth # 0
      BY <1>1, <3>2 DEF PathUp
    <3>3. QED
      BY <3>1, <3>2
  <2>2. ASSUME NEW i \in 1..depth', NEW j \in 1..depth', i < j
        PROVE  gateAt'[j] \in AncestorsOf[gateAt'[i]]
    <3>1. CASE j = depth + 1
      BY <1>1, <2>2, <3>1, CallAbove
    <3>2. CASE j # depth + 1
      BY <1>1, <2>2, <3>2 DEF PathUp
    <3>3. QED
      BY <3>1, <3>2
  <2>3. ASSUME NEW i \in 1..(depth' - 1)
        PROVE  LET g == gateAt'[i] IN
               /\ slotAt'[i] <= Len(Parents[g]) /\ Follows(g, slotAt'[i])
               /\ gateAt'[i + 1] = Parents[g][slotAt'[i]]
    <3>1. CASE i = depth
      BY <1>1, <2>3, <3>1 DEF PathUp, Top, TopSlot, Slots
    <3>2. CASE i # depth
      BY <1>1, <2>3, <3>2 DEF PathUp
    <3>3. QED
      BY <3>1, <3>2
  <2>4. QED
    BY <1>1, <2>1, <2>2, <2>3 DEF PathUp
<1>5. PassedUp'
  <2> SUFFICES ASSUME NEW i \in 1..depth', NEW k \in 1..Len(Parents[gateAt'[i]]),
                      k < slotAt'[i], Follows(gateAt'[i], k)
               PROVE  SettledUp(Parents[gateAt'[i]][k])
    BY <1>2 DEF PassedUp
  <2>1. i # depth + 1
    BY <1>1
  <2>2. i \in 1..depth
    BY <1>1, <2>1
  <2>3. QED
    BY <1>1, <2>2 DEF PassedUp
<1>6. VisitedUp'
  <2> SUFFICES ASSUME NEW v \in visited'
               PROVE  SettledUp(v) \/ \E i \in 1..(depth + 1) : gateAt'[i] = v
    BY <1>1, <1>2 DEF VisitedUp
  <2>1. CASE v = arg
    BY <1>1, <2>1
  <2>2. CASE v \in visited
    <3>1. SettledUp(v) \/ \E i \in 1..depth : gateAt[i] = v
      BY <2>2 DEF VisitedUp
    <3>2. \A i \in 1..depth : i \in 1..(depth + 1)
      BY <1>1
    <3>3. QED
      BY <1>1, <3>1, <3>2
  <2>3. QED
    BY <2>1, <2>2
<1>7. FlagUp'
  BY <1>1 DEF FlagUp
<1>8. QED
  BY <1>3, <1>4, <1>5, <1>6, <1>7

LEMMA RealDevice == Real \subseteq Device /\ Device \subseteq Id
  BY DEF Real, Id

\* A gate that is up is settled.
LEMMA UpIsSettled ==
    ASSUME HwOrdered, NEW g \in Real, actual[g]
    PROVE  SettledUp(g)
  BY DEF HwOrdered, SettledUp

LEMMA EnterInv ==
    ASSUME Premise, TypeInv, WalkInv, EnterCall PROVE WalkInv'
<1> USE DEF WalkInv
<1>1. ControlInv /\ pc = "call"
  BY DEF TypeInv, EnterCall, TooDeep, AlreadyVisited, NotFound, FastPath,
         Descend, DescendUnread, ParentsUnreadable, Entered
<1>2. /\ depth \in 0..depth /\ Awaited(depth, arg)
      /\ \A i \in 1..depth : ~(i > depth)
  BY <1>1, PmgrAssumption
  DEF ControlInv, PathUp, Awaited, Top, TopSlot, Slots
<1>3. CASE TooDeep \/ NotFound \/ ParentsUnreadable
  <2>1. HwOrdered' /\ pc' = "done" /\ depth' = 0 /\ UNCHANGED active
    BY <1>3 DEF TooDeep, NotFound, ParentsUnreadable, Entered, ReturnFailed,
                HwOrdered, hw
  <2>2. QED
    BY <1>1, <2>1, EndInv
<1>4. CASE AlreadyVisited
  <2>1. SettledUp(arg)
    BY <1>1, <1>4, RevisitedSettled DEF AlreadyVisited, Premise
  <2>2. QED
    BY <1>1, <1>2, <1>4, <2>1, ReturnOkInv DEF AlreadyVisited
<1>5. CASE FastPath
  <2>1. SettledUp(arg)
    BY <1>5, UpIsSettled DEF FastPath
  <2>2. QED
    BY <1>1, <1>2, <1>5, <2>1, ReturnOkInv DEF FastPath, Entered
<1>6. CASE Descend \/ DescendUnread
  BY <1>1, <1>6, RealDevice, PmgrAssumption, PushInv
  DEF Descend, DescendUnread, Entered
<1>7. QED
  BY <1>3, <1>4, <1>5, <1>6 DEF EnterCall

\* The innermost call, its parents passed, returns success for a gate that is
\* virtual or up.
LEMMA PopInv ==
    ASSUME TypeInv, WalkInv, pc # "done", depth > 0, TopSlot > Slots,
           Top \in Real => actual[Top],
           ReturnOk(depth - 1), UNCHANGED <<hw, visited>>
    PROVE  WalkInv'
<1> USE DEF WalkInv, TypeInv
<1>1. /\ depth \in Nat /\ depth - 1 \in 0..depth
      /\ \A i \in 1..depth : i > depth - 1 => gateAt[i] = Top
  BY PmgrAssumption DEF ControlInv, Top
<1>2. SettledUp(Top)
  BY TopAbove DEF SettledUp
<1>3. Awaited(depth - 1, Top)
  <2>1. CASE depth = 1
    BY <2>1 DEF Awaited, PathUp, Top
  <2>2. CASE depth # 1
    <3>1. depth - 1 \in 1..(depth - 1) /\ depth - 1 # 0 /\ (depth - 1) + 1 = depth
      BY <1>1, <2>2
    <3>2. QED
      BY <3>1 DEF Awaited, PathUp, Top
  <2>3. QED
    BY <2>1, <2>2
<1>4. QED
  BY <1>1, <1>2, <1>3, ReturnOkInv

LEMMA PokeInv ==
    ASSUME TypeInv, WalkInv, PokeGate PROVE WalkInv'
<1> USE DEF WalkInv, TypeInv
<1>1. /\ pc \in {"walk", "write1", "poll1", "write2", "poll2"}
      /\ pc = "walk" => TopSlot > Slots
  BY DEF PokeGate, PokeVirtual, PokeActive, PokeOff, PokeUnread, ParentsDone,
         Write1, Write1Raises, PollConverges, Poll1TimesOut, PollRaises,
         Write2, Write2Raises, Poll2TimesOut
<1>2. /\ depth > 0 /\ TopSlot > Slots /\ Top \in Device /\ pc # "done"
      /\ pc # "walk" => Top \in Real
  BY <1>1, TopFacts DEF PathUp
<1>3. \A a \in RealAbove(Top) : actual[a]
  BY <1>2, TopAbove
<1>4. /\ RaiseTarget => HwOrdered'
      /\ RaiseFloor => HwOrdered'
      /\ UNCHANGED hw => HwOrdered'
  BY <1>3 DEF HwOrdered, RaiseTarget, RaiseFloor, hw
<1>5. CASE PokeVirtual \/ PokeActive \/ PollConverges
  <2>1. /\ ReturnOk(depth - 1) /\ UNCHANGED <<hw, visited>>
        /\ Top \in Real => actual[Top]
    BY <1>5 DEF PokeVirtual, PokeActive, PollConverges, Real
  <2>2. QED
    BY <1>2, <2>1, PopInv
<1>6. CASE \/ PokeUnread \/ Write1Raises \/ PollRaises \/ Write2Raises
           \/ Poll2TimesOut
  <2>1. /\ pc' = "done" /\ depth' = 0 /\ UNCHANGED active
        /\ RaiseTarget \/ RaiseFloor \/ UNCHANGED hw
    BY <1>6 DEF PokeUnread, Write1Raises, PollRaises, Write2Raises,
                Poll2TimesOut, ReturnFailed
  <2>2. QED
    BY <1>2, <1>4, <2>1, EndInv
<1>7. CASE PokeOff \/ Write1 \/ Poll1TimesOut \/ Write2
  <2>1. /\ pc' \in {"write1", "poll1", "write2", "poll2"}
        /\ UNCHANGED <<gateAt, slotAt, depth, visited, active, actual>>
        /\ RaiseTarget \/ RaiseFloor \/ UNCHANGED hw
    BY <1>7 DEF PokeOff, Write1, Poll1TimesOut, Write2, verdict, hw,
                RaiseTarget, RaiseFloor
  <2>2. PathUp'
    BY <1>2, <2>1 DEF PathUp, Top, TopSlot, Slots
  <2>3. QED
    BY <1>2, <1>4, <2>1, <2>2, SameFramesInv
<1>8. QED
  BY <1>5, <1>6, <1>7 DEF PokeGate

\* A gate the walk asked for comes up: nothing that was up goes down.
LEMMA HardwareInv ==
    ASSUME Premise, TypeInv, WalkInv, Hardware PROVE WalkInv'
<1> USE DEF WalkInv, TypeInv
<1>1. PICK r \in Real : Ramp(r)
  BY DEF Hardware, AutoMove, Premise
<1>2. /\ \A g \in Real : actual'[g] <=> (actual[g] \/ g = r)
      /\ r \in target
      /\ UNCHANGED <<target, pc, arg, gateAt, slotAt, depth, visited, active>>
  BY <1>1, RealDevice DEF Ramp, DataInv, walk, verdict
<1>3. \A h : SettledUp(h) => SettledUp(h)'
  BY <1>2 DEF SettledUp, RealAbove
<1>4. HwOrdered'
  BY <1>2 DEF HwOrdered, RealAbove
<1>5. PathUp' /\ PassedUp' /\ VisitedUp' /\ FlagUp'
  BY <1>2, <1>3 DEF PathUp, PassedUp, VisitedUp, FlagUp, Top, TopSlot, Slots
<1>6. QED
  BY <1>4, <1>5

LEMMA WalkInvInit == Premise /\ Init => WalkInv
  BY DEF Premise, Init, WalkInv, HwOrdered, Closed, PathUp, PassedUp,
         VisitedUp, FlagUp

LEMMA WalkInvStep ==
    ASSUME Premise, TypeInv, WalkInv, [Next]_vars PROVE WalkInv'
<1> USE DEF WalkInv, TypeInv
<1>1. CASE Start
  <2>1. /\ pc # "done" /\ pc' = "call" /\ depth = 0 /\ arg' = Root
        /\ UNCHANGED <<gateAt, slotAt, depth, visited, active, actual, target>>
    BY <1>1 DEF Start, ControlInv, StackShape, hw, verdict
  <2>2. HwOrdered' /\ PathUp'
    BY <2>1 DEF HwOrdered, PathUp
  <2>3. QED
    BY <2>1, <2>2, SameFramesInv
<1>2. CASE StartFails
  <2>1. HwOrdered' /\ pc' = "done" /\ depth' = 0 /\ UNCHANGED active
    BY <1>2 DEF StartFails, ControlInv, StackShape, HwOrdered, hw
  <2>2. QED
    BY <1>2, <2>1, EndInv DEF StartFails
<1>3. CASE EnterCall
  BY <1>3, EnterInv
<1>4. CASE SkipParent
  <2>1. /\ depth \in Frame /\ depth \in Nat /\ depth > 0 /\ TopSlot \in Nat
        /\ UNCHANGED <<pc, gateAt, depth, visited, active, actual, target>>
        /\ \A i \in 1..depth : i # depth => slotAt'[i] = slotAt[i]
        /\ slotAt'[depth] = slotAt[depth] + 1
        /\ pc = "walk"
        /\ ~Follows(gateAt[depth], slotAt[depth])
    BY <1>4, TopFacts, PmgrAssumption
    DEF SkipParent, ControlInv, Frame, Top, TopSlot, hw, verdict
  <2>2. \A h : SettledUp(h)' <=> SettledUp(h)
    BY <2>1 DEF SettledUp
  <2>3. HwOrdered' /\ VisitedUp' /\ FlagUp'
    BY <2>1, <2>2 DEF HwOrdered, VisitedUp, FlagUp
  <2>4. PathUp'
    <3>1. ASSUME NEW i \in 1..(depth - 1)
          PROVE  LET h == gateAt[i] IN
                 /\ slotAt'[i] <= Len(Parents[h]) /\ Follows(h, slotAt'[i])
                 /\ gateAt[i + 1] = Parents[h][slotAt'[i]]
      <4>1. i \in 1..depth /\ i # depth
        BY <2>1
      <4>2. QED
        BY <2>1, <4>1 DEF PathUp
    <3>2. QED
      BY <2>1, <3>1 DEF PathUp
  <2>5. PassedUp'
    <3> SUFFICES ASSUME NEW i \in 1..depth, NEW k \in 1..Len(Parents[gateAt[i]]),
                        k < slotAt'[i], Follows(gateAt[i], k)
                 PROVE  SettledUp(Parents[gateAt[i]][k])
      BY <2>1, <2>2 DEF PassedUp
    <3>1. k < slotAt[i]
      BY <2>1, PmgrAssumption DEF TopSlot
    <3>2. QED
      BY <3>1 DEF PassedUp
  <2>6. QED
    BY <2>3, <2>4, <2>5
<1>5. CASE CallParent
  <2>1. /\ pc # "done" /\ pc' = "call" /\ depth > 0
        /\ UNCHANGED <<gateAt, slotAt, depth, visited, active, actual, target>>
        /\ TopSlot <= Slots /\ Follows(Top, TopSlot)
        /\ arg' = Parents[Top][TopSlot]
    BY <1>5, TopFacts DEF CallParent, hw, verdict
  <2>2. HwOrdered'
    BY <2>1 DEF HwOrdered
  <2>3. PathUp'
    BY <2>1, PmgrAssumption DEF PathUp, Top, TopSlot, Slots, ControlInv
  <2>4. QED
    BY <2>1, <2>2, <2>3, SameFramesInv
<1>6. CASE PokeGate
  BY <1>6, PokeInv
<1>7. CASE Hardware
  BY <1>7, HardwareInv
<1>8. CASE UNCHANGED vars
  <2>1. UNCHANGED <<pc, arg, gateAt, slotAt, depth, visited, active, actual, target>>
    BY <1>8 DEF vars, hw, walk, verdict
  <2>2. \A h : SettledUp(h)' <=> SettledUp(h)
    BY <2>1 DEF SettledUp
  <2>3. QED
    BY <2>1, <2>2
    DEF HwOrdered, PathUp, PassedUp, VisitedUp, FlagUp, Top, TopSlot, Slots
<1>9. QED
  BY <1>1, <1>2, <1>3, <1>4, <1>5, <1>6, <1>7, <1>8 DEF Next, WalkStep

-----------------------------------------------------------------------------
(* The theorems.                                                           *)

PremisedInv == Premise /\ TypeInv /\ WalkInv

LEMMA PremisedInvInit == Premise /\ Init => PremisedInv
  BY TypeInit, WalkInvInit DEF PremisedInv

LEMMA PremisedInvStep == PremisedInv /\ [Next]_vars => PremisedInv'
  BY TypeStep, WalkInvStep DEF PremisedInv, Premise

\* The strengthened invariant: on a closed handoff and an acyclic graph every
\* call that returned left its gate, and all above it, up.
THEOREM WalkSettles == Premise /\ Spec => []WalkInv
<1>1. PremisedInv => WalkInv
  BY DEF PremisedInv
<1>2. QED
  BY <1>1, PremisedInvInit, PremisedInvStep, PTL DEF Spec

\* Phase D's flag is honest on every acyclic graph whose handoff is closed:
\* when it is set, every real gate of the chain of Root reads ACTIVE.
THEOREM FlagIsHonest == Premise /\ Spec => []ChainActive
<1>1. PremisedInv => ChainActive
  <2> SUFFICES ASSUME WalkInv, active, NEW g \in Chain PROVE actual[g]
    BY DEF PremisedInv, ChainActive
  <2>1. SettledUp(Root)
    BY DEF WalkInv, FlagUp
  <2>2. QED
    BY <2>1 DEF SettledUp, Chain, RealAbove
<1>2. QED
  BY <1>1, PremisedInvInit, PremisedInvStep, PTL DEF Spec

\* Only the first write of a poke adds to target, and it is made by the
\* innermost call once its parent slots are passed.
LEMMA OnlyTopIsAsked ==
    ASSUME TypeInv, [Next]_vars, NEW g \in target' \ target
    PROVE  g = Top /\ pc = "write1"
<1>1. UNCHANGED target \/ (pc = "write1" /\ RaiseTarget)
  BY DEF Next, WalkStep, Hardware, Ramp, AutoMove, Start, StartFails,
         EnterCall, TooDeep, AlreadyVisited, NotFound, FastPath, Descend,
         DescendUnread, ParentsUnreadable, Entered, SkipParent, CallParent,
         PokeGate, PokeVirtual, PokeActive, PokeOff, PokeUnread, Write1,
         Write1Raises, PollConverges, Poll1TimesOut, PollRaises, Write2,
         Write2Raises, Poll2TimesOut, RaiseFloor, vars, hw
<1>2. QED
  BY <1>1 DEF RaiseTarget

\* A gate is only asked to come up while everything above it is up.
THEOREM AskedParentsFirst == Premise /\ Spec => ParentsFirst
<1>1. PremisedInv /\ [Next]_vars =>
          [\A g \in target' \ target : \A a \in RealAbove(g) : actual[a]]_vars
  <2> SUFFICES ASSUME TypeInv, WalkInv, [Next]_vars, NEW g \in target' \ target
               PROVE  \A a \in RealAbove(g) : actual[a]
    BY DEF PremisedInv
  <2>1. g = Top /\ pc = "write1"
    BY OnlyTopIsAsked
  <2>2. depth > 0 /\ TopSlot > Slots
    BY <2>1, TopFacts DEF TypeInv, WalkInv, PathUp
  <2>3. QED
    BY <2>1, <2>2, TopAbove DEF TypeInv, WalkInv
<1>2. QED
  BY <1>1, PremisedInvInit, PremisedInvStep, PTL DEF Spec, ParentsFirst

-----------------------------------------------------------------------------
(* Refusals.                                                               *)

\* Above the gate Phase D is to bring up there are no more gates than the recursion
\* may go deep, so no path up from it is too long.
FewAncestors == IsFiniteSet(AncestorsOf[Root])
WithinBound == FewAncestors /\ Cardinality(AncestorsOf[Root]) <= MaxDepth

\* A gate is named when the walk ends, after its second write, and is then
\* above no gate that was asked.
RefusalInv ==
    /\ failing # NoGate => pc = "done"
    /\ pc = "poll2" => Top \in floor
    /\ Refused => failing \in floor /\ \A g \in target : failing \notin AncestorsOf[g]

LEMMA NotTooDeep ==
    ASSUME WithinBound, Acyclic, ControlInv, PathUp, pc = "call"
    PROVE  depth <= MaxDepth
<1> SUFFICES ASSUME depth > MaxDepth PROVE FALSE
  BY PmgrAssumption DEF ControlInv
<1>1. depth \in Nat /\ depth + 1 \in Int /\ depth + 1 > MaxDepth + 1 /\ MaxDepth \in Nat
  BY PmgrAssumption DEF ControlInv
<1> DEFINE f == [i \in 1..(depth + 1) |-> IF i <= depth THEN gateAt[i] ELSE arg]
<1>2. f \in [1..(depth + 1) -> Id]
  <2>1. arg \in Id
    BY CallAbove
  <2>2. \A i \in 1..depth : gateAt[i] \in Id
    BY DEF ControlInv, StackShape, Id
  <2>3. QED
    BY <1>1, <2>1, <2>2
<1>6. ASSUME NEW i \in 1..(depth + 1), NEW j \in 1..(depth + 1), i < j
      PROVE  f[i] \in Id /\ f[j] \in AncestorsOf[f[i]]
  <2>1. i \in 1..depth /\ f[i] = gateAt[i]
    BY <1>1, <1>6
  <2>2. CASE j \in 1..depth
    BY <1>2, <1>6, <2>1, <2>2 DEF PathUp
  <2>3. CASE j \notin 1..depth
    <3>1. f[j] = arg
      BY <1>1, <2>3
    <3>2. QED
      BY <1>2, <2>1, <3>1, CallAbove
  <2>4. QED
    BY <2>2, <2>3
<1> DEFINE up == AncestorsOf[Root]
           all == up \cup {Root}
<1>7. IsFiniteSet(all) /\ Cardinality(all) \in Nat /\ Cardinality(all) < Cardinality(1..(depth + 1))
  <2>1. IsFiniteSet(up) /\ Cardinality(up) \in Nat /\ Cardinality(up) <= MaxDepth
    BY FS_CardinalityType DEF WithinBound, FewAncestors
  <2>2. IsFiniteSet(all) /\ Cardinality(all) \in Nat
        /\ Cardinality(all) = IF Root \in up THEN Cardinality(up) ELSE Cardinality(up) + 1
    <3> HIDE DEF up
    <3>1. QED
      BY <2>1, FS_AddElement, FS_CardinalityType
  <2> HIDE DEF up, all
  <2>3. IsFiniteSet(1..(depth + 1)) /\ Cardinality(1..(depth + 1)) = depth + 1
    BY <1>1, FS_Interval
  <2>4. QED
    BY <1>1, <2>1, <2>2, <2>3
<1>8. f \in [1..(depth + 1) -> all]
  <2>1. f[1] = Root
    BY <1>1 DEF PathUp
  <2>2. ASSUME NEW i \in 1..(depth + 1), i # 1
        PROVE  f[i] \in up
    <3>1. 1 \in 1..(depth + 1) /\ 1 < i
      BY <1>1, <2>2
    <3> HIDE DEF f
    <3>2. QED
      BY <1>6, <2>1, <3>1
  <2>3. \A i \in 1..(depth + 1) : f[i] \in all
    <3> HIDE DEF f
    <3>1. QED
      BY <2>1, <2>2
  <2>4. QED
    BY <1>2, <2>3
<1>9. PICK x, y \in 1..(depth + 1) : x # y /\ f[x] = f[y]
  <2> HIDE DEF f, all
  <2>1. IsFiniteSet(1..(depth + 1))
    BY <1>1, FS_Interval
  <2>2. QED
    BY <1>7, <1>8, <2>1, FS_PigeonHole
<1>10. x < y \/ y < x
  BY <1>1, <1>9
<1>11. QED
  <2> HIDE DEF f
  <2>1. QED
    BY <1>6, <1>9, <1>10 DEF Acyclic

LEMMA NoGateIsNotReal == NoGate \notin Real
  BY PmgrAssumption DEF Real

\* Where a gate may be named.
LEMMA NamedAt ==
    ASSUME [Next]_vars, failing' # failing
    PROVE  /\ pc' = "done"
           /\ TooDeep \/ NotFound \/ faulted' \/ Poll2TimesOut
  BY DEF Next, WalkStep, Hardware, Ramp, AutoMove, Start, StartFails,
         EnterCall, TooDeep, AlreadyVisited, NotFound, FastPath, Descend,
         DescendUnread, ParentsUnreadable, SkipParent, CallParent,
         PokeGate, PokeVirtual, PokeActive, PokeOff, PokeUnread, Write1,
         Write1Raises, PollConverges, Poll1TimesOut, PollRaises, Write2,
         Write2Raises, Poll2TimesOut, ReturnOk, ReturnFailed, Push, vars, verdict

\* A walk that ended does nothing more.
LEMMA DoneRests ==
    ASSUME pc = "done", [Next]_vars
    PROVE  UNCHANGED <<target, floor, walk, verdict>>
  BY DEF Next, WalkStep, Hardware, Ramp, AutoMove, Start, StartFails,
         EnterCall, TooDeep, AlreadyVisited, NotFound, FastPath, Descend,
         DescendUnread, ParentsUnreadable, Entered, SkipParent, CallParent, ParentsDone,
         PokeGate, PokeVirtual, PokeActive, PokeOff, PokeUnread, Write1,
         Write1Raises, PollConverges, Poll1TimesOut, PollRaises, Write2,
         Write2Raises, Poll2TimesOut, vars, hw

\* The second poll follows the second write.
LEMMA Poll2After ==
    ASSUME [Next]_vars, pc' = "poll2"
    PROVE  Write2 \/ UNCHANGED <<pc, gateAt, depth, floor>>
  BY DEF Next, WalkStep, Hardware, Ramp, AutoMove, Start, StartFails,
         EnterCall, TooDeep, AlreadyVisited, NotFound, FastPath, Descend,
         DescendUnread, ParentsUnreadable, SkipParent, CallParent,
         PokeGate, PokeVirtual, PokeActive, PokeOff, PokeUnread, Write1,
         Write1Raises, PollConverges, Poll1TimesOut, PollRaises,
         Write2Raises, Poll2TimesOut, ReturnOk, ReturnFailed, Push, vars, hw, walk

LEMMA RefusalInvStep ==
    ASSUME WithinBound, PremisedInv, RefusalInv, [Next]_vars
    PROVE  RefusalInv'
<1>0. Acyclic /\ ControlInv /\ DataInv /\ WalkInv /\ PathUp
  BY DEF PremisedInv, Premise, TypeInv, WalkInv
<1>1. (failing # NoGate => pc = "done")'
  <2>1. CASE failing' = failing
    BY <2>1, DoneRests DEF RefusalInv, walk
  <2>2. CASE failing' # failing
    BY <2>2, NamedAt
  <2>3. QED
    BY <2>1, <2>2
<1>2. (pc = "poll2" => Top \in floor)'
  <2> SUFFICES ASSUME pc' = "poll2" PROVE (Top \in floor)'
    OBVIOUS
  <2>1. CASE Write2
    BY <2>1 DEF Write2, RaiseFloor, Top
  <2>2. CASE UNCHANGED <<pc, gateAt, depth, floor>>
    BY <2>2 DEF RefusalInv, Top
  <2>3. QED
    BY <2>1, <2>2, Poll2After
<1>3. (Refused => failing \in floor /\ \A g \in target : failing \notin AncestorsOf[g])'
  <2> SUFFICES ASSUME Refused'
               PROVE  (failing \in floor /\ \A g \in target : failing \notin AncestorsOf[g])'
    OBVIOUS
  <2>1. failing' \in Real /\ ~faulted'
    BY DEF Refused
  <2>2. CASE failing' = failing
    <3>1. pc = "done"
      BY <2>1, <2>2, NoGateIsNotReal DEF RefusalInv
    <3>2. UNCHANGED <<target, floor, faulted>>
      BY <3>1, DoneRests DEF verdict
    <3>3. QED
      BY <2>1, <2>2, <3>2 DEF RefusalInv, Refused
  <2>3. CASE failing' # failing
    <3>1. ~TooDeep
      BY <1>0, NotTooDeep, PmgrAssumption DEF TooDeep, ControlInv
    <3>2. ~NotFound
      BY <2>1 DEF NotFound, ReturnFailed, Real
    <3>3. Poll2TimesOut
      BY <2>1, <2>3, <3>1, <3>2, NamedAt
    <3>4. /\ pc = "poll2" /\ ~actual[Top] /\ failing' = Top
          /\ UNCHANGED <<target, floor>>
      BY <3>3 DEF Poll2TimesOut, ReturnFailed, hw
    <3>5. ASSUME NEW g \in target PROVE Top \notin AncestorsOf[g]
      <4>1. g \in Real
        BY <1>0 DEF DataInv
      <4>2. \A a \in RealAbove(g) : actual[a]
        BY <1>0, <3>5, <4>1 DEF WalkInv, HwOrdered
      <4>3. QED
        BY <2>1, <3>4, <4>2 DEF RealAbove
    <3>6. QED
      BY <3>4, <3>5 DEF RefusalInv
  <2>4. QED
    BY <2>2, <2>3
<1>4. QED
  BY <1>1, <1>2, <1>3 DEF RefusalInv

BoundedInv == PremisedInv /\ FewAncestors /\ (WithinBound => RefusalInv)

LEMMA BoundedInvInit == Premise /\ FewAncestors /\ Init => BoundedInv
  BY PremisedInvInit, NoGateIsNotReal DEF BoundedInv, RefusalInv, Refused, Init

LEMMA BoundedInvStep == BoundedInv /\ [Next]_vars => BoundedInv'
  BY PremisedInvStep, RefusalInvStep DEF BoundedInv

\* "the child is never poked": when the walk ends on a gate that refused, no
\* gate below it was asked to come up, on any graph the recursion can walk to
\* its end.
THEOREM RefusalStopsPoking ==
    Premise /\ WithinBound /\ Spec => []NothingPokedBelowRefusal
<1> DEFINE Inv == BoundedInv /\ WithinBound
<1>1. Premise /\ WithinBound /\ Init => Inv
  BY BoundedInvInit DEF WithinBound
<1>2. Inv /\ [Next]_vars => Inv'
  BY BoundedInvStep
<1>3. Inv => NothingPokedBelowRefusal
  BY DEF BoundedInv, RefusalInv, NothingPokedBelowRefusal
<1> HIDE DEF Inv
<1>4. QED
  BY <1>1, <1>2, <1>3, PTL DEF Spec

\* A gate is only said to refuse after the PS_AUTO escalation, on any graph
\* with finitely many gates above the root.
THEOREM RefusalsAreEscalated ==
    Premise /\ FewAncestors /\ Spec => []RefusalWasEscalated
<1>1. BoundedInv => RefusalWasEscalated
  BY DEF BoundedInv, RefusalInv, RefusalWasEscalated, WithinBound
<1>2. QED
  BY <1>1, BoundedInvInit, BoundedInvStep, PTL DEF Spec

-----------------------------------------------------------------------------
(* The walk implements parents-first power-up.                             *)

LEMMA OrderInitially ==
    ASSUME Premise, Init PROVE Order!OrderInit
<1>1. OnGates \in SUBSET Real /\ Verdict = "none"
  BY DEF OnGates, Verdict, Init
<1>2. \A g \in OnGates : RealAbove(g) \subseteq OnGates
  BY DEF Premise, Init, Closed, OnGates, RealAbove
<1>3. QED
  BY <1>1, <1>2 DEF Order!OrderInit, Order!Ordered, OnGates

\* A hardware step turns one gate on below gates that are on.
LEMMA OrderHardware ==
    ASSUME Premise, TypeInv, WalkInv, Hardware
    PROVE  \E g \in Real : Order!TurnOn(g)
<1>1. PICK r \in Real : Ramp(r)
  BY DEF Hardware, AutoMove, Premise
<1>2. RealAbove(r) \subseteq OnGates
  BY <1>1 DEF WalkInv, HwOrdered, Ramp, OnGates, RealAbove
<1>3. OnGates' = OnGates \cup {r}
  BY <1>1, RealDevice DEF Ramp, OnGates, TypeInv, DataInv
<1>4. Verdict' = Verdict
  BY <1>1 DEF Ramp, Verdict, walk, verdict
<1>5. QED
  BY <1>2, <1>3, <1>4 DEF Order!TurnOn

\* A step of the script moves no gate, and tells at most the honest verdict.
LEMMA OrderWalk ==
    ASSUME PremisedInv, WalkStep
    PROVE  \/ UNCHANGED <<OnGates, Verdict>>
           \/ \E v \in {"active", "refused"} : Order!Tell(v)
<1>1. UNCHANGED actual /\ pc # "done"
  BY DEF WalkStep, Start, StartFails,
         EnterCall, TooDeep, AlreadyVisited, NotFound, FastPath, Descend,
         DescendUnread, ParentsUnreadable, Entered, SkipParent, CallParent,
         PokeGate, PokeVirtual, PokeActive, PokeOff, PokeUnread, Write1,
         Write1Raises, PollConverges, Poll1TimesOut, PollRaises, Write2,
         Write2Raises, Poll2TimesOut, RaiseTarget, RaiseFloor, ParentsDone, hw
<1>2. OnGates' = OnGates /\ Verdict = "none"
  BY <1>1 DEF OnGates, Verdict
<1>3. CASE pc' # "done"
  BY <1>2, <1>3 DEF Verdict
<1>4. CASE pc' = "done"
  <2>1. WalkInv'
    BY PremisedInvStep DEF PremisedInv, Next
  <2>2. active' => Chain \subseteq OnGates'
    BY <2>1 DEF WalkInv, FlagUp, SettledUp, Chain, RealAbove, OnGates
  <2>3. /\ Verdict' \in {"active", "refused"}
        /\ Verdict' = "active" => active'
    BY <1>4 DEF Verdict
  <2>4. QED
    BY <1>2, <2>2, <2>3 DEF Order!Tell
<1>5. QED
  BY <1>3, <1>4

\* Every behaviour of the walk, on a closed handoff and an acyclic graph, is a
\* parents-first power-up whose "active" is told only when it is true.
THEOREM WalkImplementsOrder == Premise /\ Spec => ParentsFirstPowerUp
<1>1. Premise /\ Init => Order!OrderInit
  BY OrderInitially
<1>2. PremisedInv /\ [Next]_vars => [Order!OrderNext]_(Order!orderVars)
  <2> SUFFICES ASSUME PremisedInv, [Next]_vars
               PROVE  [Order!OrderNext]_(Order!orderVars)
    OBVIOUS
  <2>1. CASE WalkStep
    BY <2>1, OrderWalk DEF Order!OrderNext, Order!orderVars
  <2>2. CASE Hardware
    BY <2>2, OrderHardware DEF Order!OrderNext, PremisedInv
  <2>3. CASE UNCHANGED vars
    BY <2>3 DEF vars, hw, walk, verdict, Order!orderVars, OnGates, Verdict
  <2>4. QED
    BY <2>1, <2>2, <2>3 DEF Next
<1>3. QED
  BY <1>1, <1>2, PremisedInvInit, PremisedInvStep, PTL
  DEF Spec, ParentsFirstPowerUp, Order!OrderSpec
=============================================================================
