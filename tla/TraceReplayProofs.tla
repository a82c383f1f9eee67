--------------------------- MODULE TraceReplayProofs ---------------------------
(***************************************************************************)
(* Theorems about the replay of traces: for every order, every trace and   *)
(* every register width, and whatever the registers answer.                *)
(***************************************************************************)
EXTENDS TraceReplay, TracePlanProofs

\* A read-modify-write of a plan, next to what its trace read and wrote.
Exact(t, x) ==
    /\ Fuses(t, x.at - 1) /\ x.a \cap x.b = {}
    /\ (t[x.at - 1].value \cup x.a) \ x.b = t[x.at].value

\* There is a segment where there is work, and no work where it is probed.
Ordered ==
    /\ job \in Jobs /\ segs \in Seq(DOMAIN job.trace)
    /\ pc \in {"step", "modify", "probe"} => segs # <<>>
    /\ pc = "probe" => plan = <<>>

\* What is left of the plan is of the plan of the current segment.
Planned ==
    plan # <<>> =>
        /\ segs # <<>> /\ plan \in Seq(Steps(trace))
        /\ \A p \in DOMAIN plan : plan[p].kind = "rmw" => Exact(trace, plan[p])

\* Between the halves of a read-modify-write, a 4-byte pre-read is what the
\* register held: the sentinel was refused.
Ready ==
    pc = "modify" =>
        /\ plan # <<>> /\ step.kind = "rmw"
        /\ op.width = 4 => pre = held

ReplayInv == TypeOK /\ Ordered /\ Planned /\ Ready

-----------------------------------------------------------------------------
(* Traces and steps.                                                       *)

LEMMA AccessIs ==
  ASSUME ReplayAssumption, NEW x \in Recorded
  PROVE  x.kind \in {"R", "W"} /\ x.width \in DOMAIN Bits /\ x.value \subseteq Bits[x.width]
         /\ x.value \subseteq Bits[4]
<1>1. PICK w \in DOMAIN Bits :
          x \in [kind : {"R", "W"}, addr : Registers, width : {w}, value : SUBSET Bits[w]]
  BY DEF Recorded
<1>2. Bits[w] \subseteq Bits[4]
  BY DEF ReplayAssumption
<1> QED
  BY <1>1, <1>2

LEMMA TraceIs ==
  ASSUME ReplayAssumption, NEW j \in Jobs, NEW s \in DOMAIN j.trace
  PROVE  /\ j.trace[s] \in Seq(Recorded) /\ IsTrace(j.trace[s])
         /\ Bitset(j.trace[s]) \subseteq Bits[4]
         /\ \A i \in DOMAIN j.trace[s] : j.trace[s][i].width \in DOMAIN Bits
<1> DEFINE t == j.trace[s]
<1>1. t \in Seq(Recorded)
  BY DEF ReplayAssumption, IsJob
<1> HIDE DEF t
<1>2. \A i \in DOMAIN t : t[i] \in Recorded
  BY <1>1
<1>3. \A i \in DOMAIN t : t[i].kind \in {"R", "W"} /\ t[i].value \subseteq Bits[4]
                          /\ t[i].width \in DOMAIN Bits
  BY <1>2, AccessIs
<1>4. IsTrace(t)
  BY <1>3 DEF IsTrace
<1>5. Bitset(t) \subseteq Bits[4]
  BY <1>3 DEF Bitset
<1> QED
  BY <1>1, <1>3, <1>4, <1>5 DEF t

\* The plan a segment begins with.
LEMMA PlanIsExact ==
  ASSUME NEW Rec, NEW t \in Seq(Rec), IsTrace(t)
  PROVE  /\ PlanOf(t) \in Seq(Steps(t))
         /\ \A p \in DOMAIN PlanOf(t) : PlanOf(t)[p].kind = "rmw" => Exact(t, PlanOf(t)[p])
<1>1. PlanOf(t) \in Seq(Steps(t))
  BY PlanCovers
<1>2. ASSUME NEW p \in DOMAIN PlanOf(t), PlanOf(t)[p].kind = "rmw"
      PROVE  Exact(t, PlanOf(t)[p])
  <2>1. /\ Fuses(t, PlanOf(t)[p].at - 1)
        /\ PlanOf(t)[p].a \cap PlanOf(t)[p].b = {}
        /\ (t[PlanOf(t)[p].at - 1].value \cup PlanOf(t)[p].a) \ PlanOf(t)[p].b
              = t[PlanOf(t)[p].at].value
    BY <1>2, DeltasAreExact
  <2> QED
    BY <2>1 DEF Exact
<1> QED
  BY <1>1, <1>2

\* The segment at hand.
LEMMA TraceAtHand ==
  ASSUME ReplayAssumption, Ordered, segs # <<>>
  PROVE  /\ Head(segs) \in DOMAIN job.trace /\ Tail(segs) \in Seq(DOMAIN job.trace)
         /\ trace \in Seq(Recorded) /\ IsTrace(trace) /\ Bitset(trace) \subseteq Bits[4]
         /\ \A i \in DOMAIN trace : trace[i].width \in DOMAIN Bits
<1>1. job \in Jobs /\ segs \in Seq(DOMAIN job.trace)
  BY DEF Ordered
<1>2. Head(segs) \in DOMAIN job.trace /\ Tail(segs) \in Seq(DOMAIN job.trace)
  <2> DEFINE D == DOMAIN job.trace
  <2>1. segs \in Seq(D)
    BY <1>1
  <2> HIDE DEF D
  <2>2. Head(segs) \in D /\ Tail(segs) \in Seq(D)
    BY <2>1
  <2> QED
    BY <2>2 DEF D
<1> QED
  BY <1>1, <1>2, TraceIs DEF trace

\* The step at hand, and the plan without it.
LEMMA StepAtHand ==
  ASSUME ReplayAssumption, Ordered, Planned, plan # <<>>
  PROVE  /\ step \in Steps(trace) /\ step.at \in DOMAIN trace
         /\ step.a \subseteq Bits[4] /\ step.b \subseteq Bits[4]
         /\ step.kind \in {"write", "rmw", "read", "pollmask", "pollval"}
         /\ step.kind = "rmw" => Exact(trace, step)
         /\ op.width \in DOMAIN Bits /\ Bits[op.width] \subseteq Bits[4]
         /\ Tail(plan) \in Seq(Steps(trace))
         /\ \A p \in DOMAIN Tail(plan) : Tail(plan)[p].kind = "rmw" => Exact(trace, Tail(plan)[p])
<1>1. /\ segs # <<>> /\ plan \in Seq(Steps(trace))
      /\ \A p \in DOMAIN plan : plan[p].kind = "rmw" => Exact(trace, plan[p])
  BY DEF Planned
<1>2. /\ Bitset(trace) \subseteq Bits[4]
      /\ \A i \in DOMAIN trace : trace[i].width \in DOMAIN Bits
  BY <1>1, TraceAtHand
<1> DEFINE S == Steps(trace)
<1>3. plan \in Seq(S)
  BY <1>1
<1>4. \A x \in S : /\ x.at \in DOMAIN trace /\ x.a \subseteq Bitset(trace) /\ x.b \subseteq Bitset(trace)
                   /\ x.kind \in {"write", "rmw", "read", "pollmask", "pollval"}
  BY DEF Steps
<1> HIDE DEF S
<1>5. step \in S /\ step = plan[1] /\ 1 \in DOMAIN plan /\ Tail(plan) \in Seq(S)
  BY <1>3 DEF step
<1>6. \A p \in DOMAIN Tail(plan) : p + 1 \in DOMAIN plan /\ Tail(plan)[p] = plan[p + 1]
  BY <1>3
<1>7. \A p \in DOMAIN Tail(plan) : Tail(plan)[p].kind = "rmw" => Exact(trace, Tail(plan)[p])
  BY <1>1, <1>6
<1>8. step.kind = "rmw" => Exact(trace, step)
  BY <1>1, <1>5
<1>9. /\ step.at \in DOMAIN trace /\ step.a \subseteq Bits[4] /\ step.b \subseteq Bits[4]
      /\ step.kind \in {"write", "rmw", "read", "pollmask", "pollval"}
  BY <1>2, <1>4, <1>5
<1>10. op.width \in DOMAIN Bits
  BY <1>2, <1>9 DEF op
<1>11. Bits[op.width] \subseteq Bits[4]
  BY <1>10 DEF ReplayAssumption
<1> QED
  BY <1>5, <1>7, <1>8, <1>9, <1>10, <1>11 DEF S

-----------------------------------------------------------------------------
(* The invariant holds.                                                    *)

LEMMA ReplayInit == ReplayAssumption /\ Init => ReplayInv
<1> SUFFICES ASSUME ReplayAssumption, Init PROVE ReplayInv
  OBVIOUS
<1>1. job.segments \in Seq(DOMAIN job.trace) /\ job.early \in BOOLEAN
  BY DEF Init, ReplayAssumption, IsJob
<1>2. DOMAIN plan = {}
  BY DEF Init
<1>3. Ordered
  BY <1>1 DEF Init, Ordered
<1>4. TypeOK
  BY <1>1, <1>2 DEF Init, TypeOK, NoWrite
<1> QED
  BY <1>3, <1>4 DEF Init, ReplayInv, Planned, Ready

\* A step that has been made, and one that has not.
LEMMA PlannedAfter ==
  ASSUME ReplayAssumption, Ordered, Planned, plan # <<>>,
         plan' = Tail(plan), segs' = segs, job' = job
  PROVE  Planned' /\ \A p \in DOMAIN plan' : plan'[p].kind \in {"write", "rmw", "read", "pollmask", "pollval"}
<1>1. /\ Tail(plan) \in Seq(Steps(trace))
      /\ \A p \in DOMAIN Tail(plan) : Tail(plan)[p].kind = "rmw" => Exact(trace, Tail(plan)[p])
  BY StepAtHand
<1>2. trace' = trace
  BY DEF trace
<1>3. segs # <<>>
  BY DEF Planned
<1>4. Planned'
  BY <1>1, <1>2, <1>3 DEF Planned
<1>5. \A x \in Steps(trace) : x.kind \in {"write", "rmw", "read", "pollmask", "pollval"}
  BY DEF Steps
<1> QED
  BY <1>1, <1>4, <1>5

LEMMA PlannedStill ==
  ASSUME Planned, plan' = plan, segs' = segs, job' = job
  PROVE  Planned'
<1>1. trace' = trace
  BY DEF trace
<1> QED
  BY <1>1 DEF Planned

\* What follows an access: the next step, or the end of the replay.
LEMMA AfterAccess ==
  ASSUME ReplayAssumption, ReplayInv, plan # <<>>, NextStep \/ Wedges,
         pc \in {"step", "modify"},
         UNCHANGED <<job, probed, outcome, perst>>,
         held' \subseteq Bits[4], wrote'.value \subseteq Bits[4]
  PROVE  ReplayInv'
<1>1. TypeOK /\ Ordered /\ Planned
  BY DEF ReplayInv
<1>2. CASE NextStep
  <2>1. plan' = Tail(plan) /\ segs' = segs /\ job' = job /\ pc' = "step" /\ UNCHANGED <<alive, wedged>>
    BY <1>2 DEF NextStep
  <2>2. Planned' /\ \A p \in DOMAIN plan' : plan'[p].kind \in {"write", "rmw", "read", "pollmask", "pollval"}
    BY <1>1, <2>1, PlannedAfter
  <2>3. Ordered'
    BY <1>1, <2>1 DEF Ordered
  <2>4. TypeOK'
    BY <1>1, <2>1, <2>2 DEF TypeOK
  <2> QED
    BY <2>1, <2>2, <2>3, <2>4 DEF ReplayInv, Ready
<1>3. CASE Wedges
  <2>1. plan' = plan /\ segs' = segs /\ job' = job /\ pc' = "post" /\ alive' = FALSE /\ wedged' = TRUE
    BY <1>3 DEF Wedges
  <2>2. Planned'
    BY <1>1, <2>1, PlannedStill
  <2>3. Ordered'
    BY <1>1, <2>1 DEF Ordered
  <2>4. TypeOK'
    BY <1>1, <2>1 DEF TypeOK
  <2> QED
    BY <2>1, <2>2, <2>3, <2>4 DEF ReplayInv, Ready
<1> QED
  BY <1>2, <1>3

LEMMA WritesKeeps ==
  ASSUME ReplayAssumption, ReplayInv, plan # <<>>, pc \in {"step", "modify"},
         NEW value \in SUBSET Bits[4], Writes(value)
  PROVE  ReplayInv'
<1>1. held \subseteq Bits[4] /\ wrote.value \subseteq Bits[4]
  BY DEF ReplayInv, TypeOK
<1>2. NextStep \/ Wedges
  BY DEF Writes
<1>3. wrote' = wrote \/ wrote' = [at |-> step.at, value |-> value]
  BY DEF Writes
<1>4. wrote'.value \subseteq Bits[4] /\ held' \subseteq Bits[4]
  BY <1>1, <1>3 DEF Writes
<1>5. UNCHANGED <<job, probed, outcome, perst>>
  BY DEF Writes, Frame
<1> QED
  BY <1>2, <1>4, <1>5, AfterAccess

\* What Modify is about to write.
LEMMA ModifiedIs ==
  ASSUME ReplayAssumption, ReplayInv, pc = "modify"
  PROVE  /\ plan # <<>> /\ Exact(trace, step) /\ Modified \subseteq Bits[4]
         /\ op.width = 4 => pre = held
<1>1. TypeOK /\ Ordered /\ Planned /\ Ready
  BY DEF ReplayInv
<1>2. plan # <<>> /\ step.kind = "rmw" /\ (op.width = 4 => pre = held)
  BY <1>1 DEF Ready
<1>3. Exact(trace, step) /\ step.a \subseteq Bits[4] /\ Bits[op.width] \subseteq Bits[4]
  BY <1>1, <1>2, StepAtHand
<1>4. pre \subseteq Bits[op.width]
  BY <1>1 DEF TypeOK, op, step, trace
<1> QED
  BY <1>2, <1>3, <1>4 DEF Modified

LEMMA PreReadKeeps ==
  ASSUME ReplayAssumption, ReplayInv, PreRead
  PROVE  ReplayInv'
<1>1. TypeOK /\ Ordered /\ Planned /\ Ready
  BY DEF ReplayInv
<1>2. plan # <<>> /\ pc = "step" /\ step.kind = "rmw"
  BY DEF PreRead, At
<1>3. Bits[op.width] \subseteq Bits[4] /\ segs # <<>>
  BY <1>1, <1>2, StepAtHand DEF Planned
<1>4. UNCHANGED <<job, probed, outcome, perst, wrote>>
  BY DEF PreRead, Frame
<1>5. CASE (NextStep \/ Wedges) /\ UNCHANGED <<pre, held>>
  <2>1. held' \subseteq Bits[4] /\ wrote'.value \subseteq Bits[4]
    BY <1>1, <1>4, <1>5 DEF TypeOK
  <2> QED
    BY <1>2, <1>4, <1>5, <2>1, AfterAccess
<1>6. ASSUME NEW h \in Values, NEW v \in {h, Faulted}, ~Unusable(v),
             pc' = "modify", pre' = v, held' = h, UNCHANGED <<segs, plan, alive, wedged>>
      PROVE  ReplayInv'
  <2>1. v \subseteq Bits[op.width] /\ h \subseteq Bits[op.width]
    BY <1>6 DEF Values, Faulted, Cut
  <2>2. op.width = 4 => v = h
    BY <1>6 DEF Unusable, Faulted, Cut, ReplayAssumption
  <2>3. job' = job /\ step' = step /\ trace' = trace /\ op' = op
    BY <1>4, <1>6 DEF step, trace, op
  <2>4. Planned'
    BY <1>1, <1>4, <1>6, PlannedStill
  <2>5. Ready'
    BY <1>2, <1>6, <2>2, <2>3 DEF Ready
  <2>6. Ordered'
    BY <1>1, <1>3, <1>6, <2>3 DEF Ordered
  <2>7. pre' \subseteq Bits[op.width] /\ held' \subseteq Bits[4]
    BY <1>3, <1>6, <2>1
  <2>8. (pre \subseteq Bits[job.trace[Head(segs)][Head(plan).at].width])'
    BY <1>6, <2>3, <2>7 DEF op, step, trace
  <2>9. TypeOK'
    BY <1>1, <1>4, <1>6, <2>7, <2>8 DEF TypeOK
  <2> QED
    BY <2>4, <2>5, <2>6, <2>9 DEF ReplayInv
<1>7. \/ \E h \in Values, v \in Values \cup {Faulted} :
             /\ v \in {h, Faulted}
             /\ IF Unusable(v)
                THEN NextStep /\ UNCHANGED <<pre, held>>
                ELSE /\ pc' = "modify" /\ pre' = v /\ held' = h
                     /\ UNCHANGED <<segs, plan, alive, wedged>>
      \/ (NextStep \/ Wedges) /\ UNCHANGED <<pre, held>>
  BY DEF PreRead
<1> QED
  BY <1>5, <1>6, <1>7

\* What main() does between the plans.
LEMMA MainKeeps ==
  ASSUME ReplayAssumption, ReplayInv,
         Setup \/ BeginSegment \/ EndSegment \/ Probe \/ Replayed \/ Post \/ Crashes
  PROVE  ReplayInv'
<1>1. TypeOK /\ Ordered /\ Planned
  BY DEF ReplayInv
<1>2. CASE BeginSegment
  <2>1. /\ segs # <<>> /\ pc' = "step" /\ plan' = PlanOf(trace)
        /\ UNCHANGED <<job, segs, pre, held, probed, wedged, outcome, wrote>>
    BY <1>2 DEF BeginSegment
  <2>2. trace \in Seq(Recorded) /\ IsTrace(trace)
    BY <1>1, <2>1, TraceAtHand
  <2>3. trace' = trace
    BY <2>1 DEF trace
  <2>4. /\ plan' \in Seq(Steps(trace))
        /\ \A p \in DOMAIN plan' : plan'[p].kind = "rmw" => Exact(trace, plan'[p])
    BY <2>1, <2>2, PlanIsExact
  <2>5. Planned'
    BY <2>1, <2>3, <2>4 DEF Planned
  <2>6. \A p \in DOMAIN plan' : plan'[p].kind \in {"write", "rmw", "read", "pollmask", "pollval"}
    <3>1. \A x \in Steps(trace) : x.kind \in {"write", "rmw", "read", "pollmask", "pollval"}
      BY DEF Steps
    <3> QED
      BY <2>4, <3>1
  <2>7. Ordered' /\ Ready'
    BY <1>1, <2>1 DEF Ordered, Ready
  <2>8. perst' \in BOOLEAN /\ alive' \in BOOLEAN
    BY <1>1, <1>2 DEF BeginSegment, TypeOK
  <2>9. TypeOK'
    BY <1>1, <2>1, <2>6, <2>8 DEF TypeOK
  <2> QED
    BY <2>5, <2>7, <2>9 DEF ReplayInv
<1>3. CASE segs' = Tail(segs) /\ segs # <<>> /\ pc' = "between" /\ plan = <<>> /\ plan' = plan
           /\ UNCHANGED <<job, pre, held, alive, wedged, outcome, perst, wrote>>
           /\ probed' \in {probed, "pass"}
  <2>1. Tail(segs) \in Seq(DOMAIN job.trace)
    BY <1>1, <1>3, TraceAtHand
  <2>2. Ordered'
    BY <1>1, <1>3, <2>1 DEF Ordered
  <2>3. TypeOK'
    BY <1>1, <1>3 DEF TypeOK
  <2> QED
    BY <1>3, <2>2, <2>3 DEF ReplayInv, Planned, Ready
<1>4. CASE /\ UNCHANGED <<job, segs, plan, held, wrote>>
           /\ pc' \in {"between", "post", "done"} \/ (pc' = "probe" /\ segs # <<>> /\ plan = <<>>)
           /\ alive' \in BOOLEAN /\ wedged' \in BOOLEAN /\ perst' \in BOOLEAN
           /\ probed' \in {"unset", "pass", "fail"} /\ outcome' \in {"none", "final", "crash"}
  <2>1. Planned'
    BY <1>1, <1>4, PlannedStill
  <2>2. Ordered' /\ Ready'
    BY <1>1, <1>4 DEF Ordered, Ready
  <2>3. TypeOK'
    BY <1>1, <1>4 DEF TypeOK
  <2> QED
    BY <2>1, <2>2, <2>3 DEF ReplayInv
<1>5. CASE Setup
  <2>1. job.early \in BOOLEAN
    BY <1>1 DEF Ordered, ReplayAssumption, IsJob
  <2> QED
    BY <1>1, <1>4, <1>5, <2>1 DEF Setup, TypeOK
<1>6. CASE EndSegment
  <2>1. segs # <<>>
    BY <1>1, <1>6 DEF EndSegment, Ordered
  <2> QED
    BY <1>1, <1>3, <1>4, <1>6, <2>1 DEF EndSegment, TypeOK
<1>7. CASE Probe
  <2>1. segs # <<>> /\ plan = <<>>
    BY <1>1, <1>7 DEF Probe, Ordered
  <2>2. CASE probed' = "pass" /\ pc' = "between" /\ segs' = Tail(segs) /\ UNCHANGED <<plan, alive, wedged>>
    BY <1>1, <1>3, <1>7, <2>1, <2>2 DEF Probe, TypeOK
  <2>3. CASE probed' = "fail" /\ pc' = "post" /\ UNCHANGED <<segs, plan, alive, wedged>>
    BY <1>1, <1>4, <1>7, <2>3 DEF Probe, TypeOK
  <2>4. CASE Wedges /\ UNCHANGED probed
    BY <1>1, <1>4, <1>7, <2>4 DEF Probe, Wedges, TypeOK
  <2> QED
    BY <1>7, <2>2, <2>3, <2>4 DEF Probe
<1>8. CASE Replayed \/ Crashes
  BY <1>1, <1>4, <1>8 DEF Replayed, Crashes, TypeOK
<1>9. CASE Post
  <2>1. outcome' \in {"final", "crash"}
    BY <1>9 DEF Post
  <2> QED
    BY <1>1, <1>4, <1>9, <2>1 DEF Post, TypeOK
<1> QED
  BY <1>2, <1>5, <1>6, <1>7, <1>8, <1>9

\* A replay never makes a step of another segment's plan, and a pre-read it
\* goes on from is what the register held: on this rest the type invariant and
\* the promise about the bits outside a delta.
THEOREM ReplayInOrder == Spec => []ReplayInv
<1> USE ReplayAssumption
<1>1. ReplayInv /\ [Next]_vars => ReplayInv'
  <2> SUFFICES ASSUME ReplayInv, [Next]_vars PROVE ReplayInv'
    OBVIOUS
  <2>1. CASE Setup \/ BeginSegment \/ EndSegment \/ Probe \/ Replayed \/ Post \/ Crashes
    BY <2>1, MainKeeps
  <2>2. CASE PlainWrite
    <3>1. plan # <<>> /\ pc = "step" /\ Writes(step.a)
      BY <2>2 DEF PlainWrite, At
    <3>2. step.a \in SUBSET Bits[4]
      BY <3>1, StepAtHand DEF ReplayInv
    <3> QED
      BY <3>1, <3>2, WritesKeeps
  <2>3. CASE PreRead
    BY <2>3, PreReadKeeps
  <2>4. CASE Modify
    <3>1. pc = "modify" /\ Writes(Modified)
      BY <2>4 DEF Modify
    <3>2. plan # <<>> /\ Modified \in SUBSET Bits[4]
      BY <3>1, ModifiedIs
    <3> QED
      BY <3>1, <3>2, WritesKeeps
  <2>5. CASE Read \/ Poll
    <3>1. plan # <<>> /\ pc = "step" /\ (NextStep \/ Wedges)
      BY <2>5 DEF Read, Poll, At
    <3>2. UNCHANGED <<job, probed, outcome, perst, held, wrote>>
      BY <2>5 DEF Read, Poll, Frame
    <3>3. held' \subseteq Bits[4] /\ wrote'.value \subseteq Bits[4]
      BY <3>2 DEF ReplayInv, TypeOK
    <3> QED
      BY <3>1, <3>2, <3>3, AfterAccess
  <2>6. CASE UNCHANGED vars
    <3>1. UNCHANGED <<job, segs, plan, pc, alive, pre, held, probed, wedged, outcome, perst, wrote>>
      BY <2>6 DEF vars
    <3>2. trace' = trace /\ step' = step /\ op' = op
      BY <3>1 DEF trace, step, op
    <3>3. Planned'
      BY <3>1, PlannedStill DEF ReplayInv
    <3>4. TypeOK'
      BY <3>1 DEF ReplayInv, TypeOK
    <3> QED
      BY <3>1, <3>2, <3>3, <3>4 DEF ReplayInv, Ordered, Ready
  <2> QED
    BY <2>1, <2>2, <2>3, <2>4, <2>5, <2>6 DEF Next
<1> QED
  BY <1>1, ReplayInit, PTL DEF Spec

\* A replay keeps its types, and a value read or written its register's width.
THEOREM ReplayTypeCorrect == Spec => []TypeOK
<1>1. ReplayInv => TypeOK
  BY DEF ReplayInv
<1> QED
  BY <1>1, ReplayInOrder, PTL

LEMMA TracesAre ==
  ASSUME ReplayAssumption, ReplayInv, NEW t \in Traces
  PROVE  t \in Seq(Recorded) /\ IsTrace(t)
<1>1. job \in Jobs
  BY DEF ReplayInv, Ordered
<1>2. job.segments \in Seq(DOMAIN job.trace)
  BY <1>1 DEF ReplayAssumption, IsJob
<1>3. \E s \in DOMAIN job.trace : t = job.trace[s]
  BY <1>2 DEF Traces
<1> QED
  BY <1>1, <1>3, TraceIs

\* Of whatever traces an order names, the plans make every write once and in
\* its order, and move no read across one.
THEOREM OrderIsKept == Spec => []PlanKeepsOrder
<1>1. ReplayInv => PlanKeepsOrder
  BY ReplayAssumption, TracesAre, PlansKeepOrder DEF PlanKeepsOrder
<1> QED
  BY <1>1, ReplayInOrder, PTL

\* Of whatever traces an order names, the plans answer every read.
THEOREM NoReadIsLost == Spec => []ReadsAnswered
<1>1. ReplayInv => ReadsAnswered
  <2> SUFFICES ASSUME ReplayInv, NEW t \in Traces
               PROVE  /\ \A i \in DOMAIN t : t[i].kind = "R" => Answers(t, PlanOf(t), i)
                      /\ PollsToTheEnd(t, PlanOf(t))
    BY DEF ReadsAnswered
  <2>1. t \in Seq(Recorded) /\ IsTrace(t)
    BY ReplayAssumption, TracesAre
  <2> QED
    BY <2>1, PlansAnswerReads
<1> QED
  BY <1>1, ReplayInOrder, PTL

\* "bits outside the delta are preserved, never forced": whatever the register
\* held, and also where the pre-read faulted.
THEOREM OutsideTheDeltaKept == Spec => DeltaOnly
<1>1. ASSUME ReplayInv, [Next]_vars, pc = "modify", wrote' # wrote
      PROVE  /\ op.width = 4 =>
                   /\ wrote'.value \ (step.a \cup step.b) = held \ (step.a \cup step.b)
                   /\ wrote'.value \cap (step.a \cup step.b) = step.a
             /\ pre = trace[step.at - 1].value => wrote'.value = op.value
  <2>1. Modify
    BY <1>1 DEF Next, vars, Setup, BeginSegment, EndSegment, Probe, Replayed, Post, Crashes,
                PlainWrite, PreRead, Read, Poll, At
  <2>2. wrote'.value = Modified
    BY <1>1, <2>1 DEF Modify, Writes
  <2>3. Exact(trace, step) /\ (op.width = 4 => pre = held)
    BY <1>1, ReplayAssumption, ModifiedIs
  <2> QED
    BY <2>2, <2>3 DEF Exact, Modified, op
<1>2. ReplayInv /\ [Next]_vars =>
        [pc = "modify" /\ wrote' # wrote =>
          /\ op.width = 4 =>
                /\ wrote'.value \ (step.a \cup step.b) = held \ (step.a \cup step.b)
                /\ wrote'.value \cap (step.a \cup step.b) = step.a
          /\ pre = trace[step.at - 1].value => wrote'.value = op.value]_vars
  BY <1>1
<1> QED
  BY <1>2, ReplayInOrder, PTL DEF Spec, DeltaOnly

-----------------------------------------------------------------------------
(* The probe.                                                              *)

\* RUN T and RUN U, and the default of --segments, begin with the preamble.
PreambleFirst == \A j \in Jobs : j.segments # <<>> => Head(j.segments) = "preamble"

\* Past the first segment the probe has passed, or was declined.
ProbePending ==
    /\ pc = "setup" => segs = job.segments
    /\ pc \in {"between", "step", "modify", "probe"} =>
          segs = job.segments \/ probed = "pass" \/ job.noProbe

LEMMA ProbedByThen ==
  ASSUME PreambleFirst, Ordered, ProbePending, segs # <<>>,
         pc \in {"between", "step", "modify", "probe"}
  PROVE  Head(segs) = "preamble" \/ probed = "pass" \/ job.noProbe
  BY DEF PreambleFirst, Ordered, ProbePending

LEMMA ProbePendingKept ==
  ASSUME PreambleFirst, Ordered, ProbePending, [Next]_vars
  PROVE  ProbePending'
<1>1. CASE Setup
  BY <1>1 DEF Setup, ProbePending
<1>2. CASE BeginSegment
  BY <1>2 DEF BeginSegment, ProbePending
<1>3. CASE EndSegment
  <2>1. pc = "step" /\ segs # <<>>
    BY <1>3 DEF EndSegment, Ordered
  <2>2. Head(segs) = "preamble" \/ probed = "pass" \/ job.noProbe
    BY <2>1, ProbedByThen
  <2> QED
    BY <1>3, <2>1, <2>2 DEF EndSegment, ProbePending
<1>4. CASE Probe
  BY <1>4 DEF Probe, Wedges, ProbePending
<1>5. CASE Replayed \/ Post \/ Crashes
  BY <1>5 DEF Replayed, Post, Crashes, ProbePending
<1>6. CASE PlainWrite \/ PreRead \/ Modify \/ Read \/ Poll
  <2>1. UNCHANGED <<job, probed>> /\ pc \in {"step", "modify"}
    BY <1>6 DEF PlainWrite, PreRead, Modify, Read, Poll, Writes, Frame, At
  <2>2. segs' = segs /\ pc' \in {"step", "modify", "post"}
    BY <1>6 DEF PlainWrite, PreRead, Modify, Read, Poll, Writes, NextStep, Wedges
  <2> QED
    BY <2>1, <2>2 DEF ProbePending
<1>7. CASE UNCHANGED vars
  BY <1>7 DEF vars, ProbePending
<1> QED
  BY <1>1, <1>2, <1>3, <1>4, <1>5, <1>6, <1>7 DEF Next

\* Where an order begins with the preamble and does not decline the probe,
\* nothing past the preamble is written, and PERST# is not released with
\* port2, before phy_ip has answered.
THEOREM NothingPastUnprovenPhy ==
  ASSUME PreambleFirst
  PROVE  Spec => AfterProbe
<1>1. ReplayInv => Ordered
  BY DEF ReplayInv
<1>2. Init => ProbePending
  BY DEF Init, ProbePending
<1>3. ReplayInv /\ ProbePending /\ [Next]_vars => ProbePending'
  BY <1>1, ProbePendingKept
<1>4. ASSUME ReplayInv, ProbePending, [Next]_vars,
             wrote' # wrote \/ (perst' # perst /\ pc # "setup")
      PROVE  Head(segs) = "preamble" \/ probed = "pass" \/ job.noProbe
  <2>1. Ordered
    BY <1>1, <1>4
  <2>2. PlainWrite \/ Modify \/ BeginSegment
    BY <1>4 DEF Next, vars, Setup, EndSegment, Probe, Replayed, Post, Crashes,
                PreRead, Read, Poll, Frame, PlainWrite, Modify, BeginSegment
  <2>3. pc \in {"between", "step", "modify"} /\ segs # <<>>
    BY <2>1, <2>2 DEF PlainWrite, Modify, BeginSegment, At, Ordered
  <2> QED
    BY <1>4, <2>1, <2>3, ProbedByThen
<1>5. ReplayInv /\ ProbePending /\ [Next]_vars =>
        [wrote' # wrote \/ (perst' # perst /\ pc # "setup") =>
            Head(segs) = "preamble" \/ probed = "pass" \/ job.noProbe]_vars
  BY <1>4
<1> QED
  BY <1>2, <1>3, <1>5, ReplayInOrder, PTL DEF Spec, AfterProbe
=============================================================================
