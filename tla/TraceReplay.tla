----------------------------- MODULE TraceReplay -----------------------------
(***************************************************************************)
(* Scripts/m1n1/trace_replay.py: the planned segments of the trace run     *)
(* against the controller, one action per proxy call, with the phy_ip      *)
(* probe between the preamble and the rest.                                *)
(*                                                                         *)
(* Nothing is assumed of the registers: a read returns any value its width *)
(* can hold.  An access may also fault, which the guard turns into the     *)
(* sentinel, raise with m1n1 alive, or stall the bus for good.             *)
(***************************************************************************)
EXTENDS TracePlan

CONSTANTS
    Jobs,          \* the orders that may be given
    Registers,     \* the addresses a trace may hold
    Bits,          \* Bits[w]: the bits of a register w bytes wide
    Sentinel       \* GUARD_SENTINEL, as a 4-byte value

\* An access of a recorded trace, and a job: its segments in order, the trace of
\* each, --early-perst and --no-probe.
Recorded == UNION {[kind : {"R", "W"}, addr : Registers, width : {w}, value : SUBSET Bits[w]] :
                       w \in DOMAIN Bits}
IsJob(j) ==
    /\ j.segments \in Seq(DOMAIN j.trace) /\ \A s \in DOMAIN j.trace : j.trace[s] \in Seq(Recorded)
    /\ j.early \in BOOLEAN /\ j.noProbe \in BOOLEAN

ASSUME ReplayAssumption ==
    /\ 4 \in DOMAIN Bits /\ \A w \in DOMAIN Bits : Bits[w] \subseteq Bits[4]
    /\ Sentinel \subseteq Bits[4]
    /\ \A j \in Jobs : IsJob(j)

VARIABLES
    job,       \* the order, with its switches early and noProbe
    segs,      \* the segments still to be replayed
    plan,      \* the steps of the current one, still to be made
    pc,        \* "setup", "between", "step", "modify", "probe", "post", "done"
    alive,     \* m1n1 answers
    pre,       \* what the pre-read of a read-modify-write returned
    held,      \* what its register held (history)
    probed,    \* "unset", "pass" or "fail"
    wedged,    \* ReplayWedged was raised
    outcome,   \* "none", "final", or "crash": an exception left main()
    perst,     \* PERST# was released (history)
    wrote      \* the last write: its access, and the value (history)

progress == <<segs, plan, pc>>
vars == <<job, segs, plan, pc, alive, pre, held, probed, wedged, outcome, perst, wrote>>

NoWrite == [at |-> 0, value |-> {}]

TypeOK ==
    /\ \A i \in DOMAIN plan : plan[i].kind \in {"write", "rmw", "read", "pollmask", "pollval"}
    /\ pc \in {"setup", "between", "step", "modify", "probe", "post", "done"}
    /\ alive \in BOOLEAN /\ wedged \in BOOLEAN /\ perst \in BOOLEAN
    /\ pc = "modify" => pre \subseteq Bits[job.trace[Head(segs)][Head(plan).at].width]
    /\ held \subseteq Bits[4]
    /\ probed \in {"unset", "pass", "fail"}
    /\ outcome \in {"none", "final", "crash"}
    /\ wrote.value \subseteq Bits[4]

Init ==
    /\ job \in Jobs
    /\ segs = job.segments /\ plan = <<>> /\ pc = "setup"
    /\ alive = TRUE /\ wedged = FALSE /\ perst = FALSE
    /\ pre = {} /\ held = {} /\ probed = "unset" /\ outcome = "none" /\ wrote = NoWrite

-----------------------------------------------------------------------------
(* The current step.                                                       *)

trace == job.trace[Head(segs)]
step == Head(plan)
op == trace[step.at]
At(kinds) == pc = "step" /\ plan # <<>> /\ step.kind \in kinds

\* The register, cut to its width; and a read of it.
Cut(value) == value \cap Bits[op.width]
Values == SUBSET Bits[op.width]
\* Mutant of Faulted: a faulted read is as wide as the sentinel.
FaultedWide == Sentinel
Faulted == Cut(Sentinel)

NextStep == pc' = "step" /\ plan' = Tail(plan) /\ UNCHANGED <<segs, alive, wedged>>

\* check_alive() fails after an access that raised: the replay is aborted.
Wedges == pc' = "post" /\ alive' = FALSE /\ wedged' = TRUE /\ UNCHANGED <<segs, plan>>

\* guarded() raises when it is entered on a dead m1n1, and nobody catches it.
Crashes ==
    /\ pc \in {"step", "probe"} /\ ~alive
    /\ pc = "step" => plan # <<>>
    /\ pc' = "done" /\ outcome' = "crash"
    /\ UNCHANGED <<job, segs, plan, alive, pre, held, probed, wedged, perst, wrote>>

Frame == UNCHANGED <<job, probed, outcome, perst>>

\* A write that faults is not noticed, nor is one that raised with m1n1 alive.
Writes(value) ==
    /\ \/ NextStep /\ wrote' \in {wrote, [at |-> step.at, value |-> value]}
       \/ Wedges /\ UNCHANGED wrote
    /\ UNCHANGED <<pre, held>> /\ Frame

PlainWrite == alive /\ At({"write"}) /\ Writes(step.a)

\* Mutant of Unusable: the sentinel is taken for a value.
UnusableNever(value) == FALSE

\* Only a 4-byte pre-read is compared with the sentinel.
Unusable(value) == op.width = 4 /\ value = Sentinel

PreRead ==
    /\ alive /\ At({"rmw"})
    /\ \/ \E h \in Values, v \in Values \cup {Faulted} :
             /\ v \in {h, Faulted}
             /\ IF Unusable(v)
                THEN NextStep /\ UNCHANGED <<pre, held>>
                ELSE /\ pc' = "modify" /\ pre' = v /\ held' = h
                     /\ UNCHANGED <<segs, plan, alive, wedged>>
       \/ NextStep /\ UNCHANGED <<pre, held>>
       \/ Wedges /\ UNCHANGED <<pre, held>>
    /\ UNCHANGED wrote /\ Frame

Modified == (pre \cup step.a) \ step.b

Modify == alive /\ pc = "modify" /\ Writes(Modified)

Read == alive /\ At({"read"}) /\ (NextStep \/ Wedges) /\ UNCHANGED <<pre, held, wrote>> /\ Frame

\* Mutant of Poll: there is no deadline.
PollForEver == At({"pollmask", "pollval"}) /\ UNCHANGED vars

\* A poll ends when it converges, when its time is up, and when a read raises;
\* a value that does not converge is read again.
Poll ==
    /\ alive /\ At({"pollmask", "pollval"})
    /\ NextStep \/ Wedges
    /\ UNCHANGED <<pre, held, wrote>> /\ Frame

-----------------------------------------------------------------------------
(* main().                                                                 *)

\* SMC power, CLKREQ and an early PERST# are under try_: they may fail, and
\* they may leave m1n1 dead.
Setup ==
    /\ pc = "setup" /\ pc' = "between"
    /\ alive' \in BOOLEAN /\ perst' \in {FALSE, job.early}
    /\ UNCHANGED <<job, segs, plan, pre, held, probed, wedged, outcome, wrote>>

BeginSegment ==
    /\ pc = "between" /\ segs # <<>>
    /\ pc' = "step" /\ plan' = PlanOf(trace)
    /\ IF Head(segs) = "port2" /\ ~job.early
       THEN /\ perst' \in {perst, perst \/ alive}
            /\ alive' \in {FALSE, alive}
       ELSE UNCHANGED <<perst, alive>>
    /\ UNCHANGED <<job, segs, pre, held, probed, wedged, outcome, wrote>>

\* Mutant of EndSegment: the probe is made and its verdict ignored.
EndSegmentUnprobed ==
    /\ pc = "step" /\ plan = <<>>
    /\ pc' = "between" /\ segs' = Tail(segs)
    /\ UNCHANGED <<job, plan, alive, pre, held, probed, wedged, outcome, perst, wrote>>

EndSegment ==
    /\ pc = "step" /\ plan = <<>>
    /\ IF Head(segs) = "preamble" /\ ~job.noProbe
       THEN pc' = "probe" /\ UNCHANGED segs
       ELSE pc' = "between" /\ segs' = Tail(segs)
    /\ UNCHANGED <<job, plan, alive, pre, held, probed, wedged, outcome, perst, wrote>>

\* probe_phy_ip: a fault and an exception with m1n1 alive stop the replay.
Probe ==
    /\ pc = "probe" /\ alive
    /\ \/ /\ probed' = "pass" /\ pc' = "between" /\ segs' = Tail(segs)
          /\ UNCHANGED <<plan, alive, wedged>>
       \/ probed' = "fail" /\ pc' = "post" /\ UNCHANGED <<segs, plan, alive, wedged>>
       \/ Wedges /\ UNCHANGED probed
    /\ UNCHANGED <<job, pre, held, outcome, perst, wrote>>

Replayed ==
    /\ pc = "between" /\ segs = <<>> /\ pc' = "post"
    /\ UNCHANGED <<job, segs, plan, alive, pre, held, probed, wedged, outcome, perst, wrote>>

\* The link watch and the ECAM walks are under try_; the bus numbers written
\* between the walks, on a replay that went well, are not.
Post ==
    /\ pc = "post" /\ pc' = "done"
    /\ outcome' \in {"final"} \cup (IF wedged \/ probed = "fail" THEN {} ELSE {"crash"})
    /\ UNCHANGED <<job, segs, plan, alive, pre, held, probed, wedged, perst, wrote>>

Next ==
    \/ Setup \/ BeginSegment \/ EndSegment \/ Probe \/ Replayed \/ Post
    \/ Crashes \/ PlainWrite \/ PreRead \/ Modify \/ Read \/ Poll

Spec == Init /\ [][Next]_vars /\ WF_vars(Next)

-----------------------------------------------------------------------------
(* Properties.                                                             *)

Traces == {job.trace[job.segments[i]] : i \in DOMAIN job.segments}

\* The plan makes every write of the trace once and in order, and moves no read
\* across a write, however reads are fused, grouped and collapsed.
PlanKeepsOrder ==
    pc = "setup" => \A t \in Traces : WritesOf(t, PlanOf(t)) /\ KeepsOrder(PlanOf(t))

\* Every read of the trace has its place in the plan, and the read of a
\* read-modify-write only that one; a series of reads is polled to its end.
ReadsAnswered ==
    pc = "setup" => \A t \in Traces :
        /\ \A i \in DOMAIN t : t[i].kind = "R" => Answers(t, PlanOf(t), i)
        /\ PollsToTheEnd(t, PlanOf(t))

\* "bits outside the delta are preserved, never forced": a 4-byte
\* read-modify-write leaves every bit of the register the trace left alone,
\* also when the pre-read faulted; and where the register holds what the trace
\* read, it writes what the trace wrote.
DeltaOnly ==
    [][pc = "modify" /\ wrote' # wrote =>
          /\ op.width = 4 =>
                /\ wrote'.value \ (step.a \cup step.b) = held \ (step.a \cup step.b)
                /\ wrote'.value \cap (step.a \cup step.b) = step.a
          /\ pre = trace[step.at - 1].value => wrote'.value = op.value]_vars

\* After the preamble nothing is written, and PERST# is not released, before
\* the phy_ip probe has passed ("continuing ... would wedge").
AfterProbe ==
    [][wrote' # wrote \/ (perst' # perst /\ pc # "setup") =>
          Head(segs) = "preamble" \/ probed = "pass" \/ job.noProbe]_vars

\* The replay ends, whatever stalls, and whatever never converges.
Terminates == <>(pc = "done")
=============================================================================
