------------------------------ MODULE TracePlan ------------------------------
(***************************************************************************)
(* plan_segment of Scripts/m1n1/trace_ops.py: a recorded MMIO trace turned *)
(* into the steps that replay it.  A register value is the set of its bits,*)
(* so the masks of a read-modify-write are set differences.                *)
(***************************************************************************)
EXTENDS Naturals, Sequences, FiniteSetsExt

\* A recorded access: kind "R" or "W", register, width, value read or written.
Access(kind, addr, width, value) ==
    [kind |-> kind, addr |-> addr, width |-> width, value |-> value]

\* A step of the plan; at is the index of the access it stands for, a and b are
\* the masks or values of its kind.
Step(kind, at, a, b) == [kind |-> kind, at |-> at, a |-> a, b |-> b]

SameRegister(x, y) == x.addr = y.addr /\ x.width = y.width

\* t[i] is a read that the write after it is fused with.
Fuses(t, i) ==
    /\ i \in 1 .. Len(t) - 1
    /\ t[i].kind = "R" /\ t[i + 1].kind = "W" /\ SameRegister(t[i], t[i + 1])

\* Mutant of Write: the step of a fused pair stands for its read.
WriteAtRead(t, i) ==
    IF Fuses(t, i - 1)
    THEN Step("rmw", i - 1, t[i].value \ t[i - 1].value, t[i - 1].value \ t[i].value)
    ELSE Step("write", i, t[i].value, {})

\* Rules 1 and 4: a write, fused with the read before it or by itself.
Write(t, i) ==
    IF Fuses(t, i - 1)
    THEN Step("rmw", i, t[i].value \ t[i - 1].value, t[i - 1].value \ t[i].value)
    ELSE Step("write", i, t[i].value, {})

\* Rule 2: a read that shows bits the write before it did not set.
Acknowledges(t, i) ==
    /\ i > 1
    /\ t[i].kind = "R" /\ t[i - 1].kind = "W" /\ SameRegister(t[i], t[i - 1])
    /\ t[i].value \ t[i - 1].value # {}

\* Mutant of RunEnd: the read of the next read-modify-write is swallowed.
RunEndGreedy(t, i) ==
    CHOOSE j \in i .. Len(t) :
        /\ \A k \in i .. j : t[k].kind = "R"
        /\ j < Len(t) => t[j + 1].kind = "W"

\* The last read of the run that starts at i, short of one that is fused.
RunEnd(t, i) ==
    LET last == CHOOSE j \in i .. Len(t) :
                    /\ \A k \in i .. j : t[k].kind = "R"
                    /\ j < Len(t) => t[j + 1].kind = "W"
    IN  IF last > i /\ Fuses(t, last) THEN last - 1 ELSE last

\* The reads of one address in the run from i to j.
Group(t, i, j, k) == {l \in i .. j : t[l].addr = t[k].addr}

\* Rule 3 polls a group: it is read three times or more, or to no one value.
Polled(t, group) ==
    \E l \in group : l \notin {Min(group), Max(group)} \/ t[l].value # t[Max(group)].value

AsRead(t, l) == Step("read", l, t[l].value, {})

\* One poll for the value a group ends in, or its one or two reads one by one.
Reads(t, group) ==
    IF Polled(t, group) THEN <<Step("pollval", Max(group), t[Max(group)].value, {})>>
    ELSE IF Min(group) = Max(group) THEN <<AsRead(t, Max(group))>>
    ELSE <<AsRead(t, Min(group)), AsRead(t, Max(group))>>

\* The run from i to j, address by address in the order of first appearance.
Grouped(t, i, j) ==
    LET from[k \in i .. j + 1] ==
          IF k > j THEN <<>>
          ELSE IF \E l \in i .. k - 1 : t[l].addr = t[k].addr THEN from[k + 1]
          ELSE Reads(t, Group(t, i, j, k)) \o from[k + 1]
    IN  from[i]

\* The plan of the accesses from the i-th on.
PlanOf(t) ==
    LET from[i \in 1 .. Len(t) + 1] ==
          IF i > Len(t) THEN <<>>
          ELSE IF t[i].kind = "W" THEN <<Write(t, i)>> \o from[i + 1]
          ELSE IF Acknowledges(t, i)
               THEN <<Step("pollmask", i, t[i].value \ t[i - 1].value, {})>> \o from[i + 1]
          ELSE IF Fuses(t, i) THEN from[i + 1]
          ELSE Grouped(t, i, RunEnd(t, i)) \o from[RunEnd(t, i) + 1]
    IN  from[1]

-----------------------------------------------------------------------------
(* What a plan owes to its trace.                                          *)

Writing == {"write", "rmw"}

\* The writes of the plan are the writes of the trace; where their order is
\* kept, each is there once.
WritesOf(t, plan) ==
    /\ \A p \in DOMAIN plan : plan[p].kind \in Writing => t[plan[p].at].kind = "W"
    /\ \A i \in DOMAIN t : t[i].kind = "W" =>
           \E p \in DOMAIN plan : plan[p].kind \in Writing /\ plan[p].at = i

\* Reads may be regrouped, but none is moved across a write.
KeepsOrder(plan) ==
    \A p, q \in DOMAIN plan :
        p < q /\ {plan[p].kind, plan[q].kind} \cap Writing # {} => plan[p].at < plan[q].at

\* A read of the trace is the first half of a read-modify-write, or is made
\* again, or is one of a series that is polled to the value it ended in.
Answers(t, plan, i) ==
    \/ Fuses(t, i) /\ \A p \in DOMAIN plan :
                         plan[p].at = i => plan[p].kind = "pollmask"
    \/ ~Fuses(t, i) /\ \E p \in DOMAIN plan :
          /\ plan[p].kind \notin Writing
          /\ plan[p].at = i
    \/ \E p \in DOMAIN plan :
          LET j == plan[p].at IN
          /\ plan[p].kind = "pollval" /\ plan[p].a = t[j].value
          /\ j > i /\ t[j].addr = t[i].addr
          /\ \A k \in i .. j : t[k].kind = "R"

\* The poll of a series comes after all of it.
PollsToTheEnd(t, plan) ==
    \A p \in DOMAIN plan : plan[p].kind = "pollval" =>
        \A k \in plan[p].at + 1 .. Len(t) :
            \/ t[k].addr # t[plan[p].at].addr \/ Fuses(t, k)
            \/ \E l \in plan[p].at .. k : t[l].kind = "W"
=============================================================================
