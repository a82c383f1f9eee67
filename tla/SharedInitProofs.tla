-------------------------- MODULE SharedInitProofs --------------------------
(***************************************************************************)
(* Theorems about SharedInit, for every set of boots, every set of faulty  *)
(* windows and every content of the tunables.                              *)
(*                                                                         *)
(* They rest on the order of the program.  Facts about Plan(boot),         *)
(* stated as facts about any sequence of calls, are all that is used of    *)
(* it: a call that touches phy_ip without being a probe stands behind the  *)
(* polls of both acknowledgements (InOrder), and the last call is a poll.  *)
(* A third, for the boots the argument parser lets through, is that of the *)
(* probes ahead of those polls at most one is made (AtMostOneEarly).       *)
(***************************************************************************)
EXTENDS SharedInit, SequenceTheorems, TLAPS

\* The device tree of the ports agrees with the layout of phy_ip, and the entries
\* that are applied without the filter lie in the shared slice.
Layout ==
    /\ \A i \in Ports : PhyExtra[i] \subseteq SliceHead(i) .. SliceHead(i) + 32767
    /\ \A o \in OffsetsOf("pll") : o < PhyIpSliceBase

\* The words of phy_ip that do not belong to a port without a bridge.
Live == {o \in Nat : Layout => \A i \in Ports \ ActivePorts : o \notin PhyExtra[i]}

Ops == [label : Labels, kind : Kinds, touches : SUBSET Windows, spread : SUBSET Live]

\* The n-th call of s is the poll that acknowledges h.
Acks(s, n, h) == s[n].kind = "poll" /\ s[n].label = h

TouchesPhyIp(o) == "phy_ip" \in o.touches /\ o.kind \notin ProbeKinds

\* Of the acknowledgements in owed, all are still polled for in s.
PollsFor(s, owed) == \A h \in owed : \E n \in 1 .. Len(s) : Acks(s, n, h)

\* A call that touches phy_ip, but for a probe, comes after those polls.
InOrder(s, owed) ==
    \A i \in 1 .. Len(s) : TouchesPhyIp(s[i]) =>
        \A h \in owed : \E n \in 1 .. i - 1 : Acks(s, n, h)

EndsInPoll(s) == s # <<>> /\ s[Len(s)].kind = "poll"

\* Programs that leave phy_ip alone.
Quiet == {s \in Seq(Ops) : \A i \in 1 .. Len(s) : ~TouchesPhyIp(s[i])}

-----------------------------------------------------------------------------
(* Sequences of calls.                                                     *)

LEMMA QuietEmpty == <<>> \in Quiet
  BY DEF Quiet

\* One call that is not a tunable of phy_ip is a quiet program.
LEMMA QuietOne ==
  ASSUME NEW o \in Ops, ~TouchesPhyIp(o)
  PROVE  <<o>> \in Quiet
  BY DEF Quiet

LEMMA QuietConcat ==
  ASSUME NEW s \in Quiet, NEW t \in Quiet
  PROVE  s \o t \in Quiet
<1>1. s \in Seq(Ops) /\ t \in Seq(Ops)
  BY DEF Quiet
<1>2. /\ s \o t \in Seq(Ops)
      /\ Len(s \o t) = Len(s) + Len(t)
      /\ \A i \in 1 .. Len(s) + Len(t) :
            (s \o t)[i] = IF i <= Len(s) THEN s[i] ELSE t[i - Len(s)]
  BY <1>1, ConcatProperties, Zenon
<1>3. Len(s) \in Nat /\ Len(t) \in Nat
  BY <1>1
<1>4. ASSUME NEW i \in 1 .. Len(s) + Len(t)
      PROVE  ~TouchesPhyIp((s \o t)[i])
  <2>1. CASE i <= Len(s)
    <3>1. i \in 1 .. Len(s)
      BY <1>3, <2>1
    <3>2. (s \o t)[i] = s[i]
      BY <1>2, <2>1
    <3> QED
      BY <3>1, <3>2 DEF Quiet
  <2>2. CASE ~(i <= Len(s))
    <3>1. i - Len(s) \in 1 .. Len(t)
      BY <1>3, <2>2
    <3>2. (s \o t)[i] = t[i - Len(s)]
      BY <1>2, <2>2
    <3> QED
      BY <3>1, <3>2 DEF Quiet
  <2> QED
    BY <2>1, <2>2
<1> QED
  BY <1>2, <1>4 DEF Quiet

\* What is in order, and polls for everything, stays so whatever follows it.
LEMMA OrderConcat ==
  ASSUME NEW owed, NEW s \in Seq(Ops), NEW t \in Seq(Ops),
         InOrder(s, owed), PollsFor(s, owed)
  PROVE  InOrder(s \o t, owed) /\ PollsFor(s \o t, owed)
<1>1. /\ Len(s \o t) = Len(s) + Len(t)
      /\ \A i \in 1 .. Len(s) + Len(t) :
            (s \o t)[i] = IF i <= Len(s) THEN s[i] ELSE t[i - Len(s)]
  BY ConcatProperties, Zenon
<1>2. Len(s) \in Nat /\ Len(t) \in Nat
  OBVIOUS
<1>3. ASSUME NEW n \in 1 .. Len(s), NEW h, Acks(s, n, h)
      PROVE  n \in 1 .. Len(s) + Len(t) /\ Acks(s \o t, n, h)
  <2>1. n <= Len(s) /\ n \in 1 .. Len(s) + Len(t)
    BY <1>2
  <2>2. (s \o t)[n] = s[n]
    BY <1>1, <2>1
  <2> QED
    BY <1>3, <2>1, <2>2 DEF Acks
<1>4. PollsFor(s \o t, owed)
  BY <1>1, <1>3 DEF PollsFor
<1>5. ASSUME NEW i \in 1 .. Len(s) + Len(t), TouchesPhyIp((s \o t)[i]), NEW h \in owed
      PROVE  \E n \in 1 .. i - 1 : Acks(s \o t, n, h)
  <2>1. CASE i <= Len(s)
    <3>1. i \in 1 .. Len(s)
      BY <1>2, <2>1
    <3>2. TouchesPhyIp(s[i])
      BY <1>1, <1>5, <2>1
    <3>3. PICK n \in 1 .. i - 1 : Acks(s, n, h)
      BY <3>1, <3>2 DEF InOrder
    <3>4. n \in 1 .. Len(s)
      BY <3>1, <1>2
    <3> QED
      BY <3>3, <3>4, <1>3
  <2>2. CASE ~(i <= Len(s))
    <3>1. PICK n \in 1 .. Len(s) : Acks(s, n, h)
      BY DEF PollsFor
    <3>2. n \in 1 .. i - 1
      BY <1>2, <2>2
    <3> QED
      BY <3>1, <3>2, <1>3
  <2> QED
    BY <2>1, <2>2
<1> QED
  BY <1>1, <1>4, <1>5 DEF InOrder

LEMMA PollsForConcat ==
  ASSUME NEW owed, NEW s \in Seq(Ops), NEW t \in Seq(Ops), PollsFor(t, owed)
  PROVE  PollsFor(s \o t, owed)
<1>1. /\ Len(s \o t) = Len(s) + Len(t)
      /\ \A i \in 1 .. Len(s) + Len(t) :
            (s \o t)[i] = IF i <= Len(s) THEN s[i] ELSE t[i - Len(s)]
  BY ConcatProperties, Zenon
<1>2. Len(s) \in Nat /\ Len(t) \in Nat
  OBVIOUS
<1>3. ASSUME NEW h \in owed
      PROVE  \E n \in 1 .. Len(s) + Len(t) : Acks(s \o t, n, h)
  <2>1. PICK n \in 1 .. Len(t) : Acks(t, n, h)
    BY DEF PollsFor
  <2>2. /\ n + Len(s) \in 1 .. Len(s) + Len(t)
        /\ ~(n + Len(s) <= Len(s)) /\ (n + Len(s)) - Len(s) = n
    BY <1>2
  <2>3. (s \o t)[n + Len(s)] = t[n]
    BY <1>1, <2>2
  <2> QED
    BY <2>1, <2>2, <2>3 DEF Acks
<1> QED
  BY <1>1, <1>3 DEF PollsFor

LEMMA EndConcat ==
  ASSUME NEW s \in Seq(Ops), NEW t \in Seq(Ops), EndsInPoll(t)
  PROVE  EndsInPoll(s \o t)
<1>1. /\ s \o t \in Seq(Ops)
      /\ Len(s \o t) = Len(s) + Len(t)
      /\ \A i \in 1 .. Len(s) + Len(t) :
            (s \o t)[i] = IF i <= Len(s) THEN s[i] ELSE t[i - Len(s)]
  BY ConcatProperties, Zenon
<1>2. Len(s) \in Nat /\ Len(t) \in Nat \ {0}
  BY DEF EndsInPoll
<1>3. (s \o t)[Len(s) + Len(t)] = t[Len(t)]
  <2>1. /\ Len(s) + Len(t) \in 1 .. Len(s) + Len(t)
        /\ ~(Len(s) + Len(t) <= Len(s)) /\ (Len(s) + Len(t)) - Len(s) = Len(t)
    BY <1>2
  <2> QED
    BY <1>1, <2>1
<1> QED
  BY <1>1, <1>2, <1>3 DEF EndsInPoll

\* A quiet program is in order whatever is owed.
LEMMA QuietInOrder ==
  ASSUME NEW s \in Quiet, NEW owed
  PROVE  s \in Seq(Ops) /\ InOrder(s, owed)
  BY DEF Quiet, InOrder

\* The first call is made: what is owed shrinks by what it acknowledged.
LEMMA Advance ==
  ASSUME NEW s \in Seq(Ops), s # <<>>, NEW owed, NEW owes, owes \subseteq owed,
         PollsFor(s, owed), InOrder(s, owed), EndsInPoll(s),
         \A h \in owes : ~Acks(s, 1, h)
  PROVE  /\ Tail(s) \in Seq(Ops)
         /\ PollsFor(Tail(s), owes) /\ InOrder(Tail(s), owes)
         /\ Tail(s) # <<>> => EndsInPoll(Tail(s))
         /\ Tail(s) = <<>> => Head(s).kind = "poll" /\ owes = {}
<1>1. /\ Tail(s) \in Seq(Ops) /\ Len(Tail(s)) = Len(s) - 1
      /\ \A i \in 1 .. Len(Tail(s)) : Tail(s)[i] = s[i + 1]
      /\ Head(s) = s[1]
  BY HeadTailProperties
<1>2. Len(s) \in Nat \ {0}
  OBVIOUS
<1>3. ASSUME NEW n \in 1 .. Len(s), NEW h \in owes, Acks(s, n, h)
      PROVE  n - 1 \in 1 .. Len(Tail(s)) /\ Acks(Tail(s), n - 1, h)
  <2>1. n # 1
    BY <1>3
  <2>2. n - 1 \in 1 .. Len(Tail(s)) /\ (n - 1) + 1 = n
    BY <1>1, <1>2, <2>1
  <2>3. Tail(s)[n - 1] = s[n]
    BY <1>1, <2>2
  <2> QED
    BY <1>3, <2>2, <2>3 DEF Acks
<1>4. PollsFor(Tail(s), owes)
  <2>1. SUFFICES ASSUME NEW h \in owes
                 PROVE  \E n \in 1 .. Len(Tail(s)) : Acks(Tail(s), n, h)
    BY DEF PollsFor
  <2>2. PICK n \in 1 .. Len(s) : Acks(s, n, h)
    BY DEF PollsFor
  <2> QED
    BY <1>3, <2>2
<1>5. InOrder(Tail(s), owes)
  <2>1. SUFFICES ASSUME NEW i \in 1 .. Len(Tail(s)), TouchesPhyIp(Tail(s)[i]), NEW h \in owes
                 PROVE  \E n \in 1 .. i - 1 : Acks(Tail(s), n, h)
    BY DEF InOrder
  <2>2. i + 1 \in 1 .. Len(s) /\ TouchesPhyIp(s[i + 1])
    BY <1>1, <1>2, <2>1
  <2>3. PICK n \in 1 .. (i + 1) - 1 : Acks(s, n, h)
    BY <2>2 DEF InOrder
  <2>4. n \in 1 .. Len(s) /\ n \in Int /\ i \in Int /\ n <= i
    BY <1>1, <1>2
  <2>5. n - 1 \in 1 .. Len(Tail(s)) /\ Acks(Tail(s), n - 1, h)
    BY <1>3, <2>3, <2>4
  <2>6. n - 1 \in 1 .. i - 1
    BY <2>4, <2>5
  <2> QED
    BY <2>5, <2>6
<1>6. ASSUME Tail(s) # <<>>
      PROVE  EndsInPoll(Tail(s))
  <2>1. Len(Tail(s)) \in 1 .. Len(Tail(s)) /\ Len(Tail(s)) + 1 = Len(s)
    BY <1>1, <1>2, <1>6
  <2>2. Tail(s)[Len(Tail(s))] = s[Len(s)]
    BY <1>1, <2>1
  <2> QED
    BY <1>6, <2>2 DEF EndsInPoll
<1>7. ASSUME Tail(s) = <<>>
      PROVE  Head(s).kind = "poll" /\ owes = {}
  <2>0. Len(Tail(s)) = 0
    <3>1. Len(<<>>) = 0
      OBVIOUS
    <3> QED
      BY <3>1, <1>7, Zenon
  <2>1. Len(s) = 1
    <3>1. Len(s) - 1 = 0
      BY <1>1, <2>0, Zenon
    <3> QED
      BY <3>1, <1>2
  <2>2. owes = {}
    <3>1. \A h \in owes : \E n \in 1 .. 0 : Acks(Tail(s), n, h)
      BY <1>4, <2>0, Zenon DEF PollsFor
    <3> QED
      BY <3>1
  <2> QED
    BY <1>1, <2>1, <2>2 DEF EndsInPoll
<1> QED
  BY <1>1, <1>4, <1>5, <1>6, <1>7
-----------------------------------------------------------------------------
(* The program.                                                            *)

\* The layout and the classification of offsets agree.
LEMMA SharedIsLive ==
  ASSUME NEW offset \in Nat, offset < PhyIpSliceBase
  PROVE  offset \in Live
<1>1. ASSUME Layout, NEW i \in Ports, offset \in PhyExtra[i]
      PROVE  FALSE
  <2>1. offset \in SliceHead(i) .. SliceHead(i) + 32767
    BY <1>1 DEF Layout
  <2> QED
    BY <2>1 DEF SliceHead, PhyIpSliceBase, PhyIpSliceStride, Ports
<1> QED
  BY <1>1 DEF Live

LEMMA ActiveIsLive ==
  ASSUME NEW offset \in Nat, NEW p \in ActivePorts,
         offset >= SliceHead(p), offset <= SliceHead(p) + 32767
  PROVE  offset \in Live
<1>1. p \in Ports
  BY SharedInitAssumption
<1>2. ASSUME Layout, NEW i \in Ports \ ActivePorts, offset \in PhyExtra[i]
      PROVE  FALSE
  <2>1. offset \in SliceHead(i) .. SliceHead(i) + 32767 /\ i # p
    BY <1>2 DEF Layout
  <2> QED
    BY <1>1, <2>1 DEF SliceHead, PhyIpSliceBase, PhyIpSliceStride, Ports
<1> QED
  BY <1>2 DEF Live

\* classify_phy_ip_offset lets through nothing but live words.
LEMMA AppliesToLive ==
  ASSUME NEW offset \in Nat, Applies(offset)
  PROVE  offset \in Live
<1>1. CASE offset < PhyIpSliceBase
  BY <1>1, SharedIsLive
<1>2. CASE ~(offset < PhyIpSliceBase)
  <2>1. PortIndex(offset) \in ActivePorts /\ PortIndex(offset) \in Ports
    BY <1>2, SharedInitAssumption DEF Applies
  <2>2. /\ offset >= SliceHead(PortIndex(offset))
        /\ offset <= SliceHead(PortIndex(offset)) + 32767
    BY <1>2 DEF SliceHead, PortIndex, PhyIpSliceBase, PhyIpSliceStride
  <2> QED
    BY <2>1, <2>2, ActiveIsLive
<1> QED
  BY <1>1, <1>2

LEMMA HeadIsLive == Shared \in Live /\ {Shared} \in SUBSET Live
<1>1. Shared \in Live
  BY SharedIsLive DEF Shared, PhyIpSliceBase
<1> QED
  BY <1>1

\* A call that leaves phy_ip alone, or only probes it.
LEMMA QuietOp ==
  ASSUME NEW label \in Labels, NEW kind \in Kinds, NEW touches \in SUBSET Windows,
         "phy_ip" \notin touches \/ kind = "probe"
  PROVE  /\ Op(label, kind, touches, {Shared}) \in Ops
         /\ ~TouchesPhyIp(Op(label, kind, touches, {Shared}))
  BY HeadIsLive DEF Op, Ops, TouchesPhyIp, ProbeKinds

LEMMA QuietCalls ==
  ASSUME NEW label \in Labels, NEW window \in Windows, window # "phy_ip"
  PROVE  /\ Step(label, window) \in Ops /\ ~TouchesPhyIp(Step(label, window))
         /\ PollStep(label, window) \in Ops /\ ~TouchesPhyIp(PollStep(label, window))
         /\ Peek(label, window) \in Ops /\ ~TouchesPhyIp(Peek(label, window))
         /\ Naked(label, window) \in Ops /\ ~TouchesPhyIp(Naked(label, window))
  BY HeadIsLive DEF Step, PollStep, Peek, Naked, Op, Ops, Kinds, ProbeKinds, TouchesPhyIp

LEMMA QuietStep ==
  ASSUME NEW label \in Labels, NEW window \in Windows, window # "phy_ip"
  PROVE  <<Step(label, window)>> \in Quiet
  BY QuietCalls, QuietOne, Zenon

LEMMA QuietProbe ==
  ASSUME NEW label \in Labels, NEW windows \in SUBSET Windows
  PROVE  /\ Probe(label, windows) \in Ops /\ ~TouchesPhyIp(Probe(label, windows))
         /\ <<Probe(label, windows)>> \in Quiet
<1>1. "probe" \in Kinds
  BY DEF Kinds, ProbeKinds
<1>2. Probe(label, windows) \in Ops /\ ~TouchesPhyIp(Probe(label, windows))
  BY <1>1, QuietOp, Zenon DEF Probe
<1> QED
  BY <1>2, QuietOne, Zenon

LEMMA QuietPhyIpProbe ==
  ASSUME NEW b, NEW label \in Labels
  PROVE  /\ PhyIpProbe(b, label) \in Ops /\ ~TouchesPhyIp(PhyIpProbe(b, label))
         /\ <<PhyIpProbe(b, label)>> \in Quiet
<1>1. {"phy_ip"} \in SUBSET Windows /\ "write_probe" \in Kinds
  BY DEF Windows, Kinds, ProbeKinds
<1>2. PhyIpWriteProbeOffset \in Live
  BY SharedIsLive DEF PhyIpWriteProbeOffset, PhyIpSliceBase
<1>3. WriteProbe(label) \in Ops /\ ~TouchesPhyIp(WriteProbe(label))
  BY <1>1, <1>2 DEF WriteProbe, Op, Ops, TouchesPhyIp, ProbeKinds
<1>4. PhyIpProbe(b, label) \in Ops /\ ~TouchesPhyIp(PhyIpProbe(b, label))
  BY <1>1, <1>3, QuietProbe, Zenon DEF PhyIpProbe
<1> QED
  BY <1>4, QuietOne, Zenon

LEMMA QuietSub5 ==
  ASSUME NEW label \in Labels,
         NEW kind \in {"first_touch", "gated", "gated_naked", "gated_step"}
  PROVE  /\ Op(label, kind, {"axi_sub5"}, {Shared}) \in Ops
         /\ ~TouchesPhyIp(Op(label, kind, {"axi_sub5"}, {Shared}))
         /\ <<Op(label, kind, {"axi_sub5"}, {Shared})>> \in Quiet
<1>1. kind \in Kinds
  BY DEF Kinds
<1>2. {"axi_sub5"} \in SUBSET Windows /\ "phy_ip" \notin {"axi_sub5"}
  BY DEF Windows
<1>3. /\ Op(label, kind, {"axi_sub5"}, {Shared}) \in Ops
      /\ ~TouchesPhyIp(Op(label, kind, {"axi_sub5"}, {Shared}))
  BY <1>1, <1>2, QuietOp, Zenon
<1> QED
  BY <1>3, QuietOne, Zenon

LEMMA QuietAbsent ==
  ASSUME NEW label \in Labels
  PROVE  <<Absent(label)>> \in Quiet
<1>1. {} \in SUBSET Windows /\ "phy_ip" \notin {} /\ "absent" \in Kinds
  BY DEF Kinds
<1>2. Absent(label) \in Ops /\ ~TouchesPhyIp(Absent(label))
  BY <1>1, QuietOp, Zenon DEF Absent
<1> QED
  BY <1>2, QuietOne, Zenon

LEMMA QuietTwo ==
  ASSUME NEW o1 \in Ops, ~TouchesPhyIp(o1), NEW o2 \in Ops, ~TouchesPhyIp(o2)
  PROVE  <<o1, o2>> \in Quiet
  BY DEF Quiet

LEMMA QuietThree ==
  ASSUME NEW o1 \in Ops, ~TouchesPhyIp(o1), NEW o2 \in Ops, ~TouchesPhyIp(o2),
         NEW o3 \in Ops, ~TouchesPhyIp(o3)
  PROVE  <<o1, o2, o3>> \in Quiet
  BY DEF Quiet

LEMMA QuietFour ==
  ASSUME NEW o1 \in Ops, ~TouchesPhyIp(o1), NEW o2 \in Ops, ~TouchesPhyIp(o2),
         NEW o3 \in Ops, ~TouchesPhyIp(o3), NEW o4 \in Ops, ~TouchesPhyIp(o4)
  PROVE  <<o1, o2, o3, o4>> \in Quiet
  BY DEF Quiet

LEMMA QuietWhen ==
  ASSUME NEW b, NEW flag, NEW s \in Quiet
  PROVE  When(b, flag, s) \in Quiet
  BY QuietEmpty DEF When

LEMMA QuietDiag ==
  ASSUME NEW b, NEW label \in Labels
  PROVE  Diag(b, label) \in Quiet
<1>1. /\ <<Probe(label, {"phy_common"})>> \in Quiet
      /\ <<Probe(label, ScanWindows)>> \in Quiet
      /\ <<PhyIpProbe(b, label)>> \in Quiet
  <2>1. /\ {"phy_common"} \in SUBSET Windows
        /\ ScanWindows \in SUBSET Windows
    BY DEF ScanWindows, Windows
  <2> QED
    BY <2>1, QuietProbe, QuietPhyIpProbe, Zenon
<1>2. When(b, "reachable_scan", <<Probe(label, ScanWindows)>>) \in Quiet
  BY <1>1, QuietWhen
<1>3. (IF b.at = label THEN <<PhyIpProbe(b, label)>> ELSE <<>>) \in Quiet
  BY <1>1, QuietEmpty
<1>4. <<Probe(label, {"phy_common"})>>
      \o When(b, "reachable_scan", <<Probe(label, ScanWindows)>>) \in Quiet
  BY <1>1, <1>2, QuietConcat
<1>5. (<<Probe(label, {"phy_common"})>>
       \o When(b, "reachable_scan", <<Probe(label, ScanWindows)>>))
      \o (IF b.at = label THEN <<PhyIpProbe(b, label)>> ELSE <<>>) \in Quiet
  BY <1>3, <1>4, QuietConcat
<1>6. When(b, "phy_ip_diag",
           (<<Probe(label, {"phy_common"})>>
            \o When(b, "reachable_scan", <<Probe(label, ScanWindows)>>))
           \o (IF b.at = label THEN <<PhyIpProbe(b, label)>> ELSE <<>>)) \in Quiet
  BY <1>5, QuietWhen, Zenon
<1> QED
  BY <1>6 DEF Diag

LEMMA QuietTunables ==
  ASSUME NEW label \in Labels, NEW prop, NEW window \in Windows, window # "phy_ip"
  PROVE  Tunables(label, prop, window) \in Quiet
<1>1. <<Step(label, window)>> \in Quiet /\ <<Absent(label)>> \in Quiet
  BY QuietStep, QuietAbsent, Zenon
<1> QED
  BY <1>1, Zenon DEF Tunables

LEMMA QuietNakedTest ==
  ASSUME NEW b
  PROVE  NakedTest(b) \in Quiet
<1> DEFINE test == <<FirstTouch("5.75"), Probe("5.75", {"rc", "axi"})>>
                   \o Diag(b, "post-5.75.naked-write-test")
<1>0. "5.75" \in Labels /\ "post-5.75.naked-write-test" \in Labels
  BY DEF Labels, Steps, Checkpoints
<1>1. <<FirstTouch("5.75"), Probe("5.75", {"rc", "axi"})>> \in Quiet
  <2>1. FirstTouch("5.75") \in Ops /\ ~TouchesPhyIp(FirstTouch("5.75"))
    BY <1>0, QuietSub5 DEF FirstTouch
  <2>2. {"rc", "axi"} \in SUBSET Windows
    BY DEF Windows
  <2>3. Probe("5.75", {"rc", "axi"}) \in Ops /\ ~TouchesPhyIp(Probe("5.75", {"rc", "axi"}))
    BY <1>0, <2>2, QuietProbe, Zenon
  <2> QED
    BY <2>1, <2>3, QuietTwo, Zenon
<1>2. Diag(b, "post-5.75.naked-write-test") \in Quiet
  BY <1>0, QuietDiag
<1>3. test \in Quiet
  BY <1>1, <1>2, QuietConcat
<1>4. When(b, "naked_write_test", test) \in Quiet /\ When(b, "naked_readonly", test) \in Quiet
  BY <1>3, QuietWhen, Zenon
<1>5. When(b, "naked_write_test", test) \o When(b, "naked_readonly", test) \in Quiet
  BY <1>4, QuietConcat
<1> QED
  BY <1>5 DEF NakedTest

\* The shape of most optional parts: some calls, and a checkpoint.
LEMMA QuietWhenDiag ==
  ASSUME NEW b, NEW flag, NEW label \in Labels, NEW s \in Quiet
  PROVE  When(b, flag, s \o Diag(b, label)) \in Quiet
<1>1. Diag(b, label) \in Quiet
  BY QuietDiag, Zenon
<1>2. s \o Diag(b, label) \in Quiet
  BY <1>1, QuietConcat, Zenon
<1> QED
  BY <1>2, QuietWhen, Zenon

LEMMA QuietNakedApplies ==
  ASSUME NEW b
  PROVE  NakedApplies(b) \in Quiet
<1> DEFINE naked == Op("5.8.b", "gated_naked", {"axi_sub5"}, {Shared})
           step == Op("5.8.b", "gated_step", {"axi_sub5"}, {Shared})
           a == When(b, "axi2af_naked",
                     <<Probe("5.8.a", {"axi"})>> \o Diag(b, "post-5.8.a.axi2af-naked-apply"))
           c == When(b, "pcieclkgen_naked",
                     <<Gated("5.8.b")>> \o Diag(b, "post-5.8.b.pcieclkgen-naked-apply"))
           d == When(b, "set5_only",
                     <<naked, step, naked>> \o Diag(b, "post-5.8.b.pcieclkgen-naked-apply"))
           e == When(b, "cio3_sub5",
                     <<Gated("5.8.c")>> \o Diag(b, "post-5.8.c.cio3pllcore-naked-apply"))
           f == When(b, "cio3_common",
                     <<Probe("5.8.c", {"phy_common"})>>
                     \o Diag(b, "post-5.8.c.cio3pllcore-naked-apply"))
<1>1. /\ "5.8.a" \in Labels /\ "5.8.b" \in Labels /\ "5.8.c" \in Labels
      /\ "post-5.8.a.axi2af-naked-apply" \in Labels
      /\ "post-5.8.b.pcieclkgen-naked-apply" \in Labels
      /\ "post-5.8.c.cio3pllcore-naked-apply" \in Labels
  BY DEF Labels, Steps, Checkpoints
<1>2. {"axi"} \in SUBSET Windows /\ {"phy_common"} \in SUBSET Windows
  BY DEF Windows
<1>3. <<Probe("5.8.a", {"axi"})>> \in Quiet /\ <<Probe("5.8.c", {"phy_common"})>> \in Quiet
  BY <1>1, <1>2, QuietProbe, Zenon
<1>4. <<Gated("5.8.b")>> \in Quiet /\ <<Gated("5.8.c")>> \in Quiet
  BY <1>1, QuietSub5 DEF Gated
<1>5. /\ naked \in Ops /\ ~TouchesPhyIp(naked) /\ step \in Ops /\ ~TouchesPhyIp(step)
  BY <1>1, QuietSub5
<1>6. <<naked, step, naked>> \in Quiet
  <2> HIDE DEF naked, step
  <2> QED
    BY <1>5, QuietThree, Zenon
<1>7. a \in Quiet /\ c \in Quiet /\ e \in Quiet /\ f \in Quiet
  BY <1>1, <1>3, <1>4, QuietWhenDiag, Zenon
<1>8. d \in Quiet
  BY <1>1, <1>6, QuietWhenDiag, Zenon
<1>9. (((a \o c) \o d) \o e) \o f \in Quiet
  <2> HIDE DEF a, c, d, e, f
  <2>1. a \o c \in Quiet
    BY <1>7, QuietConcat, Zenon
  <2>2. (a \o c) \o d \in Quiet
    BY <2>1, <1>8, QuietConcat, Zenon
  <2>3. ((a \o c) \o d) \o e \in Quiet
    BY <2>2, <1>7, QuietConcat, Zenon
  <2> QED
    BY <2>3, <1>7, QuietConcat, Zenon
<1> QED
  BY <1>9 DEF NakedApplies

LEMMA QuietExtraTunables ==
  ASSUME NEW b
  PROVE  ExtraTunables(b) \in Quiet
<1> DEFINE a == IF "only_pcieclkgen" \in b.flags THEN <<>>
                ELSE Tunables("5.5.a", "cio3pllcore", "rc")
           c == IF "only_cio3pllcore" \in b.flags THEN <<>>
                ELSE Tunables("5.5.b", "pcieclkgen", "rc")
<1>1. /\ "5.5.a" \in Labels /\ "5.5.b" \in Labels
      /\ "post-5.5.extra-tunables" \in Labels
  BY DEF Labels, Steps, Checkpoints
<1>2. "rc" \in Windows /\ "rc" # "phy_ip"
  BY DEF Windows
<1>3. /\ Tunables("5.5.a", "cio3pllcore", "rc") \in Quiet
      /\ Tunables("5.5.b", "pcieclkgen", "rc") \in Quiet
  BY <1>1, <1>2, QuietTunables, Zenon
<1>4. a \in Quiet /\ c \in Quiet
  BY <1>3, QuietEmpty
<1>5. When(b, "extra_tunables", (a \o c) \o Diag(b, "post-5.5.extra-tunables")) \in Quiet
  <2> HIDE DEF a, c
  <2>1. a \o c \in Quiet
    BY <1>4, QuietConcat, Zenon
  <2> QED
    BY <2>1, <1>1, QuietWhenDiag, Zenon
<1> QED
  BY <1>5 DEF ExtraTunables

LEMMA QuietPhycmnOn == PhycmnOn \in Quiet
<1>1. "7" \in Labels /\ "phy_common" \in Windows /\ "phy_common" # "phy_ip"
  BY DEF Labels, Steps, Windows
<1> QED
  BY <1>1, QuietStep, Zenon DEF PhycmnOn

\* The handshake polls for both acknowledgements.
LEMMA HandshakePolls ==
  ASSUME NEW b
  PROVE  Handshake(b) \in Quiet /\ PollsFor(Handshake(b), Handshakes)
<1> DEFINE a == <<Step("6.a", "phy_shared"), PollStep("6.b", "phy_shared")>>
           c == Diag(b, "post-6.b.CLK0ACK")
           d == <<Step("6.c", "phy_shared"), PollStep("6.d", "phy_shared")>>
           e == Diag(b, "post-6.d.CLK1ACK")
           f == <<Step("6.e", "phy_shared"), Peek("6.f.pre", "phy_shared"),
                  Step("6.f", "phy_shared"), Peek("6.f.post", "phy_shared")>>
<1>1. /\ "6.a" \in Labels /\ "6.b" \in Labels /\ "6.c" \in Labels /\ "6.d" \in Labels
      /\ "6.e" \in Labels /\ "6.f.pre" \in Labels /\ "6.f" \in Labels
      /\ "6.f.post" \in Labels
      /\ "post-6.b.CLK0ACK" \in Labels /\ "post-6.d.CLK1ACK" \in Labels
  BY DEF Labels, Steps, Checkpoints
<1>2. "phy_shared" \in Windows /\ "phy_shared" # "phy_ip"
  BY DEF Windows
<1>3. a \in Quiet /\ d \in Quiet
  BY <1>1, <1>2, QuietCalls, QuietTwo, Zenon
<1>4. f \in Quiet
  BY <1>1, <1>2, QuietCalls, QuietFour, Zenon
<1>5. c \in Quiet /\ e \in Quiet
  BY <1>1, QuietDiag, Zenon
<1>6. PollsFor(a, {"6.b"})
  <2>1. Len(a) = 2 /\ a[2] = PollStep("6.b", "phy_shared")
    OBVIOUS
  <2>2. Acks(a, 2, "6.b")
    BY <2>1 DEF Acks, PollStep, Op
  <2> QED
    BY <2>1, <2>2 DEF PollsFor
<1>7. PollsFor(d, {"6.d"})
  <2>1. Len(d) = 2 /\ d[2] = PollStep("6.d", "phy_shared")
    OBVIOUS
  <2>2. Acks(d, 2, "6.d")
    BY <2>1 DEF Acks, PollStep, Op
  <2> QED
    BY <2>1, <2>2 DEF PollsFor
<1> HIDE DEF a, c, d, e, f
<1>8. a \o c \in Quiet /\ PollsFor(a \o c, {"6.b"})
  BY <1>3, <1>5, <1>6, QuietConcat, QuietInOrder, OrderConcat, Zenon
<1>9. /\ (a \o c) \o d \in Quiet
      /\ PollsFor((a \o c) \o d, {"6.b"}) /\ PollsFor((a \o c) \o d, {"6.d"})
  BY <1>3, <1>7, <1>8, QuietConcat, QuietInOrder, OrderConcat, PollsForConcat, Zenon
<1>10. PollsFor((a \o c) \o d, Handshakes)
  BY <1>9 DEF PollsFor, Handshakes
<1>11. ((a \o c) \o d) \o e \in Quiet /\ PollsFor(((a \o c) \o d) \o e, Handshakes)
  BY <1>5, <1>9, <1>10, QuietConcat, QuietInOrder, OrderConcat, Zenon
<1>12. /\ (((a \o c) \o d) \o e) \o f \in Quiet
       /\ PollsFor((((a \o c) \o d) \o e) \o f, Handshakes)
  BY <1>4, <1>11, QuietConcat, QuietInOrder, OrderConcat, Zenon
<1> QED
  BY <1>12 DEF Handshake, a, c, d, e, f

LEMMA QuietPhyifCtrl ==
  ASSUME NEW b
  PROVE  PhyifCtrl(b) \in Quiet
<1>1. "6.f.5.pre" \in Labels /\ "6.f.5" \in Labels /\ "6.f.5.post" \in Labels
  BY DEF Labels, Steps
<1>2. "rc" \in Windows /\ "rc" # "phy_ip"
  BY DEF Windows
<1>3. <<Peek("6.f.5.pre", "rc"), Step("6.f.5", "rc"), Peek("6.f.5.post", "rc")>> \in Quiet
  BY <1>1, <1>2, QuietCalls, QuietThree, Zenon
<1> QED
  BY <1>3, QuietWhen, Zenon DEF PhyifCtrl

LEMMA QuietEarly ==
  ASSUME NEW b
  PROVE  Early(b) \in Quiet
<1> DEFINE first == IF "phycmn_first" \in b.flags THEN <<>> ELSE PhycmnOn
           a == When(b, "phy4_x10_early",
                     <<Step("6.i", "phy_shared")>> \o Diag(b, "post-6.i.phy4-x10-early"))
           c == When(b, "phycmn_early", first \o Diag(b, "post-7.phycmn-early"))
           d == Diag(b, "post-6.f.T8140-marker")
           e == When(b, "t8122_post",
                     <<Naked("6.5.pre", "phy_shared"), Step("6.5", "phy_shared"),
                       Naked("6.5.post", "phy_shared")>>
                     \o Diag(b, "post-6.5.t8122-shared-post"))
<1>1. /\ "6.i" \in Labels /\ "6.5.pre" \in Labels /\ "6.5" \in Labels
      /\ "6.5.post" \in Labels /\ "post-6.i.phy4-x10-early" \in Labels
      /\ "post-7.phycmn-early" \in Labels /\ "post-6.f.T8140-marker" \in Labels
      /\ "post-6.5.t8122-shared-post" \in Labels
  BY DEF Labels, Steps, Checkpoints
<1>2. "phy_shared" \in Windows /\ "phy_shared" # "phy_ip"
  BY DEF Windows
<1>3. <<Step("6.i", "phy_shared")>> \in Quiet
  BY <1>1, <1>2, QuietStep, Zenon
<1>4. <<Naked("6.5.pre", "phy_shared"), Step("6.5", "phy_shared"),
        Naked("6.5.post", "phy_shared")>> \in Quiet
  BY <1>1, <1>2, QuietCalls, QuietThree, Zenon
<1>5. first \in Quiet
  BY QuietEmpty, QuietPhycmnOn
<1>6. a \in Quiet /\ d \in Quiet /\ e \in Quiet
  BY <1>1, <1>3, <1>4, QuietWhenDiag, QuietDiag, Zenon
<1>7. c \in Quiet
  BY <1>1, <1>5, QuietWhenDiag, Zenon
<1>8. ((a \o c) \o d) \o e \in Quiet
  <2> HIDE DEF a, c, d, e
  <2>1. a \o c \in Quiet
    BY <1>6, <1>7, QuietConcat, Zenon
  <2>2. (a \o c) \o d \in Quiet
    BY <2>1, <1>6, QuietConcat, Zenon
  <2> QED
    BY <2>2, <1>6, QuietConcat, Zenon
<1> QED
  BY <1>8 DEF Early

\* The calls of the phy_ip tunables.
LEMMA PhyIpOp ==
  ASSUME NEW label \in Labels, NEW kind \in Kinds, NEW spread \in SUBSET Live
  PROVE  Op(label, kind, {"phy_ip"}, spread) \in Ops
<1>1. {"phy_ip"} \in SUBSET Windows
  BY DEF Windows
<1> QED
  BY <1>1 DEF Op, Ops

LEMMA OneOfOps ==
  ASSUME NEW o \in Ops
  PROVE  <<o>> \in Seq(Ops)
  OBVIOUS

LEMMA TwoOfOps ==
  ASSUME NEW o1 \in Ops, NEW o2 \in Ops
  PROVE  <<o1, o2>> \in Seq(Ops)
  OBVIOUS

LEMMA ThreeOfOps ==
  ASSUME NEW o1 \in Ops, NEW o2 \in Ops, NEW o3 \in Ops
  PROVE  <<o1, o2, o3>> \in Seq(Ops)
  OBVIOUS

LEMMA ConcatOps ==
  ASSUME NEW s \in Seq(Ops), NEW t \in Seq(Ops)
  PROVE  s \o t \in Seq(Ops)
  BY ConcatProperties, Zenon

LEMMA FilteredOps ==
  ASSUME NEW label \in Labels, NEW prop \in {"pll", "auspma"}
  PROVE  Filtered(label, prop) \in Seq(Ops)
<1> DEFINE passed == Op(label, "skipped", {}, {})
           entry(offset) ==
             IF Applies(offset) THEN Op(label, "step", {"phy_ip"}, {offset}) ELSE passed
           verify(i) ==
             IF i \in ActivePorts THEN Op(label, "verify", {"phy_ip"}, {SliceHead(i)})
             ELSE passed
           entries == [n \in DOMAIN PhyIp[prop] |-> entry(PhyIp[prop][n])]
<1>1. passed \in Ops
  BY DEF Op, Ops, Kinds
<1>2. ASSUME NEW offset \in Nat
      PROVE  entry(offset) \in Ops
  <2>1. CASE Applies(offset)
    <3>1. {offset} \in SUBSET Live /\ "step" \in Kinds
      BY <2>1, AppliesToLive DEF Kinds
    <3>2. Op(label, "step", {"phy_ip"}, {offset}) \in Ops
      BY <3>1, PhyIpOp, Zenon
    <3> QED
      BY <2>1, <3>2, Zenon
  <2>2. CASE ~Applies(offset)
    <3> HIDE DEF passed
    <3> QED
      BY <1>1, <2>2, Zenon
  <2> QED
    BY <2>1, <2>2
<1>3. ASSUME NEW i \in {0, 1, 2}
      PROVE  verify(i) \in Ops
  <2>1. CASE i \in ActivePorts
    <3>1. SliceHead(i) \in Nat
      BY DEF SliceHead, PhyIpSliceBase, PhyIpSliceStride
    <3>2. {SliceHead(i)} \in SUBSET Live /\ "verify" \in Kinds
      BY <2>1, <3>1, ActiveIsLive DEF Kinds
    <3>3. Op(label, "verify", {"phy_ip"}, {SliceHead(i)}) \in Ops
      BY <3>2, PhyIpOp, Zenon
    <3> QED
      BY <2>1, <3>3, Zenon
  <2>2. CASE i \notin ActivePorts
    <3> HIDE DEF passed
    <3> QED
      BY <1>1, <2>2, Zenon
  <2> QED
    BY <2>1, <2>2
<1>4. PhyIp[prop] \in Seq(Nat)
  BY SharedInitAssumption
<1> HIDE DEF entry, verify
<1>5. entries \in Seq(Ops)
  <2>1. /\ Len(PhyIp[prop]) \in Nat /\ DOMAIN PhyIp[prop] = 1 .. Len(PhyIp[prop])
        /\ \A n \in 1 .. Len(PhyIp[prop]) : PhyIp[prop][n] \in Nat
    BY <1>4
  <2>2. entries \in [1 .. Len(PhyIp[prop]) -> Ops]
    BY <1>2, <2>1
  <2> QED
    BY <2>1, <2>2, SeqDef
<1>6. <<verify(0), verify(1), verify(2)>> \in Seq(Ops)
  BY <1>3, ThreeOfOps
<1>7. entries \o <<verify(0), verify(1), verify(2)>> \in Seq(Ops)
  <2> HIDE DEF entries
  <2> QED
    BY <1>5, <1>6, ConcatOps, Zenon
<1>8. <<Absent(label)>> \in Seq(Ops)
  BY QuietAbsent DEF Quiet
<1> QED
  BY <1>7, <1>8 DEF Filtered, entry, verify

LEMMA StubOps ==
  ASSUME NEW b, NEW label \in Labels, NEW prop \in {"pll", "auspma"}
  PROVE  Stub(b, label, prop) \in Seq(Ops)
<1> DEFINE applied == {o \in OffsetsOf(prop) : Applies(o)}
           poll == Op(label, "poll", {"phy_ip"}, applied)
           verify == Op(label, "stub_verify", {"phy_ip"}, {Shared})
<1>1. PhyIp[prop] \in Seq(Nat)
  BY SharedInitAssumption
<1>2. applied \in SUBSET Live
  <2>1. OffsetsOf(prop) \subseteq Nat
    BY <1>1 DEF OffsetsOf
  <2> QED
    BY <2>1, AppliesToLive
<1>3. {Shared} \in SUBSET Live /\ "poll" \in Kinds /\ "stub_verify" \in Kinds
  BY HeadIsLive DEF Kinds
<1>4. poll \in Ops /\ verify \in Ops
  <2> HIDE DEF applied
  <2> QED
    BY <1>2, <1>3, PhyIpOp, Zenon
<1>5. <<poll, verify>> \in Seq(Ops)
  <2> HIDE DEF poll, verify
  <2> QED
    BY <1>4, TwoOfOps, Zenon
<1>6. Diag(b, label) \in Seq(Ops)
  BY QuietDiag DEF Quiet
<1>7. <<poll, verify>> \o Diag(b, label) \in Seq(Ops)
  BY <1>5, <1>6, ConcatOps, Zenon
<1>8. <<Absent(label)>> \in Seq(Ops)
  BY QuietAbsent DEF Quiet
<1> QED
  BY <1>7, <1>8 DEF Stub

LEMMA PhyIpTunablesOps ==
  ASSUME NEW b \in Boots
  PROVE  PhyIpTunables(b) \in Seq(Ops)
<1>1. "6.g" \in Labels /\ "6.h" \in Labels /\ "post-6.g.apply-local" \in Labels
  BY DEF Labels, Steps, Checkpoints
<1>2. /\ Filtered("6.g", "pll") \in Seq(Ops) /\ Filtered("6.h", "auspma") \in Seq(Ops)
      /\ Stub(b, "6.g", "pll") \in Seq(Ops) /\ Stub(b, "6.h", "auspma") \in Seq(Ops)
  BY <1>1, FilteredOps, StubOps
<1>3. <<Op("6.g", "step", {"phy_ip"}, OffsetsOf("pll"))>> \in Seq(Ops)
  <2>1. PhyIp["pll"] \in Seq(Nat)
    BY SharedInitAssumption
  <2>2. OffsetsOf("pll") \in SUBSET Live /\ "step" \in Kinds
    <3>1. OffsetsOf("pll") \subseteq Nat
      BY <2>1 DEF OffsetsOf
    <3>2. ASSUME NEW o \in OffsetsOf("pll")
          PROVE  o \in Live
      BY <3>1, SharedIsLive DEF Live, Layout
    <3> QED
      BY <3>2 DEF Kinds
  <2> QED
    BY <1>1, <2>2, PhyIpOp, OneOfOps, Zenon
<1>4. Diag(b, "post-6.g.apply-local") \in Seq(Ops)
  BY <1>1, QuietDiag DEF Quiet
<1>5. /\ Filtered("6.g", "pll") \o Filtered("6.h", "auspma") \in Seq(Ops)
      /\ Stub(b, "6.g", "pll") \o Stub(b, "6.h", "auspma") \in Seq(Ops)
      /\ <<Op("6.g", "step", {"phy_ip"}, OffsetsOf("pll"))>>
           \o Diag(b, "post-6.g.apply-local") \in Seq(Ops)
  BY <1>2, <1>3, <1>4, ConcatOps, Zenon
<1>6. (<<Op("6.g", "step", {"phy_ip"}, OffsetsOf("pll"))>>
        \o Diag(b, "post-6.g.apply-local")) \o Filtered("6.h", "auspma") \in Seq(Ops)
  BY <1>2, <1>5, ConcatOps, Zenon
<1>7. b.apply \in {"filtered", "stub", "local"}
  BY SharedInitAssumption
<1> QED
  BY <1>5, <1>6, <1>7 DEF PhyIpTunables

\* Everything up to the handshake.
Before(b) ==
    Diag(b, "F.entry")
    \o <<Step("1", "pmgr")>> \o Diag(b, "post-1.pmgr")
    \o Tunables("2", "axi2af", "axi") \o <<Step("3", "rc")>>
    \o Tunables("4", "common", "rc") \o Tunables("5", "phy", "phy_common")
    \o Diag(b, "post-5.phy-tunables")
    \o NakedTest(b) \o NakedApplies(b) \o ExtraTunables(b)
    \o When(b, "phycmn_first", PhycmnOn)

LEMMA QuietBefore ==
  ASSUME NEW b
  PROVE  Before(b) \in Quiet
<1> DEFINE d1 == Diag(b, "F.entry")
           d2 == Diag(b, "post-1.pmgr")
           d3 == Diag(b, "post-5.phy-tunables")
           s1 == <<Step("1", "pmgr")>>
           s3 == <<Step("3", "rc")>>
           t2 == Tunables("2", "axi2af", "axi")
           t4 == Tunables("4", "common", "rc")
           t5 == Tunables("5", "phy", "phy_common")
           w == When(b, "phycmn_first", PhycmnOn)
<1>1. /\ "1" \in Labels /\ "2" \in Labels /\ "3" \in Labels /\ "4" \in Labels
      /\ "5" \in Labels /\ "F.entry" \in Labels /\ "post-1.pmgr" \in Labels
      /\ "post-5.phy-tunables" \in Labels
  BY DEF Labels, Steps, Checkpoints
<1>2. /\ "pmgr" \in Windows /\ "rc" \in Windows /\ "axi" \in Windows
      /\ "phy_common" \in Windows
      /\ "pmgr" # "phy_ip" /\ "rc" # "phy_ip" /\ "axi" # "phy_ip"
      /\ "phy_common" # "phy_ip"
  BY DEF Windows
<1>3. d1 \in Quiet /\ d2 \in Quiet /\ d3 \in Quiet
  BY <1>1, QuietDiag, Zenon
<1>4. s1 \in Quiet /\ s3 \in Quiet
  BY <1>1, <1>2, QuietStep, Zenon
<1>5. t2 \in Quiet /\ t4 \in Quiet /\ t5 \in Quiet
  BY <1>1, <1>2, QuietTunables, Zenon
<1>6. w \in Quiet
  BY QuietPhycmnOn, QuietWhen, Zenon
<1> HIDE DEF d1, d2, d3, s1, s3, t2, t4, t5, w
<1>7. (((d1 \o s1) \o d2) \o t2) \o s3 \in Quiet
  <2>1. d1 \o s1 \in Quiet
    BY <1>3, <1>4, QuietConcat, Zenon
  <2>2. (d1 \o s1) \o d2 \in Quiet
    BY <2>1, <1>3, QuietConcat, Zenon
  <2>3. ((d1 \o s1) \o d2) \o t2 \in Quiet
    BY <2>2, <1>5, QuietConcat, Zenon
  <2> QED
    BY <2>3, <1>4, QuietConcat, Zenon
<1>8. (((((d1 \o s1) \o d2) \o t2) \o s3) \o t4) \o t5 \in Quiet
  <2>1. ((((d1 \o s1) \o d2) \o t2) \o s3) \o t4 \in Quiet
    BY <1>5, <1>7, QuietConcat, Zenon
  <2> QED
    BY <2>1, <1>5, QuietConcat, Zenon
<1> DEFINE half == (((((d1 \o s1) \o d2) \o t2) \o s3) \o t4) \o t5
<1> HIDE DEF half
<1>9. ((((half \o d3) \o NakedTest(b)) \o NakedApplies(b)) \o ExtraTunables(b)) \o w \in Quiet
  <2>1. half \o d3 \in Quiet
    BY <1>3, <1>8, QuietConcat, Zenon DEF half
  <2>2. (half \o d3) \o NakedTest(b) \in Quiet
    BY <2>1, QuietNakedTest, QuietConcat, Zenon
  <2>3. ((half \o d3) \o NakedTest(b)) \o NakedApplies(b) \in Quiet
    BY <2>2, QuietNakedApplies, QuietConcat, Zenon
  <2>4. (((half \o d3) \o NakedTest(b)) \o NakedApplies(b)) \o ExtraTunables(b) \in Quiet
    BY <2>3, QuietExtraTunables, QuietConcat, Zenon
  <2> QED
    BY <2>4, <1>6, QuietConcat, Zenon
<1> QED
  BY <1>9 DEF Before, half, d1, d2, d3, s1, s3, t2, t4, t5, w

\* What the invariant needs of the program.
LEMMA PlanInOrder ==
  ASSUME NEW b \in Boots
  PROVE  /\ Plan(b) \in Seq(Ops)
         /\ PollsFor(Plan(b), Handshakes) /\ InOrder(Plan(b), Handshakes)
         /\ EndsInPoll(Plan(b))
<1> DEFINE late == IF {"phycmn_first", "phycmn_early"} \cap b.flags = {} THEN PhycmnOn ELSE <<>>
           last == <<Step("8", "rc"), Step("9", "rc"), PollStep("10", "rc")>>
           p1 == Before(b) \o Handshake(b)
           p2 == p1 \o PhyifCtrl(b)
           p3 == p2 \o Early(b)
           p4 == p3 \o PhyIpTunables(b)
           p5 == p4 \o late
           Good(s) == s \in Seq(Ops) /\ InOrder(s, Handshakes) /\ PollsFor(s, Handshakes)
<1>1. p1 \in Quiet /\ PollsFor(p1, Handshakes)
  <2>1. /\ Before(b) \in Quiet /\ Handshake(b) \in Quiet
        /\ PollsFor(Handshake(b), Handshakes)
    BY QuietBefore, HandshakePolls, Zenon
  <2> QED
    BY <2>1, QuietConcat, QuietInOrder, PollsForConcat, Zenon
<1>2. Good(p1)
  BY <1>1, QuietInOrder, Zenon
<1>3. ASSUME NEW s, Good(s), NEW t \in Seq(Ops)
      PROVE  Good(s \o t)
  BY <1>3, OrderConcat, ConcatOps, Zenon
<1>4. PhyifCtrl(b) \in Seq(Ops) /\ Early(b) \in Seq(Ops)
  BY QuietPhyifCtrl, QuietEarly DEF Quiet
<1>5. late \in Seq(Ops)
  BY QuietPhycmnOn, QuietEmpty DEF Quiet
<1>6. last \in Seq(Ops) /\ EndsInPoll(last)
  <2>1. "8" \in Labels /\ "9" \in Labels /\ "10" \in Labels /\ "rc" \in Windows
        /\ "rc" # "phy_ip"
    BY DEF Labels, Steps, Windows
  <2>2. /\ Step("8", "rc") \in Ops /\ Step("9", "rc") \in Ops
        /\ PollStep("10", "rc") \in Ops
    BY <2>1, QuietCalls, Zenon
  <2>3. last \in Seq(Ops)
    BY <2>2, ThreeOfOps, Zenon
  <2>4. Len(last) = 3 /\ last # <<>> /\ last[3] = PollStep("10", "rc")
    OBVIOUS
  <2> QED
    BY <2>3, <2>4 DEF EndsInPoll, PollStep, Op
<1>7. Good(p4)
  <2> HIDE DEF Good, p1
  <2>1. Good(p2)
    BY <1>2, <1>3, <1>4, Zenon
  <2>2. Good(p3)
    <3> HIDE DEF p2
    <3> QED
      BY <2>1, <1>3, <1>4, Zenon
  <2> HIDE DEF p3
  <2> QED
    BY <2>2, <1>3, PhyIpTunablesOps, Zenon
<1>8. Good(p5)
  <2> HIDE DEF Good, p4, late
  <2> QED
    BY <1>3, <1>5, <1>7, Zenon
<1>9. Good(p5 \o last) /\ EndsInPoll(p5 \o last)
  <2>1. Good(p5 \o last)
    <3> HIDE DEF Good, p5, last
    <3> QED
      BY <1>3, <1>6, <1>8, Zenon
  <2> HIDE DEF p5, last
  <2> QED
    BY <2>1, <1>6, <1>8, EndConcat, Zenon
<1> QED
  BY <1>9 DEF Plan, Before

-----------------------------------------------------------------------------
(* The inductive invariant.                                                *)

\* What is left of the program is still in order, and still polls for the
\* acknowledgements that are missing.
ProgramInv ==
    /\ todo \in Seq(Ops)
    /\ PollsFor(todo, Handshakes \ acks) /\ InOrder(todo, Handshakes \ acks)
    /\ todo # <<>> => EndsInPoll(todo)

\* A phase that ran out of calls ended in a poll that converged.
OutcomeInv ==
    /\ result = "asked" => todo # <<>>
    /\ result \in {"running", "up"} => flagD /\ rcAxi # "bad"
    /\ result \in {"running", "up"} /\ todo = <<>> => alive /\ ~pending
    /\ result = "up" => todo = <<>>

ReachInv == offsets \subseteq Live

PhaseInv == TypeOK /\ ProgramInv /\ OutcomeInv /\ ReachInv

LEMMA OpType ==
  ASSUME ProgramInv, todo # <<>>
  PROVE  op \in Ops /\ op = todo[1] /\ 1 \in 1 .. Len(todo)
<1>1. todo \in Seq(Ops)
  BY DEF ProgramInv
<1>2. Head(todo) = todo[1] /\ 1 \in 1 .. Len(todo)
  BY <1>1
<1> QED
  BY <1>1, <1>2, ElementOfSeq DEF op

\* A call that ends the phase leaves the program as it is.
LEMMA Stays ==
  ASSUME ProgramInv, todo' = todo, acks \subseteq acks'
  PROVE  ProgramInv'
<1>1. Handshakes \ acks' \subseteq Handshakes \ acks
  OBVIOUS
<1>2. PollsFor(todo, Handshakes \ acks') /\ InOrder(todo, Handshakes \ acks')
  BY <1>1 DEF ProgramInv, PollsFor, InOrder
<1> QED
  BY <1>2 DEF ProgramInv

LEMMA Advances ==
  ASSUME ProgramInv, todo # <<>>, todo' = Tail(todo), acks \subseteq acks',
         op.kind = "poll" /\ op.label \in Handshakes => op.label \in acks'
  PROVE  ProgramInv' /\ (todo' = <<>> => op.kind = "poll")
<1>1. Handshakes \ acks' \subseteq Handshakes \ acks
  OBVIOUS
<1>2. \A h \in Handshakes \ acks' : ~Acks(todo, 1, h)
  BY OpType DEF Acks
<1>3. /\ todo \in Seq(Ops) /\ EndsInPoll(todo)
      /\ PollsFor(todo, Handshakes \ acks) /\ InOrder(todo, Handshakes \ acks)
  BY DEF ProgramInv
<1>4. /\ Tail(todo) \in Seq(Ops)
      /\ PollsFor(Tail(todo), Handshakes \ acks') /\ InOrder(Tail(todo), Handshakes \ acks')
      /\ Tail(todo) # <<>> => EndsInPoll(Tail(todo))
      /\ Tail(todo) = <<>> => Head(todo).kind = "poll"
  BY <1>1, <1>2, <1>3, Advance, Zenon
<1> QED
  BY <1>4 DEF ProgramInv, op

\* The calls in a program of Ops have the kinds TypeOK names.
LEMMA KindsOfOps ==
  ASSUME NEW s \in Seq(Ops)
  PROVE  \A i \in DOMAIN s : s[i].kind \in Kinds
<1>1. DOMAIN s = 1 .. Len(s) /\ \A i \in 1 .. Len(s) : s[i] \in Ops
  BY ElementOfSeq
<1> QED
  BY <1>1 DEF Ops

LEMMA InitPhase ==
  ASSUME Init
  PROVE  PhaseInv
<1>1. boot \in Boots /\ todo = Plan(boot) /\ acks = {}
  BY DEF Init
<1>2. Handshakes \ acks = Handshakes
  BY <1>1
<1>3. ProgramInv /\ todo # <<>>
  <2>1. /\ Plan(boot) \in Seq(Ops) /\ EndsInPoll(Plan(boot))
        /\ PollsFor(Plan(boot), Handshakes) /\ InOrder(Plan(boot), Handshakes)
    BY <1>1, PlanInOrder, Zenon
  <2> QED
    BY <1>1, <1>2, <2>1 DEF ProgramInv, EndsInPoll
<1>4. TypeOK
  <2>1. \A i \in DOMAIN todo : todo[i].kind \in Kinds
    BY <1>3, KindsOfOps DEF ProgramInv
  <2> QED
    BY <2>1 DEF Init, TypeOK
<1>5. OutcomeInv /\ ReachInv
  BY <1>3 DEF Init, OutcomeInv, ReachInv
<1> QED
  BY <1>3, <1>4, <1>5 DEF PhaseInv

\* The parts of TypeOK and ReachInv that an access changes.
LEMMA IssuedType ==
  ASSUME TypeOK, ProgramInv, ReachInv, todo # <<>>, Issued \/ NotIssued
  PROVE  early' \in Nat /\ offsets' \subseteq Nat /\ ReachInv'
<1>1. op.spread \in SUBSET Live
  BY OpType DEF Ops
<1>2. early \in Nat /\ offsets \subseteq Live
  BY DEF TypeOK, ReachInv
<1>3. early' \in {early, early + 1} /\ offsets' \in {offsets, offsets \cup op.spread}
  <2>1. CASE Issued
    BY <2>1 DEF Issued
  <2>2. CASE NotIssued
    BY <2>2 DEF NotIssued
  <2> QED
    BY <2>1, <2>2
<1>4. early' \in Nat
  BY <1>2, <1>3
<1>5. offsets' \subseteq Live
  BY <1>1, <1>2, <1>3
<1>6. offsets' \subseteq Nat
  BY <1>5 DEF Live
<1> QED
  BY <1>4, <1>5, <1>6 DEF ReachInv

\* What every call that is made owes to the invariant.
LEMMA CallKeeps ==
  ASSUME PhaseInv, result = "running", todo # <<>>, Fixed,
         Issued \/ NotIssued,
         alive' \in BOOLEAN, pending' \in BOOLEAN, phyIpBad' \in BOOLEAN, reach' \in BOOLEAN,
         lastStep' \in {lastStep, op.label},
         acks \subseteq acks', acks' \subseteq Handshakes,
         \/ result' \in {"stopped", "escaped"} /\ todo' = todo
         \/ /\ result' = "running" /\ todo' = Tail(todo)
            /\ op.kind = "poll" =>
                  /\ op.label \in Handshakes => op.label \in acks'
                  /\ alive' /\ ~pending'
  PROVE  PhaseInv'
<1>1. TypeOK /\ ProgramInv /\ OutcomeInv /\ ReachInv
  BY DEF PhaseInv
<1>2. early' \in Nat /\ offsets' \subseteq Nat /\ ReachInv'
  BY <1>1, IssuedType
<1>3. ProgramInv' /\ (result' = "running" /\ todo' = <<>> => op.kind = "poll")
  <2>1. CASE result' \in {"stopped", "escaped"} /\ todo' = todo
    BY <1>1, <2>1, Stays
  <2>2. CASE result' = "running" /\ todo' = Tail(todo)
    BY <1>1, <2>2, Advances
  <2> QED
    BY <2>1, <2>2
<1>4. op.label \in Labels
  BY <1>1, OpType DEF Ops
<1>5. \A i \in DOMAIN todo' : todo'[i].kind \in Kinds
  <2>1. todo' \in Seq(Ops)
    BY <1>3 DEF ProgramInv
  <2> QED
    BY <2>1, KindsOfOps
<1>6. /\ lastStep' \in Labels \cup {NotStarted, Complete}
      /\ result' \in {"asked", "running", "skipped", "stopped", "escaped", "up"}
      /\ boot' \in Boots /\ flagD' \in BOOLEAN /\ rcAxi' \in {"unset", "ok", "bad"}
  BY <1>1, <1>4 DEF TypeOK, Fixed
<1>7. TypeOK'
  BY <1>2, <1>5, <1>6 DEF TypeOK
<1>8. OutcomeInv'
  BY <1>1, <1>3 DEF OutcomeInv, Fixed
<1> QED
  BY <1>2, <1>3, <1>7, <1>8 DEF PhaseInv

LEMMA CheckedKeeps ==
  ASSUME PhaseInv, Checked
  PROVE  PhaseInv'
<1>1. /\ TypeOK /\ result = "running" /\ todo # <<>> /\ Fixed
      /\ lastStep' \in {lastStep, op.label}
  BY DEF PhaseInv, Checked, Running
<1>2. CASE ~alive /\ Escapes
  <2>1. /\ alive' \in BOOLEAN /\ pending' \in BOOLEAN /\ phyIpBad' \in BOOLEAN
        /\ reach' \in BOOLEAN /\ acks' = acks /\ acks' \subseteq Handshakes
        /\ result' = "escaped" /\ todo' = todo /\ NotIssued
    BY <1>1, <1>2 DEF Escapes, device, TypeOK
  <2> QED
    BY <1>1, <2>1, CallKeeps
<1>3. CASE alive /\ Issued /\ (\E o \in CheckedOutcomes : CheckedEffect(o))
           /\ UNCHANGED <<reach, phyIpBad>>
  <2>1. PICK o \in CheckedOutcomes : CheckedEffect(o)
    BY <1>3
  <2>2. /\ alive' \in BOOLEAN /\ pending' \in BOOLEAN /\ phyIpBad' \in BOOLEAN
        /\ reach' \in BOOLEAN
    BY <1>1, <1>3, <2>1 DEF CheckedEffect, TypeOK
  <2>3. acks \subseteq acks' /\ acks' \subseteq Handshakes
    BY <1>1, <2>1 DEF CheckedEffect, TypeOK
  <2>4. \/ result' \in {"stopped", "escaped"} /\ todo' = todo
        \/ /\ result' = "running" /\ todo' = Tail(todo)
           /\ op.kind = "poll" =>
                 /\ op.label \in Handshakes => op.label \in acks'
                 /\ alive' /\ ~pending'
    <3>1. CASE Converges(o)
      BY <2>1, <3>1 DEF CheckedEffect, Converges, Goes
    <3>2. CASE ~Converges(o)
      BY <2>1, <3>2 DEF CheckedEffect, Stops
    <3> QED
      BY <3>1, <3>2
  <2> QED
    BY <1>1, <1>3, <2>2, <2>3, <2>4, CallKeeps
<1> QED
  BY <1>2, <1>3 DEF Checked

LEMMA PeeksKeep ==
  ASSUME PhaseInv, Peeks
  PROVE  PhaseInv'
<1>1. /\ TypeOK /\ result = "running" /\ todo # <<>> /\ Fixed
      /\ lastStep' \in {lastStep, op.label} /\ op.kind # "poll"
  BY DEF PhaseInv, Peeks, Running
<1>2. /\ alive' \in BOOLEAN /\ pending' \in BOOLEAN /\ phyIpBad' \in BOOLEAN
      /\ reach' \in BOOLEAN /\ acks' = acks /\ acks' \subseteq Handshakes
  BY <1>1 DEF Peeks, Escapes, device, TypeOK
<1>3. /\ Issued \/ NotIssued
      /\ \/ result' \in {"stopped", "escaped"} /\ todo' = todo
         \/ result' = "running" /\ todo' = Tail(todo)
  BY DEF Peeks, Escapes, Goes
<1> QED
  BY <1>1, <1>2, <1>3, CallKeeps

LEMMA ProbesKeep ==
  ASSUME PhaseInv, Probes
  PROVE  PhaseInv'
<1>1. /\ TypeOK /\ result = "running" /\ todo # <<>> /\ Fixed
      /\ lastStep' \in {lastStep, op.label} /\ op.kind # "poll"
  BY DEF PhaseInv, Probes, Running, ProbeKinds
<1>2. /\ alive' \in BOOLEAN /\ pending' \in BOOLEAN /\ phyIpBad' \in BOOLEAN
      /\ reach' \in BOOLEAN /\ acks' = acks /\ acks' \subseteq Handshakes
  BY <1>1 DEF Probes, TypeOK
<1>3. /\ Issued \/ NotIssued
      /\ result' = "running" /\ todo' = Tail(todo)
  BY DEF Probes, Goes
<1> QED
  BY <1>1, <1>2, <1>3, CallKeeps

LEMMA NakedReadsKeep ==
  ASSUME PhaseInv, NakedReads
  PROVE  PhaseInv'
<1>1. /\ TypeOK /\ result = "running" /\ todo # <<>> /\ Fixed
      /\ lastStep' \in {lastStep, op.label} /\ op.kind # "poll"
  BY DEF PhaseInv, NakedReads, Running
<1>2. /\ alive' \in BOOLEAN /\ pending' \in BOOLEAN /\ phyIpBad' \in BOOLEAN
      /\ reach' \in BOOLEAN /\ acks' = acks /\ acks' \subseteq Handshakes
  <2>1. alive' \in BOOLEAN
    <3>1. \/ alive' = alive
          \/ \E o \in Outcomes : alive' = (o \in {"ok", "raise"})
      BY Zenon DEF NakedReads
    <3>2. ASSUME NEW o, alive' = (o \in {"ok", "raise"})
          PROVE  alive' \in BOOLEAN
      BY <3>2
    <3> QED
      BY <1>1, <3>1, <3>2, Zenon DEF TypeOK
  <2>2. UNCHANGED <<pending, phyIpBad, lastStep, reach, acks>>
    BY DEF NakedReads
  <2> QED
    BY <1>1, <2>1, <2>2 DEF TypeOK
<1>3. /\ Issued \/ NotIssued
      /\ \/ result' \in {"stopped", "escaped"} /\ todo' = todo
         \/ result' = "running" /\ todo' = Tail(todo)
  BY DEF NakedReads, Goes, Stops
<1> QED
  BY <1>1, <1>2, <1>3, CallKeeps

LEMMA VerifiesKeep ==
  ASSUME PhaseInv, Verifies
  PROVE  PhaseInv'
<1>1. /\ TypeOK /\ result = "running" /\ todo # <<>> /\ Fixed
      /\ lastStep' \in {lastStep, op.label} /\ op.kind # "poll"
  BY DEF PhaseInv, Verifies, Running
<1>2. /\ alive' \in BOOLEAN /\ pending' \in BOOLEAN /\ phyIpBad' \in BOOLEAN
      /\ reach' \in BOOLEAN /\ acks' = acks /\ acks' \subseteq Handshakes
  BY <1>1 DEF Verifies, Escapes, device, TypeOK
<1>3. /\ Issued \/ NotIssued
      /\ \/ result' \in {"stopped", "escaped"} /\ todo' = todo
         \/ result' = "running" /\ todo' = Tail(todo)
  BY DEF Verifies, Escapes, Goes, Stops
<1> QED
  BY <1>1, <1>2, <1>3, CallKeeps

LEMMA PassesOverKeeps ==
  ASSUME PhaseInv, PassesOver
  PROVE  PhaseInv'
<1>1. /\ TypeOK /\ result = "running" /\ todo # <<>> /\ Fixed
      /\ lastStep' \in {lastStep, op.label} /\ op.kind # "poll"
  BY DEF PhaseInv, PassesOver, Running
<1>2. /\ alive' \in BOOLEAN /\ pending' \in BOOLEAN /\ phyIpBad' \in BOOLEAN
      /\ reach' \in BOOLEAN /\ acks' = acks /\ acks' \subseteq Handshakes
  BY <1>1 DEF PassesOver, device, history, TypeOK
<1>3. NotIssued /\ result' = "running" /\ todo' = Tail(todo)
  BY DEF PassesOver, Goes, history, NotIssued
<1> QED
  BY <1>1, <1>2, <1>3, CallKeeps

\* The steps that make no call.
LEMMA EnterKeeps ==
  ASSUME PhaseInv, Enter
  PROVE  PhaseInv'
<1>1. TypeOK /\ ProgramInv /\ OutcomeInv /\ ReachInv
  BY DEF PhaseInv
<1>2. /\ todo' = todo /\ acks' = acks
      /\ UNCHANGED <<boot, flagD, rcAxi, alive, pending, phyIpBad, reach, early, offsets>>
  BY DEF Enter, device, history
<1>3. ProgramInv'
  BY <1>1, <1>2, Stays
<1>4. TypeOK'
  BY <1>1, <1>2 DEF Enter, TypeOK
<1>5. OutcomeInv' /\ ReachInv'
  BY <1>1, <1>2 DEF Enter, OutcomeInv, ReachInv
<1> QED
  BY <1>3, <1>4, <1>5 DEF PhaseInv

LEMMA SucceedsKeeps ==
  ASSUME PhaseInv, Succeeds
  PROVE  PhaseInv'
<1>1. TypeOK /\ ProgramInv /\ OutcomeInv /\ ReachInv
  BY DEF PhaseInv
<1>2. /\ todo' = todo /\ acks' = acks
      /\ UNCHANGED <<boot, flagD, rcAxi, alive, pending, phyIpBad, reach, early, offsets>>
  BY DEF Succeeds, device, history
<1>3. ProgramInv'
  BY <1>1, <1>2, Stays
<1>4. TypeOK'
  BY <1>1, <1>2 DEF Succeeds, TypeOK
<1>5. OutcomeInv' /\ ReachInv'
  BY <1>1, <1>2 DEF Succeeds, OutcomeInv, ReachInv
<1> QED
  BY <1>3, <1>4, <1>5 DEF PhaseInv

LEMMA StepKeeps ==
  ASSUME PhaseInv, [Next]_vars
  PROVE  PhaseInv'
<1>1. CASE Next
  BY <1>1, EnterKeeps, CheckedKeeps, PeeksKeep, ProbesKeep, NakedReadsKeep, VerifiesKeep,
     PassesOverKeeps, SucceedsKeeps, Zenon DEF Next
<1>2. CASE UNCHANGED vars
  <2>1. UNCHANGED <<boot, flagD, rcAxi, result, todo, alive, pending, phyIpBad, lastStep,
                    reach, acks, early, offsets>>
    BY <1>2 DEF vars, device, history
  <2> QED
    BY <2>1 DEF PhaseInv, TypeOK, ProgramInv, OutcomeInv, ReachInv
<1> QED
  BY <1>1, <1>2

-----------------------------------------------------------------------------
(* The theorems.                                                           *)

\* At every point of the phase what is left of the program is in order; and
\* every variable has its type.
THEOREM PhaseInOrder == Spec => []PhaseInv
<1>1. Init => PhaseInv
  BY InitPhase
<1>2. PhaseInv /\ [Next]_vars => PhaseInv'
  BY StepKeeps
<1> QED
  BY <1>1, <1>2, PTL DEF Spec

\* Every variable of the phase has its type, whatever the boot and the hardware.
THEOREM PhaseTypeCorrect == Spec => []TypeOK
<1>1. PhaseInv => TypeOK
  BY DEF PhaseInv
<1> QED
  BY <1>1, PhaseInOrder, PTL

\* apcie.phaseF_shared_up is only set with m1n1 answering, no exception left
\* unaccounted for, and both acknowledgements polled to the end.
THEOREM SuccessIsEarned == Spec => []UpIsEarned
<1>1. ASSUME PhaseInv, result = "up"
      PROVE  alive /\ ~pending /\ acks = Handshakes /\ flagD /\ rcAxi # "bad"
  <2>1. todo = <<>> /\ alive /\ ~pending /\ flagD /\ rcAxi # "bad"
    BY <1>1 DEF PhaseInv, OutcomeInv
  <2>2. Handshakes \ acks = {}
    <3>1. Len(todo) = 0
      BY <2>1
    <3>2. \A h \in Handshakes \ acks : \E n \in 1 .. 0 : Acks(todo, n, h)
      BY <1>1, <3>1, Zenon DEF PhaseInv, ProgramInv, PollsFor
    <3> QED
      BY <3>2
  <2>3. acks \subseteq Handshakes
    BY <1>1 DEF PhaseInv, TypeOK
  <2> QED
    BY <2>1, <2>2, <2>3
<1>2. PhaseInv => UpIsEarned
  BY <1>1 DEF UpIsEarned
<1> QED
  BY <1>2, PhaseInOrder, PTL

\* With the device tree and the layout in agreement, no word of a port without a
\* bridge is reached, whatever the tunables hold and however they are applied.
THEOREM DeadSlicesUntouched ==
  ASSUME Layout
  PROVE  Spec => []InactiveSliceUntouched
<1>1. Layout
  OBVIOUS
<1>2. PhaseInv => InactiveSliceUntouched
  <2>1. SUFFICES ASSUME PhaseInv, NEW i \in Ports \ ActivePorts, NEW o \in offsets
                 PROVE  o \notin PhyExtra[i]
    BY DEF InactiveSliceUntouched
  <2>2. o \in Live
    BY <2>1 DEF PhaseInv, ReachInv
  <2> QED
    BY <1>1, <2>1, <2>2 DEF Live
<1> QED
  BY <1>2, PhaseInOrder, PTL

\* No tunable of phy_ip is written, and no slice of it verified, before both
\* clock requests are acknowledged: what reaches phy_ip earlier is a diagnostic
\* probe, a read or the write of zero of --phy-ip-write-probe, for every set of
\* boots, those of RUN P among them.
THEOREM NothingBeforeHandshake == Spec => TunablesAfterHandshake
<1>1. ASSUME PhaseInv, [Next]_vars, early' # early
      PROVE  op.kind \in ProbeKinds
  <2>1. todo # <<>> /\ Issued
    BY <1>1 DEF Next, vars, Enter, Checked, Peeks, Probes, NakedReads, Verifies,
       PassesOver, Succeeds, Running, Escapes, NotIssued, history
  <2>2. "phy_ip" \in op.touches /\ acks # Handshakes
    BY <1>1, <2>1 DEF Issued
  <2>3. PICK h \in Handshakes : h \notin acks
    BY <1>1, <2>2 DEF PhaseInv, TypeOK
  <2>4. op = todo[1] /\ 1 \in 1 .. Len(todo)
    BY <1>1, <2>1, OpType DEF PhaseInv
  <2>5. SUFFICES ASSUME TouchesPhyIp(todo[1])
                 PROVE  FALSE
    BY <2>2, <2>4 DEF TouchesPhyIp
  <2>6. InOrder(todo, Handshakes \ acks)
    BY <1>1 DEF PhaseInv, ProgramInv
  <2>7. \E n \in 1 .. 1 - 1 : Acks(todo, n, h)
    BY <2>3, <2>4, <2>5, <2>6, Zenon DEF InOrder
  <2> QED
    BY <2>7
<1>2. PhaseInv /\ [Next]_vars => [early' # early => op.kind \in ProbeKinds]_vars
  BY <1>1
<1> QED
  BY <1>2, PhaseInOrder, PTL DEF Spec, TunablesAfterHandshake

-----------------------------------------------------------------------------
(* The one early touch: of the checkpoints before the handshake is through, *)
(* at most one is the boot's.                                               *)

\* The switches the argument parser lets through: neither form of the naked test
\* nor of step 5.8.b with the other, and one target for step 5.8.c.
ParserAccepts(b) ==
    /\ ~({"naked_write_test", "naked_readonly"} \subseteq b.flags)
    /\ ~({"pcieclkgen_naked", "set5_only"} \subseteq b.flags)
    /\ ~({"cio3_sub5", "cio3_common"} \subseteq b.flags)

\* A probe of phy_ip, read or write.
Chosen(o) == "phy_ip" \in o.touches /\ o.kind \in ProbeKinds

\* Programs whose checkpoints are among labels, each passed at most once: phy_ip is
\* probed if at is one of them, and then once.
Selects(at, labels) ==
    {s \in Seq(Ops) :
        /\ \A i \in 1 .. Len(s) : Chosen(s[i]) => at \in labels
        /\ \A i, j \in 1 .. Len(s) : Chosen(s[i]) /\ Chosen(s[j]) => i = j}

Given(b, flag, labels) == IF flag \in b.flags THEN labels ELSE {}

LEMMA SelectsEmpty ==
  ASSUME NEW at, NEW labels
  PROVE  <<>> \in Selects(at, labels)
  BY DEF Selects

\* Calls that leave phy_ip alone.
LEMMA SelectsPlain ==
  ASSUME NEW at, NEW s \in Seq(Ops), \A i \in 1 .. Len(s) : "phy_ip" \notin s[i].touches
  PROVE  s \in Selects(at, {})
  BY DEF Selects, Chosen

LEMMA SelectsOne ==
  ASSUME NEW at, NEW o \in Ops, "phy_ip" \notin o.touches
  PROVE  <<o>> \in Selects(at, {})
  BY DEF Selects, Chosen

LEMMA SelectsTwo ==
  ASSUME NEW at, NEW o1 \in Ops, "phy_ip" \notin o1.touches,
         NEW o2 \in Ops, "phy_ip" \notin o2.touches
  PROVE  <<o1, o2>> \in Selects(at, {})
  BY DEF Selects, Chosen

LEMMA SelectsThree ==
  ASSUME NEW at, NEW o1 \in Ops, "phy_ip" \notin o1.touches,
         NEW o2 \in Ops, "phy_ip" \notin o2.touches,
         NEW o3 \in Ops, "phy_ip" \notin o3.touches
  PROVE  <<o1, o2, o3>> \in Selects(at, {})
  BY DEF Selects, Chosen

LEMMA SelectsMore ==
  ASSUME NEW at, NEW labels, NEW more, labels \subseteq more, NEW s \in Selects(at, labels)
  PROVE  s \in Selects(at, more)
  BY DEF Selects

LEMMA SelectsConcat ==
  ASSUME NEW at, NEW first, NEW second, first \cap second = {},
         NEW s \in Selects(at, first), NEW t \in Selects(at, second)
  PROVE  s \o t \in Selects(at, first \cup second)
<1>1. s \in Seq(Ops) /\ t \in Seq(Ops)
  BY DEF Selects
<1>2. /\ s \o t \in Seq(Ops)
      /\ Len(s \o t) = Len(s) + Len(t)
      /\ \A i \in 1 .. Len(s) + Len(t) :
            (s \o t)[i] = IF i <= Len(s) THEN s[i] ELSE t[i - Len(s)]
  BY <1>1, ConcatProperties, Zenon
<1>3. Len(s) \in Nat /\ Len(t) \in Nat
  BY <1>1
<1>4. ASSUME NEW i \in 1 .. Len(s) + Len(t), Chosen((s \o t)[i])
      PROVE  \/ i \in 1 .. Len(s) /\ Chosen(s[i]) /\ at \in first
             \/ i - Len(s) \in 1 .. Len(t) /\ Chosen(t[i - Len(s)]) /\ at \in second
  <2>1. CASE i <= Len(s)
    <3>1. i \in 1 .. Len(s) /\ (s \o t)[i] = s[i]
      BY <1>2, <1>3, <2>1
    <3> QED
      BY <1>4, <3>1 DEF Selects
  <2>2. CASE ~(i <= Len(s))
    <3>1. i - Len(s) \in 1 .. Len(t) /\ (s \o t)[i] = t[i - Len(s)]
      BY <1>2, <1>3, <2>2
    <3> QED
      BY <1>4, <3>1 DEF Selects
  <2> QED
    BY <2>1, <2>2
<1>5. ASSUME NEW i \in 1 .. Len(s) + Len(t), NEW j \in 1 .. Len(s) + Len(t),
             Chosen((s \o t)[i]), Chosen((s \o t)[j])
      PROVE  i = j
  <2>1. \/ i \in 1 .. Len(s) /\ Chosen(s[i]) /\ at \in first
        \/ i - Len(s) \in 1 .. Len(t) /\ Chosen(t[i - Len(s)]) /\ at \in second
    BY <1>4, <1>5
  <2>2. \/ j \in 1 .. Len(s) /\ Chosen(s[j]) /\ at \in first
        \/ j - Len(s) \in 1 .. Len(t) /\ Chosen(t[j - Len(s)]) /\ at \in second
    BY <1>4, <1>5
  <2>3. CASE at \in first
    <3>1. at \notin second
      BY <2>3
    <3> QED
      BY <2>1, <2>2, <3>1 DEF Selects
  <2>4. CASE at \notin first
    <3>1. i - Len(s) = j - Len(s)
      BY <2>1, <2>2, <2>4 DEF Selects
    <3> QED
      BY <1>3, <3>1
  <2> QED
    BY <2>3, <2>4
<1>6. \A i \in 1 .. Len(s) + Len(t) : Chosen((s \o t)[i]) => at \in first \cup second
  BY <1>4
<1> QED
  BY <1>2, <1>5, <1>6 DEF Selects

LEMMA SelectsWhen ==
  ASSUME NEW b, NEW flag, NEW labels, NEW s \in Selects(b.at, labels)
  PROVE  When(b, flag, s) \in Selects(b.at, Given(b, flag, labels))
  BY SelectsEmpty DEF When, Given

\* What stands before a checkpoint does not count.
LEMMA SelectsAfter ==
  ASSUME NEW at, NEW labels, NEW s \in Selects(at, {}), NEW t \in Selects(at, labels)
  PROVE  s \o t \in Selects(at, labels)
<1>1. s \o t \in Selects(at, {} \cup labels)
  BY SelectsConcat
<1>2. {} \cup labels = labels
  OBVIOUS
<1> QED
  BY <1>1, <1>2, Zenon

LEMMA SelectsBefore ==
  ASSUME NEW at, NEW labels, NEW s \in Selects(at, labels), NEW t \in Selects(at, {})
  PROVE  s \o t \in Selects(at, labels)
<1>1. s \o t \in Selects(at, labels \cup {})
  BY SelectsConcat
<1>2. labels \cup {} = labels
  OBVIOUS
<1> QED
  BY <1>1, <1>2, Zenon

\* A checkpoint.
LEMMA SelectsDiag ==
  ASSUME NEW b, NEW label \in Labels
  PROVE  Diag(b, label) \in Selects(b.at, {label})
<1> DEFINE look == <<Probe(label, {"phy_common"})>>
           scan == When(b, "reachable_scan", <<Probe(label, ScanWindows)>>)
           pick == IF b.at = label THEN <<PhyIpProbe(b, label)>> ELSE <<>>
<1>1. /\ {"phy_common"} \in SUBSET Windows
      /\ ScanWindows \in SUBSET Windows
      /\ "phy_ip" \notin {"phy_common"} /\ "phy_ip" \notin ScanWindows
  BY DEF ScanWindows, Windows
<1>2. /\ Probe(label, {"phy_common"}) \in Ops /\ Probe(label, ScanWindows) \in Ops
      /\ PhyIpProbe(b, label) \in Ops
  BY <1>1, QuietProbe, QuietPhyIpProbe, Zenon
<1>0. /\ "phy_ip" \notin Probe(label, {"phy_common"}).touches
      /\ "phy_ip" \notin Probe(label, ScanWindows).touches
  BY <1>1 DEF Probe, Op
<1>3. look \in Selects(b.at, {})
  BY <1>0, <1>2, SelectsOne, Zenon
<1>4. scan \in Selects(b.at, {})
  <2>1. <<Probe(label, ScanWindows)>> \in Selects(b.at, {})
    BY <1>0, <1>2, SelectsOne, Zenon
  <2> QED
    BY <2>1, SelectsEmpty DEF When
<1>5. pick \in Selects(b.at, {label})
  BY <1>2, SelectsEmpty DEF Selects
<1> HIDE DEF look, scan, pick
<1>6. (look \o scan) \o pick \in Selects(b.at, {label})
  BY <1>3, <1>4, <1>5, SelectsAfter, Zenon
<1>7. When(b, "phy_ip_diag", (look \o scan) \o pick) \in Selects(b.at, {label})
  BY <1>6, SelectsEmpty DEF When
<1> QED
  BY <1>7 DEF Diag, look, scan, pick

\* The shape of most optional parts.
LEMMA SelectsWhenDiag ==
  ASSUME NEW b, NEW flag, NEW label \in Labels, NEW s \in Selects(b.at, {})
  PROVE  When(b, flag, s \o Diag(b, label)) \in Selects(b.at, Given(b, flag, {label}))
<1>1. s \o Diag(b, label) \in Selects(b.at, {label})
  BY SelectsDiag, SelectsAfter, Zenon
<1> QED
  BY <1>1, SelectsWhen, Zenon

\* A tunables step and the calls around the naked test and the applies.
LEMMA SelectsCall ==
  ASSUME NEW at, NEW label \in Labels, NEW kind \in Kinds, NEW touches \in SUBSET Windows,
         "phy_ip" \notin touches
  PROVE  /\ Op(label, kind, touches, {Shared}) \in Ops
         /\ "phy_ip" \notin Op(label, kind, touches, {Shared}).touches
         /\ <<Op(label, kind, touches, {Shared})>> \in Selects(at, {})
<1>1. /\ Op(label, kind, touches, {Shared}) \in Ops
      /\ "phy_ip" \notin Op(label, kind, touches, {Shared}).touches
  BY HeadIsLive DEF Op, Ops
<1> QED
  BY <1>1, SelectsOne, Zenon

LEMMA SelectsStep ==
  ASSUME NEW at, NEW label \in Labels, NEW window \in Windows, window # "phy_ip"
  PROVE  /\ Step(label, window) \in Ops /\ "phy_ip" \notin Step(label, window).touches
         /\ PollStep(label, window) \in Ops /\ "phy_ip" \notin PollStep(label, window).touches
         /\ <<Step(label, window)>> \in Selects(at, {})
<1>1. "step" \in Kinds /\ "poll" \in Kinds
  BY DEF Kinds
<1>2. {window} \in SUBSET Windows /\ "phy_ip" \notin {window}
  OBVIOUS
<1> QED
  BY <1>1, <1>2, SelectsCall, Zenon DEF Step, PollStep

LEMMA SelectsTunables ==
  ASSUME NEW at, NEW label \in Labels, NEW prop, NEW window \in Windows, window # "phy_ip"
  PROVE  Tunables(label, prop, window) \in Selects(at, {})
<1>1. "absent" \in Kinds /\ {} \in SUBSET Windows /\ "phy_ip" \notin {}
  BY DEF Kinds
<1>2. <<Absent(label)>> \in Selects(at, {})
  BY <1>1, SelectsCall, Zenon DEF Absent
<1>3. <<Step(label, window)>> \in Selects(at, {})
  BY SelectsStep, Zenon
<1> QED
  BY <1>2, <1>3, Zenon DEF Tunables

LEMMA SelectsNakedTest ==
  ASSUME NEW b, ParserAccepts(b)
  PROVE  NakedTest(b) \in Selects(b.at, {"post-5.75.naked-write-test"})
<1> DEFINE label == "post-5.75.naked-write-test"
           calls == <<FirstTouch("5.75"), Probe("5.75", {"rc", "axi"})>>
           test == calls \o Diag(b, label)
           a == When(b, "naked_write_test", test)
           c == When(b, "naked_readonly", test)
           first == Given(b, "naked_write_test", {label})
           second == Given(b, "naked_readonly", {label})
<1>1. label \in Labels /\ "5.75" \in Labels
  BY DEF Labels, Steps, Checkpoints
<1>2. calls \in Selects(b.at, {})
  <2>1. /\ {"axi_sub5"} \in SUBSET Windows /\ "phy_ip" \notin {"axi_sub5"}
        /\ {"rc", "axi"} \in SUBSET Windows /\ "phy_ip" \notin {"rc", "axi"}
        /\ "first_touch" \in Kinds /\ "probe" \in Kinds
    BY DEF Windows, Kinds, ProbeKinds
  <2>2. FirstTouch("5.75") \in Ops /\ "phy_ip" \notin FirstTouch("5.75").touches
    BY <1>1, <2>1, SelectsCall, Zenon DEF FirstTouch
  <2>3. /\ Probe("5.75", {"rc", "axi"}) \in Ops
        /\ "phy_ip" \notin Probe("5.75", {"rc", "axi"}).touches
    BY <1>1, <2>1, SelectsCall, Zenon DEF Probe
  <2> QED
    BY <2>2, <2>3, SelectsTwo, Zenon
<1> HIDE DEF calls
<1>3. a \in Selects(b.at, first) /\ c \in Selects(b.at, second)
  BY <1>1, <1>2, SelectsWhenDiag, Zenon
<1>4. first \cap second = {} /\ first \cup second \subseteq {label}
  BY DEF ParserAccepts, Given
<1> HIDE DEF a, c, first, second
<1>5. a \o c \in Selects(b.at, first \cup second)
  BY <1>3, <1>4, SelectsConcat, Zenon
<1>6. a \o c \in Selects(b.at, {label})
  BY <1>4, <1>5, SelectsMore, Zenon
<1> QED
  BY <1>6, Zenon DEF NakedTest, a, c, calls

LEMMA SelectsNakedApplies ==
  ASSUME NEW b, ParserAccepts(b)
  PROVE  NakedApplies(b) \in Selects(b.at, {"post-5.8.a.axi2af-naked-apply",
                                            "post-5.8.b.pcieclkgen-naked-apply",
                                            "post-5.8.c.cio3pllcore-naked-apply"})
<1> DEFINE la == "post-5.8.a.axi2af-naked-apply"
           lb == "post-5.8.b.pcieclkgen-naked-apply"
           lc == "post-5.8.c.cio3pllcore-naked-apply"
           naked == Op("5.8.b", "gated_naked", {"axi_sub5"}, {Shared})
           step == Op("5.8.b", "gated_step", {"axi_sub5"}, {Shared})
           ca == <<Probe("5.8.a", {"axi"})>>
           cc == <<Gated("5.8.b")>>
           cd == <<naked, step, naked>>
           ce == <<Gated("5.8.c")>>
           cf == <<Probe("5.8.c", {"phy_common"})>>
           a == When(b, "axi2af_naked", ca \o Diag(b, la))
           c == When(b, "pcieclkgen_naked", cc \o Diag(b, lb))
           d == When(b, "set5_only", cd \o Diag(b, lb))
           e == When(b, "cio3_sub5", ce \o Diag(b, lc))
           f == When(b, "cio3_common", cf \o Diag(b, lc))
           sa == Given(b, "axi2af_naked", {la})
           sc == Given(b, "pcieclkgen_naked", {lb})
           sd == Given(b, "set5_only", {lb})
           se == Given(b, "cio3_sub5", {lc})
           sf == Given(b, "cio3_common", {lc})
           given == (((sa \cup sc) \cup sd) \cup se) \cup sf
           all == {la, lb, lc}
<1>1. /\ "5.8.a" \in Labels /\ "5.8.b" \in Labels /\ "5.8.c" \in Labels
      /\ la \in Labels /\ lb \in Labels /\ lc \in Labels
  BY DEF Labels, Steps, Checkpoints
<1>2. /\ {"axi"} \in SUBSET Windows /\ {"phy_common"} \in SUBSET Windows
      /\ {"axi_sub5"} \in SUBSET Windows
      /\ "phy_ip" \notin {"axi"} /\ "phy_ip" \notin {"phy_common"}
      /\ "phy_ip" \notin {"axi_sub5"}
      /\ "probe" \in Kinds /\ "gated" \in Kinds /\ "gated_naked" \in Kinds
      /\ "gated_step" \in Kinds
  BY DEF Windows, Kinds, ProbeKinds
<1>3. ca \in Selects(b.at, {}) /\ cf \in Selects(b.at, {})
  BY <1>1, <1>2, SelectsCall, Zenon DEF Probe
<1>4. cc \in Selects(b.at, {}) /\ ce \in Selects(b.at, {})
  BY <1>1, <1>2, SelectsCall, Zenon DEF Gated
<1>5. cd \in Selects(b.at, {})
  <2>1. naked \in Ops /\ "phy_ip" \notin naked.touches
    BY <1>1, <1>2, SelectsCall, Zenon
  <2>2. step \in Ops /\ "phy_ip" \notin step.touches
    BY <1>1, <1>2, SelectsCall, Zenon
  <2> HIDE DEF naked, step
  <2> QED
    BY <2>1, <2>2, SelectsThree, Zenon
<1> HIDE DEF ca, cc, cd, ce, cf
<1>6. /\ a \in Selects(b.at, sa) /\ c \in Selects(b.at, sc)
      /\ d \in Selects(b.at, sd) /\ e \in Selects(b.at, se) /\ f \in Selects(b.at, sf)
  BY <1>1, <1>3, <1>4, <1>5, SelectsWhenDiag, Zenon
<1>7. /\ sa \cap sc = {} /\ (sa \cup sc) \cap sd = {} /\ ((sa \cup sc) \cup sd) \cap se = {}
      /\ (((sa \cup sc) \cup sd) \cup se) \cap sf = {}
      /\ given \subseteq all
  BY DEF ParserAccepts, Given
<1> HIDE DEF a, c, d, e, f, sa, sc, sd, se, sf, la, lb, lc, all
<1>8. (a \o c) \o d \in Selects(b.at, (sa \cup sc) \cup sd)
  <2>1. a \o c \in Selects(b.at, sa \cup sc)
    BY <1>6, <1>7, SelectsConcat, Zenon
  <2> QED
    BY <2>1, <1>6, <1>7, SelectsConcat, Zenon
<1>9. (((a \o c) \o d) \o e) \o f \in Selects(b.at, given)
  <2>1. ((a \o c) \o d) \o e \in Selects(b.at, ((sa \cup sc) \cup sd) \cup se)
    BY <1>6, <1>7, <1>8, SelectsConcat, Zenon
  <2> QED
    BY <2>1, <1>6, <1>7, SelectsConcat, Zenon DEF given
<1> HIDE DEF given
<1>10. (((a \o c) \o d) \o e) \o f \in Selects(b.at, all)
  BY <1>7, <1>9, SelectsMore, Zenon
<1> QED
  BY <1>10, Zenon
     DEF NakedApplies, a, c, d, e, f, ca, cc, cd, ce, cf, naked, step, la, lb, lc, all

LEMMA SelectsExtraTunables ==
  ASSUME NEW b
  PROVE  ExtraTunables(b) \in Selects(b.at, {"post-5.5.extra-tunables"})
<1> DEFINE label == "post-5.5.extra-tunables"
           a == IF "only_pcieclkgen" \in b.flags THEN <<>>
                ELSE Tunables("5.5.a", "cio3pllcore", "rc")
           c == IF "only_cio3pllcore" \in b.flags THEN <<>>
                ELSE Tunables("5.5.b", "pcieclkgen", "rc")
           given == Given(b, "extra_tunables", {label})
           all == {label}
<1>1. "5.5.a" \in Labels /\ "5.5.b" \in Labels /\ label \in Labels
  BY DEF Labels, Steps, Checkpoints
<1>2. "rc" \in Windows /\ "rc" # "phy_ip"
  BY DEF Windows
<1>3. /\ Tunables("5.5.a", "cio3pllcore", "rc") \in Selects(b.at, {})
      /\ Tunables("5.5.b", "pcieclkgen", "rc") \in Selects(b.at, {})
  BY <1>1, <1>2, SelectsTunables, Zenon
<1>4. a \in Selects(b.at, {}) /\ c \in Selects(b.at, {})
  BY <1>3, SelectsEmpty
<1> HIDE DEF a, c
<1>5. a \o c \in Selects(b.at, {})
  BY <1>4, SelectsAfter, Zenon
<1>6. When(b, "extra_tunables", (a \o c) \o Diag(b, label))
         \in Selects(b.at, given)
  BY <1>1, <1>5, SelectsWhenDiag, Zenon
<1>7. given \subseteq all
  BY DEF Given
<1> HIDE DEF given, all
<1>8. When(b, "extra_tunables", (a \o c) \o Diag(b, label)) \in Selects(b.at, all)
  BY <1>6, <1>7, SelectsMore, Zenon
<1> QED
  BY <1>8, Zenon DEF ExtraTunables, a, c, all

\* The checkpoints of the phase up to the handshake, each passed at most once.
EarlyCheckpoints ==
    {"F.entry", "post-1.pmgr", "post-5.phy-tunables", "post-5.75.naked-write-test",
     "post-5.8.a.axi2af-naked-apply", "post-5.8.b.pcieclkgen-naked-apply",
     "post-5.8.c.cio3pllcore-naked-apply", "post-5.5.extra-tunables"}

LEMMA SelectsBeforeHandshake ==
  ASSUME NEW b, ParserAccepts(b)
  PROVE  Before(b) \in Selects(b.at, EarlyCheckpoints)
<1> DEFINE d1 == Diag(b, "F.entry")
           d2 == Diag(b, "post-1.pmgr")
           d3 == Diag(b, "post-5.phy-tunables")
           s1 == <<Step("1", "pmgr")>>
           s3 == <<Step("3", "rc")>>
           t2 == Tunables("2", "axi2af", "axi")
           t4 == Tunables("4", "common", "rc")
           t5 == Tunables("5", "phy", "phy_common")
           w == When(b, "phycmn_first", PhycmnOn)
           l1 == {"F.entry"}
           l2 == {"post-1.pmgr"}
           l3 == {"post-5.phy-tunables"}
           l4 == {"post-5.75.naked-write-test"}
           l5 == {"post-5.8.a.axi2af-naked-apply", "post-5.8.b.pcieclkgen-naked-apply",
                  "post-5.8.c.cio3pllcore-naked-apply"}
           l6 == {"post-5.5.extra-tunables"}
<1>1. /\ "1" \in Labels /\ "2" \in Labels /\ "3" \in Labels /\ "4" \in Labels
      /\ "5" \in Labels /\ "7" \in Labels
      /\ "F.entry" \in Labels /\ "post-1.pmgr" \in Labels
      /\ "post-5.phy-tunables" \in Labels
  BY DEF Labels, Steps, Checkpoints
<1>2. /\ "pmgr" \in Windows /\ "rc" \in Windows /\ "axi" \in Windows
      /\ "phy_common" \in Windows
      /\ "pmgr" # "phy_ip" /\ "rc" # "phy_ip" /\ "axi" # "phy_ip"
      /\ "phy_common" # "phy_ip"
  BY DEF Windows
<1>3. d1 \in Selects(b.at, l1) /\ d2 \in Selects(b.at, l2) /\ d3 \in Selects(b.at, l3)
  BY <1>1, SelectsDiag, Zenon
<1>4. s1 \in Selects(b.at, {}) /\ s3 \in Selects(b.at, {})
  BY <1>1, <1>2, SelectsStep, Zenon
<1>5. /\ t2 \in Selects(b.at, {}) /\ t4 \in Selects(b.at, {}) /\ t5 \in Selects(b.at, {})
  BY <1>1, <1>2, SelectsTunables, Zenon
<1>6. w \in Selects(b.at, {})
  <2>1. PhycmnOn \in Selects(b.at, {})
    BY <1>1, <1>2, SelectsStep, Zenon DEF PhycmnOn
  <2> QED
    BY <2>1, SelectsEmpty DEF When
<1>7. /\ NakedTest(b) \in Selects(b.at, l4) /\ NakedApplies(b) \in Selects(b.at, l5)
      /\ ExtraTunables(b) \in Selects(b.at, l6)
  BY SelectsNakedTest, SelectsNakedApplies, SelectsExtraTunables, Zenon
<1>8. /\ l1 \cap l2 = {} /\ (l1 \cup l2) \cap l3 = {} /\ ((l1 \cup l2) \cup l3) \cap l4 = {}
      /\ (((l1 \cup l2) \cup l3) \cup l4) \cap l5 = {}
      /\ ((((l1 \cup l2) \cup l3) \cup l4) \cup l5) \cap l6 = {}
      /\ ((((l1 \cup l2) \cup l3) \cup l4) \cup l5) \cup l6 = EarlyCheckpoints
  BY DEF EarlyCheckpoints
<1> HIDE DEF d1, d2, d3, s1, s3, t2, t4, t5, w, l1, l2, l3, l4, l5, l6
<1>9. ((((((d1 \o s1) \o d2) \o t2) \o s3) \o t4) \o t5) \in Selects(b.at, l1 \cup l2)
  <2>1. d1 \o s1 \in Selects(b.at, l1)
    BY <1>3, <1>4, SelectsBefore, Zenon
  <2>2. (d1 \o s1) \o d2 \in Selects(b.at, l1 \cup l2)
    BY <2>1, <1>3, <1>8, SelectsConcat, Zenon
  <2>3. ((d1 \o s1) \o d2) \o t2 \in Selects(b.at, l1 \cup l2)
    BY <2>2, <1>5, SelectsBefore, Zenon
  <2>4. (((d1 \o s1) \o d2) \o t2) \o s3 \in Selects(b.at, l1 \cup l2)
    BY <2>3, <1>4, SelectsBefore, Zenon
  <2>5. ((((d1 \o s1) \o d2) \o t2) \o s3) \o t4 \in Selects(b.at, l1 \cup l2)
    BY <2>4, <1>5, SelectsBefore, Zenon
  <2> QED
    BY <2>5, <1>5, SelectsBefore, Zenon
<1> DEFINE half == (((((d1 \o s1) \o d2) \o t2) \o s3) \o t4) \o t5
<1> HIDE DEF half
<1>10. ((((half \o d3) \o NakedTest(b)) \o NakedApplies(b)) \o ExtraTunables(b)) \o w
          \in Selects(b.at, EarlyCheckpoints)
  <2>1. half \o d3 \in Selects(b.at, (l1 \cup l2) \cup l3)
    BY <1>3, <1>8, <1>9, SelectsConcat, Zenon DEF half
  <2>2. (half \o d3) \o NakedTest(b) \in Selects(b.at, ((l1 \cup l2) \cup l3) \cup l4)
    BY <2>1, <1>7, <1>8, SelectsConcat, Zenon
  <2>3. ((half \o d3) \o NakedTest(b)) \o NakedApplies(b)
           \in Selects(b.at, (((l1 \cup l2) \cup l3) \cup l4) \cup l5)
    BY <2>2, <1>7, <1>8, SelectsConcat, Zenon
  <2>4. (((half \o d3) \o NakedTest(b)) \o NakedApplies(b)) \o ExtraTunables(b)
           \in Selects(b.at, ((((l1 \cup l2) \cup l3) \cup l4) \cup l5) \cup l6)
    BY <2>3, <1>7, <1>8, SelectsConcat, Zenon
  <2>5. (((half \o d3) \o NakedTest(b)) \o NakedApplies(b)) \o ExtraTunables(b)
           \in Selects(b.at, EarlyCheckpoints)
    BY <2>4, <1>8, Zenon
  <2> QED
    BY <2>5, <1>6, SelectsBefore, Zenon
<1> QED
  BY <1>10, Zenon DEF Before, half, d1, d2, d3, s1, s3, t2, t4, t5, w

\* The two checkpoints of the handshake.
LEMMA SelectsHandshake ==
  ASSUME NEW b
  PROVE  Handshake(b) \in Selects(b.at, {"post-6.b.CLK0ACK", "post-6.d.CLK1ACK"})
<1> DEFINE a == <<Step("6.a", "phy_shared"), PollStep("6.b", "phy_shared")>>
           c == Diag(b, "post-6.b.CLK0ACK")
           d == <<Step("6.c", "phy_shared"), PollStep("6.d", "phy_shared")>>
           e == Diag(b, "post-6.d.CLK1ACK")
           f == <<Step("6.e", "phy_shared"), Peek("6.f.pre", "phy_shared"),
                  Step("6.f", "phy_shared"), Peek("6.f.post", "phy_shared")>>
           first == {"post-6.b.CLK0ACK"}
           second == {"post-6.d.CLK1ACK"}
<1>1. /\ "6.a" \in Labels /\ "6.b" \in Labels /\ "6.c" \in Labels /\ "6.d" \in Labels
      /\ "6.e" \in Labels /\ "6.f.pre" \in Labels /\ "6.f" \in Labels
      /\ "6.f.post" \in Labels
      /\ "post-6.b.CLK0ACK" \in Labels /\ "post-6.d.CLK1ACK" \in Labels
  BY DEF Labels, Steps, Checkpoints
<1>2. /\ "phy_shared" \in Windows /\ "phy_shared" # "phy_ip"
      /\ {"phy_shared"} \in SUBSET Windows /\ "phy_ip" \notin {"phy_shared"}
      /\ "peek" \in Kinds
  BY DEF Windows, Kinds
<1>3. a \in Selects(b.at, {}) /\ d \in Selects(b.at, {})
  BY <1>1, <1>2, SelectsStep, SelectsTwo, Zenon
<1>4. f \in Selects(b.at, {})
  <2>1. /\ Step("6.e", "phy_shared") \in Ops /\ Step("6.f", "phy_shared") \in Ops
        /\ Peek("6.f.pre", "phy_shared") \in Ops /\ Peek("6.f.post", "phy_shared") \in Ops
    BY <1>1, <1>2, QuietCalls, Zenon
  <2>2. f \in Seq(Ops) /\ Len(f) = 4
    BY <2>1
  <2>3. \A i \in 1 .. 4 : "phy_ip" \notin f[i].touches
    BY DEF Step, Peek, Op
  <2> QED
    BY <2>2, <2>3, SelectsPlain
<1>5. c \in Selects(b.at, first) /\ e \in Selects(b.at, second)
  BY <1>1, SelectsDiag, Zenon
<1>6. first \cap second = {} /\ first \cup second = {"post-6.b.CLK0ACK", "post-6.d.CLK1ACK"}
  OBVIOUS
<1> HIDE DEF a, c, d, e, f, first, second
<1>7. ((a \o c) \o d) \o e \in Selects(b.at, first \cup second)
  <2>1. a \o c \in Selects(b.at, first)
    BY <1>3, <1>5, SelectsAfter, Zenon
  <2>2. (a \o c) \o d \in Selects(b.at, first)
    BY <2>1, <1>3, SelectsBefore, Zenon
  <2> QED
    BY <2>2, <1>5, <1>6, SelectsConcat, Zenon
<1>8. (((a \o c) \o d) \o e) \o f \in Selects(b.at, first \cup second)
  BY <1>4, <1>7, SelectsBefore, Zenon
<1> QED
  BY <1>6, <1>8 DEF Handshake, a, c, d, e, f

\* The i-th call of s is a probe of phy_ip, made with something of owed missing.
EarlyProbe(s, owed, i) ==
    /\ Chosen(s[i])
    /\ \E h \in owed : \A n \in 1 .. i - 1 : ~Acks(s, n, h)

AtMostOneEarly(s, owed) ==
    \A i, j \in 1 .. Len(s) : EarlyProbe(s, owed, i) /\ EarlyProbe(s, owed, j) => i = j

NoneEarly(s, owed) == \A i \in 1 .. Len(s) : ~EarlyProbe(s, owed, i)

\* What the program owes to the touches before the handshake.
LEMMA PlanProbesOnce ==
  ASSUME NEW b \in Boots, ParserAccepts(b)
  PROVE  /\ AtMostOneEarly(Plan(b), Handshakes)
         /\ b.at = None => NoneEarly(Plan(b), Handshakes)
<1> DEFINE p == Before(b) \o Handshake(b)
           late == IF {"phycmn_first", "phycmn_early"} \cap b.flags = {} THEN PhycmnOn ELSE <<>>
           last == <<Step("8", "rc"), Step("9", "rc"), PollStep("10", "rc")>>
           both == {"post-6.b.CLK0ACK", "post-6.d.CLK1ACK"}
           labels == EarlyCheckpoints \cup both
<1>1. p \in Selects(b.at, labels)
  <2>1. EarlyCheckpoints \cap both = {}
    BY DEF EarlyCheckpoints
  <2> HIDE DEF both
  <2> QED
    BY <2>1, SelectsBeforeHandshake, SelectsHandshake, SelectsConcat, Zenon DEF both
<1>2. p \in Seq(Ops) /\ PollsFor(p, Handshakes)
  BY QuietBefore, HandshakePolls, QuietConcat, QuietInOrder, PollsForConcat, Zenon
<1>3. PICK rest \in Seq(Ops) : Plan(b) = p \o rest
  <2>1. /\ PhyifCtrl(b) \in Seq(Ops) /\ Early(b) \in Seq(Ops)
        /\ PhyIpTunables(b) \in Seq(Ops) /\ late \in Seq(Ops)
    BY QuietPhyifCtrl, QuietEarly, PhyIpTunablesOps, QuietPhycmnOn, QuietEmpty DEF Quiet
  <2>2. last \in Seq(Ops)
    <3>1. "8" \in Labels /\ "9" \in Labels /\ "10" \in Labels /\ "rc" \in Windows
          /\ "rc" # "phy_ip"
      BY DEF Labels, Steps, Windows
    <3> QED
      BY <3>1, QuietCalls, ThreeOfOps, Zenon
  <2>3. Plan(b) = ((((p \o PhyifCtrl(b)) \o Early(b)) \o PhyIpTunables(b)) \o late) \o last
    BY DEF Plan, Before
  <2> HIDE DEF p, late, last
  <2> DEFINE r2 == Early(b) \o PhyIpTunables(b)
             r3 == r2 \o late
             r4 == r3 \o last
  <2>4. r2 \in Seq(Ops) /\ r3 \in Seq(Ops) /\ r4 \in Seq(Ops)
    BY <2>1, <2>2, ConcatOps
  <2>5. ASSUME NEW s \in Seq(Ops), NEW t \in Seq(Ops), NEW u \in Seq(Ops)
        PROVE  (s \o t) \o u = s \o (t \o u)
    BY ConcatAssociative
  <2>6. PhyifCtrl(b) \o r4 \in Seq(Ops)
    BY <2>1, <2>4, ConcatOps, Zenon
  <2>7. Plan(b) = p \o (PhyifCtrl(b) \o r4)
    <3> DEFINE q == p \o PhyifCtrl(b)
    <3>1. q \in Seq(Ops)
      BY <1>2, <2>1, ConcatOps, Zenon
    <3> HIDE DEF q
    <3>2. (q \o Early(b)) \o PhyIpTunables(b) = q \o r2
      BY <3>1, <2>1, <2>5, Zenon
    <3>3. (q \o r2) \o late = q \o r3
      BY <3>1, <2>1, <2>4, <2>5, Zenon
    <3>4. (q \o r3) \o last = q \o r4
      BY <3>1, <2>2, <2>4, <2>5, Zenon
    <3>5. q \o r4 = p \o (PhyifCtrl(b) \o r4)
      BY <1>2, <2>1, <2>4, <2>5, Zenon DEF q
    <3> QED
      BY <2>3, <3>2, <3>3, <3>4, <3>5, Zenon DEF q
  <2> QED
    BY <2>6, <2>7
<1> HIDE DEF p
<1>4. /\ Len(p \o rest) = Len(p) + Len(rest)
      /\ \A i \in 1 .. Len(p) + Len(rest) :
            (p \o rest)[i] = IF i <= Len(p) THEN p[i] ELSE rest[i - Len(p)]
  BY <1>2, ConcatProperties, Zenon
<1>5. Len(p) \in Nat /\ Len(rest) \in Nat
  BY <1>2
<1>6. ASSUME NEW i \in 1 .. Len(Plan(b)), EarlyProbe(Plan(b), Handshakes, i)
      PROVE  i \in 1 .. Len(p) /\ Chosen(p[i])
  <2>1. PICK h \in Handshakes : \A n \in 1 .. i - 1 : ~Acks(Plan(b), n, h)
    BY <1>6 DEF EarlyProbe
  <2>2. PICK n \in 1 .. Len(p) : Acks(p, n, h)
    BY <1>2 DEF PollsFor
  <2>3. Acks(Plan(b), n, h)
    <3>1. n \in 1 .. Len(p) + Len(rest) /\ n <= Len(p)
      BY <1>5
    <3>2. Plan(b)[n] = p[n]
      BY <1>3, <1>4, <3>1
    <3> QED
      BY <2>2, <3>2 DEF Acks
  <2>4. i \in 1 .. Len(p) + Len(rest) /\ i <= Len(p)
    BY <1>3, <1>4, <1>5, <2>1, <2>3
  <2>5. Plan(b)[i] = p[i]
    BY <1>3, <1>4, <2>4
  <2> QED
    BY <1>5, <1>6, <2>4, <2>5 DEF EarlyProbe
<1>7. AtMostOneEarly(Plan(b), Handshakes)
  BY <1>1, <1>6 DEF AtMostOneEarly, Selects
<1>8. ASSUME b.at = None
      PROVE  NoneEarly(Plan(b), Handshakes)
  <2>1. None \notin labels
    BY DEF EarlyCheckpoints, None
  <2> QED
    BY <1>1, <1>6, <1>8, <2>1 DEF NoneEarly, Selects
<1> QED
  BY <1>7, <1>8

\* phy_ip was touched early at most once, and then what is left holds no other early
\* probe; a boot that selected no checkpoint has none in its program at all.
EarlyInv ==
    /\ boot.at = None => early = 0
    /\ early \in {0, 1}
    /\ AtMostOneEarly(todo, Handshakes \ acks)
    /\ early = 1 \/ boot.at = None => NoneEarly(todo, Handshakes \ acks)

LEMMA InitEarly ==
  ASSUME Init, \A b \in Boots : ParserAccepts(b)
  PROVE  EarlyInv
<1>1. boot \in Boots /\ todo = Plan(boot) /\ acks = {} /\ early = 0
  BY DEF Init
<1>2. Handshakes \ acks = Handshakes
  BY <1>1
<1> QED
  BY <1>1, <1>2, PlanProbesOnce DEF EarlyInv

\* The first call is made: an early probe of what is left was one before.
LEMMA EarlyOfTail ==
  ASSUME NEW s \in Seq(Ops), s # <<>>, NEW owed, NEW owes, owes \subseteq owed,
         \A h \in owes : ~Acks(s, 1, h),
         NEW i \in 1 .. Len(Tail(s)), EarlyProbe(Tail(s), owes, i)
  PROVE  i + 1 \in 1 .. Len(s) /\ EarlyProbe(s, owed, i + 1)
<1>1. /\ Tail(s) \in Seq(Ops) /\ Len(Tail(s)) = Len(s) - 1
      /\ \A n \in 1 .. Len(Tail(s)) : Tail(s)[n] = s[n + 1]
  BY HeadTailProperties
<1>2. Len(s) \in Nat \ {0}
  OBVIOUS
<1>3. i + 1 \in 1 .. Len(s) /\ Chosen(s[i + 1])
  BY <1>1, <1>2 DEF EarlyProbe
<1>4. PICK h \in owes : \A n \in 1 .. i - 1 : ~Acks(Tail(s), n, h)
  BY DEF EarlyProbe
<1>5. ASSUME NEW n \in 1 .. (i + 1) - 1
      PROVE  ~Acks(s, n, h)
  <2>1. CASE n = 1
    BY <1>4, <2>1
  <2>2. CASE n # 1
    <3>1. n - 1 \in 1 .. i - 1 /\ n - 1 \in 1 .. Len(Tail(s)) /\ (n - 1) + 1 = n
      BY <1>1, <1>2, <2>2
    <3>2. ~Acks(Tail(s), n - 1, h) /\ Tail(s)[n - 1] = s[n]
      BY <1>1, <1>4, <3>1
    <3> QED
      BY <3>2 DEF Acks
  <2> QED
    BY <2>1, <2>2
<1> QED
  BY <1>3, <1>4, <1>5 DEF EarlyProbe

\* Every step moves the program on or leaves it, and only forgets what was owed.
LEMMA StepShape ==
  ASSUME PhaseInv, Next
  PROVE  /\ boot' = boot /\ acks \subseteq acks'
         /\ \/ todo' = todo
            \/ /\ todo # <<>> /\ todo' = Tail(todo)
               /\ op.kind = "poll" /\ op.label \in Handshakes => op.label \in acks'
         /\ early' # early => todo # <<>> /\ Issued
<1>1. CASE Enter \/ Succeeds \/ Peeks \/ Probes \/ NakedReads \/ Verifies \/ PassesOver
  BY <1>1 DEF Enter, Succeeds, Peeks, Probes, NakedReads, Verifies, PassesOver, Running,
     ProbeKinds, Escapes, Goes, Stops, Fixed, NotIssued, device, history
<1>2. CASE Checked
  <2>1. result = "running" /\ todo # <<>> /\ boot' = boot
    BY <1>2 DEF Checked, Running, Fixed
  <2>2. CASE Escapes
    BY <2>1, <2>2 DEF Escapes, NotIssued
  <2>3. CASE Issued /\ \E o \in CheckedOutcomes : CheckedEffect(o)
    <3>1. PICK o \in CheckedOutcomes : CheckedEffect(o)
      BY <2>3
    <3>2. CASE Converges(o)
      BY <2>1, <2>3, <3>1, <3>2 DEF CheckedEffect, Converges, Goes
    <3>3. CASE ~Converges(o)
      BY <2>1, <2>3, <3>1, <3>3 DEF CheckedEffect, Stops
    <3> QED
      BY <3>2, <3>3
  <2> QED
    BY <1>2, <2>2, <2>3 DEF Checked
<1> QED
  BY <1>1, <1>2, Zenon DEF Next

\* A touch before the handshake is through is a probe, and a probe never ends the
\* phase.
LEMMA EarlyIsProbe ==
  ASSUME PhaseInv, Next, early' # early
  PROVE  /\ todo # <<>> /\ todo' = Tail(todo) /\ early' = early + 1
         /\ EarlyProbe(todo, Handshakes \ acks, 1)
<1>1. todo # <<>> /\ Issued
  BY StepShape
<1>2. "phy_ip" \in op.touches /\ acks # Handshakes /\ early' = early + 1
  BY <1>1 DEF Issued
<1>3. PICK h \in Handshakes : h \notin acks
  BY <1>2 DEF PhaseInv, TypeOK
<1>4. op = todo[1] /\ 1 \in 1 .. Len(todo)
  BY <1>1, OpType DEF PhaseInv
<1>5. op.kind \in ProbeKinds
  <2>1. SUFFICES ASSUME TouchesPhyIp(todo[1])
                 PROVE  FALSE
    BY <1>2, <1>4 DEF TouchesPhyIp
  <2>2. InOrder(todo, Handshakes \ acks)
    BY DEF PhaseInv, ProgramInv
  <2>3. \E n \in 1 .. 1 - 1 : Acks(todo, n, h)
    BY <1>3, <1>4, <2>1, <2>2, Zenon DEF InOrder
  <2> QED
    BY <2>3
<1>6. Probes
  BY <1>1, <1>5 DEF ProbeKinds, Next, Enter, Checked, Peeks, NakedReads, Verifies, PassesOver, Succeeds,
     Running, history
<1>7. EarlyProbe(todo, Handshakes \ acks, 1)
  BY <1>2, <1>3, <1>4, <1>5 DEF EarlyProbe, Chosen
<1> QED
  BY <1>1, <1>2, <1>6, <1>7 DEF Probes, Goes

LEMMA EarlyKeeps ==
  ASSUME PhaseInv, EarlyInv, Next
  PROVE  EarlyInv'
<1> DEFINE owed == Handshakes \ acks
           owes == Handshakes \ acks'
<1>1. /\ boot' = boot /\ owes \subseteq owed
      /\ todo \in Seq(Ops)
  BY StepShape DEF PhaseInv, ProgramInv
<1>2. CASE todo' = todo
  <2>1. early' = early
    <3>1. ASSUME early' # early
          PROVE  FALSE
      <4>1. todo # <<>> /\ todo' = Tail(todo)
        BY <3>1, EarlyIsProbe
      <4>2. Len(Tail(todo)) = Len(todo) - 1 /\ Len(todo) \in Nat
        BY <1>1, <4>1
      <4> QED
        BY <1>2, <4>1, <4>2
    <3> QED
      BY <3>1
  <2>2. ASSUME NEW i \in 1 .. Len(todo), EarlyProbe(todo, owes, i)
        PROVE  EarlyProbe(todo, owed, i)
    BY <1>1, <2>2 DEF EarlyProbe
  <2> HIDE DEF owed, owes
  <2>3. /\ AtMostOneEarly(todo, owed) => AtMostOneEarly(todo, owes)
        /\ NoneEarly(todo, owed) => NoneEarly(todo, owes)
    BY <2>2 DEF AtMostOneEarly, NoneEarly
  <2> QED
    BY <1>1, <1>2, <2>1, <2>3 DEF EarlyInv, owed, owes
<1>3. CASE todo # <<>> /\ todo' = Tail(todo)
           /\ (op.kind = "poll" /\ op.label \in Handshakes => op.label \in acks')
  <2>1. \A h \in owes : ~Acks(todo, 1, h)
    BY <1>3, OpType DEF Acks, PhaseInv
  <2>2. ASSUME NEW i \in 1 .. Len(Tail(todo)), EarlyProbe(Tail(todo), owes, i)
        PROVE  i + 1 \in 1 .. Len(todo) /\ EarlyProbe(todo, owed, i + 1)
    <3> HIDE DEF owed, owes
    <3> QED
      BY <1>1, <1>3, <2>1, <2>2, EarlyOfTail
  <2> HIDE DEF owed, owes
  <2>3. AtMostOneEarly(todo, owed) => AtMostOneEarly(Tail(todo), owes)
    <3>1. SUFFICES ASSUME AtMostOneEarly(todo, owed),
                          NEW i \in 1 .. Len(Tail(todo)), NEW j \in 1 .. Len(Tail(todo)),
                          EarlyProbe(Tail(todo), owes, i), EarlyProbe(Tail(todo), owes, j)
                   PROVE  i = j
      BY DEF AtMostOneEarly
    <3>2. i + 1 = j + 1
      BY <2>2, <3>1 DEF AtMostOneEarly
    <3> QED
      BY <3>2
  <2>4. NoneEarly(todo, owed) => NoneEarly(Tail(todo), owes)
    BY <2>2 DEF NoneEarly
  <2>5. CASE early' = early
    BY <1>1, <1>3, <2>3, <2>4, <2>5 DEF EarlyInv, owed, owes
  <2>6. CASE early' # early
    <3>1. early' = early + 1 /\ EarlyProbe(todo, owed, 1) /\ 1 \in 1 .. Len(todo)
      BY <1>3, <2>6, EarlyIsProbe, OpType DEF owed, PhaseInv
    <3>2. early = 0 /\ boot.at # None /\ AtMostOneEarly(todo, owed)
      BY <3>1 DEF EarlyInv, NoneEarly, owed
    <3>3. NoneEarly(Tail(todo), owes)
      <4>1. SUFFICES ASSUME NEW i \in 1 .. Len(Tail(todo)), EarlyProbe(Tail(todo), owes, i)
                     PROVE  FALSE
        BY DEF NoneEarly
      <4>2. i + 1 = 1
        BY <2>2, <3>1, <3>2, <4>1 DEF AtMostOneEarly
      <4> QED
        BY <4>2
    <3> QED
      BY <1>1, <1>3, <2>3, <3>1, <3>2, <3>3 DEF EarlyInv, owes, owed
  <2> QED
    BY <2>5, <2>6
<1> QED
  BY <1>2, <1>3, StepShape

\* phy_ip is touched at most once before both clock requests are acknowledged, and
\* never by a boot that selected no checkpoint, for every set of boots the argument
\* parser lets through.
THEOREM ProbedOncePerBoot ==
  ASSUME \A b \in Boots : ParserAccepts(b)
  PROVE  Spec => []OneEarlyTouch
<1>1. Init => EarlyInv
  BY InitEarly
<1>2. PhaseInv /\ EarlyInv /\ [Next]_vars => EarlyInv'
  <2>1. CASE Next
    BY <2>1, EarlyKeeps
  <2>2. CASE UNCHANGED vars
    BY <2>2 DEF vars, device, history, EarlyInv
  <2> QED
    BY <2>1, <2>2
<1>3. EarlyInv => OneEarlyTouch
  BY DEF EarlyInv, OneEarlyTouch
<1> QED
  BY <1>1, <1>2, <1>3, PhaseInOrder, PTL DEF Spec
=============================================================================
