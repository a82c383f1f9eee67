--------------------------- MODULE MCTraceReplay ---------------------------
(* Instances of TraceReplay: every trace of up to four accesses as the     *)
(* preamble, and RUN T and RUN U with the shapes of pcie.log.              *)
EXTENDS TraceReplay

\* A 4-byte register of two bits, of which its low half has one.
TwoBits == [w \in {2, 4} |-> IF w = 2 THEN {1} ELSE {1, 2}]
\* A bit in each half, as in 0xacce5515.
BothBits == {1, 2}

\* Register a is read and written at full width and read at half width; b is
\* read and written at half width.
Accesses ==
    {Access(k, "a", 4, v) : k \in {"R", "W"}, v \in {{}, {1}, {2}}}
    \cup {Access("R", "a", 2, {1})}
    \cup {Access(k, "b", 2, v) : k \in {"R", "W"}, v \in {{}, {1}}}

BothRegisters == {"a", "b"}

AllTraces == UNION {[1 .. n -> Accesses] : n \in 1 .. 4}

Job(segments, traces, early, noProbe) ==
    [segments |-> segments, trace |-> traces, early |-> early, noProbe |-> noProbe]

\* A handshake, a read-modify-write at each width, and a poll.
Shape ==
    <<Access("R", "a", 4, {}), Access("W", "a", 4, {1}), Access("R", "a", 4, {1, 2}),
      Access("R", "b", 2, {}), Access("W", "b", 2, {1}), Access("R", "b", 2, {}),
      Access("R", "b", 2, {1})>>

AllJobs ==
    {Job(<<"preamble">>, [s \in {"preamble"} |-> t], FALSE, TRUE) : t \in AllTraces}
    \cup {Job(segments, [s \in {"preamble", "phyip", "port2"} |-> Shape], early, noProbe) :
              segments \in {<<"preamble">>, <<"preamble", "phyip", "port2">>},
              early \in BOOLEAN, noProbe \in BOOLEAN}
=============================================================================
