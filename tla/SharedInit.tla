----------------------------- MODULE SharedInit -----------------------------
(***************************************************************************)
(* Phase F of Scripts/m1n1/perstn.py: probe_phaseF_t8140_replay brings the *)
(* shared PHY of the PCIe controller up one proxy call at a time, and      *)
(* stops at the first call that raises, faults, does not converge or       *)
(* leaves m1n1 dead.                                                       *)
(*                                                                         *)
(* The phase is a program, Plan(boot), and one action runs its next call.  *)
(* What a call can do is the hardware's choice: it may fault (a SYNC that  *)
(* m1n1's guard turns into a sentinel and an exception count), raise in    *)
(* the host, or stall the bus, after which m1n1 never answers again.       *)
(***************************************************************************)
EXTENDS Naturals, Sequences, FiniteSets

CONSTANTS
    Boots,       \* the orders Phase F may be called with
    Faulty,      \* the register windows that may fault, raise or stall
    Props,       \* the tunables properties the ADT node has
    PhyIp,       \* PhyIp[prop]: the offset of each entry of a phy_ip property
    PhyExtra,    \* PhyExtra[i]: the words of phy_ip that port i's own reg entry
                 \* of the device tree names
    ActivePorts  \* the ports whose pci-bridge exists

Ports == 0 .. 2

\* The register windows of the shared controller, as the device tree names them.
Windows == {"pmgr", "rc", "axi", "axi_sub5", "phy_common", "phy_shared", "phy_ip"}

ASSUME SharedInitAssumption ==
    /\ PhyIp \in [{"pll", "auspma"} -> Seq(Nat)]
    /\ PhyExtra \in [Ports -> SUBSET Nat]
    /\ ActivePorts \subseteq Ports /\ Faulty \subseteq Windows
    /\ \A b \in Boots : b.apply \in {"filtered", "stub", "local"}

\* The layout of phy_ip: a shared slice, then one slice a port.
PhyIpSliceBase == 32768
PhyIpSliceStride == 32768
PhyIpWindowSize == 131072

Shared == 0   \* the head of the shared slice
SliceHead(i) == PhyIpSliceBase + i * PhyIpSliceStride
PortIndex(offset) == (offset - PhyIpSliceBase) \div PhyIpSliceStride

-----------------------------------------------------------------------------
(* The program of a boot.                                                  *)

\* The steps, and the labels diag is called with.
Steps ==
    {"1", "2", "3", "4", "5", "5.5.a", "5.5.b", "5.75", "5.8.a", "5.8.b", "5.8.c",
     "6.a", "6.b", "6.c", "6.d", "6.e", "6.f.pre", "6.f", "6.f.post", "6.f.5.pre",
     "6.f.5", "6.f.5.post", "6.5.pre", "6.5", "6.5.post", "6.g", "6.h", "6.i",
     "7", "8", "9", "10"}

Checkpoints ==
    {"F.entry", "post-1.pmgr", "post-5.phy-tunables", "post-5.75.naked-write-test",
     "post-5.8.a.axi2af-naked-apply", "post-5.8.b.pcieclkgen-naked-apply",
     "post-5.8.c.cio3pllcore-naked-apply", "post-5.5.extra-tunables",
     "post-6.b.CLK0ACK", "post-6.d.CLK1ACK", "post-6.i.phy4-x10-early",
     "post-7.phycmn-early", "post-6.f.T8140-marker", "post-6.5.t8122-shared-post",
     "post-6.g.apply-local"}

Labels == Steps \cup Checkpoints

\* spread: the offsets the call reaches if it touches phy_ip.
Op(label, kind, touches, spread) ==
    [label |-> label, kind |-> kind, touches |-> touches, spread |-> spread]

Step(label, window) == Op(label, "step", {window}, {Shared})
PollStep(label, window) == Op(label, "poll", {window}, {Shared})
Peek(label, window) == Op(label, "peek", {window}, {Shared})
Naked(label, window) == Op(label, "naked", {window}, {Shared})
Probe(label, windows) == Op(label, "probe", windows, {Shared})
\* --phy-ip-write-probe: one guarded write of zero to the first entry of the pll
\* tunables, in place of the read of phy_ip.
PhyIpWriteProbeOffset == 56
WriteProbe(label) == Op(label, "write_probe", {"phy_ip"}, {PhyIpWriteProbeOffset})
FirstTouch(label) == Op(label, "first_touch", {"axi_sub5"}, {Shared})
Absent(label) == Op(label, "absent", {}, {Shared})

When(b, flag, ops) == IF flag \in b.flags THEN ops ELSE <<>>

ScanWindows == {"rc", "phy_common", "phy_shared", "axi"}

\* Mutant of Diag: phy_ip is probed at every checkpoint.
DiagEverywhere(b, label) ==
    When(b, "phy_ip_diag", <<Probe(label, {"phy_common"}), Probe(label, {"phy_ip"})>>)

\* What diag does to phy_ip at the selected checkpoint.
PhyIpProbe(b, label) ==
    IF "phy_ip_write_probe" \in b.flags THEN WriteProbe(label) ELSE Probe(label, {"phy_ip"})

\* diag: one read of phy_common, the snapshots, and at one checkpoint phy_ip.
Diag(b, label) ==
    When(b, "phy_ip_diag",
         <<Probe(label, {"phy_common"})>>
         \o When(b, "reachable_scan", <<Probe(label, ScanWindows)>>)
         \o (IF b.at = label THEN <<PhyIpProbe(b, label)>> ELSE <<>>))

\* Mutant of Tunables: an absent property is recorded, and nothing else.
TunablesUnknown(label, prop, window) ==
    IF prop \in Props THEN <<Step(label, window)>>
    ELSE <<Op(label, "missing", {}, {Shared})>>

Tunables(label, prop, window) ==
    IF prop \in Props THEN <<Step(label, window)>> ELSE <<Absent(label)>>

NakedTest(b) ==
    LET test == <<FirstTouch("5.75"), Probe("5.75", {"rc", "axi"})>>
                \o Diag(b, "post-5.75.naked-write-test")
    IN  When(b, "naked_write_test", test) \o When(b, "naked_readonly", test)

\* Steps 5.8: tunables written around m1n1's applicator.  A write to axi_sub5
\* is only made once a first touch has shown that it answers.
Gated(label) == Op(label, "gated", {"axi_sub5"}, {Shared})

NakedApplies(b) ==
    When(b, "axi2af_naked",
         <<Probe("5.8.a", {"axi"})>> \o Diag(b, "post-5.8.a.axi2af-naked-apply"))
    \o When(b, "pcieclkgen_naked",
            <<Gated("5.8.b")>> \o Diag(b, "post-5.8.b.pcieclkgen-naked-apply"))
    \o When(b, "set5_only",
            <<Op("5.8.b", "gated_naked", {"axi_sub5"}, {Shared}),
              Op("5.8.b", "gated_step", {"axi_sub5"}, {Shared}),
              Op("5.8.b", "gated_naked", {"axi_sub5"}, {Shared})>>
            \o Diag(b, "post-5.8.b.pcieclkgen-naked-apply"))
    \o When(b, "cio3_sub5",
            <<Gated("5.8.c")>> \o Diag(b, "post-5.8.c.cio3pllcore-naked-apply"))
    \o When(b, "cio3_common",
            <<Probe("5.8.c", {"phy_common"})>>
            \o Diag(b, "post-5.8.c.cio3pllcore-naked-apply"))

ExtraTunables(b) ==
    When(b, "extra_tunables",
         (IF "only_pcieclkgen" \in b.flags THEN <<>>
          ELSE Tunables("5.5.a", "cio3pllcore", "rc"))
         \o (IF "only_cio3pllcore" \in b.flags THEN <<>>
             ELSE Tunables("5.5.b", "pcieclkgen", "rc"))
         \o Diag(b, "post-5.5.extra-tunables"))

\* Mutant of Applies: a port slice is taken to end one byte late.
AppliesLate(offset) ==
    /\ offset < PhyIpWindowSize
    /\ \/ offset < PhyIpSliceBase
       \/ PortIndex(offset - 1) \in ActivePorts

\* classify_phy_ip_offset, and what the two filters make of it.
Applies(offset) ==
    /\ offset < PhyIpWindowSize
    /\ \/ offset < PhyIpSliceBase
       \/ PortIndex(offset) \in ActivePorts

OffsetsOf(prop) == {PhyIp[prop][i] : i \in DOMAIN PhyIp[prop]}

\* phy_ip_tunables_filtered: the entries one by one, then a read of each slice;
\* what lies in the slice of an inactive port is passed over.
Filtered(label, prop) ==
    LET passed == Op(label, "skipped", {}, {})
        entry(offset) ==
            IF Applies(offset) THEN Op(label, "step", {"phy_ip"}, {offset}) ELSE passed
        verify(i) ==
            IF i \in ActivePorts THEN Op(label, "verify", {"phy_ip"}, {SliceHead(i)})
            ELSE passed
    IN  IF PhyIp[prop] = <<>> THEN <<Absent(label)>>
        ELSE [n \in DOMAIN PhyIp[prop] |-> entry(PhyIp[prop][n])]
             \o <<verify(0), verify(1), verify(2)>>

\* phy_ip_stub_apply_run: the same entries by one call of the stub on the CPU.
Stub(b, label, prop) ==
    IF PhyIp[prop] = <<>> THEN <<Absent(label)>>
    ELSE <<Op(label, "poll", {"phy_ip"}, {o \in OffsetsOf(prop) : Applies(o)}),
           Op(label, "stub_verify", {"phy_ip"}, {Shared})>>
         \o Diag(b, label)

PhyIpTunables(b) ==
    CASE b.apply = "filtered" -> Filtered("6.g", "pll") \o Filtered("6.h", "auspma")
      [] b.apply = "stub" -> Stub(b, "6.g", "pll") \o Stub(b, "6.h", "auspma")
      [] b.apply = "local" -> <<Op("6.g", "step", {"phy_ip"}, OffsetsOf("pll"))>>
                              \o Diag(b, "post-6.g.apply-local")
                              \o Filtered("6.h", "auspma")

PhycmnOn == <<Step("7", "phy_common")>>

Handshake(b) ==
    <<Step("6.a", "phy_shared"), PollStep("6.b", "phy_shared")>>
    \o Diag(b, "post-6.b.CLK0ACK")
    \o <<Step("6.c", "phy_shared"), PollStep("6.d", "phy_shared")>>
    \o Diag(b, "post-6.d.CLK1ACK")
    \o <<Step("6.e", "phy_shared"), Peek("6.f.pre", "phy_shared"),
         Step("6.f", "phy_shared"), Peek("6.f.post", "phy_shared")>>

PhyifCtrl(b) ==
    When(b, "phyif_ctrl_run",
         <<Peek("6.f.5.pre", "rc"), Step("6.f.5", "rc"), Peek("6.f.5.post", "rc")>>)

Early(b) ==
    When(b, "phy4_x10_early",
         <<Step("6.i", "phy_shared")>> \o Diag(b, "post-6.i.phy4-x10-early"))
    \o When(b, "phycmn_early",
            (IF "phycmn_first" \in b.flags THEN <<>> ELSE PhycmnOn)
            \o Diag(b, "post-7.phycmn-early"))
    \o Diag(b, "post-6.f.T8140-marker")
    \o When(b, "t8122_post",
            <<Naked("6.5.pre", "phy_shared"), Step("6.5", "phy_shared"),
              Naked("6.5.post", "phy_shared")>>
            \o Diag(b, "post-6.5.t8122-shared-post"))

Plan(b) ==
    Diag(b, "F.entry")
    \o <<Step("1", "pmgr")>> \o Diag(b, "post-1.pmgr")
    \o Tunables("2", "axi2af", "axi") \o <<Step("3", "rc")>>
    \o Tunables("4", "common", "rc") \o Tunables("5", "phy", "phy_common")
    \o Diag(b, "post-5.phy-tunables")
    \o NakedTest(b) \o NakedApplies(b) \o ExtraTunables(b)
    \o When(b, "phycmn_first", PhycmnOn)
    \o Handshake(b) \o PhyifCtrl(b) \o Early(b) \o PhyIpTunables(b)
    \o (IF {"phycmn_first", "phycmn_early"} \cap b.flags = {} THEN PhycmnOn ELSE <<>>)
    \o <<Step("8", "rc"), Step("9", "rc"), PollStep("10", "rc")>>

-----------------------------------------------------------------------------
VARIABLES
    boot,      \* the order
    flagD,     \* apcie.phaseD_gate151_active
    rcAxi,     \* apcie.phaseE_rc_axi_ok: "unset", "ok" or "bad"
    result,    \* "asked", "running", "skipped", "stopped", "escaped" or "up"
    todo,      \* the calls of the program still to be made
    alive,     \* m1n1 answers
    pending,   \* m1n1 counted an exception exc_running does not include
    lastStep,  \* apcie.phaseF_last_step
    reach,     \* apcie.axi_sub5_reachable
    acks,      \* the handshake polls that converged (history)
    early,     \* calls into phy_ip before the handshake was through (history)
    offsets,   \* the offsets of phy_ip written or read (history)
    phyIpBad   \* a verification read of phy_ip faulted (history)

device == <<alive, pending, phyIpBad>>
history == <<acks, early, offsets>>
vars == <<boot, flagD, rcAxi, result, todo, device, lastStep, reach, history>>

None == "none"
NotStarted == "not started"
Complete == "shared init complete"
Handshakes == {"6.b", "6.d"}
Ended == result \in {"skipped", "stopped", "escaped", "up"}

ProbeKinds == {"probe", "write_probe"}

Kinds == ProbeKinds \cup
         {"step", "poll", "peek", "naked", "first_touch", "gated", "gated_naked",
          "gated_step", "verify", "stub_verify", "absent", "skipped"}

TypeOK ==
    /\ boot \in Boots
    /\ flagD \in BOOLEAN /\ rcAxi \in {"unset", "ok", "bad"}
    /\ result \in {"asked", "running", "skipped", "stopped", "escaped", "up"}
    /\ \A i \in DOMAIN todo : todo[i].kind \in Kinds
    /\ alive \in BOOLEAN /\ pending \in BOOLEAN /\ phyIpBad \in BOOLEAN
    /\ lastStep \in Labels \cup {NotStarted, Complete}
    /\ reach \in BOOLEAN
    /\ acks \subseteq Handshakes /\ early \in Nat /\ offsets \subseteq Nat

Init ==
    /\ boot \in Boots
    /\ flagD \in BOOLEAN /\ rcAxi \in {"unset", "ok", "bad"}
    /\ result = "asked" /\ todo = Plan(boot)
    /\ alive \in BOOLEAN /\ pending = FALSE /\ phyIpBad = FALSE
    /\ lastStep = NotStarted /\ reach = FALSE
    /\ acks = {} /\ early = 0 /\ offsets = {}

\* The preconditions; a phase E that never ran counts as a good one.
Enter ==
    /\ result = "asked"
    /\ lastStep' = NotStarted
    /\ IF flagD /\ rcAxi # "bad" /\ alive
       THEN result' = "running"
       ELSE result' = "skipped"
    /\ UNCHANGED <<boot, flagD, rcAxi, todo, device, reach, history>>

-----------------------------------------------------------------------------
(* One call of the program.                                                *)

op == Head(todo)
Running(kinds) == result = "running" /\ todo # <<>> /\ op.kind \in kinds

Outcomes ==
    {"ok"} \cup IF op.touches \cap Faulty = {} THEN {} ELSE {"fault", "raise", "stall"}

\* The call reaches the bus.
Issued ==
    /\ early' = IF "phy_ip" \in op.touches /\ acks # Handshakes THEN early + 1 ELSE early
    /\ offsets' = IF "phy_ip" \in op.touches THEN offsets \cup op.spread ELSE offsets

NotIssued == UNCHANGED <<early, offsets>>

Goes == result' = "running" /\ todo' = Tail(todo)
\* Mutant of Stops: a call that failed is made again.
Retries == result' = "running" /\ UNCHANGED todo

Stops == result' = "stopped" /\ UNCHANGED todo

Fixed == UNCHANGED <<boot, flagD, rcAxi>>

\* guarded() turns the exception guard on outside its try: on a dead m1n1 it
\* raises through every caller of the phase.
Escapes ==
    /\ result' = "escaped"
    /\ NotIssued
    /\ UNCHANGED <<todo, device, reach, acks>>

\* step() and poll_step(): the exceptions counted since the last check, by
\* whatever call, end the phase under this step's name.
Skips == op.kind = "gated_step" /\ ~reach

\* Mutants of Converges: a poll that ran out of time, or a SYNC, is let through.
TimeoutPasses(o) == o \in {"ok", "timeout"} /\ ~pending
SyncPasses(o) == o \in {"ok", "fault"}

Converges(o) == o = "ok" /\ ~pending

CheckedOutcomes == Outcomes \cup IF op.kind = "poll" THEN {"timeout"} ELSE {}

CheckedEffect(o) ==
    /\ IF Converges(o) THEN Goes ELSE Stops
    /\ alive' = (o # "stall")
    /\ pending' = (pending \/ o = "fault")
    /\ acks' = IF o = "ok" THEN acks \cup ({op.label} \cap Handshakes) ELSE acks

Checked ==
    /\ Running({"step", "poll", "gated_step"}) /\ ~Skips
    /\ lastStep' = op.label
    /\ \/ ~alive /\ Escapes
       \/ alive /\ Issued /\ (\E o \in CheckedOutcomes : CheckedEffect(o))
                /\ UNCHANGED <<reach, phyIpBad>>
    /\ Fixed

\* A guarded read nobody checks: what it did is found by the next step.
Peeks ==
    /\ Running({"peek"})
    /\ \/ ~alive /\ Escapes
       \/ /\ alive /\ Issued /\ Goes
          /\ \E o \in Outcomes :
                 /\ alive' = (o # "stall")
                 /\ pending' = (pending \/ o = "fault")
          /\ UNCHANGED <<reach, acks, phyIpBad>>
    /\ UNCHANGED lastStep /\ Fixed

\* A probe keeps an exception count of its own and never ends the phase.
GateShut == op.kind = "gated" /\ ~reach

Probes ==
    /\ Running(ProbeKinds \cup {"first_touch", "gated"})
    /\ Goes
    /\ \/ /\ (~alive \/ GateShut)
          /\ NotIssued /\ UNCHANGED <<alive, pending, reach>>
       \/ /\ alive /\ ~GateShut /\ Issued
          /\ \E o \in Outcomes :
                 /\ alive' = (o # "stall")
                 /\ pending' = (pending \/ o = "fault")
                 /\ reach' = (reach \/ (op.kind = "first_touch" /\ o \in {"ok", "fault"}))
    /\ UNCHANGED <<lastStep, acks, phyIpBad>> /\ Fixed

\* A read without the guard: a fault is as deadly as a stall.
NakedReads ==
    /\ Running({"naked", "gated_naked"})
    /\ ~(op.kind = "gated_naked" /\ ~reach)
    /\ \/ ~alive /\ Stops /\ NotIssued /\ UNCHANGED alive
       \/ /\ alive /\ Issued
          /\ \E o \in Outcomes :
                 /\ IF o = "ok" THEN Goes ELSE Stops
                 /\ alive' = (o \in {"ok", "raise"})
    /\ UNCHANGED <<pending, phyIpBad, lastStep, reach, acks>> /\ Fixed

\* The reads that show phy_ip to be up: an exception they cause is added to
\* exc_running and forgotten.
Verifies ==
    /\ Running({"verify", "stub_verify"})
    /\ \/ ~alive /\ Escapes
       \/ /\ alive /\ Issued
          /\ \E o \in Outcomes :
                 /\ IF o = "stall" \/ (o = "raise" /\ op.kind = "stub_verify")
                    THEN Stops ELSE Goes
                 /\ alive' = (o # "stall")
                 /\ pending' = FALSE
                 /\ phyIpBad' = (phyIpBad \/ o = "fault")
          /\ UNCHANGED <<reach, acks>>
    /\ UNCHANGED lastStep /\ Fixed

\* Nothing is sent: the property is absent, the port inactive, or axi_sub5 was
\* never seen to answer.
PassesOver ==
    /\ Running({"absent", "skipped", "gated_step", "gated_naked"})
    /\ op.kind \in {"absent", "skipped"} \/ ~reach
    /\ Goes
    /\ lastStep' = IF op.kind = "absent" THEN op.label ELSE lastStep
    /\ UNCHANGED <<device, reach, history>> /\ Fixed

\* apcie.phaseF_shared_up becomes True.
Succeeds ==
    /\ result = "running" /\ todo = <<>>
    /\ result' = "up" /\ lastStep' = Complete
    /\ UNCHANGED <<boot, flagD, rcAxi, todo, device, reach, history>>

Next ==
    \/ Enter \/ Checked \/ Peeks \/ Probes \/ NakedReads \/ Verifies
    \/ PassesOver \/ Succeeds

Spec == Init /\ [][Next]_vars /\ WF_vars(Next)

-----------------------------------------------------------------------------
(* Properties.                                                             *)

\* phy_ip is touched at most once before both clock requests are
\* acknowledged, by the probe of the selected checkpoint, and never by a boot
\* that selected none ("exactly one phy_ip data point per boot").
OneEarlyTouch ==
    /\ early <= 1
    /\ boot.at = None => early = 0

\* Before both acknowledgements converged, nothing reaches phy_ip but the probe
\* of a checkpoint: a read, or the one write of zero that --phy-ip-write-probe
\* puts in its place (RUN P makes it ahead of the handshake, although steps 6.g
\* and 6.h are documented as the first phy_ip writes).  No tunable is
\* written and no slice verified: the phase calls this its critical invariant.
TunablesAfterHandshake == [][early' # early => op.kind \in ProbeKinds]_vars

\* No word that belongs to a port without a bridge is written or read, whichever
\* way the tunables are applied: it would stall the bus for good.
InactiveSliceUntouched ==
    \A i \in Ports \ ActivePorts : offsets \cap PhyExtra[i] = {}

\* Phase F reports success only with m1n1 answering, no exception left
\* unaccounted for and the whole handshake through.
UpIsEarned ==
    result = "up" => alive /\ ~pending /\ acks = Handshakes /\ flagD /\ rcAxi # "bad"

\* The phase always ends.
Terminates == <>Ended

\* "Shared PHY, phy_ip window, and RC control block are up": phy_ip answered
\* the reads that were to prove it.
UpMeansPhyIpAnswers == result = "up" => ~phyIpBad
=============================================================================
