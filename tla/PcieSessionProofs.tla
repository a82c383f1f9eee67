-------------------------- MODULE PcieSessionProofs --------------------------
(***************************************************************************)
(* Theorems about PcieSession, for every set of boots, every parent graph  *)
(* above gate 151 and whatever the hardware does to the gates in between.  *)
(*                                                                         *)
(* One fact about the program of a boot is used: what main() may still run *)
(* before pcie_init returned holds no register dump.                       *)
(***************************************************************************)
EXTENDS PcieSession, SequenceTheorems, TLAPS

\* The sections that stand before pcie_init or are skipped to when it failed.
Bare == [name : {"rails", "phase0", "D", "E", "F", "B", "C", "refclk", "no_init",
                 "init", "nic"},
         gated : BOOLEAN, then : {<<>>}]

Early == Bare \cup {Gated("ecam", <<Gated("nic", <<>>)>>)}

\* Whatever is to come before pcie_init returned is no dump.
EarlyOnly == "init_returned" \in events \/ todo \in Seq(Early)

\* apcie.phaseF_shared_up is what some Phase F of this boot reported.
UpWasReported == sharedUp => "F_up" \in events

\* While recovery is probed for, the section of pcie_init is still the first.
InitPending == probes > 0 => todo # <<>>

SessionInv == TypeOK /\ EarlyOnly /\ UpWasReported /\ HarvestIsEarned

-----------------------------------------------------------------------------
(* The program.                                                            *)

LEMMA WhenEarly ==
  ASSUME NEW b, NEW f, NEW s \in Seq(Early)
  PROVE  When(b, f, s) \in Seq(Early)
  BY DEF When

LEMMA ConcatEarly ==
  ASSUME NEW s \in Seq(Early), NEW t \in Seq(Early)
  PROVE  s \o t \in Seq(Early)
  OBVIOUS

LEMMA OneEarly ==
  ASSUME NEW s \in Early
  PROVE  <<s>> \in Seq(Early)
  OBVIOUS

LEMMA BareEarly ==
  /\ Section("rails") \in Early /\ Section("phase0") \in Early
  /\ Section("D") \in Early /\ Section("E") \in Early /\ Section("F") \in Early
  /\ Section("B") \in Early /\ Section("C") \in Early
  /\ Section("refclk") \in Early /\ Section("no_init") \in Early
  /\ Section("init") \in Early /\ Gated("nic", <<>>) \in Early
  /\ Gated("ecam", <<Gated("nic", <<>>)>>) \in Early
  BY DEF Early, Bare, Section, Gated

LEMMA PreinitEarly ==
  ASSUME NEW b
  PROVE  Preinit(b) \in Seq(Early)
<1>1. When(b, "phy_ip_probe", <<Section("E")>>) \in Seq(Early)
  BY BareEarly, OneEarly, WhenEarly
<1>2. When(b, "t8140_replay", <<Section("F")>>) \in Seq(Early)
  BY BareEarly, OneEarly, WhenEarly
<1>3. When(b, "pmgr_per_port", <<Section("C")>>) \in Seq(Early)
  BY BareEarly, OneEarly, WhenEarly
<1>4. /\ <<Section("phase0")>> \in Seq(Early) /\ <<Section("D")>> \in Seq(Early)
      /\ <<Section("B")>> \in Seq(Early)
  BY BareEarly, OneEarly
<1>5. When(b, "gate_poke",
           <<Section("D")>> \o When(b, "phy_ip_probe", <<Section("E")>>)
           \o When(b, "t8140_replay", <<Section("F")>>)) \in Seq(Early)
  BY <1>1, <1>2, <1>4, ConcatEarly, WhenEarly
<1>6. When(b, "pmgr_enable",
           <<Section("B")>> \o When(b, "pmgr_per_port", <<Section("C")>>)) \in Seq(Early)
  BY <1>3, <1>4, ConcatEarly, WhenEarly
<1> QED
  BY <1>4, <1>5, <1>6, ConcatEarly DEF Preinit

LEMMA StartEarly ==
  ASSUME NEW b
  PROVE  Start(b) \in Seq(Early)
<1>1. When(b, "preinit_probe", Preinit(b)) \in Seq(Early)
  BY PreinitEarly, WhenEarly
<1>2. When(b, "refclk_pre", <<Section("refclk")>>) \in Seq(Early)
  BY BareEarly, OneEarly, WhenEarly
<1>3. <<Section("rails")>> \in Seq(Early)
  BY BareEarly, OneEarly
<1>4. Section(IF "no_pcie_init" \in b.flags THEN "no_init" ELSE "init") \in Early
  BY BareEarly
<1>5. <<Section(IF "no_pcie_init" \in b.flags THEN "no_init" ELSE "init"),
        Gated("ecam", <<Gated("nic", <<>>)>>)>> \in Seq(Early)
  BY <1>4, BareEarly
<1> QED
  BY <1>1, <1>2, <1>3, <1>5, ConcatEarly DEF Start

\* The head of an early program is no dump, and what it goes on with is early.
LEMMA EarlyHead ==
  ASSUME todo \in Seq(Early), todo # <<>>
  PROVE  /\ sec.name # "dump"
         /\ Tail(todo) \in Seq(Early)
         /\ sec.then \o Tail(todo) \in Seq(Early)
         /\ <<>> \o Tail(todo) \in Seq(Early)
<1>1. sec \in Early /\ Tail(todo) \in Seq(Early)
  BY DEF sec
<1>2. <<>> \in Seq(Early)
  OBVIOUS
<1>3. CASE sec \in Bare
  <2>1. sec.then = <<>> /\ sec.name # "dump"
    BY <1>3 DEF Bare
  <2> QED
    BY <1>1, <1>2, <2>1, ConcatEarly
<1>4. CASE sec = Gated("ecam", <<Gated("nic", <<>>)>>)
  <2>1. sec.name = "ecam" /\ sec.then = <<Gated("nic", <<>>)>>
    BY <1>4 DEF Gated
  <2>2. sec.then \in Seq(Early)
    BY <2>1, BareEarly, OneEarly
  <2> QED
    BY <1>1, <1>2, <2>1, <2>2, ConcatEarly
<1> QED
  BY <1>1, <1>3, <1>4 DEF Early

-----------------------------------------------------------------------------
(* The invariant, one lemma per action that is not trivial for all of it.  *)

\* The gates of a step that raises some.
LEMMA RaisesKeeps ==
  ASSUME NEW gates \in SUBSET Gates, on \subseteq Gates, Raises(gates)
  PROVE  on' \subseteq Gates
  BY DEF Raises

LEMMA ChainIsGates == Chain \in SUBSET Gates /\ Real \in SUBSET Gates
  BY DEF Gates

\* Going on, with an early program or after pcie_init returned.
LEMMA GoesOnEarly ==
  ASSUME EarlyOnly, todo # <<>>, NEW es, Notes(es),
         GoesOn(sec.then) \/ GoesOn(<<>>)
  PROVE  EarlyOnly'
<1>1. CASE "init_returned" \in events
  BY <1>1 DEF EarlyOnly, Notes
<1>2. CASE todo \in Seq(Early)
  BY <1>2, EarlyHead DEF EarlyOnly, GoesOn
<1> QED
  BY <1>1, <1>2 DEF EarlyOnly

LEMMA MayDieTyped ==
  ASSUME m1n1 \in {"alive", "busy", "dead"}, MayDie
  PROVE  m1n1' \in {"alive", "busy", "dead"}
  BY DEF MayDie

\* A boot begins in order.
LEMMA SessionInitial == Init => SessionInv
<1> SUFFICES ASSUME Init PROVE SessionInv
  OBVIOUS
<1>1. TypeOK
  <2>1. probes \in 0 .. RecoveryProbes
    BY SessionAssumption DEF Init
  <2> QED
    BY <2>1 DEF Init, TypeOK, Recorded, Tables
<1>2. EarlyOnly
  BY StartEarly DEF Init, EarlyOnly
<1> QED
  BY <1>1, <1>2 DEF Init, SessionInv, UpWasReported, HarvestIsEarned

LEMMA PhaseDKeeps == SessionInv /\ PhaseD => SessionInv'
<1> SUFFICES ASSUME SessionInv, PhaseD PROVE SessionInv'
  OBVIOUS
<1> USE DEF SessionInv
<1>1. todo # <<>> /\ GoesOn(<<>>) /\ Notes({}) /\ MayDie
  BY DEF PhaseD, Opens, Next1
<1>2. on' \subseteq Gates
  BY RaisesKeeps, ChainIsGates DEF PhaseD, TypeOK
<1>3. flagD' \in BOOLEAN /\ UNCHANGED <<rcAxi, sharedUp, phaseB, table, events>>
  BY DEF PhaseD, Notes
<1>4. TypeOK'
  BY <1>1, <1>2, <1>3, MayDieTyped DEF TypeOK, GoesOn
<1>5. EarlyOnly'
  BY <1>1, GoesOnEarly
<1> QED
  BY <1>3, <1>4, <1>5 DEF UpWasReported, HarvestIsEarned

LEMMA PhaseEKeeps == SessionInv /\ PhaseE => SessionInv'
<1> SUFFICES ASSUME SessionInv, PhaseE PROVE SessionInv'
  OBVIOUS
<1> USE DEF SessionInv
<1>1. PICK es : /\ es \subseteq Events /\ Notes(es)
                /\ es \subseteq {"mmio_behind_off_gate", "unchecked"}
  <2>1. ASSUME NEW lost
        PROVE  Mmio(NeededByE, on) \cup If(lost # {}, "unchecked")
                  \subseteq {"mmio_behind_off_gate", "unchecked"}
    BY DEF Mmio, If
  <2>2. \/ Notes({})
        \/ \E lost \in LostToE :
              Notes(Mmio(NeededByE, on) \cup If(lost # {}, "unchecked"))
    BY DEF PhaseE
  <2> QED
    BY <2>1, <2>2 DEF Events
<1>2. todo # <<>> /\ GoesOn(<<>>) /\ UNCHANGED <<on, flagD, sharedUp, phaseB, table>>
  BY DEF PhaseE, Opens, Next1
<1>3. m1n1' \in {"alive", "busy", "dead"} /\ rcAxi' \in {"unset", "ok", "bad"}
  BY MayDieTyped DEF PhaseE, TypeOK
<1>4. TypeOK'
  BY <1>1, <1>2, <1>3 DEF TypeOK, GoesOn, Notes
<1>5. EarlyOnly'
  BY <1>1, <1>2, GoesOnEarly
<1> QED
  BY <1>1, <1>2, <1>4, <1>5 DEF UpWasReported, HarvestIsEarned, Notes

\* Success is reported in the step that sets the attribute.
LEMMA PhaseFKeeps == SessionInv /\ PhaseF => SessionInv'
<1> SUFFICES ASSUME SessionInv, PhaseF PROVE SessionInv'
  OBVIOUS
<1> USE DEF SessionInv
<1>1. PICK es : /\ es \subseteq {"F_below_off_gate", "F_up"} /\ Notes(es)
                /\ sharedUp' => "F_up" \in es
  BY DEF PhaseF, If
<1>2. todo # <<>> /\ GoesOn(<<>>) /\ UNCHANGED <<flagD, rcAxi, phaseB, table>>
  BY DEF PhaseF, Opens, Next1
<1>3. m1n1' \in {"alive", "busy", "dead"} /\ sharedUp' \in BOOLEAN
  BY MayDieTyped DEF PhaseF, TypeOK
<1>4. on' \subseteq Gates
  BY RaisesKeeps, ChainIsGates DEF PhaseF, TypeOK
<1>5. TypeOK'
  BY <1>1, <1>2, <1>3, <1>4 DEF TypeOK, GoesOn, Notes, Events
<1>6. EarlyOnly'
  BY <1>1, <1>2, GoesOnEarly
<1> QED
  BY <1>1, <1>5, <1>6 DEF UpWasReported, HarvestIsEarned, Notes

LEMMA ShowsTyped ==
  ASSUME NEW unread, NEW gatesOn
  PROVE  Shows(unread, gatesOn) \in Recorded
  BY Zenon DEF Shows, Recorded

LEMMA PhaseBKeeps == SessionInv /\ PhaseB => SessionInv'
<1> SUFFICES ASSUME SessionInv, PhaseB PROVE SessionInv'
  OBVIOUS
<1> USE DEF SessionInv
<1>1. PICK es : es \subseteq {"mmio_behind_off_gate"} /\ Notes(es)
  BY DEF PhaseB, Mmio, If
<1>2. todo # <<>> /\ GoesOn(<<>>) /\ UNCHANGED <<flagD, rcAxi, sharedUp, table>>
  BY DEF PhaseB, Opens, Next1
<1>3. phaseB' \in Recorded
  BY ShowsTyped DEF PhaseB, Recorded
<1>4. m1n1' \in {"alive", "busy", "dead"}
  BY MayDieTyped DEF PhaseB, TypeOK
<1>5. on' \subseteq Gates
  BY RaisesKeeps, ChainIsGates DEF PhaseB, TypeOK
<1>6. TypeOK'
  BY <1>1, <1>2, <1>3, <1>4, <1>5 DEF TypeOK, GoesOn, Notes, Events
<1>7. EarlyOnly'
  BY <1>1, <1>2, GoesOnEarly
<1> QED
  BY <1>1, <1>2, <1>6, <1>7 DEF UpWasReported, HarvestIsEarned, Notes

LEMMA PhaseCKeeps == SessionInv /\ PhaseC => SessionInv'
<1> SUFFICES ASSUME SessionInv, PhaseC PROVE SessionInv'
  OBVIOUS
<1> USE DEF SessionInv
<1>1. PICK es : /\ es \subseteq {"mmio_behind_off_gate", "unchecked"}
                /\ Notes(es)
  BY DEF PhaseC, Mmio, If
<1>2. todo # <<>> /\ GoesOn(<<>>) /\ UNCHANGED <<flagD, rcAxi, sharedUp, phaseB, table>>
  BY DEF PhaseC, Opens, Next1, flags
<1>3. m1n1' \in {"alive", "busy", "dead"} /\ on' \subseteq Gates
  BY MayDieTyped DEF PhaseC, TypeOK
<1>4. TypeOK'
  BY <1>1, <1>2, <1>3 DEF TypeOK, GoesOn, Notes, Events
<1>5. EarlyOnly'
  BY <1>1, <1>2, GoesOnEarly
<1> QED
  BY <1>1, <1>2, <1>4, <1>5 DEF UpWasReported, HarvestIsEarned, Notes

\* pcie_init returns: from here on a dump may come.
LEMMA PcieInitKeeps == SessionInv /\ PcieInit => SessionInv'
<1> SUFFICES ASSUME SessionInv, PcieInit PROVE SessionInv'
  OBVIOUS
<1> USE DEF SessionInv
<1>1. UNCHANGED <<boot, ended, flagD, rcAxi, sharedUp, phaseB, table>>
  BY DEF PcieInit, flags
<1>2. m1n1' \in {"alive", "busy", "dead"} /\ on' \subseteq Gates
  BY RaisesKeeps DEF PcieInit, TypeOK
<1>3. probes' \in 0 .. RecoveryProbes
  BY SessionAssumption DEF PcieInit, TypeOK
<1>4. CASE Notes({"init_returned"})
  <2>1. TypeOK'
    BY <1>1, <1>2, <1>3, <1>4 DEF TypeOK, Notes, Events
  <2> QED
    BY <1>1, <1>4, <2>1 DEF EarlyOnly, UpWasReported, HarvestIsEarned, Notes
<1>5. CASE Notes({}) /\ UNCHANGED todo
  <2>1. TypeOK' /\ events' = events
    BY <1>1, <1>2, <1>3, <1>5 DEF TypeOK, Notes
  <2> QED
    BY <1>1, <1>5, <2>1 DEF EarlyOnly, UpWasReported, HarvestIsEarned
<1> QED
  BY <1>4, <1>5 DEF PcieInit

LEMMA RecoveryProbeKeeps == SessionInv /\ RecoveryProbe /\ InitPending => SessionInv'
<1> SUFFICES ASSUME SessionInv, RecoveryProbe, InitPending PROVE SessionInv'
  OBVIOUS
<1> USE DEF SessionInv
<1>1. /\ UNCHANGED <<boot, ended, m1n1, on, flagD, rcAxi, sharedUp, phaseB, table>>
      /\ events' = events
  BY DEF RecoveryProbe, Notes, flags
<1>2. probes' \in 0 .. RecoveryProbes
  BY SessionAssumption DEF RecoveryProbe, TypeOK
<1>3. TypeOK'
  BY <1>1, <1>2 DEF TypeOK
<1>4. todo' = todo \/ todo' = Tail(todo)
  BY DEF RecoveryProbe
<1>5. EarlyOnly'
  BY <1>1, <1>4, EarlyHead DEF EarlyOnly, RecoveryProbe, InitPending
<1> QED
  BY <1>1, <1>3, <1>5 DEF UpWasReported, HarvestIsEarned

\* A section under guarded(): only a dump harvests, and only what Phase F reported.
LEMMA GuardedSectionKeeps == SessionInv /\ GuardedSection => SessionInv'
<1> SUFFICES ASSUME SessionInv, GuardedSection PROVE SessionInv'
  OBVIOUS
<1> USE DEF SessionInv
<1>1. todo # <<>> /\ UNCHANGED <<on, flagD, rcAxi, sharedUp, phaseB, table>>
  BY DEF GuardedSection, Opens, Next1, flags
<1>2. CASE ended' = "crash" /\ Notes({}) /\ UNCHANGED <<boot, todo, probes, m1n1>>
  <2>1. TypeOK' /\ events' = events
    BY <1>1, <1>2 DEF TypeOK, Notes
  <2> QED
    BY <1>1, <1>2, <2>1 DEF EarlyOnly, UpWasReported, HarvestIsEarned
<1>3. CASE MayDie /\ Notes(If(Harvests, "harvest")) /\ (GoesOn(sec.then) \/ GoesOn(<<>>))
  <2>1. EarlyOnly'
    BY <1>1, <1>3, GoesOnEarly
  <2>2. events' = events \/ events' = events \cup {"harvest"}
    BY <1>3 DEF Notes, If
  <2>3. UNCHANGED <<boot, ended, probes>>
    BY <1>3 DEF GoesOn
  <2>4. TypeOK'
    BY <1>1, <1>3, <2>2, <2>3, MayDieTyped DEF TypeOK, Events
  <2>5. CASE Harvests
    <3>1. "F_up" \in events
      BY <2>5 DEF Harvests, UpWasReported
    <3>2. "init_returned" \in events
      BY <1>1, <2>5, EarlyHead DEF Harvests, EarlyOnly
    <3> QED
      BY <1>1, <2>1, <2>2, <2>4, <3>1, <3>2 DEF UpWasReported, HarvestIsEarned
  <2>6. CASE ~Harvests
    <3>1. events' = events
      BY <1>3, <2>6 DEF Notes, If
    <3> QED
      BY <1>1, <2>1, <2>4, <3>1 DEF UpWasReported, HarvestIsEarned
  <2> QED
    BY <2>5, <2>6
<1> QED
  BY <1>2, <1>3 DEF GuardedSection

LEMMA VerifyKeeps == SessionInv /\ Verify => SessionInv'
<1> SUFFICES ASSUME SessionInv, Verify PROVE SessionInv'
  OBVIOUS
<1> USE DEF SessionInv
<1>1. /\ todo # <<>> /\ GoesOn(sec.then) /\ MayDie /\ Notes({})
      /\ UNCHANGED <<on, rcAxi, sharedUp, phaseB, table>>
  BY DEF Verify, Opens, Next1
<1>2. flagD' \in BOOLEAN /\ events' = events
  BY <1>1 DEF Verify, TypeOK, Notes
<1>3. TypeOK'
  BY <1>1, <1>2, MayDieTyped DEF TypeOK, GoesOn
<1>4. EarlyOnly'
  BY <1>1, GoesOnEarly
<1> QED
  BY <1>1, <1>2, <1>3, <1>4 DEF UpWasReported, HarvestIsEarned

\* The table is kept, or is not.
LEMMA Phase0Keeps == SessionInv /\ Phase0 => SessionInv'
<1> SUFFICES ASSUME SessionInv, Phase0 PROVE SessionInv'
  OBVIOUS
<1> USE DEF SessionInv
<1>1. /\ todo # <<>> /\ GoesOn(<<>>) /\ MayDie /\ Notes({}) /\ table' \in Tables
      /\ UNCHANGED <<on, flagD, rcAxi, sharedUp, phaseB>>
  BY DEF Phase0, Opens, Next1
<1>2. events' = events
  BY <1>1 DEF Notes
<1>3. TypeOK'
  BY <1>1, <1>2, MayDieTyped DEF TypeOK, GoesOn
<1>4. EarlyOnly'
  BY <1>1, GoesOnEarly
<1> QED
  BY <1>1, <1>2, <1>3, <1>4 DEF UpWasReported, HarvestIsEarned

\* The sections that go on and note nothing.
LEMMA QuietKeeps ==
  SessionInv /\ (Plain \/ NoPcieInit \/ GateShut \/ PostInitPhyIp) => SessionInv'
<1> SUFFICES ASSUME SessionInv, Plain \/ NoPcieInit \/ GateShut \/ PostInitPhyIp
             PROVE  SessionInv'
  OBVIOUS
<1> USE DEF SessionInv
<1>1. /\ todo # <<>> /\ (GoesOn(sec.then) \/ GoesOn(<<>>))
      /\ Notes({}) /\ (MayDie \/ UNCHANGED m1n1)
      /\ UNCHANGED <<on, flagD, rcAxi, sharedUp, phaseB, table>>
  BY DEF Plain, NoPcieInit, SkipsInit, GateShut, PostInitPhyIp, Opens, Next1, flags
<1>2. events' = events /\ m1n1' \in {"alive", "busy", "dead"}
  BY <1>1, MayDieTyped DEF Notes, TypeOK
<1>3. TypeOK'
  BY <1>1, <1>2 DEF TypeOK, GoesOn
<1>4. EarlyOnly'
  BY <1>1, GoesOnEarly
<1> QED
  BY <1>1, <1>2, <1>3, <1>4 DEF UpWasReported, HarvestIsEarned

\* The end of main(), and what the hardware does of its own.
LEMMA RestKeeps == SessionInv /\ (Summarise \/ Finishes \/ Drift) => SessionInv'
<1> SUFFICES ASSUME SessionInv, Summarise \/ Finishes \/ Drift PROVE SessionInv'
  OBVIOUS
<1> USE DEF SessionInv
<1>1. UNCHANGED <<boot, todo, probes, flagD, rcAxi, sharedUp, phaseB, table, events>>
  BY DEF Summarise, Finishes, Drift, flags
<1>2. /\ ended' \in {"no", "summary", "crash"} /\ m1n1' \in {"alive", "busy", "dead"}
      /\ on' \subseteq Gates
  BY DEF Summarise, Finishes, Drift, TypeOK, flags
<1>3. TypeOK'
  BY <1>1, <1>2 DEF TypeOK
<1> QED
  BY <1>1, <1>3 DEF EarlyOnly, UpWasReported, HarvestIsEarned

LEMMA PendingKeeps == InitPending /\ [Next]_vars => InitPending'
<1> SUFFICES ASSUME InitPending, [Next]_vars PROVE InitPending'
  OBVIOUS
<1>1. CASE UNCHANGED <<todo, probes>>
  BY <1>1 DEF InitPending
<1>2. CASE PcieInit
  BY <1>2 DEF PcieInit, Opens, Next1, InitPending
<1>3. CASE RecoveryProbe
  BY <1>3 DEF RecoveryProbe, InitPending
<1>4. CASE probes = 0 /\ UNCHANGED probes
  BY <1>4 DEF InitPending
<1>5. CASE Plain \/ Phase0 \/ PhaseD \/ PhaseE \/ PhaseF \/ PhaseB \/ PhaseC
  BY <1>4, <1>5 DEF Plain, Phase0, PhaseD, PhaseE, PhaseF, PhaseB, PhaseC, Opens, Next1, GoesOn
<1>6. CASE NoPcieInit \/ GateShut \/ Verify \/ PostInitPhyIp \/ GuardedSection
  <2>1. probes = 0
    BY <1>6 DEF NoPcieInit, GateShut, Verify, PostInitPhyIp, GuardedSection, Opens, Next1
  <2>2. probes' = probes
    BY <1>6 DEF NoPcieInit, SkipsInit, GateShut, Verify, PostInitPhyIp, GuardedSection,
                GoesOn
  <2> QED
    BY <1>4, <2>1, <2>2
<1>7. CASE Summarise \/ Finishes \/ Drift \/ UNCHANGED vars
  BY <1>1, <1>7 DEF Summarise, Finishes, Drift, vars
<1> QED
  BY <1>2, <1>3, <1>5, <1>6, <1>7 DEF Next, Host

-----------------------------------------------------------------------------
(* Theorems.                                                               *)

\* Whatever m1n1 and the gates do in a boot, every variable keeps its type, no
\* dump is still to come before pcie_init returned, and the attribute
\* phaseF_shared_up of `apcie` is what a Phase F of this boot reported.
THEOREM SessionInOrder == Spec => []SessionInv
<1>1. Init => SessionInv /\ InitPending
  BY SessionInitial DEF Init, InitPending
<1>2. SessionInv /\ InitPending /\ [Next]_vars => SessionInv' /\ InitPending'
  <2> SUFFICES ASSUME SessionInv, InitPending, [Next]_vars PROVE SessionInv'
    BY PendingKeeps
  <2>1. CASE PhaseD \/ PhaseE \/ PhaseF \/ PhaseB \/ PhaseC
    BY <2>1, PhaseDKeeps, PhaseEKeeps, PhaseFKeeps, PhaseBKeeps, PhaseCKeeps
  <2>2. CASE Phase0 \/ Plain \/ NoPcieInit \/ GateShut \/ PostInitPhyIp
    BY <2>2, Phase0Keeps, QuietKeeps
  <2>3. CASE PcieInit \/ RecoveryProbe
    BY <2>3, PcieInitKeeps, RecoveryProbeKeeps
  <2>4. CASE GuardedSection \/ Verify
    BY <2>4, GuardedSectionKeeps, VerifyKeeps
  <2>5. CASE Summarise \/ Finishes \/ Drift
    BY <2>5, RestKeeps
  <2>6. CASE UNCHANGED vars
    BY <2>6 DEF vars, flags, SessionInv, TypeOK, EarlyOnly, UpWasReported, HarvestIsEarned
  <2> QED
    BY <2>1, <2>2, <2>3, <2>4, <2>5, <2>6 DEF Next, Host
<1> QED
  BY <1>1, <1>2, PTL DEF Spec

\* The state of a boot is well typed, whatever ends it.
THEOREM SessionTypeCorrect == Spec => []TypeOK
<1>1. SessionInv => TypeOK
  BY DEF SessionInv
<1> QED
  BY <1>1, SessionInOrder, PTL

\* The dump reads phy_ip only on a boot whose Phase F came up, after pcie_init
\* returned.
THEOREM HarvestEarned == Spec => []HarvestIsEarned
<1>1. SessionInv => HarvestIsEarned
  BY DEF SessionInv
<1> QED
  BY <1>1, SessionInOrder, PTL

\* phaseB_gate_state lets Phase B read the MMIO only with every real gate on.
LEMMA ShowsAllOn ==
  ASSUME NEW unread \in SUBSET Real, NEW gatesOn, Shows(unread, gatesOn) = "all_on"
  PROVE  Real \subseteq gatesOn
<1>1. CASE ~(Real \ unread \subseteq gatesOn)
  BY <1>1, Zenon DEF Shows
<1>2. CASE unread # {}
  BY <1>2, Zenon DEF Shows
<1> QED
  BY <1>1, <1>2

LEMMA MmioSafe ==
  ASSUME NEW gates, NEW gatesOn, gates \subseteq gatesOn
  PROVE  Mmio(gates, gatesOn) = {}
  BY DEF Mmio, If

\* Phases E, B and C re-read the gates in the phase that reads the MMIO behind
\* them: on every boot on which they could look the gates up, no earlier report,
\* however stale, makes one read a dead block.
THEOREM NoReadBehindOffGate == Spec => []MmioBehindGates
<1>1. Init => MmioBehindGates
  BY DEF Init, MmioBehindGates
<1>2. MmioBehindGates /\ [Next]_vars => MmioBehindGates'
  <2> SUFFICES ASSUME MmioBehindGates, [Next]_vars PROVE MmioBehindGates'
    OBVIOUS
  <2>0. ASSUME NEW es, Notes(es), "mmio_behind_off_gate" \in es => "unchecked" \in es
        PROVE  MmioBehindGates'
    BY <2>0 DEF MmioBehindGates, Notes
  <2>1. CASE PhaseE
    <3>1. CASE Notes({})
      BY <2>0, <3>1
    <3>2. CASE \E lost \in LostToE :
                  /\ SafeForE(lost)
                  /\ Notes(Mmio(NeededByE, on) \cup If(lost # {}, "unchecked"))
      <4>1. PICK lost \in LostToE :
                  /\ SafeForE(lost)
                  /\ Notes(Mmio(NeededByE, on) \cup If(lost # {}, "unchecked"))
        BY <3>2
      <4>2. CASE lost = {}
        <5>1. NeededByE \subseteq on
          BY <4>1, <4>2 DEF SafeForE
        <5>2. Mmio(NeededByE, on) \cup If(lost # {}, "unchecked") = {}
          BY <4>2, <5>1, MmioSafe DEF If
        <5> QED
          BY <2>0, <4>1, <5>2
      <4>3. CASE lost # {}
        <5>1. "unchecked" \in Mmio(NeededByE, on) \cup If(lost # {}, "unchecked")
          BY <4>3 DEF If
        <5> QED
          BY <2>0, <4>1, <5>1
      <4> QED
        BY <4>2, <4>3
    <3> QED
      BY <2>1, <3>1, <3>2 DEF PhaseE
  <2>2. CASE PhaseB
    <3>1. \/ Notes({})
          \/ \E unread \in SUBSET Real :
                /\ Shows(unread, on') = "all_on" /\ Notes(Mmio(Real, on'))
      BY <2>2 DEF PhaseB
    <3> QED
      BY <2>0, <3>1, ShowsAllOn, MmioSafe
  <2>3. CASE PhaseC
    <3>1. \/ Notes({}) \/ (SafeForC(on') /\ Notes(Mmio(Real, on')))
          \/ Notes(Mmio(Real, on') \cup {"unchecked"})
      BY <2>3 DEF PhaseC
    <3> QED
      BY <2>0, <3>1, MmioSafe DEF SafeForC
  <2>4. CASE PhaseF \/ PcieInit \/ GuardedSection
    <3>1. \E es : es \subseteq {"F_below_off_gate", "F_up", "init_returned", "harvest"}
                  /\ Notes(es)
      BY <2>4 DEF PhaseF, PcieInit, GuardedSection, If
    <3> QED
      BY <2>0, <3>1
  <2>5. CASE events' = events
    BY <2>5 DEF MmioBehindGates
  <2>6. CASE Plain \/ Phase0 \/ PhaseD \/ NoPcieInit \/ GateShut \/ Verify \/ PostInitPhyIp
    <3>1. Notes({})
      BY <2>6 DEF Plain, Phase0, PhaseD, NoPcieInit, SkipsInit, GateShut, Verify,
         PostInitPhyIp
    <3> QED
      BY <2>0, <3>1
  <2>7. CASE RecoveryProbe
    BY <2>5, <2>7 DEF RecoveryProbe, Notes
  <2>8. CASE Summarise \/ Finishes \/ Drift \/ UNCHANGED vars
    BY <2>5, <2>8 DEF Summarise, Finishes, Drift, vars
  <2> QED
    BY <2>1, <2>2, <2>3, <2>4, <2>6, <2>7, <2>8 DEF Next, Host
<1> QED
  BY <1>1, <1>2, PTL DEF Spec
=============================================================================
