----------------------- MODULE RegisterProgramsProofs -----------------------
(***************************************************************************)
(* Proofs about RegisterPrograms, for every list of boots, every handoff   *)
(* and every number of troubles.  ProgramShape says what the programs of a *)
(* boot are like; here the steps of a boot are shown to keep what follows  *)
(* from it.                                                                *)
(***************************************************************************)
EXTENDS ProgramShape

-----------------------------------------------------------------------------
(* Where a boot stands.                                                    *)

LEMMA Opened ==
  ASSUME order \in DOMAIN Orders
  PROVE  /\ programs \in Seq(ProgramSet(flags)) /\ Len(programs) \in Nat
         /\ \A k \in 1 .. Len(programs) : programs[k] \in ProgramSet(flags)
<1>1. programs \in Seq(ProgramSet(flags))
  BY CodePrograms DEF programs, flags
<1> QED
  BY <1>1

LEMMA InProgram ==
  ASSUME TypeOK, stage = "inside"
  PROVE  /\ program \in ProgramSet(flags) /\ next \in 1 .. Len(programs) /\ Len(programs) \in Nat
         /\ program.ops \in Seq(Accesses) /\ Len(program.ops) \in Nat
         /\ Fits(program.ops) /\ Paired(program.ops) /\ Restores(program.ops)
         /\ step \in 1 .. Len(program.ops) + 1
         /\ ~PastEnd => step \in 1 .. Len(program.ops) /\ op \in Accesses
<1>1. next \in 1 .. Len(programs) /\ Len(programs) \in Nat /\ program \in ProgramSet(flags)
  <2>1. Len(programs) \in Nat /\ \A k \in 1 .. Len(programs) : programs[k] \in ProgramSet(flags)
    BY Opened DEF TypeOK
  <2>2. next \in 1 .. Len(programs) + 1 /\ next <= Len(programs)
    BY DEF TypeOK
  <2>3. next \in 1 .. Len(programs)
    BY <2>1, <2>2
  <2> QED
    BY <2>1, <2>3 DEF program
<1>2. program.ops \in Orderly
  BY <1>1 DEF ProgramSet
<1>3. /\ program.ops \in Seq(Accesses) /\ Len(program.ops) \in Nat
      /\ Fits(program.ops) /\ Paired(program.ops) /\ Restores(program.ops)
  BY <1>2 DEF Orderly
<1>4. step \in 1 .. Len(program.ops) + 1
  BY DEF TypeOK
<1>5. ~PastEnd => step \in 1 .. Len(program.ops)
  BY <1>3, <1>4 DEF PastEnd
<1> QED
  BY <1>1, <1>3, <1>4, <1>5 DEF op

LEMMA SkippedIsSkips == Skipped = Skips(op)
<1>1. Skipped = IF op.on \in {"pairs", "drops"} THEN 2 ELSE IF op.on = "entry" THEN 3 ELSE 1
  BY Zenon DEF Skipped
<1> QED
  BY <1>1 DEF Skips

\* Where a program goes on after an access.
LEMMA Continued ==
  ASSUME TypeOK, stage = "inside", ~PastEnd
  PROVE  /\ End \in 1 .. Len(program.ops) + 1 /\ step + 1 \in 1 .. Len(program.ops) + 1
         /\ op.on # "leaves" => /\ step + Skipped = Lands(program.ops, step)
                                /\ step + Skipped \in 1 .. Len(program.ops) + 1
         /\ \A o : Raised(o) /\ ~Leaves(o) => op.on # "leaves"
         /\ \A o : ~Raised(o) => ~Leaves(o)
<1>1. step \in 1 .. Len(program.ops) /\ Len(program.ops) \in Nat
  BY InProgram
<1>2. End \in 1 .. Len(program.ops) + 1 /\ step + 1 \in 1 .. Len(program.ops) + 1
  BY <1>1 DEF End
<1>3. Skipped \in {1, 2, 3}
  BY SkippedIsSkips DEF Skips
<1>4. op.on # "leaves" => step + Skipped = Lands(program.ops, step)
  BY SkippedIsSkips DEF Lands, op
<1>5. Lands(program.ops, step) <= Len(program.ops) + 1
  BY <1>1, InProgram DEF Fits
<1>6. op.on # "leaves" => step + Skipped \in 1 .. Len(program.ops) + 1
  BY <1>1, <1>3, <1>4, <1>5
<1>7. \A o : (Raised(o) /\ ~Leaves(o) => op.on # "leaves") /\ (~Raised(o) => ~Leaves(o))
  BY DEF Leaves
<1> QED
  BY <1>2, <1>4, <1>6, <1>7

LEMMA ContinuesTyped ==
  ASSUME TypeOK, stage = "inside", ~PastEnd, NEW o, Continues(o)
  PROVE  /\ step' \in 1 .. Len(program.ops) + 1
         /\ \/ step' = step + 1 /\ (Raised(o) => Lands(program.ops, step) = step + 1)
            \/ Raised(o) /\ step' = Lands(program.ops, step)
            \/ Raised(o) /\ Leaves(o) /\ step' = End
         /\ ~Raised(o) => step' = step + 1
  BY Continued DEF Continues

-----------------------------------------------------------------------------
(* Type correctness.                                                       *)

LEMMA BitsOfWords ==
  /\ Sentinel \subseteq Bits
  /\ \A w \in PsWords : w \subseteq Bits
  /\ \A old \in SUBSET Bits, a \in Accesses : (old \ a.clear) \cup a.set \subseteq Bits
<1>1. Sentinel \subseteq Bits
  BY DEF Sentinel, Bits
<1>2. \A w \in PsWords : w \subseteq Bits
  BY DEF PsWords, Bits, On, Virtual
<1>3. \A old \in SUBSET Bits, a \in Accesses : (old \ a.clear) \cup a.set \subseteq Bits
  BY DEF Accesses
<1> QED
  BY <1>1, <1>2, <1>3

\* What every access leaves as it was, and what it may add.
Stands ==
    /\ order' = order /\ next' = next /\ stage' = stage /\ stage = "inside" /\ ~PastEnd
    /\ step' \in 1 .. Len(program.ops) + 1

LEMMA StandsTyped ==
  ASSUME TypeOK, Stands
  PROVE  /\ order' \in DOMAIN Orders /\ stage' \in {"between", "inside", "ended", "escaped"}
         /\ next' \in 1 .. Len(programs') + 1
         /\ next' <= Len(programs') /\ step' \in 1 .. Len(program.ops') + 1
         /\ flags' = flags /\ programs' = programs /\ program' = program
  BY DEF TypeOK, Stands, flags, programs, program

LEMMA AnsweredTyped ==
  ASSUME TypeOK, stage = "inside", ~PastEnd, NEW o \in Outcomes, Answered(o)
  PROVE  /\ order' = order /\ next' = next /\ stage' = stage
         /\ alive' \in BOOLEAN /\ guardOn' \in BOOLEAN /\ short' = short /\ saved' = saved
         /\ troubles' \in 0 .. MaxTroubles
         /\ bad' \subseteq Regs \cup {GuardOn, GuardOff}
<1>1. op \in Accesses
  BY InProgram
<1>2. op.reg \in Regs
  BY <1>1 DEF Accesses
<1>3. alive' \in BOOLEAN /\ guardOn' \in BOOLEAN
  BY DEF Answered
<1>4. bad' \subseteq Regs \cup {GuardOn, GuardOff}
  BY <1>2 DEF Answered, TypeOK
<1>5. troubles' \in 0 .. MaxTroubles
  <2>1. troubles \in 0 .. MaxTroubles /\ MaxTroubles \in Nat
    BY RegisterProgramsAssumption DEF TypeOK
  <2>2. o = "ok" \/ Unclocked(op.reg) \/ troubles < MaxTroubles
    BY DEF Outcomes
  <2>3. troubles' = troubles + (IF o = "ok" \/ Unclocked(op.reg) THEN 0 ELSE 1)
    BY DEF Answered
  <2> QED
    BY <2>1, <2>2, <2>3
<1> QED
  BY <1>3, <1>4, <1>5 DEF Answered

\* The steps of an open program keep every part of the type.
LEMMA ReadsTyped == ASSUME TypeOK, Reads PROVE Stands /\ TypeOK'
<1>1. PICK o \in Outcomes \ {"dropped"} : Answered(o) /\ Continues(o)
  BY DEF Reads
<1>2. stage = "inside" /\ ~PastEnd
  BY DEF Reads, Inside
<1>3. Stands
  BY <1>1, <1>2, AnsweredTyped, ContinuesTyped DEF Stands
<1> QED
  BY <1>1, <1>2, <1>3, AnsweredTyped, StandsTyped DEF Reads, TypeOK

LEMMA TouchesTyped == ASSUME TypeOK, Touches PROVE Stands /\ TypeOK'
<1>1. PICK o \in Outcomes \ {"dropped"} :
        /\ Answered(o) /\ Continues(o)
        /\ reach' = IF Raised(o) THEN reach ELSE reach \cup ({op.reg[1]} \cap FirstTouchWindows)
  BY DEF Touches
<1>2. stage = "inside" /\ ~PastEnd
  BY DEF Touches, Inside
<1>3. Stands
  BY <1>1, <1>2, AnsweredTyped, ContinuesTyped DEF Stands
<1>4. reach' \subseteq FirstTouchWindows \cup {"acio gate", "cpu gate"}
  BY <1>1 DEF TypeOK
<1> QED
  BY <1>1, <1>2, <1>3, <1>4, AnsweredTyped, StandsTyped DEF Touches, TypeOK

LEMMA HoldsTyped == ASSUME TypeOK, Holds PROVE Stands /\ TypeOK'
<1>1. stage = "inside" /\ ~PastEnd
  BY DEF Holds, Inside
<1>2. PICK o \in Outcomes \ {"dropped"} :
        LET value == IF o = "fault" THEN Sentinel ELSE mem[op.reg]
        IN  /\ Answered(o)
            /\ IF Raised(o)
               THEN Continues(o) /\ UNCHANGED <<held, junk>>
               ELSE /\ held' = value
                    /\ junk' = IF o = "fault" THEN junk \cup {op.reg} ELSE junk
                    /\ step' = step + (IF Noop(value) THEN Skipped ELSE 1)
  BY DEF Holds
<1>3. op \in Accesses /\ op.reg \in Regs
  BY <1>1, InProgram DEF Accesses
<1>4. held' \subseteq Bits /\ junk' \subseteq Regs
  <2>1. mem[op.reg] \subseteq Bits /\ held \subseteq Bits /\ junk \subseteq Regs
    BY <1>3 DEF TypeOK
  <2> QED
    BY <1>2, <1>3, <2>1, BitsOfWords
<1>5. step' \in 1 .. Len(program.ops) + 1
  <2>1. \A w : Noop(w) => op.on # "leaves"
    BY DEF Noop
  <2> QED
    BY <1>1, <1>2, <2>1, ContinuesTyped, Continued
<1>6. Stands
  BY <1>1, <1>2, <1>5, AnsweredTyped DEF Stands
<1> QED
  BY <1>1, <1>2, <1>4, <1>6, AnsweredTyped, StandsTyped DEF Holds, TypeOK

\* A write was made, and is known to have been made when it was answered.
WritesIt ==
    /\ mem' = [mem EXCEPT ![op.reg] = New(IF op.do = "rmw" THEN held ELSE mem[op.reg])]
    /\ driven' = driven \cup {i \in Ports : op.reg = Perst(i)}

LEMMA WritesOrNot ==
  ASSUME Writes
  PROVE  \E o \in Outcomes :
            /\ Answered(o) /\ Continues(o)
            /\ \/ o \in {"ok", "lost"} /\ WritesIt
               \/ o # "ok" /\ mem' = mem /\ driven' = driven
<1>1. PICK o \in Outcomes : \E made \in Made(o) :
        /\ Answered(o) /\ Continues(o)
        /\ mem' = IF made
                  THEN [mem EXCEPT ![op.reg] = New(IF op.do = "rmw" THEN held ELSE @)]
                  ELSE mem
        /\ driven' = driven \cup {i \in Ports : made /\ op.reg = Perst(i)}
  BY DEF Writes
<1>2. PICK made \in Made(o) :
        /\ Answered(o) /\ Continues(o)
        /\ mem' = IF made
                  THEN [mem EXCEPT ![op.reg] = New(IF op.do = "rmw" THEN held ELSE @)]
                  ELSE mem
        /\ driven' = driven \cup {i \in Ports : made /\ op.reg = Perst(i)}
  BY <1>1
<1>3. Made(o) = IF o = "ok" THEN {TRUE} ELSE IF o = "lost" THEN {TRUE, FALSE} ELSE {FALSE}
  BY Zenon DEF Made
<1>4. \/ made = TRUE /\ o \in {"ok", "lost"}
      \/ made = FALSE /\ o # "ok"
  BY <1>2, <1>3
<1>5. CASE made = TRUE /\ o \in {"ok", "lost"}
  BY <1>2, <1>5 DEF WritesIt
<1>6. CASE made = FALSE /\ o # "ok"
  BY <1>2, <1>6
<1> QED
  BY <1>4, <1>5, <1>6

LEMMA WritesTyped == ASSUME TypeOK, Writes PROVE Stands /\ TypeOK'
<1>1. PICK o \in Outcomes :
        /\ Answered(o) /\ Continues(o)
        /\ \/ o \in {"ok", "lost"} /\ WritesIt
           \/ o # "ok" /\ mem' = mem /\ driven' = driven
  BY WritesOrNot
<1>2. stage = "inside" /\ ~PastEnd
  BY DEF Writes, Inside
<1>3. Stands
  BY <1>1, <1>2, AnsweredTyped, ContinuesTyped DEF Stands
<1>4. mem' \in [Regs -> SUBSET Bits]
  <2>1. op \in Accesses /\ op.reg \in Regs
    BY <1>2, InProgram DEF Accesses
  <2>2. mem[op.reg] \in SUBSET Bits /\ held \in SUBSET Bits /\ mem \in [Regs -> SUBSET Bits]
    BY <2>1 DEF TypeOK
  <2>3. New(mem[op.reg]) \in SUBSET Bits /\ New(held) \in SUBSET Bits
    BY <2>1, <2>2, BitsOfWords DEF New
  <2> QED
    BY <1>1, <2>2, <2>3 DEF WritesIt
<1>5. driven' \subseteq Ports
  BY <1>1 DEF TypeOK, WritesIt
<1> QED
  BY <1>1, <1>2, <1>3, <1>4, <1>5, AnsweredTyped, StandsTyped DEF Writes, TypeOK

LEMMA ReadsGateTyped == ASSUME TypeOK, ReadsGate PROVE Stands /\ TypeOK'
<1>1. PICK o \in Outcomes \ {"dropped"} :
        /\ IF Virtual \in mem[op.reg]
           THEN o = "ok" /\ step' = step + 1
                /\ UNCHANGED <<order, next, stage, alive, guard, troubles, bad>>
           ELSE Answered(o) /\ Continues(o)
        /\ reach' = IF op.do = "gate" /\ CountsAsActive(mem[op.reg], o)
                    THEN reach \cup {op.reg[1]} ELSE reach
  BY DEF ReadsGate
<1>2. stage = "inside" /\ ~PastEnd
  BY DEF ReadsGate, Inside
<1>3. Stands
  BY <1>1, <1>2, AnsweredTyped, ContinuesTyped, Continued DEF Stands
<1>4. op.do = "gate" => op.reg[1] \in {"acio gate", "cpu gate"}
  BY <1>2, InProgram DEF ProgramSet, GatesFlagged, op
<1>5. reach' \subseteq FirstTouchWindows \cup {"acio gate", "cpu gate"}
  BY <1>1, <1>4 DEF TypeOK
<1>6. /\ alive' \in BOOLEAN /\ guardOn' \in BOOLEAN /\ short' = short /\ saved' = saved
      /\ troubles' \in 0 .. MaxTroubles /\ bad' \subseteq Regs \cup {GuardOn, GuardOff}
  BY <1>1, <1>2, AnsweredTyped DEF TypeOK, guard
<1> QED
  BY <1>3, <1>5, <1>6, StandsTyped DEF ReadsGate, TypeOK

LEMMA StopsIfTyped == ASSUME TypeOK, StopsIf PROVE Stands /\ TypeOK'
<1>1. PICK o \in Outcomes \ {"dropped"} :
        /\ Answered(o)
        /\ step' = End \/ step' = step + 1
  BY DEF StopsIf
<1>2. stage = "inside" /\ ~PastEnd
  BY DEF StopsIf, Inside
<1>3. Stands
  BY <1>1, <1>2, AnsweredTyped, Continued DEF Stands
<1> QED
  BY <1>1, <1>2, <1>3, AnsweredTyped, StandsTyped DEF StopsIf, TypeOK

LEMMA TroubleTyped ==
  ASSUME NEW what \in Regs \cup {GuardOn, GuardOff}, Trouble(what),
         troubles \in 0 .. MaxTroubles, bad \subseteq Regs \cup {GuardOn, GuardOff}
  PROVE  /\ troubles' \in 0 .. MaxTroubles /\ bad' \subseteq Regs \cup {GuardOn, GuardOff}
         /\ junk' = junk /\ driven' = driven
<1>1. troubles' = troubles + 1 /\ troubles < MaxTroubles /\ MaxTroubles \in Nat
  BY RegisterProgramsAssumption DEF Trouble
<1>2. troubles' \in 0 .. MaxTroubles
  BY <1>1
<1> QED
  BY <1>2 DEF Trouble

LEMMA AccessEntryRaisesTyped == ASSUME TypeOK, AccessEntryRaises PROVE Stands /\ TypeOK'
<1>1. stage = "inside" /\ ~PastEnd
  BY DEF AccessEntryRaises
<1>2. Stands
  BY <1>1, Continued DEF AccessEntryRaises, Stands, host
<1>3. troubles' \in 0 .. MaxTroubles /\ bad' \subseteq Regs \cup {GuardOn, GuardOff}
  <2>1. troubles \in 0 .. MaxTroubles /\ bad \subseteq Regs \cup {GuardOn, GuardOff}
    BY DEF TypeOK
  <2>2. Trouble(GuardOn)
    BY DEF AccessEntryRaises
  <2> QED
    BY <2>1, <2>2, TroubleTyped
<1> QED
  BY <1>2, <1>3, StandsTyped DEF AccessEntryRaises, Trouble, TypeOK, host, hardware

LEMMA DeadAccessTyped == ASSUME TypeOK, DeadAccess PROVE Stands /\ TypeOK'
<1>1. stage = "inside" /\ ~PastEnd
  BY DEF DeadAccess
<1>2. op.on \in Caught => op.on # "leaves"
  BY DEF Caught
<1>3. Stands
  BY <1>1, <1>2, Continued DEF DeadAccess, Stands, host
<1> QED
  BY <1>3, StandsTyped DEF DeadAccess, TypeOK, host, hardware, guard, history

\* p.pcie_init returns and releases the ports, or ends the programs.
InitReturns ==
    /\ alive' = alive /\ stage' = stage /\ next' = next /\ history' = history
    /\ mem' = [r \in Regs |-> IF r[1] = "port+0x82c" /\ r[2] \in ActivePorts
                              THEN mem[r] \cup {0} ELSE mem[r]]

InitFails ==
    /\ stage' = "between" /\ next' = Len(programs) + 1 /\ mem' = mem
    /\ \/ alive /\ Trouble(op.reg) /\ alive' \in BOOLEAN
       \/ ~alive /\ alive' = alive /\ history' = history

LEMMA PcieInitOutcomes ==
  ASSUME PcieInit
  PROVE  InitReturns \/ InitFails
  BY DEF PcieInit, InitReturns, InitFails, hardware

LEMMA PcieInitTyped == ASSUME TypeOK, PcieInit PROVE TypeOK'
<1>1. /\ stage = "inside" /\ ~PastEnd /\ step' = End
      /\ order' = order /\ reach' = reach /\ held' = held
      /\ guardOn' = guardOn /\ short' = short /\ saved' = saved
  BY DEF PcieInit, host, guard
<1>2. /\ next \in 1 .. Len(programs) /\ Len(programs) \in Nat /\ op.reg \in Regs
      /\ End \in 1 .. Len(program.ops) + 1
  BY <1>1, InProgram, Continued DEF Accesses
<1>3. CASE InitReturns
  <2>1. Stands
    BY <1>1, <1>2, <1>3 DEF Stands, InitReturns
  <2>2. mem' \in [Regs -> SUBSET Bits]
    <3>1. \A r \in Regs : mem[r] \in SUBSET Bits /\ mem[r] \cup {0} \in SUBSET Bits
      <4>1. 0 \in Bits /\ mem \in [Regs -> SUBSET Bits]
        <5>1. mem \in [Regs -> SUBSET Bits]
          BY DEF TypeOK
        <5>2. 0 \in Bits
          BY DEF Bits
        <5> QED
          BY <5>1, <5>2
      <4> QED
        BY <4>1
    <3> QED
      BY <1>3, <3>1 DEF InitReturns
  <2> QED
    BY <1>1, <1>3, <2>1, <2>2, StandsTyped DEF InitReturns, history, TypeOK
<1>4. CASE InitFails
  <2>1. order' \in DOMAIN Orders /\ stage' = "between" /\ programs' = programs
    BY <1>1, <1>4 DEF TypeOK, InitFails, programs
  <2>2. next' \in 1 .. Len(programs') + 1
    BY <1>2, <1>4, <2>1 DEF InitFails
  <2>3. /\ troubles' \in 0 .. MaxTroubles /\ bad' \subseteq Regs \cup {GuardOn, GuardOff}
        /\ junk' = junk /\ driven' = driven
    BY <1>2, <1>4, TroubleTyped DEF TypeOK, InitFails, history
  <2>4. alive' \in BOOLEAN /\ mem' = mem
    BY <1>4 DEF InitFails, TypeOK
  <2> QED
    BY <1>1, <2>1, <2>2, <2>3, <2>4 DEF TypeOK
<1> QED
  BY <1>3, <1>4, PcieInitOutcomes

LEMMA AccessExitFailsTyped == ASSUME TypeOK, AccessExitFails PROVE TypeOK'
<1>1. /\ order' = order /\ next' = next /\ stage' = stage /\ step' = step /\ alive' = alive
      /\ reach' = reach /\ held' = held /\ mem' = mem /\ short' = short /\ saved' = saved
      /\ guardOn' = TRUE
  BY DEF AccessExitFails, host, hardware
<1>2. /\ troubles' \in 0 .. MaxTroubles /\ bad' \subseteq Regs \cup {GuardOn, GuardOff}
      /\ junk' = junk /\ driven' = driven
  BY TroubleTyped DEF AccessExitFails, TypeOK
<1>3. programs' = programs /\ program' = program
  BY <1>1 DEF programs, program
<1> QED
  BY <1>1, <1>2, <1>3 DEF TypeOK

\* The steps between programs.
LEMMA BetweenTyped ==
  ASSUME TypeOK, SkipProgram \/ OpenProgram \/ EntryRaises \/ CloseProgram \/ Finish
  PROVE  TypeOK'
<1>0. Len(programs) \in Nat /\ \A k \in 1 .. Len(programs) : programs[k].ops \in Orderly
  BY Opened DEF TypeOK, ProgramSet
<1>1. next \in 1 .. Len(programs) + 1
  BY DEF TypeOK
<1>2. CASE SkipProgram
  <2>1. next' = next + 1 /\ next' \in 1 .. Len(programs) + 1 /\ stage' = "between"
    BY <1>0, <1>1, <1>2 DEF SkipProgram, Between, PastLast
  <2>2. programs' = programs
    BY <1>2 DEF SkipProgram, host, programs
  <2> QED
    BY <1>2, <2>1, <2>2 DEF SkipProgram, TypeOK, host, hardware, guard, history
<1>3. CASE OpenProgram
  <2>1. next' = next /\ next \in 1 .. Len(programs) /\ stage' = "inside" /\ step' = 1
    BY <1>0, <1>1, <1>3 DEF OpenProgram, Between, PastLast
  <2>2. programs' = programs /\ program' = program
    BY <1>3 DEF OpenProgram, host, programs, program
  <2>3. step' \in 1 .. Len(program.ops) + 1
    <3>1. program.ops \in Orderly
      BY <1>0, <2>1 DEF program
    <3> QED
      BY <2>1, <3>1 DEF Orderly
  <2>4. next' <= Len(programs')
    BY <1>0, <2>1, <2>2
  <2>5. guardOn' \in BOOLEAN /\ short' \in BOOLEAN /\ saved' \in BOOLEAN
    BY <1>3 DEF OpenProgram, guard, TypeOK
  <2> QED
    BY <1>1, <1>3, <2>1, <2>2, <2>3, <2>4, <2>5 DEF OpenProgram, TypeOK, host, hardware, history
<1>4. CASE EntryRaises
  <2>1. next' = next /\ programs' = programs /\ stage' = "escaped"
    BY <1>4 DEF EntryRaises, host, programs
  <2>2. guardOn' \in BOOLEAN /\ short' \in BOOLEAN /\ saved' \in BOOLEAN
    BY <1>4 DEF EntryRaises, TypeOK
  <2>3. /\ troubles' \in 0 .. MaxTroubles /\ bad' \subseteq Regs \cup {GuardOn, GuardOff}
        /\ junk' = junk /\ driven' = driven
    BY <1>4, TroubleTyped DEF EntryRaises, TypeOK, history
  <2> QED
    BY <1>1, <1>4, <2>1, <2>2, <2>3 DEF EntryRaises, TypeOK, host, hardware
<1>5. CASE CloseProgram
  <2>1. stage = "inside" /\ next' = next + 1 /\ stage' = "between"
    BY <1>5 DEF CloseProgram
  <2>2. programs' = programs
    BY <1>5 DEF CloseProgram, host, programs
  <2>3. next' \in 1 .. Len(programs') + 1
    BY <1>0, <2>1, <2>2, InProgram
  <2>4. /\ guardOn' \in BOOLEAN /\ short' \in BOOLEAN /\ saved' \in BOOLEAN
    BY <1>5 DEF CloseProgram, RestoresTimeout, guard, TypeOK
  <2>5. /\ troubles' \in 0 .. MaxTroubles /\ bad' \subseteq Regs \cup {GuardOn, GuardOff}
        /\ junk' = junk /\ driven' = driven
    BY <1>5, TroubleTyped DEF CloseProgram, TypeOK, history
  <2> QED
    BY <1>5, <2>1, <2>2, <2>3, <2>4, <2>5 DEF CloseProgram, TypeOK, host, hardware
<1>6. CASE Finish
  BY <1>6 DEF Finish, TypeOK, host, hardware, guard, history, programs
<1> QED
  BY <1>2, <1>3, <1>4, <1>5, <1>6

\* The two gates of a block, and what is behind them.
LEMMA NamedRegs ==
  ASSUME NEW r \in Regs, r[1] \in SocNames
  PROVE  r[2] \in 0 .. 1 /\ r = <<r[1], r[2]>>
<1>1. \/ r \in Windows \X Offsets
      \/ r \in PortNames \X Ports
      \/ r \in SocNames \X {0, 1}
      \/ r \in {Clkreq, Smc, Rvbar, Smp, CpuStart(4), CpuStart(8)}
      \/ r \in {ScanWord(n) : n \in 0 .. 2}
  BY DEF Regs
<1>2. CASE r \in Windows \X Offsets
  BY <1>2 DEF Windows, SocNames
<1>3. CASE r \in PortNames \X Ports
  BY <1>3 DEF PortNames, SocNames
<1>4. CASE r \in SocNames \X {0, 1}
  BY <1>4
<1>5. CASE r \in {Clkreq, Smc, Rvbar, Smp, CpuStart(4), CpuStart(8)}
  <2>1. /\ Clkreq[1] = "clkreq" /\ Smc[1] = "smc" /\ Rvbar[1] = "rvbar"
        /\ Smp[1] = "smp_start_secondaries" /\ CpuStart(4)[1] = "cpustart"
        /\ CpuStart(8)[1] = "cpustart"
    BY DEF Clkreq, Smc, Rvbar, Smp, CpuStart
  <2> QED
    BY <1>5, <2>1 DEF SocNames
<1>6. CASE r \in {ScanWord(n) : n \in 0 .. 2}
  <2>1. PICK n \in 0 .. 2 : r = ScanWord(n)
    BY <1>6
  <2>2. ScanWord(n)[1] = "pmgr"
    BY DEF ScanWord
  <2> QED
    BY <2>1, <2>2 DEF SocNames
<1> QED
  BY <1>1, <1>2, <1>3, <1>4, <1>5, <1>6

LEMMA InitTyped == ASSUME Init PROVE TypeOK
<1>1. order \in DOMAIN Orders /\ next = 1 /\ stage = "between" /\ step = 1
  BY DEF Init
<1>2. Len(programs) \in Nat
  BY <1>1, Opened
<1>3. next \in 1 .. Len(programs) + 1
  BY <1>1, <1>2
<1>4. mem \in [Regs -> SUBSET Bits]
  <2>1. PICK words \in [0 .. 1 -> IF "acio_status" \in flags THEN PsWords ELSE {{}}] :
           mem = [r \in Regs |-> IF r[1] = "acio gate" THEN words[r[2]] ELSE Handoff[r]]
    BY DEF Init
  <2>2. \A r \in Regs : r[1] = "acio gate" => r[2] \in 0 .. 1
    BY NamedRegs DEF SocNames
  <2>3. \A n \in 0 .. 1 : words[n] \in SUBSET Bits
    BY <2>1, BitsOfWords
  <2> QED
    BY <2>1, <2>2, <2>3, RegisterProgramsAssumption
<1>5. troubles \in 0 .. MaxTroubles
  <2>1. troubles = 0
    BY DEF Init
  <2> QED
    BY <2>1, RegisterProgramsAssumption
<1> QED
  BY <1>1, <1>3, <1>4, <1>5 DEF Init, TypeOK

LEMMA TypeStep == ASSUME TypeOK, [Next]_vars PROVE TypeOK'
<1>1. CASE Next
  BY <1>1, ReadsTyped, TouchesTyped, HoldsTyped, WritesTyped, ReadsGateTyped, StopsIfTyped,
     AccessEntryRaisesTyped, DeadAccessTyped, PcieInitTyped, AccessExitFailsTyped,
     BetweenTyped DEF Next
<1>2. CASE UNCHANGED vars
  BY <1>2 DEF vars, host, hardware, guard, history, TypeOK, programs, program
<1> QED
  BY <1>1, <1>2

\* No step leaves the types: in particular no failure leads past the end of a
\* program, although some give up three accesses at once.
THEOREM BootTypeCorrect == Spec => []TypeOK
<1>1. Init => TypeOK
  BY InitTyped
<1>2. TypeOK /\ [Next]_vars => TypeOK'
  BY TypeStep
<1> QED
  BY <1>1, <1>2, PTL DEF Spec

-----------------------------------------------------------------------------
(* What the accesses of a program have in common.                          *)

PlainAccess ==
    Reads \/ Touches \/ Holds \/ Writes \/ ReadsGate \/ StopsIf \/ DeadAccess

\* The program goes on with the next access, skips some, or ends.
Moves ==
    /\ step' \in {step + 1, Lands(program.ops, step), End}
    /\ Stays(op) /\ alive' /\ Pin0 \notin bad' => step' = step + 1
    /\ GoesOn(op) /\ alive' => step' = step + 1
    /\ op.do \in Writing /\ alive' /\ op.reg \notin bad' => step' = step + 1

Keeps ==
    /\ short' = short /\ saved' = saved /\ (guardOn' => guardOn) /\ (alive' => alive)
    /\ bad' = bad \/ bad' = bad \cup {op.reg}
    /\ reach \subseteq reach' /\ junk \subseteq junk'
    /\ op.do \notin Writing => mem' = mem /\ driven' = driven
    /\ op.do # "hold" => held' = held /\ junk' = junk

LEMMA AnsweredKeeps ==
  ASSUME TypeOK, NEW o, Answered(o)
  PROVE  /\ short' = short /\ saved' = saved /\ (guardOn' => guardOn)
         /\ (alive => alive' = ~Deadly(o)) /\ bad \subseteq bad'
         /\ bad' = bad \/ bad' = bad \cup {op.reg}
         /\ o # "ok" => op.reg \in bad'
  BY DEF Answered

\* An access of the kind that stays raises, and the program does not go on with
\* the next one, only when m1n1 died or the pin was not reached.
LEMMA ContinuesStays ==
  ASSUME TypeOK, stage = "inside", ~PastEnd, alive, NEW o, Answered(o), Continues(o)
  PROVE  Moves
<1>1. step' \in {step + 1, Lands(program.ops, step), End}
  BY ContinuesTyped
<1>2. ASSUME Stays(op), alive', Pin0 \notin bad'
      PROVE  step' = step + 1
  <2>1. ~Deadly(o) /\ (o # "ok" => op.reg # Pin0)
    BY <1>2, AnsweredKeeps
  <2>2. CASE ~Raised(o)
    BY <2>2, ContinuesTyped
  <2>3. CASE Raised(o)
    <3>1. o # "ok"
      BY <2>3 DEF Raised, Deadly
    <3>2. op.on \in {"checks", "swallows"}
      BY <1>2, <2>1, <3>1 DEF Stays
    <3>3. ~Leaves(o) /\ Skipped = 1
      BY <2>1, <3>2, SkippedIsSkips DEF Leaves, Skips
    <3> QED
      BY <2>3, <3>3 DEF Continues
  <2> QED
    BY <2>2, <2>3
<1>3. ASSUME GoesOn(op), alive'
      PROVE  step' = step + 1
  <2>1. ~Deadly(o) /\ op.on \in {"checks", "swallows"}
    BY <1>3, AnsweredKeeps DEF GoesOn
  <2>2. ~Leaves(o) /\ Skipped = 1
    BY <2>1, SkippedIsSkips DEF Leaves, Skips
  <2> QED
    BY <2>2 DEF Continues
<1>4. ASSUME alive', op.reg \notin bad'
      PROVE  step' = step + 1
  <2>1. o = "ok"
    BY <1>4, AnsweredKeeps
  <2>2. ~Raised(o)
    BY <2>1 DEF Raised, Deadly
  <2> QED
    BY <2>2, ContinuesTyped
<1> QED
  BY <1>1, <1>2, <1>3, <1>4 DEF Moves

LEMMA ReadKeeps == ASSUME TypeOK, Reads \/ Touches PROVE Keeps /\ Moves
<1>1. stage = "inside" /\ ~PastEnd /\ alive /\ op.do \in {"read", "touch"}
  BY DEF Reads, Touches, Inside
<1>2. PICK o : Answered(o) /\ Continues(o)
  BY DEF Reads, Touches
<1>3. Moves
  BY <1>1, <1>2, ContinuesStays
<1>4. mem' = mem /\ held' = held /\ junk' = junk /\ driven' = driven /\ reach \subseteq reach'
  BY DEF Reads, Touches
<1> QED
  BY <1>1, <1>2, <1>3, <1>4, AnsweredKeeps DEF Keeps

LEMMA GateKeeps == ASSUME TypeOK, ReadsGate PROVE Keeps /\ Moves
<1>1. stage = "inside" /\ ~PastEnd /\ alive /\ op.do \in {"look", "gate"}
  BY DEF ReadsGate, Inside
<1>2. mem' = mem /\ held' = held /\ junk' = junk /\ driven' = driven /\ reach \subseteq reach'
  BY DEF ReadsGate
<1>3. CASE Virtual \in mem[op.reg]
  <2>1. step' = step + 1 /\ UNCHANGED <<alive, guard, bad>>
    BY <1>3 DEF ReadsGate
  <2> QED
    BY <1>1, <1>2, <2>1 DEF Keeps, Moves, GoesOn, Writing, guard
<1>4. CASE Virtual \notin mem[op.reg]
  <2>1. PICK o : Answered(o) /\ Continues(o)
    BY <1>4 DEF ReadsGate
  <2> QED
    BY <1>1, <1>2, <2>1, AnsweredKeeps, ContinuesStays DEF Keeps
<1> QED
  BY <1>3, <1>4

LEMMA StopKeeps == ASSUME TypeOK, StopsIf PROVE Keeps /\ Moves
<1>1. stage = "inside" /\ ~PastEnd /\ alive /\ op.do = "stop if"
  BY DEF StopsIf, Inside
<1>2. PICK o : Answered(o) /\ (step' = End \/ step' = step + 1)
  BY DEF StopsIf
<1>3. mem' = mem /\ held' = held /\ junk' = junk /\ driven' = driven /\ reach' = reach
  BY DEF StopsIf
<1>4. ~Stays(op) /\ ~GoesOn(op) /\ op.do \notin Writing
  BY <1>1 DEF Stays, GoesOn, Writing
<1> QED
  BY <1>1, <1>2, <1>3, <1>4, AnsweredKeeps DEF Keeps, Moves

LEMMA DeadKeeps == ASSUME TypeOK, DeadAccess PROVE Keeps /\ Moves
<1>1. /\ stage = "inside" /\ ~PastEnd /\ ~alive
      /\ step' = IF op.on \in Caught THEN step + Skipped ELSE End
      /\ UNCHANGED <<host, hardware, guard, history>>
  BY DEF DeadAccess
<1>2. step' \in {Lands(program.ops, step), End}
  BY <1>1, Continued DEF Caught
<1> QED
  BY <1>1, <1>2 DEF Keeps, Moves, host, hardware, guard, history

LEMMA HoldKeeps == ASSUME TypeOK, Holds PROVE Keeps /\ Moves
<1>1. stage = "inside" /\ ~PastEnd /\ alive /\ op.do = "hold"
  BY DEF Holds, Inside
<1>2. PICK o \in Outcomes \ {"dropped"} :
        LET value == IF o = "fault" THEN Sentinel ELSE mem[op.reg]
        IN  /\ Answered(o)
            /\ IF Raised(o)
               THEN Continues(o) /\ UNCHANGED <<held, junk>>
               ELSE /\ held' = value
                    /\ junk' = IF o = "fault" THEN junk \cup {op.reg} ELSE junk
                    /\ step' = step + (IF Noop(value) THEN Skipped ELSE 1)
  BY DEF Holds
<1>3. junk \subseteq junk' /\ mem' = mem /\ driven' = driven /\ reach' = reach
  BY <1>2 DEF Holds
<1>4. Moves
  <2>1. CASE Raised(o)
    BY <1>1, <1>2, <2>1, ContinuesStays
  <2>2. CASE ~Raised(o)
    <3>1. \A w : Noop(w) => op.on = "entry"
      BY DEF Noop
    <3>2. step' = step + 1 \/ (op.on = "entry" /\ step' = Lands(program.ops, step))
      BY <1>1, <1>2, <2>2, <3>1, Continued
    <3> QED
      BY <1>1, <3>2 DEF Moves, Stays, GoesOn, Writing
  <2> QED
    BY <2>1, <2>2
<1> QED
  BY <1>1, <1>2, <1>3, <1>4, AnsweredKeeps DEF Keeps

LEMMA WriteKeeps == ASSUME TypeOK, Writes PROVE Keeps /\ Moves
<1>1. stage = "inside" /\ ~PastEnd /\ alive /\ op.do \in Writing
  BY DEF Writes, Inside, Writing
<1>2. PICK o : Answered(o) /\ Continues(o)
  BY DEF Writes
<1>3. held' = held /\ junk' = junk /\ reach' = reach
  BY DEF Writes
<1> QED
  BY <1>1, <1>2, <1>3, AnsweredKeeps, ContinuesStays DEF Keeps

LEMMA PlainSteps ==
  ASSUME TypeOK, PlainAccess
  PROVE  /\ Stands /\ Keeps /\ Moves
         /\ flags' = flags /\ programs' = programs /\ program' = program
<1>1. Stands
  BY ReadsTyped, TouchesTyped, HoldsTyped, WritesTyped, ReadsGateTyped, StopsIfTyped,
     DeadAccessTyped DEF PlainAccess
<1>2. Keeps /\ Moves
  BY ReadKeeps, GateKeeps, StopKeeps, DeadKeeps, HoldKeeps, WriteKeeps DEF PlainAccess
<1> QED
  BY <1>1, <1>2, StandsTyped

-----------------------------------------------------------------------------
(* The guard and the serial timeout.                                       *)

\* What may leave the timeout short, and the guard on.
LongUnlessRaised(timeout) == timeout => GuardOn \in bad
OffUnlessExcused == guardOn => bad \cap {GuardOn, GuardOff} # {} \/ ~alive

\* Inside a section the timeout it will put back counts, not the current one.
GuardInv ==
    /\ stage = "between" => LongUnlessRaised(short) /\ OffUnlessExcused
    /\ stage = "inside" => IF program.guarding = "section" THEN LongUnlessRaised(saved)
                           ELSE LongUnlessRaised(short) /\ OffUnlessExcused

LEMMA GuardPlain ==
  ASSUME TypeOK, GuardInv, PlainAccess
  PROVE  GuardInv'
<1>1. stage = "inside" /\ stage' = "inside" /\ program' = program
  BY PlainSteps DEF Stands
<1>2. /\ short' = short /\ saved' = saved /\ (guardOn' => guardOn) /\ (alive' => alive)
      /\ bad \subseteq bad'
  BY PlainSteps DEF Keeps
<1>3. LongUnlessRaised(saved) => LongUnlessRaised(saved)'
  BY <1>2 DEF LongUnlessRaised
<1>4. LongUnlessRaised(short) => LongUnlessRaised(short)'
  BY <1>2 DEF LongUnlessRaised
<1>5. OffUnlessExcused => OffUnlessExcused'
  BY <1>2 DEF OffUnlessExcused
<1> QED
  BY <1>1, <1>3, <1>4, <1>5 DEF GuardInv

LEMMA GuardStep == ASSUME TypeOK, GuardInv, [Next]_vars PROVE GuardInv'
<1>1. CASE PlainAccess
  BY <1>1, GuardPlain
<1>2. CASE SkipProgram
  <2>1. stage = "between" /\ stage' = "between" /\ UNCHANGED <<short, guardOn, bad, alive>>
    BY <1>2 DEF SkipProgram, Between, guard, history, hardware
  <2> QED
    BY <2>1 DEF GuardInv, LongUnlessRaised, OffUnlessExcused
<1>3. CASE OpenProgram
  <2>1. stage = "between" /\ stage' = "inside" /\ UNCHANGED <<bad, alive>>
    BY <1>3 DEF OpenProgram, Between, history, hardware
  <2>2. program' = program
    BY <1>3 DEF OpenProgram, host, program, programs
  <2>3. CASE program.guarding = "section"
    <3>1. saved' = short
      BY <1>3, <2>3 DEF OpenProgram
    <3> QED
      BY <2>1, <2>2, <2>3, <3>1 DEF GuardInv, LongUnlessRaised
  <2>4. CASE program.guarding # "section"
    <3>1. UNCHANGED <<guardOn, short>>
      BY <1>3, <2>4 DEF OpenProgram, guard
    <3> QED
      BY <2>1, <2>2, <2>4, <3>1 DEF GuardInv, LongUnlessRaised, OffUnlessExcused
  <2> QED
    BY <2>3, <2>4
<1>4. CASE EntryRaises \/ Finish
  BY <1>4 DEF EntryRaises, Finish, GuardInv
<1>5. CASE CloseProgram
  <2>1. stage = "inside" /\ stage' = "between" /\ alive' = alive
    BY <1>5 DEF CloseProgram, hardware
  <2>2. CASE program.guarding = "section"
    <3>1. /\ short' = saved /\ bad \subseteq bad'
          /\ \/ guardOn' = FALSE \/ GuardOff \in bad' \/ ~alive
      BY <1>5, <2>2 DEF CloseProgram, RestoresTimeout, Trouble, history
    <3> QED
      BY <2>1, <2>2, <3>1 DEF GuardInv, LongUnlessRaised, OffUnlessExcused
  <2>3. CASE program.guarding # "section"
    <3>1. UNCHANGED <<short, guardOn, bad>>
      BY <1>5, <2>3 DEF CloseProgram, guard, history
    <3> QED
      BY <2>1, <2>3, <3>1 DEF GuardInv, LongUnlessRaised, OffUnlessExcused
  <2> QED
    BY <2>2, <2>3
<1>6. CASE AccessEntryRaises
  <2>1. stage = "inside" /\ stage' = "inside" /\ GuardOn \in bad' /\ program.guarding = "access"
    BY <1>6 DEF AccessEntryRaises, Trouble
  <2>2. program' = program
    BY <1>6 DEF AccessEntryRaises, host, program, programs
  <2> QED
    BY <2>1, <2>2 DEF GuardInv, LongUnlessRaised, OffUnlessExcused
<1>7. CASE AccessExitFails
  <2>1. /\ stage = "inside" /\ stage' = "inside" /\ GuardOff \in bad' /\ bad \subseteq bad'
        /\ program.guarding = "access" /\ short' = short
    BY <1>7 DEF AccessExitFails, Trouble
  <2>2. program' = program
    BY <1>7 DEF AccessExitFails, host, program, programs
  <2> QED
    BY <2>1, <2>2 DEF GuardInv, LongUnlessRaised, OffUnlessExcused
<1>8. CASE PcieInit
  <2>1. stage = "inside" /\ ~PastEnd /\ op.do = "init" /\ UNCHANGED <<short, guardOn>>
    BY <1>8 DEF PcieInit, guard
  <2>2. program.guarding = "none"
    <3>1. step \in 1 .. Len(program.ops) /\ program \in ProgramSet(flags)
      BY <2>1, InProgram
    <3> QED
      BY <2>1, <3>1 DEF ProgramSet, GuardFits, op
  <2>3. bad \subseteq bad' /\ (alive' => alive)
    BY <1>8 DEF PcieInit, Trouble, history, hardware
  <2>4. stage' \in {"inside", "between"}
    BY <1>8, <2>1 DEF PcieInit
  <2>5. stage' = "inside" => program' = program
    BY <1>8, <2>1 DEF PcieInit, host, program, programs
  <2> QED
    BY <2>1, <2>2, <2>3, <2>4, <2>5 DEF GuardInv, LongUnlessRaised, OffUnlessExcused
<1>9. CASE UNCHANGED vars
  BY <1>9 DEF vars, host, hardware, guard, history, GuardInv, LongUnlessRaised,
              OffUnlessExcused, program, programs
<1> QED
  BY <1>1, <1>2, <1>3, <1>4, <1>5, <1>6, <1>7, <1>8, <1>9 DEF Next, PlainAccess

\* Between programs the timeout is the long one unless turning the guard on
\* raised, which is where guarded() leaves the short one behind; m1n1's guard is
\* off unless turning it on or off raised or m1n1 is gone.
THEOREM GuardIsBalanced == Spec => []GuardBalanced
<1>1. Init => TypeOK /\ GuardInv
  BY InitTyped DEF Init, GuardInv, LongUnlessRaised, OffUnlessExcused
<1>2. TypeOK /\ GuardInv /\ [Next]_vars => (TypeOK /\ GuardInv)'
  BY TypeStep, GuardStep
<1>3. TypeOK /\ GuardInv => GuardBalanced
  BY DEF GuardInv, GuardBalanced, LongUnlessRaised, OffUnlessExcused
<1> QED
  BY <1>1, <1>2, <1>3, PTL DEF Spec

-----------------------------------------------------------------------------
(* What a program needs was found.                                         *)

NeedsMet == stage = "inside" => program.needs \subseteq reach

LEMMA NeedsStep == ASSUME TypeOK, NeedsMet, [Next]_vars PROVE NeedsMet'
<1>1. CASE PlainAccess
  BY <1>1, PlainSteps DEF Stands, Keeps, NeedsMet
<1>2. CASE SkipProgram \/ EntryRaises \/ CloseProgram \/ Finish
  BY <1>2 DEF SkipProgram, Between, EntryRaises, CloseProgram, Finish, NeedsMet
<1>3. CASE OpenProgram
  BY <1>3 DEF OpenProgram, Between, Admitted, NeedsMet, host, program, programs
<1>4. CASE AccessEntryRaises \/ AccessExitFails \/ UNCHANGED vars
  BY <1>4 DEF AccessEntryRaises, AccessExitFails, NeedsMet, vars, host, program, programs
<1>5. CASE PcieInit
  BY <1>5 DEF PcieInit, NeedsMet, host, program, programs
<1> QED
  BY <1>1, <1>2, <1>3, <1>4, <1>5 DEF Next, PlainAccess

LEMMA NeedsAlways == Spec => [](TypeOK /\ NeedsMet)
<1>1. Init => TypeOK /\ NeedsMet
  BY InitTyped DEF Init, NeedsMet
<1>2. TypeOK /\ NeedsMet /\ [Next]_vars => (TypeOK /\ NeedsMet)'
  BY TypeStep, NeedsStep
<1> QED
  BY <1>1, <1>2, PTL DEF Spec

\* On every boot, the windows nobody knows to decode are read by a scan or
\* rewritten by an apply only after their first touch came back.  The write test
\* itself writes them after a touch that was lost.
THEOREM TouchedBeforeUse == Spec => TouchedFirst
<1>1. TypeOK /\ NeedsMet =>
         (stage = "inside" /\ ~PastEnd /\ op.do # "touch" /\ program.name # "write test"
             => op.reg[1] \notin FirstTouchWindows \ reach)
  <2> SUFFICES ASSUME TypeOK, NeedsMet, stage = "inside", ~PastEnd, op.do # "touch",
                      program.name # "write test"
               PROVE  op.reg[1] \notin FirstTouchWindows \ reach
    OBVIOUS
  <2>1. step \in 1 .. Len(program.ops) /\ program \in ProgramSet(flags)
    BY InProgram
  <2>2. op.reg[1] \notin FirstTouchWindows \ program.needs
    BY <2>1 DEF ProgramSet, TouchesNeeded, op
  <2> QED
    BY <2>2 DEF NeedsMet
<1> QED
  BY <1>1, NeedsAlways, PTL DEF TouchedFirst

-----------------------------------------------------------------------------
(* The words a boot rewrites.                                              *)

\* The i-th access writes what is held now: nothing is read before it.
WritesHeld(s, i) == s[i].do = "rmw" /\ \A k \in step .. i - 1 : s[k].do # "hold"

\* What is held is iBoot's word outside the mask of the access it is held for.
HeldFresh ==
    stage = "inside" /\ "naked_write_test" \notin flags =>
        \A i \in step .. Len(program.ops) :
            WritesHeld(program.ops, i) /\ program.ops[i].reg \in Rewritten =>
                LET r == program.ops[i].reg
                IN  r \in junk \/ held \ Meant(r) = Handoff[r] \ Meant(r)

\* No way into the stretch between a pre-read and its write leads past the
\* pre-read: what is held after a step was held before it, or just read.
LEMMA HeldFromBefore ==
  ASSUME TypeOK, stage = "inside", ~PastEnd, Moves, NEW i \in step' .. Len(program.ops),
         WritesHeld(program.ops, i)'  , program' = program
  PROVE  \/ /\ op.do # "hold" /\ WritesHeld(program.ops, i) /\ i \in step .. Len(program.ops)
         \/ /\ op.do = "hold" /\ op.reg = program.ops[i].reg /\ i \in step .. Len(program.ops)
            /\ step' = step + 1 /\ Lands(program.ops, step) # step'
<1> DEFINE s == program.ops
           at == step
           new == step'
<1>1. /\ at \in 1 .. Len(s) /\ Len(s) \in Nat /\ s \in Seq(Accesses) /\ Paired(s)
  BY InProgram
<1>2. s[i].do = "rmw" /\ \A k \in new .. i - 1 : s[k].do # "hold"
  BY DEF WritesHeld
<1>3. new \in {at + 1, Lands(s, at), Len(s) + 1} /\ op = s[at]
  BY DEF Moves, End, op
<1>4. Lands(s, at) \in Nat /\ Lands(s, at) >= at + 1
  BY <1>1, LandsLater
<1> HIDE DEF s, at, new
<1>5. i \in new .. Len(s) /\ new \in Nat /\ new >= at + 1
  BY <1>1, <1>3, <1>4 DEF s, new
<1>6. i \in 1 .. Len(s) /\ i \in at .. Len(s) /\ new # Len(s) + 1
  BY <1>1, <1>5
<1>7. PICK h \in 1 .. i - 1 : Feeds(s, h, i)
  BY <1>1, <1>2, <1>6 DEF Paired
<1>8. /\ s[h].do = "hold" /\ s[h].reg = s[i].reg
      /\ \A k \in h + 1 .. i - 1 : s[k].do # "hold"
      /\ \A k \in 1 .. h : Lands(s, k) \notin h + 1 .. i
  BY <1>7 DEF Feeds
<1>9. h < new
  <2> SUFFICES ASSUME ~(h < new) PROVE FALSE
    OBVIOUS
  <2>1. h \in new .. i - 1
    BY <1>5, <1>6
  <2> QED
    BY <1>2, <1>8, <2>1
<1>10. h <= at => new # Lands(s, at) \/ h < at
  <2> SUFFICES ASSUME h = at, new = Lands(s, at) PROVE FALSE
    BY <1>1
  <2>1. at \in 1 .. h /\ new \in h + 1 .. i
    BY <1>1, <1>5, <1>6
  <2> QED
    BY <1>8, <2>1
<1>11. CASE h < at
  <2>1. \A k \in at .. i - 1 : s[k].do # "hold"
    BY <1>1, <1>6, <1>8, <1>11
  <2>2. at \in at .. i - 1
    BY <1>1, <1>5, <1>6
  <2>3. op.do # "hold"
    BY <1>3, <2>1, <2>2
  <2> QED
    BY <1>2, <1>6, <2>1, <2>3 DEF WritesHeld, s, at
<1>12. CASE h = at
  <2>1. new = at + 1 /\ Lands(s, at) # new
    BY <1>1, <1>3, <1>6, <1>10, <1>12
  <2> QED
    BY <1>3, <1>6, <1>8, <1>12, <2>1 DEF s, at, new
<1>13. CASE h > at
  <2>1. at \in 1 .. h /\ new \in at + 1 .. i /\ new \in h + 1 .. i
    BY <1>1, <1>5, <1>6, <1>9, <1>13
  <2>2. new = Lands(s, at)
    BY <1>1, <1>3, <1>6, <1>13, <2>1
  <2> QED
    BY <1>8, <2>1, <2>2
<1> QED
  BY <1>1, <1>6, <1>11, <1>12, <1>13

\* A pre-read that was answered holds the word itself, or is on record as junk.
LEMMA HoldAnswered ==
  ASSUME TypeOK, Holds, step' = step + 1, Lands(program.ops, step) # step'
  PROVE  \/ op.reg \in junk' \/ held' = mem[op.reg]
<1>1. stage = "inside" /\ ~PastEnd
  BY DEF Holds, Inside
<1>2. PICK o \in Outcomes \ {"dropped"} :
        LET value == IF o = "fault" THEN Sentinel ELSE mem[op.reg]
        IN  IF Raised(o)
            THEN Continues(o)
            ELSE /\ held' = value
                 /\ junk' = IF o = "fault" THEN junk \cup {op.reg} ELSE junk
  BY DEF Holds
<1>3. CASE Raised(o)
  <2>1. step' = End
    BY <1>1, <1>2, <1>3, ContinuesTyped
  <2>2. step \in 1 .. Len(program.ops) /\ Len(program.ops) \in Nat
    BY <1>1, InProgram
  <2>3. step = Len(program.ops)
    BY <2>1, <2>2 DEF End
  <2>4. Lands(program.ops, step) <= Len(program.ops) + 1 /\ Lands(program.ops, step) \in Nat
        /\ Lands(program.ops, step) >= step + 1
    BY <1>1, <2>2, InProgram, LandsLater DEF Fits
  <2> QED
    BY <2>1, <2>2, <2>3, <2>4 DEF End
<1>4. CASE ~Raised(o)
  BY <1>2, <1>4
<1> QED
  BY <1>3, <1>4

LEMMA HeldPlain ==
  ASSUME TypeOK, HeldFresh, HandoffBitsKept, PlainAccess
  PROVE  HeldFresh'
<1>1. /\ stage = "inside" /\ ~PastEnd /\ stage' = "inside" /\ program' = program /\ flags' = flags
      /\ Moves /\ Keeps
  BY PlainSteps DEF Stands
<1> SUFFICES ASSUME "naked_write_test" \notin flags, NEW i \in step' .. Len(program.ops),
                    WritesHeld(program.ops, i)', program.ops[i].reg \in Rewritten
             PROVE  \/ program.ops[i].reg \in junk'
                    \/ held' \ Meant(program.ops[i].reg)
                          = Handoff[program.ops[i].reg] \ Meant(program.ops[i].reg)
  BY <1>1 DEF HeldFresh
<1>2. CASE op.do # "hold" /\ WritesHeld(program.ops, i) /\ i \in step .. Len(program.ops)
  <2>1. held' = held /\ junk' = junk
    BY <1>1, <1>2 DEF Keeps
  <2> QED
    BY <1>1, <1>2, <2>1 DEF HeldFresh
<1>3. CASE /\ op.do = "hold" /\ op.reg = program.ops[i].reg
           /\ step' = step + 1 /\ Lands(program.ops, step) # step'
  <2>2. CASE Holds
    <3>1. op.reg \in junk' \/ held' = mem[op.reg]
      BY <1>3, <2>2, HoldAnswered
    <3>2. junk \subseteq junk'
      BY <1>1 DEF Keeps
    <3> QED
      BY <1>3, <3>1, <3>2 DEF HandoffBitsKept
  <2>3. CASE DeadAccess
    <3>1. step' \in {step + Skipped, End}
      BY <2>3 DEF DeadAccess
    <3>2. step \in 1 .. Len(program.ops) /\ Len(program.ops) \in Nat /\ i \in step' .. Len(program.ops)
      BY <1>1, InProgram
    <3>3. step' # End
      BY <3>2 DEF End
    <3>4. op.on \in Caught /\ step' = step + Skipped
      BY <2>3, <3>3 DEF DeadAccess
    <3>5. step' = Lands(program.ops, step)
      BY <1>1, <3>4, Continued DEF Caught
    <3> QED
      BY <1>3, <3>5
  <2> QED
    BY <1>3, <2>2, <2>3
       DEF PlainAccess, Reads, Touches, Writes, ReadsGate, StopsIf, Inside
<1> QED
  BY <1>1, <1>2, <1>3, HeldFromBefore

\* The program an opening opens.
LEMMA OpenedProgram ==
  ASSUME TypeOK, OpenProgram
  PROVE  /\ program' = program /\ program \in ProgramSet(flags) /\ flags' = flags
         /\ stage = "between" /\ stage' = "inside" /\ step' = 1
         /\ Len(program.ops) \in Nat /\ Paired(program.ops)
<1>1. /\ program' = program /\ flags' = flags /\ stage = "between" /\ stage' = "inside" /\ step' = 1
      /\ ~PastLast
  BY DEF OpenProgram, Between, host, program, programs, flags
<1>2. Len(programs) \in Nat /\ \A k \in 1 .. Len(programs) : programs[k] \in ProgramSet(flags)
  BY Opened DEF TypeOK
<1>3. next \in 1 .. Len(programs) + 1
  BY DEF TypeOK
<1>4. next \in 1 .. Len(programs)
  BY <1>1, <1>2, <1>3 DEF PastLast
<1>5. program \in ProgramSet(flags)
  BY <1>2, <1>4 DEF program
<1> QED
  BY <1>1, <1>5 DEF ProgramSet, Orderly

LEMMA RewrittenAreRegs == Rewritten \subseteq Regs
<1>1. Clkreq \in Regs /\ Rvbar \in Regs
  BY DEF Regs
<1>2. Perst(NicPort) \in Regs
  BY PortAssumption DEF Regs, PortNames, Perst, Ports
<1>3. {<<w, off>> : w \in {"axi_sub5", "axi", "phy_common"}, off \in {0, 256}} \subseteq Regs
  BY DEF Regs, Windows, Offsets
<1> QED
  BY <1>1, <1>2, <1>3 DEF Rewritten

LEMMA HeldStep ==
  ASSUME TypeOK, HeldFresh, HandoffBitsKept, [Next]_vars
  PROVE  HeldFresh'
<1>1. CASE PlainAccess
  BY <1>1, HeldPlain
<1>2. CASE SkipProgram \/ EntryRaises \/ CloseProgram \/ Finish
  BY <1>2 DEF SkipProgram, Between, EntryRaises, CloseProgram, Finish, HeldFresh
<1>3. CASE OpenProgram
  <2>1. /\ program' = program /\ stage' = "inside" /\ step' = 1
        /\ Paired(program.ops) /\ Len(program.ops) \in Nat
    BY <1>3, OpenedProgram
  <2>4. ASSUME NEW i \in 1 .. Len(program.ops), WritesHeld(program.ops, i)'
        PROVE  FALSE
    BY <2>1, <2>4 DEF WritesHeld, Paired, Feeds
  <2> QED
    BY <2>1, <2>4 DEF HeldFresh
<1>4. CASE AccessExitFails \/ UNCHANGED vars
  BY <1>4 DEF AccessExitFails, HeldFresh, WritesHeld, vars, host, history, program, programs, flags,
              Trouble
<1>5. CASE AccessEntryRaises \/ PcieInit
  <2>1. /\ (stage = "inside" /\ step' = End /\ program' = program) \/ stage' # "inside"
        /\ stage = "inside"
    BY <1>5 DEF AccessEntryRaises, PcieInit, host, program, programs
  <2>2. Len(program.ops) \in Nat
    BY <2>1, InProgram
  <2>3. step' = End /\ program' = program => step' .. Len(program.ops) = {}
    BY <2>2 DEF End
  <2> QED
    BY <2>1, <2>3 DEF HeldFresh
<1> QED
  BY <1>1, <1>2, <1>3, <1>4, <1>5 DEF Next, PlainAccess

LEMMA WordsStep ==
  ASSUME TypeOK, HeldFresh, HandoffBitsKept, [Next]_vars
  PROVE  HandoffBitsKept'
<1>1. CASE Writes
  <2>1. /\ stage = "inside" /\ ~PastEnd /\ op.do \in Writing /\ junk' = junk /\ order' = order
    BY <1>1, WritesTyped DEF Writes, Inside, Writing, Stands
  <2>2. step \in 1 .. Len(program.ops) /\ op \in Accesses /\ program \in ProgramSet(flags)
    BY <2>1, InProgram
  <2>3. flags' = flags
    BY <2>1 DEF flags
  <2> SUFFICES ASSUME "naked_write_test" \notin flags, NEW r \in Rewritten \ junk
               PROVE  mem'[r] \ Meant(r) = Handoff[r] \ Meant(r)
    BY <2>1, <2>3 DEF HandoffBitsKept
  <2>4. mem[r] \ Meant(r) = Handoff[r] \ Meant(r)
    BY DEF HandoffBitsKept
  <2>5. WritesIt \/ mem' = mem
    BY <1>1, WritesOrNot
  <2>6. CASE mem' = mem
    BY <2>4, <2>6
  <2>7. CASE WritesIt /\ r # op.reg
    <3>1. mem'[r] = mem[r]
      <4>1. mem \in [Regs -> SUBSET Bits] /\ r \in Regs
        BY RewrittenAreRegs DEF TypeOK
      <4> QED
        BY <2>7, <4>1 DEF WritesIt
    <3> QED
      BY <2>4, <3>1
  <2>8. CASE WritesIt /\ r = op.reg
    <3>1. op.do = "rmw" /\ op.set \cup op.clear \subseteq Meant(r)
      BY <2>1, <2>2, <2>8 DEF ProgramSet, WritesMeant, op
    <3>2. held \ Meant(r) = Handoff[r] \ Meant(r)
      <4>1. step \in step .. Len(program.ops) /\ step .. step - 1 = {}
        BY <2>2
      <4>2. WritesHeld(program.ops, step)
        BY <3>1, <4>1 DEF WritesHeld, op
      <4> QED
        BY <2>1, <2>8, <4>1, <4>2 DEF HeldFresh, op
    <3>3. r \in Regs
      BY <2>2, <2>8 DEF Accesses
    <3>4. mem'[r] = (held \ op.clear) \cup op.set
      BY <2>8, <3>1, <3>3 DEF WritesIt, New, TypeOK
    <3> QED
      BY <3>1, <3>2, <3>4
  <2> QED
    BY <2>5, <2>6, <2>7, <2>8
<1>2. CASE PlainAccess /\ ~Writes
  <2>1. mem' = mem /\ junk \subseteq junk' /\ flags' = flags
    <3>1. flags' = flags /\ junk \subseteq junk'
      BY <1>2, PlainSteps DEF Keeps
    <3>2. mem' = mem
      BY <1>2 DEF PlainAccess, Reads, Touches, Holds, ReadsGate, StopsIf, DeadAccess,
                  hardware
    <3> QED
      BY <3>1, <3>2
  <2> QED
    BY <2>1 DEF HandoffBitsKept
<1>3. CASE SkipProgram \/ OpenProgram \/ EntryRaises \/ CloseProgram \/ Finish
           \/ AccessEntryRaises \/ AccessExitFails \/ UNCHANGED vars
  <2>1. mem' = mem /\ junk' = junk /\ order' = order
    BY <1>3 DEF SkipProgram, OpenProgram, EntryRaises, CloseProgram, Finish, AccessEntryRaises,
                AccessExitFails, Trouble, vars, host, hardware, history
  <2> QED
    BY <2>1 DEF HandoffBitsKept, flags
<1>4. CASE PcieInit
  <2>1. order' = order /\ junk' = junk
    BY <1>4 DEF PcieInit, Trouble, host, history
  <2>2. InitReturns \/ mem' = mem
    BY <1>4, PcieInitOutcomes DEF InitFails
  <2>3. \A r \in Rewritten : r[1] # "port+0x82c"
    BY RewrittenNames
  <2>4. \A r \in Rewritten \cap Regs : mem'[r] = mem[r]
    BY <2>2, <2>3 DEF InitReturns
  <2>5. Rewritten \subseteq Regs
    BY RewrittenAreRegs
  <2> QED
    BY <2>1, <2>4, <2>5 DEF HandoffBitsKept, flags
<1> QED
  BY <1>1, <1>2, <1>3, <1>4 DEF Next, PlainAccess

\* On every boot without the write test, the bits outside a mask keep what
\* iBoot left in them, unless the pre-read itself came back as the sentinel.
THEOREM HandoffBitsAreKept == Spec => []HandoffBitsKept
<1>1. Init => TypeOK /\ HeldFresh /\ HandoffBitsKept
  <2>1. Init => HeldFresh
    BY DEF Init, HeldFresh
  <2>2. Init => HandoffBitsKept
    <3> SUFFICES ASSUME Init, NEW r \in Rewritten PROVE mem[r] = Handoff[r]
      BY DEF HandoffBitsKept
    <3>1. r[1] # "acio gate" /\ r \in Regs
      BY RewrittenNames, RewrittenAreRegs
    <3> QED
      BY <3>1 DEF Init
  <2> QED
    BY <2>1, <2>2, InitTyped
<1>2. TypeOK /\ HeldFresh /\ HandoffBitsKept /\ [Next]_vars
         => (TypeOK /\ HeldFresh /\ HandoffBitsKept)'
  BY TypeStep, HeldStep, WordsStep
<1> QED
  BY <1>1, <1>2, PTL DEF Spec

-----------------------------------------------------------------------------
(* The endpoint's reset.                                                   *)

\* The open program is going to lift the pin, and nothing makes it end before.
LiftAhead ==
    /\ stage = "inside" /\ program.guarding # "access"
    /\ \E j \in step .. Len(program.ops) : LiftsFrom(program.ops, step, j)

\* While every access to the pin went through, the endpoint is out of reset or
\* about to be.
PinPending == NicPort \in driven /\ alive /\ Pin0 \notin bad => 0 \in mem[Pin0] \/ LiftAhead

LEMMA PinIsReg == Pin0 \in Regs /\ \A i \in Ports : Perst(i) = Pin0 <=> i = NicPort
<1>1. Pin0 \in Regs
  BY PortAssumption DEF Regs, PortNames, Perst, Ports, Pin0
<1>2. \A i \in Ports : Perst(i) = Pin0 <=> i = NicPort
  BY DEF Perst, Pin0
<1> QED
  BY <1>1, <1>2

\* A lift that was ahead is still ahead after any access but itself.
LEMMA LiftStaysAhead ==
  ASSUME TypeOK, PlainAccess, LiftAhead, alive', Pin0 \notin bad', ~Lifts(op)
  PROVE  LiftAhead'
<1>1. /\ stage = "inside" /\ ~PastEnd /\ stage' = "inside" /\ program' = program /\ Moves
  BY PlainSteps DEF Stands
<1>2. step \in 1 .. Len(program.ops) /\ Len(program.ops) \in Nat
  BY <1>1, InProgram
<1>3. PICK j \in step .. Len(program.ops) : LiftsFrom(program.ops, step, j)
  BY DEF LiftAhead
<1>4. j # step /\ Stays(op)
  <2>1. step \in step .. j
    BY <1>2, <1>3
  <2> QED
    BY <1>3, <2>1 DEF LiftsFrom, Waits, op
<1>5. step' = step + 1
  BY <1>1, <1>4 DEF Moves
<1>6. j \in step + 1 .. Len(program.ops) /\ step + 1 .. j \subseteq step .. j
  BY <1>2, <1>3, <1>4
<1>7. LiftsFrom(program.ops, step + 1, j)
  BY <1>3, <1>6 DEF LiftsFrom
<1> QED
  BY <1>1, <1>5, <1>6, <1>7 DEF LiftAhead

LEMMA PinPlain ==
  ASSUME TypeOK, PinPending, PlainAccess
  PROVE  PinPending'
<1>1. /\ stage = "inside" /\ ~PastEnd /\ stage' = "inside" /\ program' = program
      /\ Moves /\ Keeps
  BY PlainSteps DEF Stands
<1>2. /\ step \in 1 .. Len(program.ops) /\ Len(program.ops) \in Nat /\ op \in Accesses
      /\ Restores(program.ops) /\ program \in ProgramSet(flags)
  BY <1>1, InProgram
<1> SUFFICES ASSUME NicPort \in driven', alive', Pin0 \notin bad', 0 \notin mem'[Pin0]
             PROVE  LiftAhead'
  BY DEF PinPending
<1>3. alive /\ Pin0 \notin bad
  BY <1>1 DEF Keeps
<1>4. CASE mem' = mem /\ driven' = driven
  <2>1. LiftAhead
    BY <1>3, <1>4 DEF PinPending
  <2>2. CASE ~Lifts(op)
    BY <2>1, <2>2, LiftStaysAhead
  <2>3. CASE Lifts(op)
    <3>1. Writes
      BY <2>3, <1>3 DEF Lifts, Writing, PlainAccess, Reads, Touches, Holds, ReadsGate, StopsIf,
                  DeadAccess, Inside
    <3>2. PICK o \in Outcomes : Answered(o) /\ (WritesIt \/ o # "ok")
      BY <3>1, WritesOrNot
    <3>3. WritesIt
      BY <2>3, <3>2, AnsweredKeeps DEF Lifts
    <3>4. mem'[Pin0] = New(IF op.do = "rmw" THEN held ELSE mem[Pin0])
      BY <2>3, <3>3, PinIsReg DEF WritesIt, Lifts, TypeOK
    <3> QED
      BY <2>3, <3>4 DEF New, Lifts
  <2> QED
    BY <2>2, <2>3
<1>5. CASE Writes /\ WritesIt /\ op.reg # Pin0
  <2>1. mem'[Pin0] = mem[Pin0] /\ NicPort \in driven
    <3>1. mem \in [Regs -> SUBSET Bits]
      BY DEF TypeOK
    <3> QED
      BY <1>5, <3>1, PinIsReg DEF WritesIt, Pin0
  <2>2. LiftAhead /\ ~Lifts(op)
    BY <1>3, <1>5, <2>1 DEF PinPending, Lifts
  <2> QED
    BY <2>2, LiftStaysAhead
<1>6. CASE Writes /\ WritesIt /\ op.reg = Pin0
  <2>1. op.do \in Writing
    BY <1>6 DEF Writes, Inside, Writing
  <2>2. 0 \notin op.set
    <3>1. mem'[Pin0] = New(IF op.do = "rmw" THEN held ELSE mem[Pin0])
      BY <1>6, PinIsReg DEF WritesIt, TypeOK
    <3> QED
      BY <3>1 DEF New
  <2>3. Lowers(program.ops[step])
    BY <1>6, <2>1, <2>2 DEF Lowers, op
  <2>4. PICK j \in step + 1 .. Len(program.ops) : LiftsFrom(program.ops, step, j)
    BY <1>2, <2>3 DEF Restores
  <2>5. program.guarding # "access"
    BY <1>2, <1>6, <2>1 DEF ProgramSet, GuardFits, op
  <2>6. j \in step .. Len(program.ops)
    BY <1>2, <2>4
  <2>7. LiftAhead
    BY <1>1, <2>4, <2>5, <2>6 DEF LiftAhead
  <2> QED
    BY <2>2, <2>7, LiftStaysAhead DEF Lifts
<1>7. \/ mem' = mem /\ driven' = driven
      \/ Writes /\ WritesIt
  <2>1. CASE Writes
    BY <2>1, WritesOrNot
  <2>2. CASE ~Writes
    BY <2>2, <1>3 DEF PlainAccess, Reads, Touches, Holds, ReadsGate, StopsIf, DeadAccess,
                     hardware, history
  <2> QED
    BY <2>1, <2>2
<1> QED
  BY <1>4, <1>5, <1>6, <1>7

LEMMA PinStep == ASSUME TypeOK, PinPending, [Next]_vars PROVE PinPending'
<1>1. CASE PlainAccess
  BY <1>1, PinPlain
<1>2. CASE SkipProgram \/ EntryRaises \/ CloseProgram \/ Finish \/ OpenProgram
  <2>1. mem' = mem /\ alive' = alive /\ bad \subseteq bad' /\ driven' = driven
    BY <1>2 DEF SkipProgram, EntryRaises, CloseProgram, Finish, OpenProgram, Trouble, history, hardware
  <2>2. ~LiftAhead
    <3>1. CASE stage = "inside" /\ PastEnd
      <4>1. step .. Len(program.ops) = {}
        BY <3>1, InProgram DEF PastEnd
      <4> QED
        BY <4>1 DEF LiftAhead
    <3>2. CASE stage # "inside"
      BY <3>2 DEF LiftAhead
    <3> QED
      BY <1>2, <3>1, <3>2 DEF SkipProgram, EntryRaises, CloseProgram, Finish, OpenProgram, Between
  <2> QED
    BY <2>1, <2>2 DEF PinPending
<1>3. CASE AccessEntryRaises
  <2>1. mem' = mem /\ alive' = alive /\ bad \subseteq bad' /\ driven' = driven /\ ~LiftAhead
    BY <1>3 DEF AccessEntryRaises, Trouble, hardware, LiftAhead
  <2> QED
    BY <2>1 DEF PinPending
<1>4. CASE AccessExitFails \/ UNCHANGED vars
  BY <1>4 DEF AccessExitFails, Trouble, vars, host, hardware, history, PinPending, LiftAhead, program,
              programs
<1>5. CASE PcieInit
  <2>1. stage = "inside" /\ ~PastEnd /\ op.do = "init"
    BY <1>5 DEF PcieInit
  <2>2. ~LiftAhead
    <3>1. step \in 1 .. Len(program.ops)
      BY <2>1, InProgram
    <3>2. \A j \in step .. Len(program.ops) : ~LiftsFrom(program.ops, step, j)
      BY <2>1, <3>1 DEF LiftsFrom, Waits, Stays, op
    <3> QED
      BY <3>2 DEF LiftAhead
  <2>3. bad \subseteq bad' /\ driven' = driven /\ (alive' => alive)
    BY <1>5 DEF PcieInit, Trouble, history, hardware
  <2>4. Pin0[1] = "perst"
    BY DEF Pin0, Perst
  <2>5. mem'[Pin0] = mem[Pin0]
    BY <1>5, <2>4, PinIsReg, PcieInitOutcomes DEF InitReturns, InitFails
  <2> QED
    BY <2>2, <2>3, <2>5 DEF PinPending
<1> QED
  BY <1>1, <1>2, <1>3, <1>4, <1>5 DEF Next, PlainAccess

\* However the boot ends, and whatever else failed on the way, the endpoint is
\* not left in reset when every access to its pin went through.
THEOREM EndpointIsReleased == Spec => []EndpointReleased
<1>1. Init => TypeOK /\ PinPending
  BY InitTyped DEF Init, PinPending
<1>2. TypeOK /\ PinPending /\ [Next]_vars => (TypeOK /\ PinPending)'
  BY TypeStep, PinStep
<1>3. PinPending => EndpointReleased
  BY DEF PinPending, EndpointReleased, Over, LiftAhead, Pin0
<1> QED
  BY <1>1, <1>2, <1>3, PTL DEF Spec

-----------------------------------------------------------------------------
(* Clock gates.                                                            *)

\* What iBoot leaves in the gates of the cores.  smp_probe reads a core without
\* having looked at one ("live blocks m1n1 itself reads, so this is wedge-safe"),
\* so that a list of boots with a smp_probe takes one of them to be on.
GatesAsLeft ==
    /\ \A n \in 0 .. 1 : Handoff[CpuGate(n)] \in PsWords
    /\ (\E m \in DOMAIN Orders : "smp_probe" \in Orders[m].flags)
           => \E n \in 0 .. 1 : Handoff[CpuGate(n)] = {On}

GateWords ==
    \A n \in 0 .. 1 : mem[AcioGate(n)] \in PsWords /\ mem[CpuGate(n)] = Handoff[CpuGate(n)]

\* A block counted as reachable has a gate that is really on.
ReachMeans ==
    /\ "acio gate" \in reach => \E n \in 0 .. 1 : Powered(AcioGate(n))
    /\ "cpu gate" \in reach => \E n \in 0 .. 1 : Powered(CpuGate(n))

GateRegs == {r \in Regs : r[1] \in {"acio gate", "cpu gate"}}

LEMMA GateRegsAre ==
  ASSUME NEW n \in 0 .. 1
  PROVE  AcioGate(n) \in GateRegs /\ CpuGate(n) \in GateRegs
<1>1. n \in {0, 1}
  OBVIOUS
<1> QED
  BY <1>1, SocRegs DEF GateRegs

LEMMA GateRegIs ==
  ASSUME NEW r \in GateRegs
  PROVE  \E n \in 0 .. 1 : \/ r[1] = "acio gate" /\ r = AcioGate(n)
                           \/ r[1] = "cpu gate" /\ r = CpuGate(n)
<1>1. r[2] \in 0 .. 1 /\ r = <<r[1], r[2]>>
  BY NamedRegs DEF GateRegs, SocNames
<1> QED
  BY <1>1 DEF GateRegs, AcioGate, CpuGate

\* No step writes a gate.
LEMMA GatesStay ==
  ASSUME TypeOK, [Next]_vars
  PROVE  \A r \in GateRegs : mem'[r] = mem[r]
<1>1. CASE Writes
  <2>1. stage = "inside" /\ ~PastEnd /\ op.do \in Writing
    BY <1>1 DEF Writes, Inside, Writing
  <2>2. op.reg[1] \notin {"acio gate", "cpu gate"}
    BY <2>1, InProgram DEF ProgramSet, WritesMeant, op
  <2>3. WritesIt \/ mem' = mem
    BY <1>1, WritesOrNot
  <2>4. mem \in [Regs -> SUBSET Bits]
    BY DEF TypeOK
  <2> QED
    BY <2>2, <2>3, <2>4 DEF WritesIt, GateRegs
<1>2. CASE PcieInit
  BY <1>2, PcieInitOutcomes DEF InitReturns, InitFails, GateRegs
<1>3. CASE ~Writes /\ ~PcieInit
  BY <1>3 DEF Next, Reads, Touches, Holds, ReadsGate, StopsIf, DeadAccess, SkipProgram,
              OpenProgram, EntryRaises, CloseProgram, Finish, AccessEntryRaises, AccessExitFails,
              hardware, vars
<1> QED
  BY <1>1, <1>2, <1>3

LEMMA PoweredStays ==
  ASSUME TypeOK, [Next]_vars
  PROVE  /\ \A n \in 0 .. 1 : /\ Powered(AcioGate(n))' <=> Powered(AcioGate(n))
                              /\ Powered(CpuGate(n))' <=> Powered(CpuGate(n))
         /\ \A r : Unclocked(r)' <=> Unclocked(r)
<1>1. \A n \in 0 .. 1 : /\ mem'[AcioGate(n)] = mem[AcioGate(n)]
                        /\ mem'[CpuGate(n)] = mem[CpuGate(n)]
  BY GatesStay, GateRegsAre
<1>2. \A n \in 0 .. 1 : /\ Powered(AcioGate(n))' <=> Powered(AcioGate(n))
                        /\ Powered(CpuGate(n))' <=> Powered(CpuGate(n))
  BY <1>1 DEF Powered
<1>3. 0 \in 0 .. 1 /\ 1 \in 0 .. 1
  OBVIOUS
<1> QED
  BY <1>2, <1>3 DEF Unclocked

\* A step counts a block as reachable only when it read a gate of it that is on.
LEMMA ReachStep ==
  ASSUME GatesAsLeft, TypeOK, GateWords, ReachMeans, [Next]_vars
  PROVE  ReachMeans'
<1>1. CASE ReadsGate
  <2>1. stage = "inside" /\ ~PastEnd
    BY <1>1 DEF ReadsGate, Inside
  <2>2. op \in Accesses /\ (op.do = "gate" => op.reg[1] \in {"acio gate", "cpu gate"})
    BY <2>1, InProgram DEF ProgramSet, GatesFlagged, op
  <2>3. reach' = reach \/ (/\ op.do = "gate" /\ On \in mem[op.reg] /\ Virtual \notin mem[op.reg]
                           /\ reach' = reach \cup {op.reg[1]})
    BY <1>1 DEF ReadsGate, CountsAsActive
  <2>4. CASE reach' = reach
    BY <2>4, PoweredStays DEF ReachMeans
  <2>5. CASE /\ op.do = "gate" /\ On \in mem[op.reg] /\ Virtual \notin mem[op.reg]
             /\ reach' = reach \cup {op.reg[1]}
    <3>1. op.reg \in GateRegs
      BY <2>2, <2>5 DEF GateRegs, Accesses
    <3>2. mem[op.reg] \in PsWords
      BY <3>1, GateRegIs DEF GateWords, GatesAsLeft
    <3>3. Powered(op.reg)
      BY <2>5, <3>2 DEF PsWords, Powered
    <3>4. PICK n \in 0 .. 1 : \/ op.reg[1] = "acio gate" /\ op.reg = AcioGate(n)
                              \/ op.reg[1] = "cpu gate" /\ op.reg = CpuGate(n)
      BY <3>1, GateRegIs
    <3> QED
      BY <2>5, <3>3, <3>4, PoweredStays DEF ReachMeans
  <2> QED
    BY <2>3, <2>4, <2>5
<1>2. CASE Touches
  <2>1. reach' \subseteq reach \cup FirstTouchWindows
    BY <1>2 DEF Touches
  <2>2. /\ "acio gate" \in reach' => "acio gate" \in reach
        /\ "cpu gate" \in reach' => "cpu gate" \in reach
    BY <2>1 DEF FirstTouchWindows
  <2> QED
    BY <2>2, PoweredStays DEF ReachMeans
<1>3. CASE ~ReadsGate /\ ~Touches
  <2>1. reach' = reach
    BY <1>3 DEF Next, Reads, Holds, Writes, StopsIf, DeadAccess, SkipProgram, OpenProgram,
                EntryRaises, CloseProgram, Finish, AccessEntryRaises, AccessExitFails, PcieInit, host,
                vars
  <2> QED
    BY <2>1, PoweredStays DEF ReachMeans
<1> QED
  BY <1>1, <1>2, <1>3

\* The access an open program makes next is to a block that is clocked.
LEMMA OpClocked ==
  ASSUME GatesAsLeft, TypeOK, GateWords, ReachMeans, NeedsMet, stage = "inside", ~PastEnd
  PROVE  ~Unclocked(op.reg)
<1>1. step \in 1 .. Len(program.ops) /\ program \in ProgramSet(flags)
  BY InProgram
<1>2. /\ op.reg[1] = "acio" => "acio gate" \in program.needs
      /\ op.reg[1] = "core" => "cpu gate" \in program.needs \/ "smp_probe" \in flags
  BY <1>1 DEF ProgramSet, ClocksNeeded, op
<1>3. \A n \in 0 .. 1 : n = 0 \/ n = 1
  OBVIOUS
<1>4. op.reg[1] = "acio" => Powered(AcioGate(0)) \/ Powered(AcioGate(1))
  BY <1>2, <1>3 DEF NeedsMet, ReachMeans
<1>5. "smp_probe" \in flags => \E n \in 0 .. 1 : Powered(CpuGate(n))
  BY DEF TypeOK, flags, GatesAsLeft, GateWords, Powered
<1>6. op.reg[1] = "core" => Powered(CpuGate(0)) \/ Powered(CpuGate(1))
  BY <1>2, <1>3, <1>5 DEF NeedsMet, ReachMeans
<1> QED
  BY <1>4, <1>6 DEF Unclocked

\* What a step adds to the record of what went wrong.
LEMMA BadStep ==
  ASSUME TypeOK, [Next]_vars
  PROVE  \/ bad' \subseteq bad \cup {GuardOn, GuardOff}
         \/ stage = "inside" /\ ~PastEnd /\ bad' = bad \cup {op.reg}
<1>1. CASE PlainAccess
  BY <1>1, PlainSteps DEF Stands, Keeps
<1>2. CASE PcieInit
  BY <1>2, PcieInitOutcomes DEF PcieInit, InitReturns, InitFails, Trouble, history
<1>3. CASE ~PlainAccess /\ ~PcieInit
  BY <1>3 DEF Next, PlainAccess, SkipProgram, OpenProgram, EntryRaises, CloseProgram, Finish,
              AccessEntryRaises, AccessExitFails, Trouble, history, vars
<1> QED
  BY <1>1, <1>2, <1>3

ClockInv == TypeOK /\ NeedsMet /\ GateWords /\ ReachMeans /\ ClockedOnly

\* A block none of whose gates is on is never accessed: what a gate without a
\* register claims does not count, and only what was read ACTIVE opens a scan.
THEOREM OnlyClockedBlocks == ASSUME GatesAsLeft PROVE Spec => []ClockedOnly
<1>1. Init => ClockInv
  <2> SUFFICES ASSUME Init PROVE ClockInv
    OBVIOUS
  <2>1. GateWords
    <3>1. PICK words \in [0 .. 1 -> IF "acio_status" \in flags THEN PsWords ELSE {{}}] :
             mem = [r \in Regs |-> IF r[1] = "acio gate" THEN words[r[2]] ELSE Handoff[r]]
      BY DEF Init
    <3>2. \A n \in 0 .. 1 : words[n] \in PsWords
      BY <3>1 DEF PsWords
    <3>3. \A n \in 0 .. 1 : /\ AcioGate(n) \in Regs /\ AcioGate(n)[1] = "acio gate" /\ AcioGate(n)[2] = n
                            /\ CpuGate(n) \in Regs /\ CpuGate(n)[1] = "cpu gate"
      <4> TAKE n \in 0 .. 1
      <4>1. n \in {0, 1}
        OBVIOUS
      <4>2. AcioGate(n)[2] = n
        BY DEF AcioGate
      <4> QED
        BY <4>1, <4>2, SocRegs
    <3> QED
      BY <3>1, <3>2, <3>3 DEF GateWords
  <2> QED
    BY <2>1, InitTyped DEF Init, ClockInv, NeedsMet, ReachMeans, ClockedOnly
<1>2. ClockInv /\ [Next]_vars => ClockInv'
  <2> SUFFICES ASSUME ClockInv, [Next]_vars PROVE ClockInv'
    OBVIOUS
  <2>1. TypeOK' /\ NeedsMet'
    BY TypeStep, NeedsStep DEF ClockInv
  <2>2. GateWords'
    BY GatesStay, GateRegsAre DEF ClockInv, GateWords
  <2>3. ReachMeans'
    BY ReachStep DEF ClockInv
  <2>4. ClockedOnly'
    <3>1. \A r : Unclocked(r)' <=> Unclocked(r)
      BY PoweredStays DEF ClockInv
    <3>2. \A r \in bad' \ {GuardOn, GuardOff} : ~Unclocked(r)
      BY BadStep, OpClocked DEF ClockInv, ClockedOnly
    <3> QED
      BY <3>1, <3>2 DEF ClockedOnly
  <2> QED
    BY <2>1, <2>2, <2>3, <2>4 DEF ClockInv
<1>3. ClockInv => ClockedOnly
  BY DEF ClockInv
<1> QED
  BY <1>1, <1>2, <1>3, PTL DEF Spec

-----------------------------------------------------------------------------
(* The release of a core.                                                  *)

\* Past the check of the lock it is off, and past the enable write the core is
\* enabled or that write is on record.
ReleaseInv ==
    stage = "inside" /\ program.ops = ReleaseOps =>
        /\ step \in {6, 7} => RvbarLock \notin mem[Rvbar]
        /\ step = 7 => 1 \in mem[CpuStart(4)] \/ CpuStart(4) \in bad

\* The probe has seven accesses, the last three of which leave it when they
\* fail; a failure before them leads at most to the fifth.
LEMMA ReleaseLength == Len(ReleaseOps) = 7
  BY ReleaseAccesses, Zenon

LEMMA ReleaseLeads ==
  ASSUME NEW k \in 1 .. 7
  PROVE  /\ k < 5 => Skips(ReleaseOps[k]) < 6 - k
         /\ k >= 5 => ReleaseOps[k].on = "leaves"
<1>1. ReleaseOps[1].on = "leaves" /\ ReleaseOps[2].on = "drops" /\ ReleaseOps[3].on = "swallows"
  BY ReleaseAccesses, Zenon
<1>2. ReleaseOps[4].on = "leaves" /\ ReleaseOps[5].on = "leaves" /\ ReleaseOps[6].on = "leaves"
  BY ReleaseAccesses, Zenon
<1>3. ReleaseOps[7].on = "leaves"
  BY ReleaseAccesses, Zenon
<1>4. k \in {1, 2, 3, 4, 5, 6, 7}
  OBVIOUS
<1>5. /\ Skips(ReleaseOps[1]) = 1 /\ Skips(ReleaseOps[2]) = 2 /\ Skips(ReleaseOps[3]) = 1
      /\ Skips(ReleaseOps[4]) = 1
  BY <1>1, <1>2 DEF Skips
<1> QED
  BY <1>1, <1>2, <1>3, <1>4, <1>5

\* What each access does.
LEMMA ReleaseDoes ==
  ASSUME NEW k \in 1 .. 7
  PROVE  /\ ReleaseOps[k].do # "init"
         /\ ReleaseOps[k].do = "write" <=> k \in {6, 7}
         /\ ReleaseOps[k].do = "rmw" <=> k = 4
         /\ ReleaseOps[k].do = "stop if" <=> k = 5
<1>1. ReleaseOps[1].do = "hold" /\ ReleaseOps[2].do = "read" /\ ReleaseOps[3].do = "read"
  BY ReleaseAccesses, Zenon
<1>2. ReleaseOps[4].do = "rmw" /\ ReleaseOps[5].do = "stop if" /\ ReleaseOps[6].do = "write"
  BY ReleaseAccesses, Zenon
<1>3. ReleaseOps[7].do = "write"
  BY ReleaseAccesses, Zenon
<1>4. k \in {1, 2, 3, 4, 5, 6, 7}
  OBVIOUS
<1> QED
  BY <1>1, <1>2, <1>3, <1>4

\* The words the last four of them are at.
LEMMA ReleaseWords ==
  /\ ReleaseOps[4].reg = Rvbar
  /\ ReleaseOps[5].reg = Rvbar /\ ReleaseOps[5].set = {RvbarLock}
  /\ ReleaseOps[6].reg = CpuStart(4) /\ ReleaseOps[6].set = {1}
  /\ ReleaseOps[7].reg = CpuStart(8)
  BY ReleaseAccesses, Zenon

\* The probe goes past the check of the lock by that check alone, and past the
\* enable write by that write alone.
LEMMA ReleaseMoves ==
  ASSUME TypeOK, PlainAccess, program.ops = ReleaseOps
  PROVE  /\ stage = "inside" /\ ~PastEnd /\ stage' = "inside" /\ program' = program
         /\ step \in 1 .. 7 /\ op = ReleaseOps[step]
         /\ step' = 6 => step = 5 /\ StopsIf
         /\ step' = 7 => step = 6 /\ Writes
<1>1. /\ stage = "inside" /\ ~PastEnd /\ stage' = "inside" /\ program' = program /\ Moves
  BY PlainSteps DEF Stands
<1>2. step \in 1 .. 7 /\ op = ReleaseOps[step]
  BY <1>1, InProgram, ReleaseLength DEF op
<1>3. /\ step' \in {step + 1, Lands(ReleaseOps, step), 8}
      /\ Lands(ReleaseOps, step) = IF op.on = "leaves" THEN 8 ELSE step + Skips(op)
  BY <1>1, <1>2, ReleaseLength DEF Moves, End, Lands
<1>4. Skips(op) \in {1, 2, 3}
  BY DEF Skips
<1>5. step' = 6 => step = 5
  BY <1>2, <1>3, <1>4, ReleaseLeads
<1>6. step' = 7 => step = 6
  BY <1>2, <1>3, <1>4, ReleaseLeads
<1>7. step' \in {6, 7} => ~DeadAccess
  <2> SUFFICES ASSUME step' \in {6, 7}, DeadAccess PROVE FALSE
    OBVIOUS
  <2>1. op.on = "leaves"
    BY <1>2, <1>5, <1>6, ReleaseLeads
  <2>2. step' = End
    BY <2>1 DEF DeadAccess, Caught
  <2> QED
    BY <2>2, ReleaseLength DEF End
<1>8. step' = 6 => StopsIf
  <2>1. step = 5 => op.do = "stop if"
    BY <1>2, ReleaseDoes
  <2> QED
    BY <1>5, <1>7, <2>1 DEF PlainAccess, Reads, Touches, Holds, Writes, ReadsGate, Inside
<1>9. step' = 7 => Writes
  <2>1. step = 6 => op.do = "write"
    BY <1>2, ReleaseDoes
  <2> QED
    BY <1>6, <1>7, <2>1 DEF PlainAccess, Reads, Touches, Holds, StopsIf, ReadsGate, Inside
<1> QED
  BY <1>1, <1>2, <1>5, <1>6, <1>8, <1>9

\* A word without the lock is the only one the probe goes past.
LEMMA LockSeen ==
  ASSUME TypeOK, StopsIf, program.ops = ReleaseOps, step = 5, step' = 6
  PROVE  RvbarLock \notin mem'[Rvbar]
<1>1. op.reg = Rvbar /\ op.set = {RvbarLock}
  BY ReleaseWords DEF op
<1>2. PICK o \in Outcomes \ {"dropped"} :
        step' = IF Leaves(o) \/ op.set \subseteq (IF o = "fault" THEN Sentinel ELSE mem[op.reg])
                THEN End ELSE step + 1
  BY DEF StopsIf
<1>3. End = 8
  BY ReleaseLength DEF End
<1>4. ~(op.set \subseteq (IF o = "fault" THEN Sentinel ELSE mem[op.reg]))
  BY <1>2, <1>3
<1>5. RvbarLock \in Sentinel
  BY DEF RvbarLock, Sentinel
<1>6. RvbarLock \notin mem[Rvbar]
  BY <1>1, <1>4, <1>5
<1> QED
  BY <1>6 DEF StopsIf

\* The enable write was made, or is on record.
LEMMA EnableWritten ==
  ASSUME TypeOK, Writes, program.ops = ReleaseOps, step = 6
  PROVE  /\ mem'[Rvbar] = mem[Rvbar]
         /\ 1 \in mem'[CpuStart(4)] \/ CpuStart(4) \in bad'
<1>2. ReleaseOps[6].do = "write"
  BY ReleaseAccesses, Zenon
<1>3. op.do = "write" /\ op.reg = CpuStart(4) /\ op.set = {1}
  BY <1>2, ReleaseWords DEF op
<1>4. PICK o \in Outcomes : Answered(o) /\ (WritesIt \/ (o # "ok" /\ mem' = mem))
  BY WritesOrNot
<1>5. CASE WritesIt
  <2>1. mem \in [Regs -> SUBSET Bits] /\ CpuStart(4) \in Regs /\ Rvbar # CpuStart(4)
    BY SocRegs DEF TypeOK
  <2>2. mem' = [mem EXCEPT ![CpuStart(4)] = New(mem[CpuStart(4)])]
    BY <1>3, <1>5 DEF WritesIt
  <2>3. 1 \in New(mem[CpuStart(4)])
    BY <1>3 DEF New
  <2> QED
    BY <2>1, <2>2, <2>3
<1>6. CASE o # "ok" /\ mem' = mem
  BY <1>3, <1>4, <1>6, AnsweredKeeps
<1> QED
  BY <1>4, <1>5, <1>6

LEMMA ReleaseStep == ASSUME TypeOK, ReleaseInv, [Next]_vars PROVE ReleaseInv'
<1>1. CASE PlainAccess
  <2> SUFFICES ASSUME (program.ops = ReleaseOps)'
               PROVE  /\ step' \in {6, 7} => RvbarLock \notin mem'[Rvbar]
                      /\ step' = 7 => 1 \in mem'[CpuStart(4)] \/ CpuStart(4) \in bad'
    BY DEF ReleaseInv
  <2>1. program.ops = ReleaseOps
    BY <1>1, PlainSteps
  <2>2. step' = 6 => RvbarLock \notin mem'[Rvbar]
    BY <1>1, <2>1, ReleaseMoves, LockSeen
  <2>3. ASSUME step' = 7
        PROVE  /\ RvbarLock \notin mem'[Rvbar]
               /\ 1 \in mem'[CpuStart(4)] \/ CpuStart(4) \in bad'
    <3>1. stage = "inside" /\ step = 6 /\ Writes
      BY <1>1, <2>1, <2>3, ReleaseMoves
    <3> QED
      BY <2>1, <3>1, EnableWritten DEF ReleaseInv
  <2> QED
    BY <2>2, <2>3
<1>2. CASE SkipProgram \/ EntryRaises \/ CloseProgram \/ Finish \/ OpenProgram
  BY <1>2 DEF SkipProgram, Between, EntryRaises, CloseProgram, Finish, OpenProgram, ReleaseInv
<1>3. CASE AccessEntryRaises
  <2> SUFFICES ASSUME (program.ops = ReleaseOps)' PROVE step' \notin {6, 7}
    BY DEF ReleaseInv
  <2>1. program' = program /\ step' = End
    BY <1>3 DEF AccessEntryRaises, host, program, programs
  <2> QED
    <3>1. program'.ops = ReleaseOps /\ program'.ops = program.ops
      BY <2>1
    <3> QED
      BY <2>1, <3>1, ReleaseLength DEF End
<1>4. CASE AccessExitFails \/ UNCHANGED vars
  BY <1>4 DEF AccessExitFails, Trouble, vars, host, hardware, history, ReleaseInv, program, programs
<1>5. CASE PcieInit
  <2> SUFFICES ASSUME stage' = "inside" PROVE (program.ops # ReleaseOps)'
    BY DEF ReleaseInv
  <2>1. stage = "inside" /\ ~PastEnd /\ op.do = "init" /\ program' = program
    BY <1>5 DEF PcieInit, host, program, programs
  <2>2. step \in 1 .. Len(program.ops)
    BY <2>1, InProgram
  <2> QED
    BY <2>1, <2>2, ReleaseLength, ReleaseDoes DEF op
<1> QED
  BY <1>1, <1>2, <1>3, <1>4, <1>5 DEF Next, PlainAccess

\* A CPU-start word changes by the release probe alone, in its last two steps.
LEMMA StrobeIsRelease ==
  ASSUME TypeOK, [Next]_vars, NEW off \in {4, 8}, mem'[CpuStart(off)] # mem[CpuStart(off)]
  PROVE  /\ stage = "inside" /\ program.ops = ReleaseOps
         /\ step = IF off = 4 THEN 6 ELSE 7
<1>0. CpuStart(off) \in Regs /\ CpuStart(off)[1] = "cpustart"
  BY SocRegs
<1>1. Writes
  <2>1. CASE PcieInit
    BY <1>0, <2>1, PcieInitOutcomes DEF InitReturns, InitFails
  <2>2. CASE ~Writes /\ ~PcieInit
    BY <2>2 DEF Next, Reads, Touches, Holds, ReadsGate, StopsIf, DeadAccess, SkipProgram,
                OpenProgram, EntryRaises, CloseProgram, Finish, AccessEntryRaises, AccessExitFails,
                hardware, vars
  <2> QED
    BY <2>1, <2>2
<1>2. stage = "inside" /\ ~PastEnd /\ op.do \in Writing
  BY <1>1 DEF Writes, Inside, Writing
<1>3. op.reg = CpuStart(off)
  <2>1. WritesIt \/ mem' = mem
    BY <1>1, WritesOrNot
  <2>2. mem \in [Regs -> SUBSET Bits]
    BY DEF TypeOK
  <2> QED
    BY <1>0, <2>1, <2>2 DEF WritesIt
<1>4. step \in 1 .. Len(program.ops) /\ program \in ProgramSet(flags)
  BY <1>2, InProgram
<1>5. program.ops = ReleaseOps
  BY <1>0, <1>2, <1>3, <1>4 DEF ProgramSet, StrobesInRelease, op
<1>6. step \in 1 .. 7 /\ op = ReleaseOps[step]
  BY <1>4, <1>5, ReleaseLength DEF op
<1>7. step \in {6, 7}
  <2>1. step = 4 => op.reg = Rvbar
    BY <1>6, ReleaseWords
  <2>2. step # 4
    BY <1>0, <1>3, <2>1, SocRegs
  <2>3. step \notin {1, 2, 3, 5}
    <3>1. ReleaseOps[step].do = "write" \/ ReleaseOps[step].do = "rmw"
      BY <1>2, <1>6 DEF Writing
    <3>2. step \in 1 .. 7
      BY <1>6
    <3>3. /\ ReleaseOps[step].do = "write" <=> step \in {6, 7}
          /\ ReleaseOps[step].do = "rmw" <=> step = 4
      BY <3>2, ReleaseDoes, Zenon
    <3>4. step \in {4, 6, 7}
      BY <3>1, <3>3, Zenon
    <3> QED
      BY <3>4
  <2> QED
    BY <1>6, <2>2, <2>3
<1>8. CpuStart(4) # CpuStart(8)
  BY DEF CpuStart
<1>9. step = 6 => op.reg = CpuStart(4)
  BY <1>6, ReleaseWords
<1>10. step = 7 => op.reg = CpuStart(8)
  BY <1>6, ReleaseWords
<1> QED
  BY <1>2, <1>3, <1>5, <1>7, <1>8, <1>9, <1>10

\* A core is strobed only while its RVBAR is unlocked, and started only after it
\* was enabled, unless the enable write itself went wrong.
THEOREM StrobedWhenUnlocked == Spec => StrobeWhenUnlocked
<1>1. Init => TypeOK /\ ReleaseInv
  BY InitTyped DEF Init, ReleaseInv
<1>2. TypeOK /\ ReleaseInv /\ [Next]_vars => (TypeOK /\ ReleaseInv)'
  BY TypeStep, ReleaseStep
<1>3. TypeOK /\ ReleaseInv /\ [Next]_vars =>
         /\ \A off \in {4, 8} : mem'[CpuStart(off)] # mem[CpuStart(off)]
                                  => RvbarLock \notin mem[Rvbar]
         /\ mem'[CpuStart(8)] # mem[CpuStart(8)]
                => 1 \in mem[CpuStart(4)] \/ CpuStart(4) \in bad
  BY StrobeIsRelease DEF ReleaseInv
<1> QED
  BY <1>1, <1>2, <1>3, PTL DEF Spec, StrobeWhenUnlocked

-----------------------------------------------------------------------------
(* Config-write mode.                                                      *)

\* What a write computes.
Computed == New(IF op.do = "rmw" THEN held ELSE mem[op.reg])

\* A word changes only where it is written, and does where the write went through.
LEMMA WordAfter ==
  ASSUME TypeOK, PlainAccess, NEW r \in Regs
  PROVE  /\ mem'[r] = mem[r] \/ (op.do \in Writing /\ op.reg = r /\ mem'[r] = Computed)
         /\ op.do \in Writing /\ op.reg = r /\ alive' /\ r \notin bad' => mem'[r] = Computed
<1>1. mem \in [Regs -> SUBSET Bits]
  BY DEF TypeOK
<1>2. CASE Writes
  <2>1. op.do \in Writing
    BY <1>2 DEF Writes, Inside, Writing
  <2>2. PICK o \in Outcomes :
          /\ Answered(o)
          /\ \/ o \in {"ok", "lost"} /\ WritesIt
             \/ o # "ok" /\ mem' = mem /\ driven' = driven
    BY <1>2, WritesOrNot
  <2>3. op.reg = r /\ r \notin bad' => o = "ok"
    BY <2>2, AnsweredKeeps
  <2>4. CASE WritesIt
    <3>1. mem'[r] = IF op.reg = r THEN Computed ELSE mem[r]
      BY <1>1, <2>4 DEF WritesIt, Computed
    <3> QED
      BY <2>1, <3>1
  <2>5. CASE o # "ok" /\ mem' = mem
    BY <2>3, <2>5
  <2> QED
    BY <2>2, <2>4, <2>5
<1>3. CASE ~Writes
  <2>1. CASE Reads \/ Touches \/ Holds \/ ReadsGate \/ StopsIf
    <3>1. op.do \in {"read", "touch", "hold", "look", "gate", "stop if"}
      BY <2>1 DEF Reads, Touches, Holds, ReadsGate, StopsIf, Inside
    <3>2. mem' = mem
      BY <2>1 DEF Reads, Touches, Holds, ReadsGate, StopsIf, hardware
    <3> QED
      BY <3>1, <3>2 DEF Writing
  <2>2. CASE DeadAccess
    BY <2>2 DEF DeadAccess, hardware
  <2> QED
    BY <1>3, <2>1, <2>2 DEF PlainAccess
<1> QED
  BY <1>2, <1>3

\* The open program, as its name says it is.
LEMMA NamedProgram ==
  ASSUME TypeOK, stage = "inside"
  PROVE  /\ AsNamed(program) /\ program.ops \in Seq(Accesses) /\ Len(program.ops) \in Nat
         /\ program.name = programs[next].name /\ Placed(programs, flags)
         /\ next \in 1 .. Len(programs) /\ Len(programs) \in Nat
         /\ step \in 1 .. Len(program.ops) + 1
         /\ ~PastEnd => step \in 1 .. Len(program.ops) /\ op = program.ops[step]
  BY InProgram, CodePrograms DEF ProgramSet, TypeOK, programs, program, flags, op

LEMMA NextProgram ==
  ASSUME TypeOK, ~PastLast
  PROVE  /\ program \in ProgramSet(flags) /\ AsNamed(program) /\ Len(program.ops) \in Nat
         /\ program.ops \in Seq(Accesses)
         /\ program.name = programs[next].name /\ Placed(programs, flags)
         /\ next \in 1 .. Len(programs) /\ Len(programs) \in Nat
<1>0. Len(programs) \in Nat /\ next \in 1 .. Len(programs) + 1
  BY Opened DEF TypeOK
<1>1. next \in 1 .. Len(programs) /\ Len(programs) \in Nat
  BY <1>0 DEF PastLast
<1>2. program \in ProgramSet(flags)
  BY <1>1, Opened DEF TypeOK, program
<1>3. Placed(programs, flags)
  BY CodePrograms DEF TypeOK, programs, flags
<1>4. AsNamed(program) /\ program.ops \in Orderly
  BY <1>2 DEF ProgramSet
<1> QED
  BY <1>1, <1>2, <1>3, <1>4 DEF Orderly, program

RcOpen == alive /\ RcCtl \notin bad /\ 0 \in mem[RcCtl]

\* The mode is left later in this program, or by a replay that is still to come.
LeftHere ==
    /\ stage = "inside" /\ program.name = "t602x"
    /\ \E j \in step .. Len(program.ops) : Disarms(program.ops[j])
LeftAfter ==
    stage = "inside" /\ \E m \in next + 1 .. Len(programs) : ReplayAt(programs, next, m)
LeftLater ==
    stage = "between" /\ \E m \in next .. Len(programs) : ReplayAt(programs, next, m)

ModePending ==
    "t602x_init" \in flags /\ RcOpen => stage = "escaped" \/ LeftHere \/ LeftAfter \/ LeftLater

LEMMA ModePlain ==
  ASSUME TypeOK, ModePending, PlainAccess
  PROVE  ModePending'
<1>1. /\ stage = "inside" /\ ~PastEnd /\ stage' = "inside" /\ program' = program /\ flags' = flags
      /\ programs' = programs /\ next' = next /\ Moves /\ Keeps
  BY PlainSteps DEF Stands
<1>2. /\ AsNamed(program) /\ step \in 1 .. Len(program.ops) /\ Len(program.ops) \in Nat
      /\ op = program.ops[step] /\ Placed(programs, flags) /\ program.name = programs[next].name
      /\ next \in 1 .. Len(programs)
  BY <1>1, NamedProgram
<1>3. RcCtl \in Regs
  BY TameRegsAreRegs DEF TameRegs
<1> SUFFICES ASSUME "t602x_init" \in flags, alive', RcCtl \notin bad', 0 \in mem'[RcCtl]
             PROVE  LeftHere' \/ LeftAfter'
  BY <1>1 DEF ModePending, RcOpen
<1>4. alive /\ RcCtl \notin bad
  BY <1>1 DEF Keeps
<1>5. LeftAfter => LeftAfter'
  BY <1>1 DEF LeftAfter
<1>6. ASSUME program.name = "t602x", NEW j \in step .. Len(program.ops), j # step,
             Disarms(program.ops[j])
      PROVE  LeftHere'
  <2>1. GoesOn(op)
    BY <1>2, <1>6 DEF AsNamed, Settles
  <2>2. step' = step + 1
    BY <1>1, <2>1 DEF Moves
  <2>3. j \in step + 1 .. Len(program.ops)
    BY <1>2, <1>6
  <2> QED
    BY <1>1, <1>6, <2>2, <2>3 DEF LeftHere
<1>7. op.do \in Writing /\ op.reg = RcCtl =>
          /\ program.name \in {"kick", "t602x"} /\ op.do = "write"
          /\ mem'[RcCtl] = New(mem[RcCtl])
  <2>1. op.do \in Writing /\ op.reg = RcCtl =>
            program.name \in {"kick", "t602x"} /\ op.do = "write"
    BY <1>2 DEF AsNamed
  <2> QED
    BY <1>3, <2>1, WordAfter DEF Computed
<1>8. CASE Arms(op) /\ program.name = "kick"
  <2>1. PICK m \in next + 1 .. Len(programs) : ReplayAt(programs, next, m)
    BY <1>2, <1>8 DEF Placed, Replays
  <2> QED
    BY <1>1, <2>1 DEF LeftAfter
<1>9. CASE Arms(op) /\ program.name = "t602x"
  <2>1. PICK j \in step + 1 .. Len(program.ops) : Disarms(program.ops[j])
    BY <1>2, <1>9 DEF AsNamed, Settles
  <2>2. j \in step .. Len(program.ops) /\ j # step
    BY <1>2, <2>1
  <2> QED
    BY <1>6, <1>9, <2>1, <2>2
<1>10. CASE ~Arms(op)
  <2>1. 0 \in mem[RcCtl]
    <3>1. CASE op.do \in Writing /\ op.reg = RcCtl
      <4>1. 0 \notin op.set
        BY <1>7, <1>10, <3>1 DEF Arms
      <4> QED
        BY <1>7, <3>1, <4>1 DEF New
    <3>2. CASE ~(op.do \in Writing /\ op.reg = RcCtl)
      BY <1>3, <3>2, WordAfter
    <3> QED
      BY <3>1, <3>2
  <2>2. ~Disarms(op)
    <3> SUFFICES ASSUME Disarms(op) PROVE FALSE
      OBVIOUS
    <3>1. mem'[RcCtl] = New(mem[RcCtl]) /\ 0 \notin New(mem[RcCtl])
      BY <1>7 DEF Disarms, Writing, New
    <3> QED
      BY <3>1
  <2>3. LeftHere \/ LeftAfter
    BY <1>1, <1>4, <2>1 DEF ModePending, RcOpen, LeftLater
  <2>4. ASSUME LeftHere PROVE LeftHere'
    <3>1. PICK j \in step .. Len(program.ops) : Disarms(program.ops[j])
      BY <2>4 DEF LeftHere
    <3>2. j # step
      BY <1>2, <2>2, <3>1
    <3> QED
      BY <1>6, <2>4, <3>1, <3>2 DEF LeftHere
  <2> QED
    BY <1>5, <2>3, <2>4
<1>11. Arms(op) => program.name \in {"kick", "t602x"}
  BY <1>7 DEF Arms, Writing
<1> QED
  BY <1>8, <1>9, <1>10, <1>11

LEMMA ModeBetween ==
  ASSUME TypeOK, ModePending, SkipProgram \/ OpenProgram \/ EntryRaises \/ CloseProgram \/ Finish
  PROVE  ModePending'
<1>1. mem' = mem /\ alive' = alive /\ bad \subseteq bad' /\ flags' = flags /\ programs' = programs
  BY DEF SkipProgram, EntryRaises, CloseProgram, Finish, OpenProgram, Trouble, history, hardware,
         host, flags, programs
<1> SUFFICES ASSUME "t602x_init" \in flags, RcOpen, stage' # "escaped"
             PROVE  LeftHere' \/ LeftAfter' \/ LeftLater'
  BY <1>1 DEF ModePending, RcOpen
<1>2. CASE SkipProgram
  <2>1. stage = "between" /\ ~PastLast /\ ~Admitted /\ next' = next + 1 /\ stage' = "between"
    BY <1>2 DEF SkipProgram, Between
  <2>2. PICK m \in next .. Len(programs) : ReplayAt(programs, next, m)
    BY <2>1 DEF ModePending, LeftHere, LeftAfter, LeftLater
  <2>3. next \in 1 .. Len(programs) /\ Len(programs) \in Nat
    BY <2>1, NextProgram
  <2>4. m # next
    <3> SUFFICES ASSUME m = next PROVE FALSE
      OBVIOUS
    <3>1. program.name = "t602x"
      BY <2>1, <2>2, NextProgram DEF ReplayAt
    <3>2. program.needs = {}
      BY <2>1, <3>1, NextProgram DEF AsNamed
    <3> QED
      BY <2>1, <3>2 DEF Admitted, RcOpen
  <2>5. m \in next + 1 .. Len(programs) /\ next + 1 .. m \subseteq next .. m
    BY <2>3, <2>4
  <2>6. ReplayAt(programs, next + 1, m)
    BY <2>2, <2>5 DEF ReplayAt
  <2> QED
    BY <1>1, <2>1, <2>5, <2>6 DEF LeftLater
<1>3. CASE OpenProgram
  <2>1. /\ stage = "between" /\ ~PastLast /\ next' = next /\ stage' = "inside" /\ step' = 1
        /\ program' = program
    BY <1>1, <1>3 DEF OpenProgram, Between, program
  <2>2. PICK m \in next .. Len(programs) : ReplayAt(programs, next, m)
    BY <2>1 DEF ModePending, LeftHere, LeftAfter, LeftLater
  <2>3. CASE m = next
    <3>1. program.name = "t602x"
      BY <2>1, <2>2, <2>3, NextProgram DEF ReplayAt
    <3>2. PICK j \in 1 .. Len(program.ops) : Disarms(program.ops[j])
      BY <2>1, <3>1, NextProgram DEF AsNamed, Settles
    <3> QED
      BY <2>1, <3>1, <3>2 DEF LeftHere
  <2>4. CASE m # next
    <3>1. m \in next + 1 .. Len(programs)
      BY <2>1, <2>4, NextProgram
    <3> QED
      BY <1>1, <2>1, <2>2, <3>1 DEF LeftAfter
  <2> QED
    BY <2>3, <2>4
<1>4. CASE EntryRaises
  BY <1>4 DEF EntryRaises
<1>5. CASE CloseProgram
  <2>1. stage = "inside" /\ PastEnd /\ next' = next + 1 /\ stage' = "between"
    BY <1>5 DEF CloseProgram
  <2>2. ~LeftHere
    <3>1. step .. Len(program.ops) = {}
      BY <2>1, InProgram DEF PastEnd
    <3> QED
      BY <3>1 DEF LeftHere
  <2>3. PICK m \in next + 1 .. Len(programs) : ReplayAt(programs, next, m)
    BY <2>1, <2>2 DEF ModePending, LeftAfter, LeftLater
  <2>4. next + 1 .. m \subseteq next .. m
    BY <2>1, InProgram
  <2>5. ReplayAt(programs, next + 1, m)
    BY <2>3, <2>4 DEF ReplayAt
  <2> QED
    BY <1>1, <2>1, <2>3, <2>5 DEF LeftLater
<1>6. CASE Finish
  <2>1. stage = "between" /\ PastLast
    BY <1>6 DEF Finish
  <2>2. next .. Len(programs) = {}
    <3>1. Len(programs) \in Nat /\ next \in 1 .. Len(programs) + 1
      BY Opened DEF TypeOK
    <3> QED
      BY <2>1, <3>1 DEF PastLast
  <2> QED
    BY <2>1, <2>2 DEF ModePending, LeftHere, LeftAfter, LeftLater
<1> QED
  BY <1>2, <1>3, <1>4, <1>5, <1>6

LEMMA ModeStep == ASSUME TypeOK, ModePending, [Next]_vars PROVE ModePending'
<1>1. CASE PlainAccess
  BY <1>1, ModePlain
<1>2. CASE SkipProgram \/ OpenProgram \/ EntryRaises \/ CloseProgram \/ Finish
  BY <1>2, ModeBetween
<1>3. CASE AccessEntryRaises
  <2>1. /\ stage = "inside" /\ stage' = "inside" /\ next' = next /\ program.guarding = "access"
        /\ mem' = mem /\ alive' = alive /\ bad \subseteq bad' /\ flags' = flags
        /\ programs' = programs
    BY <1>3 DEF AccessEntryRaises, Trouble, host, hardware, flags, programs
  <2>2. ~LeftHere
    <3>1. program.name # "t602x"
      BY <2>1, NamedProgram DEF AsNamed, Bringup
    <3> QED
      BY <3>1 DEF LeftHere
  <2> QED
    BY <2>1, <2>2 DEF ModePending, RcOpen, LeftAfter, LeftLater
<1>4. CASE AccessExitFails \/ UNCHANGED vars
  BY <1>4 DEF AccessExitFails, Trouble, vars, host, hardware, history, ModePending, RcOpen,
              LeftHere, LeftAfter, LeftLater, flags, program, programs
<1>5. CASE PcieInit
  <2>1. stage = "inside" /\ ~PastEnd /\ op.do = "init" /\ flags' = flags
    BY <1>5 DEF PcieInit, host, flags
  <2>2. program.name = "pcie_init" /\ next \in 1 .. Len(programs) /\ Len(programs) \in Nat
        /\ programs[next].name = "pcie_init"
    BY <2>1, NamedProgram DEF AsNamed
  <2>3. ~LeftAfter
    <3> SUFFICES ASSUME NEW m \in next + 1 .. Len(programs), ReplayAt(programs, next, m)
                 PROVE  FALSE
      BY DEF LeftAfter
    <3>1. next \in next .. m
      BY <2>2
    <3> QED
      BY <2>2, <3>1 DEF ReplayAt
  <2>4. ~RcOpen \/ "t602x_init" \notin flags
    BY <2>1, <2>2, <2>3 DEF ModePending, LeftHere, LeftLater
  <2>5. bad \subseteq bad' /\ (alive' => alive)
    BY <1>5 DEF PcieInit, Trouble, history, hardware
  <2>6. mem'[RcCtl] = mem[RcCtl]
    <3>1. RcCtl \in Regs /\ RcCtl[1] # "port+0x82c"
      BY TameRegsAreRegs DEF TameRegs, RcCtl
    <3> QED
      BY <1>5, <3>1, PcieInitOutcomes DEF InitReturns, InitFails
  <2> QED
    BY <2>1, <2>4, <2>5, <2>6 DEF ModePending, RcOpen
<1> QED
  BY <1>1, <1>2, <1>3, <1>4, <1>5 DEF Next, PlainAccess

\* iBoot hands the root complex over with config-write mode off: the first read of
\* rc_base+0x3c comes back 0 (Scripts/m1n1/logs/23/run.log:1456).
ModeAsLeft == 0 \notin Handoff[RcCtl]

\* A boot that replays the T602X sequence to its end leaves config-write mode
\* again, whatever other access failed on the way.
THEOREM ModeIsClosed == ASSUME ModeAsLeft PROVE Spec => []ConfigModeClosed
<1>1. Init => TypeOK /\ ModePending
  <2> SUFFICES ASSUME Init PROVE ModePending
    BY InitTyped
  <2>1. RcCtl \in Regs /\ RcCtl[1] # "acio gate"
    BY TameRegsAreRegs DEF TameRegs, RcCtl
  <2>2. 0 \notin mem[RcCtl]
    BY <2>1 DEF Init, ModeAsLeft
  <2> QED
    BY <2>2 DEF ModePending, RcOpen
<1>2. TypeOK /\ ModePending /\ [Next]_vars => (TypeOK /\ ModePending)'
  BY TypeStep, ModeStep
<1>3. ModePending => ConfigModeClosed
  BY DEF ModePending, RcOpen, LeftHere, LeftAfter, LeftLater, ConfigModeClosed
<1> QED
  BY <1>1, <1>2, <1>3, PTL DEF Spec

-----------------------------------------------------------------------------
(* Starting a port.                                                        *)

Came(name) == \E m \in 1 .. next - 1 : programs[m].name = name

\* While every access to the port's reset went through, the port is released; or
\* the open program is going to release it before it starts one.
Released(n) == alive /\ PortReset(n) \notin bad => 0 \in mem[PortReset(n)]
Freeing(n) == \E j \in step .. Len(program.ops) : FreesFrom(program.ops, step, j, n)

PortsReleased ==
    /\ stage = "between" /\ ~PastLast /\ Came("pcie_init") =>
          \A n \in ActivePorts : Released(n)
    /\ stage = "inside" /\ Came("pcie_init") =>
          \A n \in ActivePorts : Released(n) \/ Freeing(n)
    /\ stage = "inside" /\ program.name = "pcie_init" /\ PastEnd =>
          \A n \in ActivePorts : Released(n)

LEMMA ResetIsReg ==
  /\ \A n \in Ports : PortReset(n) \in Regs /\ PortReset(n)[1] = "port+0x82c"
                       /\ PortReset(n)[2] = n
  /\ \A n \in Ports : Start(n) \in Regs /\ Start(n)[1] = "ltssm+0x14"
  /\ \A i, n \in Ports : Start(i) = Start(n) => i = n
  /\ ActivePorts \subseteq Ports /\ NicPort \in ActivePorts
<1>1. {"port+0x82c", "ltssm+0x14"} \subseteq PortNames /\ PortNames \X Ports \subseteq Regs
  BY DEF Regs, PortNames
<1> QED
  BY <1>1, PortAssumption DEF PortReset, Start

LEMMA ReleasedStays ==
  ASSUME NEW n, mem'[PortReset(n)] = mem[PortReset(n)], alive' => alive, bad \subseteq bad',
         Released(n)
  PROVE  Released(n)'
  BY DEF Released, PortReset

\* An access leaves a released port released, or is followed by one that does.
LEMMA PortPlain ==
  ASSUME TypeOK, PlainAccess, NEW n \in ActivePorts, Released(n) \/ Freeing(n)
  PROVE  Released(n)' \/ Freeing(n)'
<1>1. /\ stage = "inside" /\ ~PastEnd /\ stage' = "inside" /\ program' = program /\ Moves /\ Keeps
  BY PlainSteps DEF Stands
<1>2. /\ AsNamed(program) /\ step \in 1 .. Len(program.ops) /\ Len(program.ops) \in Nat
      /\ op = program.ops[step]
  BY <1>1, NamedProgram
<1>3. PortReset(n) \in Regs /\ PortReset(n)[1] = "port+0x82c" /\ n \in Ports
  BY ResetIsReg
<1> SUFFICES ASSUME alive', PortReset(n) \notin bad', 0 \notin mem'[PortReset(n)]
             PROVE  Freeing(n)'
  BY DEF Released, PortReset
<1>4. alive /\ PortReset(n) \notin bad
  BY <1>1 DEF Keeps
<1>5. CASE op.do \in Writing /\ op.reg = PortReset(n)
  <2>1. 0 \notin op.set
    <3>1. mem'[PortReset(n)] = Computed
      BY <1>3, <1>5, WordAfter
    <3> QED
      BY <3>1 DEF Computed, New
  <2>2. program.name \in Bringup
    BY <1>2, <1>3, <1>5 DEF AsNamed, StartWords
  <2>3. PICK j \in step + 1 .. Len(program.ops) : FreesFrom(program.ops, step + 1, j, n)
    BY <1>2, <1>3, <1>5, <2>1, <2>2 DEF AsNamed, Recovers, ResetBy
  <2>4. step' = step + 1
    BY <1>1, <1>5 DEF Moves
  <2> QED
    BY <1>1, <2>3, <2>4 DEF Freeing
<1>6. CASE ~(op.do \in Writing /\ op.reg = PortReset(n))
  <2>1. mem'[PortReset(n)] = mem[PortReset(n)]
    BY <1>3, <1>6, WordAfter
  <2>2. Freeing(n)
    BY <1>4, <2>1 DEF Released
  <2>3. PICK j \in step .. Len(program.ops) : FreesFrom(program.ops, step, j, n)
    BY <2>2 DEF Freeing
  <2>4. j # step /\ GoesOn(op)
    <3>1. step \in step .. j
      BY <1>2, <2>3
    <3> QED
      BY <1>2, <1>6, <2>3, <3>1 DEF FreesFrom, FreedBy
  <2>5. step' = step + 1
    BY <1>1, <2>4 DEF Moves
  <2>6. j \in step + 1 .. Len(program.ops) /\ step + 1 .. j \subseteq step .. j
    BY <1>2, <2>3, <2>4
  <2>7. FreesFrom(program.ops, step + 1, j, n)
    BY <2>3, <2>6 DEF FreesFrom
  <2> QED
    BY <1>1, <2>5, <2>6, <2>7 DEF Freeing
<1> QED
  BY <1>5, <1>6

\* The two programs that release the resets always run.
LEMMA NeverSkipped ==
  ASSUME TypeOK, SkipProgram
  PROVE  program.name \notin {"pcie_init", "perstn"}
<1>1. ~PastLast /\ ~Admitted
  BY DEF SkipProgram, Between
<1>2. program.name \in {"pcie_init", "perstn"} => program.gated = FALSE /\ program.needs = {}
  BY <1>1, NextProgram DEF AsNamed, InitProgram, PerstnProgram, Bare, Program
<1> QED
  BY <1>1, <1>2 DEF Admitted

LEMMA CameNext ==
  ASSUME TypeOK, NEW name, next' = next + 1, programs' = programs, Came(name)',
         program.name # name
  PROVE  Came(name)
<1>1. PICK m \in 1 .. (next + 1) - 1 : programs[m].name = name
  BY DEF Came
<1>2. next \in Nat
  <2>1. Len(programs) \in Nat /\ next \in 1 .. Len(programs) + 1
    BY Opened DEF TypeOK
  <2> QED
    BY <2>1
<1>3. m # next
  BY <1>1 DEF program
<1> QED
  BY <1>1, <1>2, <1>3 DEF Came

\* What the steps that are no access leave as it was.
LEMMA QuietStep ==
  ASSUME SkipProgram \/ OpenProgram \/ EntryRaises \/ CloseProgram \/ Finish
         \/ AccessEntryRaises \/ AccessExitFails \/ UNCHANGED vars
  PROVE  /\ mem' = mem /\ alive' = alive /\ bad \subseteq bad' /\ driven' = driven
         /\ programs' = programs
  BY DEF SkipProgram, OpenProgram, EntryRaises, CloseProgram, Finish, AccessEntryRaises,
         AccessExitFails, Trouble, vars, host, hardware, history, programs

LEMMA PortStep == ASSUME TypeOK, PortsReleased, [Next]_vars PROVE PortsReleased'
<1>1. CASE PlainAccess
  <2>1. /\ stage = "inside" /\ ~PastEnd /\ stage' = "inside" /\ program' = program
        /\ programs' = programs /\ next' = next
    BY <1>1, PlainSteps DEF Stands
  <2>2. Came("pcie_init")' => \A n \in ActivePorts : Released(n)' \/ Freeing(n)'
    BY <1>1, <2>1, PortPlain DEF PortsReleased, Came
  <2>3. program.name # "pcie_init"
    <3> SUFFICES ASSUME program.name = "pcie_init" PROVE FALSE
      OBVIOUS
    <3>1. program = InitProgram[1] /\ step \in 1 .. Len(program.ops) /\ op = program.ops[step]
      BY <2>1, NamedProgram DEF AsNamed
    <3>2. op.do = "init"
      BY <3>1 DEF InitProgram, Bare, Program, Access
    <3> QED
      BY <1>1, <3>2 DEF PlainAccess, Reads, Touches, Holds, Writes, ReadsGate, StopsIf,
                        DeadAccess, Inside
  <2> QED
    BY <2>1, <2>2, <2>3 DEF PortsReleased
<1>2. CASE SkipProgram
  <2>1. stage = "between" /\ ~PastLast /\ next' = next + 1 /\ stage' = "between"
    BY <1>2 DEF SkipProgram, Between
  <2>2. Came("pcie_init")' => Came("pcie_init")
    BY <1>2, <2>1, QuietStep, NeverSkipped, CameNext
  <2> QED
    BY <1>2, <2>1, <2>2, QuietStep, ReleasedStays DEF PortsReleased
<1>3. CASE OpenProgram
  <2>1. /\ stage = "between" /\ ~PastLast /\ next' = next /\ stage' = "inside" /\ step' = 1
        /\ programs' = programs /\ program' = program
    BY <1>3, QuietStep DEF OpenProgram, Between, program
  <2>2. Came("pcie_init")' => Came("pcie_init")
    BY <2>1 DEF Came
  <2>3. program.name = "pcie_init" => ~PastEnd'
    <3>1. program.name = "pcie_init" => Len(program.ops) = 1
      BY <2>1, NextProgram DEF AsNamed, InitProgram, Bare, Program
    <3> QED
      BY <2>1, <3>1 DEF PastEnd
  <2> QED
    BY <1>3, <2>1, <2>2, <2>3, QuietStep, ReleasedStays DEF PortsReleased
<1>4. CASE EntryRaises \/ Finish
  BY <1>4 DEF EntryRaises, Finish, PortsReleased
<1>5. CASE CloseProgram
  <2>1. stage = "inside" /\ PastEnd /\ next' = next + 1 /\ stage' = "between"
    BY <1>5 DEF CloseProgram
  <2>2. \A n : ~Freeing(n)
    <3>1. step .. Len(program.ops) = {}
      BY <2>1, InProgram DEF PastEnd
    <3> QED
      BY <3>1 DEF Freeing
  <2>3. Came("pcie_init")' => Came("pcie_init") \/ program.name = "pcie_init"
    BY <1>5, <2>1, QuietStep, CameNext
  <2>4. Came("pcie_init")' => \A n \in ActivePorts : Released(n)
    BY <2>1, <2>2, <2>3 DEF PortsReleased
  <2> QED
    BY <1>5, <2>1, <2>4, QuietStep, ReleasedStays DEF PortsReleased
<1>6. CASE AccessEntryRaises
  <2>1. /\ stage = "inside" /\ stage' = "inside" /\ next' = next /\ ~PastEnd
        /\ program.guarding = "access" /\ programs' = programs /\ program' = program
    BY <1>6, QuietStep DEF AccessEntryRaises, program
  <2>2. AsNamed(program) /\ Len(program.ops) \in Nat /\ step \in 1 .. Len(program.ops)
    BY <2>1, NamedProgram
  <2>3. program.name \notin Bringup \cup {"pcie_init"}
    BY <2>1, <2>2 DEF AsNamed, InitProgram, Bare, Program
  <2>4. \A n \in Ports : ~Freeing(n)
    <3> SUFFICES ASSUME NEW n \in Ports, NEW j \in step .. Len(program.ops),
                        FreesFrom(program.ops, step, j, n)
                 PROVE  FALSE
      BY DEF Freeing
    <3>1. j \in 1 .. Len(program.ops)
      BY <2>2
    <3> QED
      BY <2>2, <2>3, <3>1, ResetIsReg DEF FreesFrom, FreedBy, AsNamed, StartWords
  <2>5. Came("pcie_init")' => Came("pcie_init")
    BY <2>1 DEF Came
  <2> QED
    BY <1>6, <2>1, <2>3, <2>4, <2>5, QuietStep, ReleasedStays, ResetIsReg DEF PortsReleased
<1>7. CASE AccessExitFails \/ UNCHANGED vars
  <2>1. /\ stage' = stage /\ next' = next /\ step' = step /\ programs' = programs
        /\ program' = program
    BY <1>7, QuietStep DEF AccessExitFails, vars, program
  <2>2. \A n : Released(n) => Released(n)'
    BY <1>7, QuietStep, ReleasedStays
  <2>3. \A n : Freeing(n) => Freeing(n)'
    BY <2>1 DEF Freeing
  <2>4. /\ Came("pcie_init")' <=> Came("pcie_init")
        /\ PastEnd' <=> PastEnd
        /\ PastLast' <=> PastLast
    BY <2>1 DEF Came, PastEnd, PastLast
  <2> QED
    BY <2>1, <2>2, <2>3, <2>4 DEF PortsReleased
<1>8. CASE PcieInit
  <2>1. CASE InitReturns
    <3>1. \A n \in ActivePorts : Released(n)'
      BY <2>1, ResetIsReg DEF InitReturns, Released
    <3> QED
      BY <3>1 DEF PortsReleased
  <2>2. CASE InitFails
    <3>1. stage' = "between" /\ next' = Len(programs) + 1 /\ programs' = programs
      BY <1>8, <2>2 DEF InitFails, PcieInit, host, programs
    <3>2. PastLast'
      <4>1. Len(programs) \in Nat
        BY Opened DEF TypeOK
      <4> QED
        BY <3>1, <4>1 DEF PastLast
    <3> QED
      BY <3>1, <3>2 DEF PortsReleased
  <2> QED
    BY <1>8, <2>1, <2>2, PcieInitOutcomes
<1> QED
  BY <1>1, <1>2, <1>3, <1>4, <1>5, <1>6, <1>7, <1>8 DEF Next, PlainAccess

\* Once the endpoint's reset program is over, the pin has been driven.
Driven == alive /\ Pin0 \notin bad => NicPort \in driven
PinDriven ==
    /\ stage = "between" /\ ~PastLast /\ Came("perstn") => Driven
    /\ stage = "inside" /\ Came("perstn") => Driven
    /\ stage = "inside" /\ program.name = "perstn" /\ step > 3 => Driven

LEMMA PerstnOps ==
  LET ops == PerstnProgram[1].ops
  IN  /\ Len(ops) = 7 /\ ops[3].do = "rmw" /\ PerstnProgram[1].guarding = "none"
      /\ \A k \in 1 .. 7 : Stays(ops[k]) /\ ops[k].reg = Pin0
<1> DEFINE d == DeassertPerstn(Pin0)
           first == Access("read", "leaves", Pin0, {}, {})
           one == <<first>>
           low == Drive(Pin0, 0)
           high == Drive(Pin0, 1)
<1>1. PerstnProgram[1].ops = d /\ PerstnProgram[1].guarding = "none"
  BY DEF PerstnProgram, Bare, Program
<1>2. d = one \o low \o high
  BY DEF DeassertPerstn
<1>3. /\ Len(low) = 3 /\ Len(high) = 3 /\ low[2].do = "rmw"
      /\ \A k \in 1 .. 3 : Stays(low[k]) /\ low[k].reg = Pin0
      /\ \A k \in 1 .. 3 : Stays(high[k]) /\ high[k].reg = Pin0
  BY DEF Drive, Pin, Access, Stays
<1>4. Stays(first) /\ first.reg = Pin0
  BY DEF Access, Stays
<1>5. /\ one \in Seq(Accesses) /\ Len(one) = 1 /\ one[1] = first
      /\ low \in Seq(Accesses) /\ high \in Seq(Accesses)
  <2>1. first \in Accesses
    BY TameRegsAreRegs DEF TameRegs, Access, Accesses
  <2> HIDE DEF first
  <2>3. one \in Seq(Accesses) /\ Len(one) = 1 /\ one[1] = first
    BY <2>1
  <2>2. low \in Seq(Accesses) /\ high \in Seq(Accesses)
    BY DriveAside
  <2> QED
    BY <2>2, <2>3
<1> HIDE DEF d, first, one, low, high
<1>6. /\ Len(d) = 7 /\ d[1] = first /\ d[2] = low[1] /\ d[3] = low[2] /\ d[4] = low[3]
      /\ d[5] = high[1] /\ d[6] = high[2] /\ d[7] = high[3]
  <2>1. Len(low) = 3 /\ Len(high) = 3
    BY <1>3
  <2> DEFINE half == one \o low
  <2>2. /\ half \in Seq(Accesses) /\ Len(half) = Len(one) + Len(low)
        /\ \A i \in 1 .. Len(one) : half[i] = one[i]
        /\ \A i \in Len(one) + 1 .. Len(one) + Len(low) : half[i] = low[i - Len(one)]
    BY <1>5, ConcatAt, Zenon
  <2>3. d = half \o high
    BY <1>2
  <2> HIDE DEF half
  <2>4. /\ Len(d) = Len(half) + Len(high)
        /\ \A i \in 1 .. Len(half) : d[i] = half[i]
        /\ \A i \in Len(half) + 1 .. Len(half) + Len(high) : d[i] = high[i - Len(half)]
    BY <1>5, <2>2, <2>3, ConcatAt, Zenon
  <2>5. /\ Len(half) = 4 /\ half[1] = first
        /\ half[2] = low[1] /\ half[3] = low[2] /\ half[4] = low[3]
    BY <1>5, <2>1, <2>2
  <2> QED
    BY <2>1, <2>4, <2>5
<1>7. \A k \in 1 .. 7 : Stays(d[k]) /\ d[k].reg = Pin0
  <2> SUFFICES ASSUME NEW k \in 1 .. 7 PROVE Stays(d[k]) /\ d[k].reg = Pin0
    OBVIOUS
  <2>1. k \in {1, 2, 3, 4, 5, 6, 7}
    OBVIOUS
  <2> QED
    BY <1>3, <1>4, <1>6, <2>1
<1> QED
  BY <1>1, <1>3, <1>6, <1>7

LEMMA DrivenStays ==
  ASSUME alive' => alive, bad \subseteq bad', driven \subseteq driven', Driven
  PROVE  Driven'
  BY DEF Driven

\* A pin once driven stays in the record.
LEMMA DrivenGrows == ASSUME TypeOK, PlainAccess PROVE driven \subseteq driven'
<1>1. CASE Writes
  BY <1>1 DEF Writes
<1>2. CASE ~Writes
  BY <1>2 DEF PlainAccess, Reads, Touches, Holds, ReadsGate, StopsIf, DeadAccess, history
<1> QED
  BY <1>1, <1>2

LEMMA DrivenPlain ==
  ASSUME TypeOK, PinDriven, PlainAccess
  PROVE  PinDriven'
<1>1. /\ stage = "inside" /\ ~PastEnd /\ stage' = "inside" /\ program' = program /\ Moves /\ Keeps
      /\ programs' = programs /\ next' = next
  BY PlainSteps DEF Stands
<1>2. Driven => Driven'
  BY <1>1, DrivenGrows, DrivenStays DEF Keeps
<1>3. Came("perstn")' => Driven'
  BY <1>1, <1>2 DEF PinDriven, Came
<1>4. ASSUME program.name = "perstn", step' > 3
      PROVE  Driven'
  <2>1. /\ program = PerstnProgram[1] /\ step \in 1 .. Len(program.ops) /\ op = program.ops[step]
    BY <1>1, <1>4, NamedProgram DEF AsNamed
  <2>2. step \in 1 .. 7 /\ Stays(op) /\ op.reg = Pin0 /\ (step = 3 => op.do = "rmw")
    BY <2>1, PerstnOps
  <2>3. CASE step > 3
    BY <1>1, <1>2, <1>4, <2>3 DEF PinDriven
  <2>4. CASE ~(step > 3)
    <3> SUFFICES ASSUME alive', Pin0 \notin bad' PROVE NicPort \in driven'
      BY DEF Driven, Pin0
    <3>1. step' = step + 1
      BY <1>1, <2>2 DEF Moves
    <3>2. step = 3 /\ op.do = "rmw"
      BY <1>4, <2>2, <2>4, <3>1
    <3>3. Writes
      <4>1. alive
        BY <1>1 DEF Keeps
      <4> QED
        BY <3>2, <4>1 DEF PlainAccess, Reads, Touches, Holds, ReadsGate, StopsIf,
                          DeadAccess, Inside
    <3>4. PICK o \in Outcomes : Answered(o) /\ (WritesIt \/ o # "ok")
      BY <3>3, WritesOrNot
    <3>5. WritesIt
      BY <2>2, <3>4, AnsweredKeeps
    <3>6. NicPort \in Ports
      BY PortAssumption
    <3> QED
      BY <2>2, <3>5, <3>6, PinIsReg DEF WritesIt
  <2> QED
    BY <2>3, <2>4
<1> QED
  BY <1>1, <1>3, <1>4 DEF PinDriven

LEMMA DrivenStep == ASSUME TypeOK, PinDriven, [Next]_vars PROVE PinDriven'
<1>1. CASE PlainAccess
  BY <1>1, DrivenPlain
<1>2. CASE SkipProgram
  <2>1. stage = "between" /\ ~PastLast /\ next' = next + 1 /\ stage' = "between"
    BY <1>2 DEF SkipProgram, Between
  <2>2. Came("perstn")' => Came("perstn")
    BY <1>2, <2>1, QuietStep, NeverSkipped, CameNext
  <2> QED
    BY <1>2, <2>1, <2>2, QuietStep, DrivenStays DEF PinDriven
<1>3. CASE OpenProgram
  <2>1. /\ stage = "between" /\ ~PastLast /\ next' = next /\ stage' = "inside" /\ step' = 1
        /\ programs' = programs
    BY <1>3, QuietStep DEF OpenProgram, Between
  <2>2. Came("perstn")' => Came("perstn")
    BY <2>1 DEF Came
  <2> QED
    BY <1>3, <2>1, <2>2, QuietStep, DrivenStays DEF PinDriven
<1>4. CASE EntryRaises \/ Finish
  BY <1>4 DEF EntryRaises, Finish, PinDriven
<1>5. CASE CloseProgram
  <2>1. stage = "inside" /\ PastEnd /\ next' = next + 1 /\ stage' = "between"
    BY <1>5 DEF CloseProgram
  <2>2. program.name = "perstn" => step > 3
    <3>1. /\ program.name = "perstn" => program = PerstnProgram[1]
          /\ step \in 1 .. Len(program.ops) + 1
      BY <2>1, NamedProgram DEF AsNamed
    <3> QED
      BY <2>1, <3>1, PerstnOps DEF PastEnd
  <2>3. Came("perstn")' => Came("perstn") \/ program.name = "perstn"
    BY <1>5, <2>1, QuietStep, CameNext
  <2> QED
    BY <1>5, <2>1, <2>2, <2>3, QuietStep, DrivenStays DEF PinDriven
<1>6. CASE AccessEntryRaises
  <2>1. /\ stage = "inside" /\ stage' = "inside" /\ next' = next /\ program.guarding = "access"
        /\ programs' = programs /\ program' = program
    BY <1>6, QuietStep DEF AccessEntryRaises, program
  <2>2. program.name # "perstn"
    BY <2>1, NamedProgram, PerstnOps DEF AsNamed
  <2>3. Came("perstn")' => Came("perstn")
    BY <2>1 DEF Came
  <2> QED
    BY <1>6, <2>1, <2>2, <2>3, QuietStep, DrivenStays DEF PinDriven
<1>7. CASE AccessExitFails \/ UNCHANGED vars
  <2>1. /\ stage' = stage /\ next' = next /\ step' = step /\ programs' = programs
        /\ program' = program
    BY <1>7, QuietStep DEF AccessExitFails, vars, program
  <2>2. Driven => Driven'
    BY <1>7, QuietStep, DrivenStays
  <2>3. (Came("perstn")' <=> Came("perstn")) /\ (PastLast' <=> PastLast)
    BY <2>1 DEF Came, PastLast
  <2> QED
    BY <2>1, <2>2, <2>3 DEF PinDriven
<1>8. CASE PcieInit
  <2>0. stage = "inside" /\ ~PastEnd /\ op.do = "init" /\ programs' = programs
    BY <1>8 DEF PcieInit, host, programs
  <2>1. CASE InitReturns
    <3>1. /\ stage' = stage /\ next' = next /\ alive' = alive /\ bad' = bad /\ driven' = driven
          /\ program' = program
      BY <2>0, <2>1 DEF InitReturns, history, program
    <3>2. program.name = "pcie_init"
      BY <2>0, NamedProgram DEF AsNamed
    <3>3. Came("perstn")' => Driven'
      BY <2>0, <3>1, DrivenStays DEF PinDriven, Came
    <3> QED
      BY <2>0, <3>1, <3>2, <3>3 DEF PinDriven
  <2>2. CASE InitFails
    <3>1. stage' = "between" /\ next' = Len(programs) + 1
      BY <2>2 DEF InitFails
    <3>2. PastLast'
      <4>1. Len(programs) \in Nat
        BY Opened DEF TypeOK
      <4> QED
        BY <2>0, <3>1, <4>1 DEF PastLast
    <3> QED
      BY <3>1, <3>2 DEF PinDriven
  <2> QED
    BY <1>8, <2>1, <2>2, PcieInitOutcomes
<1> QED
  BY <1>1, <1>2, <1>3, <1>4, <1>5, <1>6, <1>7, <1>8 DEF Next, PlainAccess

\* Who starts a port.
LEMMA StartedBy ==
  ASSUME TypeOK, [Next]_vars, NEW i \in Ports, mem'[Start(i)] # mem[Start(i)]
  PROVE  /\ stage = "inside" /\ ~PastEnd /\ alive /\ Starts(op) /\ op.reg = Start(i)
<1>1. Start(i) \in Regs /\ Start(i)[1] = "ltssm+0x14"
  BY ResetIsReg
<1>2. PlainAccess
  <2>1. CASE PcieInit
    BY <1>1, <2>1, PcieInitOutcomes DEF InitReturns, InitFails
  <2> QED
    BY <2>1, QuietStep DEF Next, PlainAccess
<1>3. op.do \in Writing /\ op.reg = Start(i)
  BY <1>1, <1>2, WordAfter
<1>4. stage = "inside" /\ ~PastEnd
  BY <1>2, PlainSteps DEF Stands
<1>5. alive
  BY <1>2 DEF PlainAccess, Reads, Touches, Holds, Writes, ReadsGate, StopsIf, DeadAccess,
              Inside, hardware
<1> QED
  BY <1>1, <1>3, <1>4, <1>5 DEF Starts

LEMMA StartStep ==
  ASSUME TypeOK, PortsReleased, PinDriven, PinPending, [Next]_vars,
         NEW i \in Ports, 0 \notin mem[Start(i)], 0 \in mem'[Start(i)]
  PROVE  /\ PortReset(i) \in bad \/ 0 \in mem[PortReset(i)]
         /\ Perst(NicPort) \in bad \/ 0 \in mem[Perst(NicPort)]
<1>1. stage = "inside" /\ ~PastEnd /\ alive /\ Starts(op) /\ op.reg = Start(i)
  BY StartedBy
<1>2. /\ AsNamed(program) /\ step \in 1 .. Len(program.ops) /\ op = program.ops[step]
      /\ Placed(programs, flags) /\ program.name = programs[next].name
      /\ next \in 1 .. Len(programs)
  BY <1>1, NamedProgram
<1>3. program.name \in Bringup
  BY <1>1, <1>2 DEF Starts, AsNamed, StartWords
<1>4. i \in ActivePorts
  <2>1. PICK n \in ActivePorts : op.reg = Start(n)
    BY <1>1, <1>2, <1>3 DEF AsNamed, StartsActive
  <2> QED
    BY <1>1, <2>1, ResetIsReg
<1>5. Came("perstn") /\ Came("pcie_init")
  BY <1>2, <1>3 DEF Placed, Came
<1>6. PortReset(i) \in bad \/ 0 \in mem[PortReset(i)]
  <2>1. ~Freeing(i)
    <3> SUFFICES ASSUME NEW j \in step .. Len(program.ops), FreesFrom(program.ops, step, j, i)
                 PROVE  FALSE
      BY DEF Freeing
    <3>1. step \in step .. j
      BY <1>2
    <3> QED
      BY <1>1, <1>2, <3>1 DEF FreesFrom
  <2> QED
    BY <1>1, <1>4, <1>5, <2>1 DEF PortsReleased, Released
<1>7. Pin0 \in bad \/ 0 \in mem[Pin0]
  <2>1. ~LiftAhead
    <3> SUFFICES ASSUME NEW j \in step .. Len(program.ops), LiftsFrom(program.ops, step, j)
                 PROVE  FALSE
      BY DEF LiftAhead
    <3>1. step \in step .. j
      BY <1>2
    <3> QED
      BY <1>1, <1>2, <3>1 DEF LiftsFrom, Waits
  <2> QED
    BY <1>1, <1>5, <2>1 DEF PinDriven, Driven, PinPending
<1> QED
  BY <1>6, <1>7 DEF Pin0

\* A port is started only while its internal reset and the endpoint's are
\* released, unless an access that was to release them failed.
THEOREM StartsWhenReleased == Spec => StartsReleased
<1>1. Init => TypeOK /\ PortsReleased /\ PinDriven /\ PinPending
  <2> SUFFICES ASSUME Init PROVE PortsReleased /\ PinDriven /\ PinPending
    BY InitTyped
  <2>1. stage = "between" /\ next = 1 /\ driven = {}
    BY DEF Init
  <2>2. \A name : ~Came(name)
    BY <2>1 DEF Came
  <2> QED
    BY <2>1, <2>2 DEF PortsReleased, PinDriven, PinPending
<1>2. TypeOK /\ PortsReleased /\ PinDriven /\ PinPending /\ [Next]_vars
         => (TypeOK /\ PortsReleased /\ PinDriven /\ PinPending)'
  BY TypeStep, PortStep, DrivenStep, PinStep
<1>3. TypeOK /\ PortsReleased /\ PinDriven /\ PinPending /\ [Next]_vars =>
         \A i \in Ports : 0 \notin mem[Start(i)] /\ 0 \in mem'[Start(i)] =>
             /\ PortReset(i) \in bad \/ 0 \in mem[PortReset(i)]
             /\ Perst(NicPort) \in bad \/ 0 \in mem[Perst(NicPort)]
  BY StartStep
<1> QED
  BY <1>1, <1>2, <1>3, PTL DEF Spec, StartsReleased
=============================================================================
