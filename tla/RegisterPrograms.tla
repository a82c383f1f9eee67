-------------------------- MODULE RegisterPrograms --------------------------
(***************************************************************************)
(* A boot of perstn.py or soc_bringup.py as the sequence of programs it    *)
(* runs against m1n1.  An access may be answered, dropped by the fabric,   *)
(* faulted (under the guard a read then returns a sentinel and a write is  *)
(* skipped, and the host sees neither), lost (the reply never arrives, the *)
(* access may have been made) or stall the bus, after which m1n1 never     *)
(* answers again.                                                          *)
(***************************************************************************)
EXTENDS PortPrograms, SocPrograms, FiniteSets

CONSTANTS
    Orders,       \* a sequence of boots, as PerstnRuns names their flags
    Handoff,      \* Handoff[r]: the bits iBoot left in register r
    MaxTroubles   \* bound: accesses that may go wrong in one boot

\* Calls of the guard that may fail, beside the registers.
GuardOn == <<"set_exc_guard(mode)", 0>>
GuardOff == <<"set_exc_guard(OFF)", 0>>

ASSUME RegisterProgramsAssumption ==
    Handoff \in [Regs -> SUBSET Bits] /\ MaxTroubles \in Nat

-----------------------------------------------------------------------------
\* The programs of every boot.
Main(o) == IF "soc" \in o.flags THEN SocMain(o) ELSE PerstnMain(o)
Code == [n \in DOMAIN Orders |-> Main(Orders[n])]

VARIABLES
    order,     \* the number of the boot
    next,      \* its next program, the open one when inside
    stage,     \* "between" programs, "inside" one, "ended", or "escaped" from main()
    step,      \* the next access of the open program
    alive,     \* m1n1 answers
    guardOn,   \* m1n1's exception guard is on
    short,     \* iface.dev.timeout is the short one
    saved,     \* guarded()'s old_timeout was the short one
    mem,       \* the registers
    held,      \* the value of the last pre-read
    reach,     \* the axi_sub*_reachable flags, and the kinds of gate found ACTIVE
    troubles,  \* accesses that went wrong with their clock on
    bad,       \* what they were made to (history)
    junk,      \* registers whose pre-read came back as the sentinel (history)
    driven     \* the PERST# pins driven so far (history)

host == <<order, reach, held>>
hardware == <<mem, alive>>
guard == <<guardOn, short, saved>>
history == <<troubles, bad, junk, driven>>
vars == <<next, stage, step, host, hardware, guard, history>>

flags == Orders[order].flags
programs == Code[order]
program == programs[next]
op == program.ops[step]
PastLast == next > Len(programs)
PastEnd == step > Len(program.ops)

TypeOK ==
    /\ order \in DOMAIN Orders /\ stage \in {"between", "inside", "ended", "escaped"}
    /\ next \in 1 .. Len(programs) + 1
    /\ stage = "inside" => next <= Len(programs) /\ step \in 1 .. Len(program.ops) + 1
    /\ alive \in BOOLEAN /\ guardOn \in BOOLEAN /\ short \in BOOLEAN /\ saved \in BOOLEAN
    /\ mem \in [Regs -> SUBSET Bits] /\ held \subseteq Bits
    /\ reach \subseteq FirstTouchWindows \cup {"acio gate", "cpu gate"}
    /\ troubles \in 0 .. MaxTroubles
    /\ bad \subseteq Regs \cup {GuardOn, GuardOff} /\ junk \subseteq Regs
    /\ driven \subseteq Ports

Init ==
    /\ order \in DOMAIN Orders /\ next = 1 /\ stage = "between" /\ step = 1
    /\ alive = TRUE /\ guardOn = FALSE /\ short = FALSE /\ saved = FALSE
    /\ \E words \in [0 .. 1 -> IF "acio_status" \in flags THEN PsWords ELSE {{}}] :
           mem = [r \in Regs |-> IF r[1] = "acio gate" THEN words[r[2]] ELSE Handoff[r]]
    /\ held = {} /\ reach = {}
    /\ troubles = 0 /\ bad = {} /\ junk = {} /\ driven = {}

-----------------------------------------------------------------------------
(* Between programs.                                                       *)

Between == stage = "between" /\ ~PastLast
Admitted == (program.gated => alive) /\ program.needs \subseteq reach

\* One more call goes wrong.
Trouble(what) ==
    /\ troubles < MaxTroubles
    /\ troubles' = troubles + 1 /\ bad' = bad \cup {what}
    /\ UNCHANGED <<junk, driven>>

\* Mutant of SkipProgram: the gate waits for m1n1 to come back.
WaitAtGate == Between /\ ~Admitted /\ UNCHANGED vars

\* liveness_gate found m1n1 dead, or the window was never reached.
SkipProgram ==
    /\ Between /\ ~Admitted
    /\ next' = next + 1
    /\ UNCHANGED <<stage, step, host, hardware, guard, history>>

OpenProgram ==
    /\ Between /\ Admitted /\ (program.guarding = "section" => alive)
    /\ stage' = "inside" /\ step' = 1
    /\ IF program.guarding = "section"
       THEN guardOn' = TRUE /\ saved' = short /\ short' = TRUE
       ELSE UNCHANGED guard
    /\ UNCHANGED <<next, host, hardware, history>>

\* guarded() has shortened the timeout when set_exc_guard raises, outside its
\* try and outside the try_ of main().
EntryRaises ==
    /\ Between /\ Admitted /\ program.guarding = "section"
    /\ stage' = "escaped" /\ short' = TRUE /\ saved' = short
    /\ \/ alive /\ Trouble(GuardOn) /\ guardOn' \in {guardOn, TRUE}
       \/ ~alive /\ UNCHANGED <<guardOn, history>>
    /\ UNCHANGED <<next, step, host, hardware>>

\* Mutant of RestoresTimeout: the timeout is put back after the guard is off.
RestoresIfOff(off) == short' = (IF off THEN saved ELSE short) /\ UNCHANGED saved

RestoresTimeout(off) == short' = saved /\ UNCHANGED saved

\* The finally of guarded(), when the program was guarded as a whole.
CloseProgram ==
    /\ stage = "inside" /\ PastEnd
    /\ stage' = "between" /\ next' = next + 1
    /\ IF program.guarding = "section"
       THEN \/ alive /\ guardOn' = FALSE /\ RestoresTimeout(TRUE) /\ UNCHANGED history
            \/ alive /\ Trouble(GuardOff) /\ guardOn' \in BOOLEAN /\ RestoresTimeout(FALSE)
            \/ ~alive /\ RestoresTimeout(FALSE) /\ UNCHANGED <<guardOn, history>>
       ELSE UNCHANGED <<guard, history>>
    /\ UNCHANGED <<step, host, hardware>>

Finish ==
    /\ stage = "between" /\ PastLast /\ stage' = "ended"
    /\ UNCHANGED <<next, step, host, hardware, guard, history>>

-----------------------------------------------------------------------------
(* Inside a program.                                                       *)

Inside(dos) == stage = "inside" /\ ~PastEnd /\ alive /\ op.do \in dos
UnderGuard == guardOn \/ program.guarding = "access"

\* No gate of the block is on: the access never completes.
Powered(gate) == mem[gate] = {On}
Unclocked(reg) ==
    \/ reg[1] = "acio" /\ ~Powered(AcioGate(0)) /\ ~Powered(AcioGate(1))
    \/ reg[1] = "core" /\ ~Powered(CpuGate(0)) /\ ~Powered(CpuGate(1))

Outcomes ==
    IF Unclocked(op.reg) THEN {"stall"}
    ELSE {"ok"} \cup IF troubles < MaxTroubles THEN {"dropped", "fault", "lost", "stall"}
                     ELSE {}

\* Without the guard a fault takes m1n1 down.
Deadly(o) == o = "stall" \/ (o = "fault" /\ ~UnderGuard)
Raised(o) == o = "lost" \/ Deadly(o)

Caught == {"swallows", "drops"}

\* Mutant of Leaves: a failed access ends the program.
LeavesOnRaise(o) == Raised(o)

\* check_alive after an access that raised; DumpAborted ends the program.
Leaves(o) == Raised(o) /\ (op.on = "leaves" \/ (op.on \notin Caught /\ Deadly(o)))

\* Mutant of Skipped: an entry given up takes the next one's pre-read along.
SkippedTooMany == CASE op.on \in {"pairs", "drops"} -> 2 [] op.on = "entry" -> 4 [] OTHER -> 1

\* The accesses given up together with one that raised.
Skipped == CASE op.on \in {"pairs", "drops"} -> 2 [] op.on = "entry" -> 3 [] OTHER -> 1

End == Len(program.ops) + 1

Answered(o) ==
    /\ alive' = ~Deadly(o)
    /\ guardOn' = (guardOn /\ (program.guarding = "access" => Deadly(o)))
    /\ troubles' = troubles + (IF o = "ok" \/ Unclocked(op.reg) THEN 0 ELSE 1)
    /\ bad' = IF o = "ok" THEN bad ELSE bad \cup {op.reg}
    /\ UNCHANGED <<order, next, stage, short, saved>>

Continues(o) ==
    step' = IF Leaves(o) THEN End ELSE step + (IF Raised(o) THEN Skipped ELSE 1)

Reads ==
    /\ Inside({"read"})
    /\ \E o \in Outcomes \ {"dropped"} : Answered(o) /\ Continues(o)
    /\ UNCHANGED <<mem, held, reach, junk, driven>>

\* A first touch counts when the read came back, whatever with.
Touches ==
    /\ Inside({"touch"})
    /\ \E o \in Outcomes \ {"dropped"} :
           /\ Answered(o) /\ Continues(o)
           /\ reach' = IF Raised(o) THEN reach ELSE reach \cup ({op.reg[1]} \cap FirstTouchWindows)
    /\ UNCHANGED <<mem, held, junk, driven>>

\* Mutant of CountsAsActive: what the device tree says of a virtual gate counts.
CountsVirtual(word, o) == o = "ok" /\ On \in word

CountsAsActive(word, o) == o = "ok" /\ On \in word /\ Virtual \notin word

\* A gate without a PS register is answered from the device tree.
ReadsGate ==
    /\ Inside({"look", "gate"})
    /\ \E o \in Outcomes \ {"dropped"} :
           /\ IF Virtual \in mem[op.reg]
              THEN o = "ok" /\ step' = step + 1
                   /\ UNCHANGED <<order, next, stage, alive, guard, troubles, bad>>
              ELSE Answered(o) /\ Continues(o)
           /\ reach' = IF op.do = "gate" /\ CountsAsActive(mem[op.reg], o)
                       THEN reach \cup {op.reg[1]} ELSE reach
    /\ UNCHANGED <<mem, held, junk, driven>>

\* The program stops where the word still has the bit; a sentinel has it.
StopsIf ==
    /\ Inside({"stop if"})
    /\ \E o \in Outcomes \ {"dropped"} :
           /\ Answered(o)
           /\ step' = IF Leaves(o) \/ op.set \subseteq (IF o = "fault" THEN Sentinel ELSE mem[op.reg])
                      THEN End ELSE step + 1
    /\ UNCHANGED <<mem, held, reach, junk, driven>>

\* Mutant of New: the value is written whole, without its mask.
NewWhole(old) == op.set

New(old) == (old \ op.clear) \cup op.set

\* SKIP-NOOP: the entry is on the chip already.
Noop(old) == op.on = "entry" /\ New(old) = old

\* A pre-read the host computes a write from: a fault that was caught comes
\* back as the sentinel.
Holds ==
    /\ Inside({"hold"})
    /\ \E o \in Outcomes \ {"dropped"} :
         LET value == IF o = "fault" THEN Sentinel ELSE mem[op.reg]
         IN  /\ Answered(o)
             /\ IF Raised(o)
                THEN Continues(o) /\ UNCHANGED <<held, junk>>
                ELSE /\ held' = value
                     /\ junk' = IF o = "fault" THEN junk \cup {op.reg} ELSE junk
                     /\ step' = step + (IF Noop(value) THEN Skipped ELSE 1)
    /\ UNCHANGED <<mem, reach, driven>>

\* The fabric may drop a write, the guard skips one that faults, and one whose
\* reply was lost may have been made.
Made(o) == CASE o = "ok" -> {TRUE} [] o = "lost" -> {TRUE, FALSE} [] OTHER -> {FALSE}

Writes ==
    /\ Inside({"write", "rmw"})
    /\ \E o \in Outcomes : \E made \in Made(o) :
         /\ Answered(o) /\ Continues(o)
         /\ mem' = IF made
                   THEN [mem EXCEPT ![op.reg] = New(IF op.do = "rmw" THEN held ELSE @)]
                   ELSE mem
         /\ driven' = driven \cup {i \in Ports : made /\ op.reg = Perst(i)}
    /\ UNCHANGED <<held, reach, junk>>

\* guarded() around one access raises: the probe is left, and Phase F catches it.
AccessEntryRaises ==
    /\ stage = "inside" /\ ~PastEnd /\ alive /\ program.guarding = "access"
    /\ Trouble(GuardOn)
    /\ guardOn' \in {guardOn, TRUE} /\ saved' = short /\ short' = TRUE /\ step' = End
    /\ UNCHANGED <<next, stage, host, hardware>>

\* set_exc_guard(OFF) after an access raises, which guarded() only logs.
AccessExitFails ==
    /\ stage = "inside" /\ PastEnd /\ alive /\ program.guarding = "access" /\ ~guardOn
    /\ Trouble(GuardOff)
    /\ guardOn' = TRUE
    /\ UNCHANGED <<next, stage, step, host, hardware, short, saved>>

\* m1n1 is dead already: the access costs a timeout.
DeadAccess ==
    /\ stage = "inside" /\ ~PastEnd /\ ~alive /\ op.do # "init"
    /\ step' = IF op.on \in Caught THEN step + Skipped ELSE End
    /\ UNCHANGED <<next, stage, host, hardware, guard, history>>

\* p.pcie_init releases the internal resets; when it raises, all that would
\* have followed it is skipped.
PcieInit ==
    /\ stage = "inside" /\ ~PastEnd /\ op.do = "init"
    /\ step' = End
    /\ \/ /\ alive /\ UNCHANGED <<stage, next, alive, history>>
          /\ mem' = [r \in Regs |-> IF r[1] = "port+0x82c" /\ r[2] \in ActivePorts
                                    THEN mem[r] \cup {0} ELSE mem[r]]
       \/ /\ alive /\ Trouble(op.reg) /\ alive' \in BOOLEAN
          /\ stage' = "between" /\ next' = Len(programs) + 1 /\ UNCHANGED mem
       \/ /\ ~alive /\ stage' = "between" /\ next' = Len(programs) + 1
          /\ UNCHANGED <<hardware, history>>
    /\ UNCHANGED <<host, guard>>

Next ==
    \/ SkipProgram \/ OpenProgram \/ EntryRaises \/ CloseProgram \/ Finish
    \/ Reads \/ Touches \/ Holds \/ Writes \/ ReadsGate \/ StopsIf
    \/ AccessEntryRaises \/ AccessExitFails \/ DeadAccess \/ PcieInit

Spec == Init /\ [][Next]_vars /\ WF_vars(Next)

-----------------------------------------------------------------------------
(* Properties.                                                             *)

Over == stage \in {"ended", "escaped"}

\* The endpoint is never left in reset by a boot whose pin accesses all went
\* through: an experiment that gives up between the two halves of a PERST#
\* cycle would make the NIC vanish from the bus.
EndpointReleased ==
    Over /\ NicPort \in driven /\ alive /\ Perst(NicPort) \notin bad
        => 0 \in mem[Perst(NicPort)]

\* A boot that replays the T602X sequence to its end leaves config-write mode
\* again, whatever other access failed on the way.
ConfigModeClosed ==
    stage = "ended" /\ alive /\ "t602x_init" \in flags /\ RcCtl \notin bad
        => 0 \notin mem[RcCtl]

\* A port is started only while its internal reset and the endpoint's are
\* released, unless an access that was to release them failed.
StartsReleased ==
    [][\A i \in Ports :
          0 \notin mem[Start(i)] /\ 0 \in mem'[Start(i)]
              => /\ PortReset(i) \in bad \/ 0 \in mem[PortReset(i)]
                 /\ Perst(NicPort) \in bad \/ 0 \in mem[Perst(NicPort)]]_vars

\* The bits a boot means to change in a word the host rewrites from a pre-read.
Meant(r) ==
    IF r[1] \in {"perst", "clkreq"} THEN OutputBits \cup {9}
    ELSE IF r = Rvbar THEN RvbarNotAddress
    ELSE LET entries(p) == {n \in DOMAIN Tunables[p] : Tunables[p][n].off = r[2]}
             bits(p) == UNION {Tunables[p][n].mask \cup Tunables[p][n].value : n \in entries(p)}
         IN  UNION {bits(p) : p \in DOMAIN Tunables}

Rewritten == {Perst(NicPort), Clkreq, Rvbar}
             \cup {<<w, off>> : w \in {"axi_sub5", "axi", "phy_common"}, off \in {0, 256}}

\* Bits outside a mask keep what iBoot left in them, on every boot without the
\* write test, unless the pre-read itself came back as the sentinel: RUN 4
\* lost the PLL control word of axi_sub5 that way.
HandoffBitsKept ==
    "naked_write_test" \notin flags =>
        \A r \in Rewritten \ junk : mem[r] \ Meant(r) = Handoff[r] \ Meant(r)

\* axi_sub5 and axi_sub6 are read by a scan or rewritten by an apply only after
\* their first touch came back; nobody knows whether they decode before.  The
\* write test, which makes the first touches, is left out: it goes on to write a
\* window whose touch raised, as long as m1n1 answers.
TouchedFirst ==
    [][bad' # bad \/ junk' # junk \/ mem' # mem =>
          (stage = "inside" /\ ~PastEnd /\ op.do # "touch" /\ program.name # "write test"
             => op.reg[1] \notin FirstTouchWindows \ reach)]_vars

\* Between programs the serial timeout is the long one and m1n1's guard off,
\* with these exceptions: when set_exc_guard raises as the guard is turned on,
\* guarded() leaves the short timeout behind, and when it raises on the way in or
\* out, or m1n1 is dead, the guard may stay on.  A section that came as far as
\* its body restores the timeout on every way out.
GuardBalanced ==
    stage = "between" =>
        /\ short => GuardOn \in bad
        /\ guardOn => bad \cap {GuardOn, GuardOff} # {} \/ ~alive

\* Whatever fails, the boot comes to an end.
Terminates == <>Over

\* A core is strobed only while its RVBAR is unlocked, and started only after
\* it was enabled, unless the enable write itself went wrong: a core released
\* with the lock set would start at whatever RVBAR happens to hold.
StrobeWhenUnlocked ==
    [][/\ \A off \in {4, 8} : mem'[CpuStart(off)] # mem[CpuStart(off)]
                                => RvbarLock \notin mem[Rvbar]
       /\ mem'[CpuStart(8)] # mem[CpuStart(8)]
              => 1 \in mem[CpuStart(4)] \/ CpuStart(4) \in bad]_vars

\* A block none of whose gates is on is never accessed (RUN 25 read one behind
\* a virtual gate, and m1n1 was gone).
ClockedOnly == \A r \in bad \ {GuardOn, GuardOff} : ~Unclocked(r)
=============================================================================
