---------------------------- MODULE ProgramShape ----------------------------
(***************************************************************************)
(* What the theorems about RegisterPrograms use of the programs of a boot. *)
(* Each is a fact about the order of accesses in a program, which holds of *)
(* a concatenation when it holds of both parts.                            *)
(***************************************************************************)
EXTENDS RegisterPrograms, SequenceTheorems, TLAPS

Accesses ==
    [do : {"read", "write", "hold", "rmw", "touch", "look", "gate", "stop if",
           "init"},
     on : {"checks", "leaves", "swallows", "pairs", "drops", "entry"},
     reg : Regs, set : SUBSET Bits, clear : SUBSET Bits]

\* Accesses given up with one that raised.
Skips(a) == IF a.on \in {"pairs", "drops"} THEN 2 ELSE IF a.on = "entry" THEN 3 ELSE 1

\* Where the program goes on after its k-th access raised and m1n1 still answers.
Lands(s, k) == IF s[k].on = "leaves" THEN Len(s) + 1 ELSE k + Skips(s[k])

\* No access skips more than there is.
Fits(s) == \A k \in 1 .. Len(s) : Lands(s, k) <= Len(s) + 1

\* The i-th access writes what the h-th one read: nothing is read in between,
\* and no failure leads past the h-th access to one before the write.
Feeds(s, h, i) ==
    /\ s[h].do = "hold" /\ s[h].reg = s[i].reg
    /\ \A k \in h + 1 .. i - 1 : s[k].do # "hold"
    /\ \A k \in 1 .. h : Lands(s, k) \notin h + 1 .. i

Paired(s) ==
    \A i \in 1 .. Len(s) : s[i].do = "rmw" => \E h \in 1 .. i - 1 : Feeds(s, h, i)

Pin0 == Perst(NicPort)
Writing == {"write", "rmw"}

\* An access that does not end the program unless it dies or is made to the pin.
Stays(a) ==
    /\ a.do \in {"read", "write", "rmw", "hold"}
    /\ a.on \in {"checks", "swallows"} \/ (a.on = "leaves" /\ a.reg = Pin0)

\* An access that starts a port.
Starts(a) == a.do \in Writing /\ a.reg[1] = "ltssm+0x14"
Waits(a) == Stays(a) /\ ~Starts(a)

Lowers(a) == a.do \in Writing /\ a.reg = Pin0 /\ 0 \notin a.set
Lifts(a) == a.do \in Writing /\ a.reg = Pin0 /\ 0 \in a.set

\* The pin is lifted at j, and between i and j nothing ends the program or
\* starts a port.
LiftsFrom(s, i, j) == Lifts(s[j]) /\ \A k \in i .. j : Waits(s[k])

\* Every write that resets the endpoint is followed by one that releases it.
Restores(s) ==
    \A i \in 1 .. Len(s) : Lowers(s[i]) => \E j \in i + 1 .. Len(s) : LiftsFrom(s, i, j)

Orderly == {s \in Seq(Accesses) : Fits(s) /\ Paired(s) /\ Restores(s)}

-----------------------------------------------------------------------------
(* What a program of a boot with these flags touches.                      *)

\* A window that wants a first touch is touched by a program that needs it, or
\* by the write test.
TouchesNeeded(p, fs) ==
    p.name # "write test" =>
        \A i \in 1 .. Len(p.ops) : p.ops[i].do # "touch" =>
            p.ops[i].reg[1] \notin FirstTouchWindows \ p.needs

\* A block behind gates is touched by a program that needs one of them ACTIVE.
ClocksNeeded(p, fs) ==
    \A i \in 1 .. Len(p.ops) :
        /\ p.ops[i].reg[1] = "acio" => "acio gate" \in p.needs
        /\ p.ops[i].reg[1] = "core" => "cpu gate" \in p.needs \/ "smp_probe" \in fs

\* No gate is written; the words a boot rewrites are rewritten under their masks.
WritesMeant(p, fs) ==
    \A i \in 1 .. Len(p.ops) : p.ops[i].do \in Writing =>
        /\ p.ops[i].reg[1] \notin {"acio gate", "cpu gate"}
        /\ "naked_write_test" \notin fs /\ p.ops[i].reg \in Rewritten =>
              p.ops[i].do = "rmw" /\ p.ops[i].set \cup p.ops[i].clear \subseteq Meant(p.ops[i].reg)

ReleaseOps == SmpReleaseProbe[1].ops

\* The CPU-start words are written by the release probe alone.
StrobesInRelease(p) ==
    p.ops = ReleaseOps \/
    \A i \in 1 .. Len(p.ops) : p.ops[i].do \in Writing => p.ops[i].reg[1] # "cpustart"

\* Only gates are counted as gates.
GatesFlagged(p) ==
    \A i \in 1 .. Len(p.ops) :
        p.ops[i].do = "gate" => p.ops[i].reg[1] \in {"acio gate", "cpu gate"}

\* The pin is never driven access by access under the guard, and pcie_init never
\* called under it.
GuardFits(p) ==
    \A i \in 1 .. Len(p.ops) :
        /\ p.ops[i].do \in Writing /\ p.ops[i].reg = Pin0 => p.guarding # "access"
        /\ p.ops[i].do = "init" => p.guarding = "none"

\* The programs that start ports, and the words that are theirs.
Bringup == {"resequence", "kick", "t602x"}
StartWords == {"port+0x82c", "ltssm+0x14"}

ResetBy(a, n) == a.do \in Writing /\ a.reg = PortReset(n) /\ 0 \notin a.set
FreedBy(a, n) == a.do \in Writing /\ a.reg = PortReset(n) /\ 0 \in a.set

\* An access that only a dead m1n1 ends the program with.
GoesOn(a) == a.do \in {"read", "write"} /\ a.on \in {"checks", "swallows"}

\* A port put into reset is let go again, before anything ends the program or
\* starts a port.
FreesFrom(s, i, j, n) ==
    FreedBy(s[j], n) /\ \A k \in i .. j : GoesOn(s[k]) /\ ~Starts(s[k])
Recovers(s) ==
    \A n \in Ports : \A i \in 1 .. Len(s) : ResetBy(s[i], n) =>
        \E j \in i + 1 .. Len(s) : FreesFrom(s, i + 1, j, n)

StartsActive(s) ==
    \A i \in 1 .. Len(s) : Starts(s[i]) => \E n \in ActivePorts : s[i].reg = Start(n)

\* Config-write mode is entered, and left.
Arms(a) == a.do = "write" /\ a.reg = RcCtl /\ 0 \in a.set
Disarms(a) == a.do = "write" /\ a.reg = RcCtl /\ 0 \in a.clear \ a.set
\* Only a dead m1n1 ends the program, which leaves the mode last.
Settles(s) ==
    /\ \A i \in 1 .. Len(s) : GoesOn(s[i])
    /\ \A i \in 1 .. Len(s) : Arms(s[i]) => \E j \in i + 1 .. Len(s) : Disarms(s[j])
    /\ \E j \in 1 .. Len(s) : Disarms(s[j])

\* An access to none of these words, and not the call of pcie_init.
Aside(a) ==
    a.do # "init" /\ (a.do \in Writing => a.reg # RcCtl /\ a.reg[1] \notin StartWords)

InitProgram == Bare("pcie_init", <<Access("init", "leaves", Smc, {}, {})>>)
PerstnProgram == Bare("perstn", DeassertPerstn(Pin0))

\* What the name of a program says of it.
AsNamed(p) ==
    /\ \A i \in 1 .. Len(p.ops) :
          /\ p.ops[i].do = "init" => p.name = "pcie_init"
          /\ p.ops[i].do \in Writing /\ p.ops[i].reg = RcCtl =>
                p.name \in {"kick", "t602x"} /\ p.ops[i].do = "write"
          /\ p.ops[i].do \in Writing /\ p.ops[i].reg[1] \in StartWords => p.name \in Bringup
    /\ p.name \in Bringup => p.guarding = "section" /\ Recovers(p.ops) /\ StartsActive(p.ops)
    /\ p.name = "t602x" => p.needs = {} /\ Settles(p.ops)
    /\ p.name = "perstn" => p = PerstnProgram[1]
    /\ p.name = "pcie_init" => p = InitProgram[1]

ProgramNames ==
    {"clkreq", "perstn", "refclk", "pcie_init", "dump", "watch", "endpoint_diag", "resequence",
     "kick", "t602x", "write test", "apply", "scan", "smp start", "smp diag", "smp probe",
     "decode", "release", "core gates", "core diff", "recon", "acio gates", "acio"}

Reachable == FirstTouchWindows \cup {"acio gate", "cpu gate"}

ProgramSet(fs) ==
    {p \in [name : ProgramNames, guarding : {"none", "section", "access"}, gated : BOOLEAN,
            needs : SUBSET Reachable, ops : Orderly] :
        /\ TouchesNeeded(p, fs) /\ ClocksNeeded(p, fs) /\ WritesMeant(p, fs)
        /\ StrobesInRelease(p) /\ GatesFlagged(p) /\ GuardFits(p) /\ AsNamed(p)}

\* The programs of no particular place.
PlainNames == ProgramNames \ (Bringup \cup {"perstn", "pcie_init"})
PlainSet(fs) == {p \in ProgramSet(fs) : p.name \in PlainNames}

LEMMA PlainNamed ==
  ASSUME NEW p, p.name \in PlainNames, \A i \in 1 .. Len(p.ops) : Aside(p.ops[i])
  PROVE  AsNamed(p)
  BY DEF AsNamed, PlainNames, Aside, Bringup

-----------------------------------------------------------------------------
(* Sequences of accesses.                                                  *)

LEMMA ConcatAt ==
  ASSUME NEW s \in Seq(Accesses), NEW t \in Seq(Accesses)
  PROVE  /\ s \o t \in Seq(Accesses) /\ Len(s \o t) = Len(s) + Len(t)
         /\ Len(s) \in Nat /\ Len(t) \in Nat
         /\ \A i \in 1 .. Len(s) : (s \o t)[i] = s[i]
         /\ \A i \in Len(s) + 1 .. Len(s) + Len(t) :
                i - Len(s) \in 1 .. Len(t) /\ (s \o t)[i] = t[i - Len(s)]
<1>1. /\ s \o t \in Seq(Accesses)
      /\ Len(s \o t) = Len(s) + Len(t)
      /\ \A i \in 1 .. Len(s) + Len(t) :
            (s \o t)[i] = IF i <= Len(s) THEN s[i] ELSE t[i - Len(s)]
  BY ConcatProperties, Zenon
<1>2. Len(s) \in Nat /\ Len(t) \in Nat
  OBVIOUS
<1> QED
  BY <1>1, <1>2

\* Where a raised access lands does not change with what stands before or after,
\* but for those that end the program.
LEMMA LandsAt ==
  ASSUME NEW s \in Seq(Accesses), NEW t \in Seq(Accesses)
  PROVE  /\ \A k \in 1 .. Len(s) :
                Lands(s \o t, k) = IF s[k].on = "leaves" THEN Len(s) + Len(t) + 1 ELSE Lands(s, k)
         /\ \A k \in 1 .. Len(t) : Lands(s \o t, Len(s) + k) = Len(s) + Lands(t, k)
<1>1. ASSUME NEW k \in 1 .. Len(s)
      PROVE  Lands(s \o t, k) = IF s[k].on = "leaves" THEN Len(s) + Len(t) + 1 ELSE Lands(s, k)
  BY ConcatAt DEF Lands
<1>2. ASSUME NEW k \in 1 .. Len(t)
      PROVE  Lands(s \o t, Len(s) + k) = Len(s) + Lands(t, k)
  <2>1. (s \o t)[Len(s) + k] = t[k] /\ Len(s \o t) = Len(s) + Len(t)
    BY ConcatAt
  <2>2. Skips(t[k]) \in {1, 2, 3} /\ Len(s) \in Nat /\ Len(t) \in Nat
    BY DEF Skips
  <2> QED
    BY <2>1, <2>2 DEF Lands
<1> QED
  BY <1>1, <1>2

LEMMA LandsLater ==
  ASSUME NEW s \in Seq(Accesses), NEW k \in 1 .. Len(s)
  PROVE  Lands(s, k) \in Nat /\ Lands(s, k) >= k + 1
<1>1. Skips(s[k]) \in {1, 2, 3} /\ Len(s) \in Nat
  BY DEF Skips
<1> QED
  BY <1>1 DEF Lands

LEMMA FitsConcat ==
  ASSUME NEW s \in Seq(Accesses), NEW t \in Seq(Accesses), Fits(s), Fits(t)
  PROVE  Fits(s \o t)
<1> SUFFICES ASSUME NEW k \in 1 .. Len(s) + Len(t)
             PROVE  Lands(s \o t, k) <= Len(s) + Len(t) + 1
  BY ConcatAt DEF Fits
<1>1. Len(s) \in Nat /\ Len(t) \in Nat
  OBVIOUS
<1>2. CASE k \in 1 .. Len(s)
  <2>1. Lands(s, k) <= Len(s) + 1 /\ Lands(s, k) \in Nat
    BY <1>2, LandsLater DEF Fits
  <2> QED
    BY <1>1, <1>2, <2>1, LandsAt
<1>3. CASE k \notin 1 .. Len(s)
  <2>1. k - Len(s) \in 1 .. Len(t) /\ k = Len(s) + (k - Len(s))
    BY <1>1, <1>3
  <2>2. Lands(s \o t, k) = Len(s) + Lands(t, k - Len(s))
    BY <2>1, LandsAt
  <2>3. Lands(t, k - Len(s)) <= Len(t) + 1 /\ Lands(t, k - Len(s)) \in Nat
    BY <2>1, LandsLater DEF Fits
  <2> QED
    BY <1>1, <2>2, <2>3
<1> QED
  BY <1>2, <1>3

\* What feeds a write feeds it wherever the program stands.
LEMMA FeedsFirst ==
  ASSUME NEW s \in Seq(Accesses), NEW t \in Seq(Accesses),
         NEW i \in 1 .. Len(s), NEW h \in 1 .. i - 1, Feeds(s, h, i)
  PROVE  Feeds(s \o t, h, i)
<1>1. Len(s) \in Nat /\ Len(t) \in Nat /\ h \in 1 .. Len(s)
  OBVIOUS
<1>2. (s \o t)[h] = s[h] /\ (s \o t)[i] = s[i]
  BY <1>1, ConcatAt
<1>3. ASSUME NEW k \in h + 1 .. i - 1
      PROVE  (s \o t)[k].do # "hold"
  <2>1. k \in 1 .. Len(s)
    BY <1>1
  <2> QED
    BY <2>1, ConcatAt DEF Feeds
<1>4. ASSUME NEW k \in 1 .. h
      PROVE  Lands(s \o t, k) \notin h + 1 .. i
  <2>1. k \in 1 .. Len(s) /\ Lands(s, k) \notin h + 1 .. i
    BY <1>1 DEF Feeds
  <2> QED
    BY <1>1, <2>1, LandsAt
<1> QED
  BY <1>2, <1>3, <1>4 DEF Feeds

LEMMA FeedsSecond ==
  ASSUME NEW s \in Seq(Accesses), NEW t \in Seq(Accesses), Fits(s),
         NEW i \in 1 .. Len(t), NEW h \in 1 .. i - 1, Feeds(t, h, i)
  PROVE  Feeds(s \o t, Len(s) + h, Len(s) + i)
<1> DEFINE n == Len(s)
<1>1. n \in Nat /\ Len(t) \in Nat /\ h \in 1 .. Len(t)
  OBVIOUS
<1> HIDE DEF n
<1>2. \A k \in 1 .. Len(t) : (s \o t)[n + k] = t[k] /\ Lands(s \o t, n + k) = n + Lands(t, k)
  <2> TAKE k \in 1 .. Len(t)
  <2>1. n + k \in n + 1 .. n + Len(t) /\ (n + k) - n = k
    BY <1>1
  <2> QED
    BY <2>1, ConcatAt, LandsAt DEF n
<1>3. ASSUME NEW k \in n + h + 1 .. (n + i) - 1
      PROVE  (s \o t)[k].do # "hold"
  <2>1. k - n \in h + 1 .. i - 1 /\ k - n \in 1 .. Len(t) /\ k = n + (k - n)
    BY <1>1
  <2> QED
    BY <1>2, <2>1 DEF Feeds
<1>4. ASSUME NEW k \in 1 .. n + h
      PROVE  Lands(s \o t, k) \notin n + h + 1 .. n + i
  <2>1. CASE k <= n
    <3>1. k \in 1 .. Len(s)
      BY <2>1, <1>1 DEF n
    <3>2. Lands(s, k) <= n + 1 /\ Lands(s, k) \in Nat
      BY <3>1, LandsLater DEF Fits, n
    <3>3. \/ Lands(s \o t, k) = n + Len(t) + 1
          \/ Lands(s \o t, k) = Lands(s, k)
      BY <3>1, LandsAt DEF n
    <3> QED
      BY <1>1, <3>2, <3>3
  <2>2. CASE ~(k <= n)
    <3>1. k - n \in 1 .. h /\ k - n \in 1 .. Len(t) /\ k = n + (k - n)
      BY <2>2, <1>1
    <3>2. Lands(t, k - n) \notin h + 1 .. i /\ Lands(t, k - n) \in Nat
      BY <3>1, LandsLater DEF Feeds
    <3>3. Lands(s \o t, k) = n + Lands(t, k - n)
      BY <1>2, <3>1
    <3> QED
      BY <1>1, <3>2, <3>3
  <2> QED
    BY <2>1, <2>2
<1>5. (s \o t)[n + h] = t[h] /\ (s \o t)[n + i] = t[i]
  BY <1>1, <1>2
<1>6. (s \o t)[n + h].do = "hold" /\ (s \o t)[n + h].reg = (s \o t)[n + i].reg
  BY <1>5 DEF Feeds
<1>7. Feeds(s \o t, n + h, n + i)
  BY <1>3, <1>4, <1>6 DEF Feeds
<1> QED
  BY <1>7 DEF n

LEMMA PairedConcat ==
  ASSUME NEW s \in Seq(Accesses), NEW t \in Seq(Accesses), Fits(s), Paired(s), Paired(t)
  PROVE  Paired(s \o t)
<1> SUFFICES ASSUME NEW i \in 1 .. Len(s) + Len(t), (s \o t)[i].do = "rmw"
             PROVE  \E h \in 1 .. i - 1 : Feeds(s \o t, h, i)
  BY ConcatAt DEF Paired
<1>1. Len(s) \in Nat /\ Len(t) \in Nat
  OBVIOUS
<1>2. CASE i <= Len(s)
  <2>1. i \in 1 .. Len(s) /\ s[i].do = "rmw"
    BY <1>1, <1>2, ConcatAt
  <2>2. PICK h \in 1 .. i - 1 : Feeds(s, h, i)
    BY <2>1 DEF Paired
  <2> QED
    BY <2>1, <2>2, FeedsFirst
<1>3. CASE ~(i <= Len(s))
  <2>1. i \in Len(s) + 1 .. Len(s) + Len(t) /\ i = Len(s) + (i - Len(s))
    BY <1>1, <1>3
  <2>2. i - Len(s) \in 1 .. Len(t) /\ t[i - Len(s)].do = "rmw"
    BY <2>1, ConcatAt
  <2>3. PICK h \in 1 .. (i - Len(s)) - 1 : Feeds(t, h, i - Len(s))
    BY <2>2 DEF Paired
  <2>4. Feeds(s \o t, Len(s) + h, Len(s) + (i - Len(s)))
    BY <2>2, <2>3, FeedsSecond
  <2>5. Len(s) + h \in 1 .. i - 1
    BY <1>1, <2>1, <2>3
  <2> QED
    BY <2>1, <2>4, <2>5
<1> QED
  BY <1>2, <1>3

LEMMA RestoresConcat ==
  ASSUME NEW s \in Seq(Accesses), NEW t \in Seq(Accesses), Restores(s), Restores(t)
  PROVE  Restores(s \o t)
<1> SUFFICES ASSUME NEW i \in 1 .. Len(s) + Len(t), Lowers((s \o t)[i])
             PROVE  \E j \in i + 1 .. Len(s) + Len(t) : LiftsFrom(s \o t, i, j)
  BY ConcatAt DEF Restores
<1>1. Len(s) \in Nat /\ Len(t) \in Nat
  OBVIOUS
<1>2. CASE i <= Len(s)
  <2>1. i \in 1 .. Len(s) /\ Lowers(s[i])
    BY <1>1, <1>2, ConcatAt
  <2>2. PICK j \in i + 1 .. Len(s) : LiftsFrom(s, i, j)
    BY <2>1 DEF Restores
  <2>3. \A k \in i .. j : (s \o t)[k] = s[k]
    BY <2>1, <2>2, ConcatAt
  <2>4. j \in i .. j /\ j \in i + 1 .. Len(s) + Len(t)
    BY <1>1, <2>1, <2>2
  <2> QED
    BY <2>2, <2>3, <2>4 DEF LiftsFrom
<1>3. CASE ~(i <= Len(s))
  <2> DEFINE n == Len(s)
             m == i - n
  <2>1. n \in Nat /\ m \in 1 .. Len(t) /\ i = n + m
    BY <1>1, <1>3
  <2>2. Lowers(t[m])
    BY <1>1, <1>3, ConcatAt
  <2> HIDE DEF m, n
  <2>3. PICK j \in m + 1 .. Len(t) : LiftsFrom(t, m, j)
    BY <2>1, <2>2 DEF Restores
  <2>4. \A k \in i .. n + j : (s \o t)[k] = t[k - n] /\ k - n \in m .. j
    <3> TAKE k \in i .. n + j
    <3>1. k \in n + 1 .. n + Len(t) /\ k - n \in m .. j
      BY <1>1, <2>1, <2>3
    <3> QED
      BY <3>1, ConcatAt DEF n
  <2>5. n + j \in i .. n + j /\ n + j \in i + 1 .. n + Len(t) /\ (n + j) - n = j
    BY <1>1, <2>1, <2>3
  <2>6. LiftsFrom(s \o t, i, n + j)
    BY <2>3, <2>4, <2>5 DEF LiftsFrom
  <2> QED
    BY <2>5, <2>6 DEF n
<1> QED
  BY <1>2, <1>3

LEMMA OrderlyConcat ==
  ASSUME NEW s \in Orderly, NEW t \in Orderly
  PROVE  s \o t \in Orderly
<1>1. s \in Seq(Accesses) /\ t \in Seq(Accesses)
  BY DEF Orderly
<1>2. Fits(s \o t) /\ Paired(s \o t) /\ Restores(s \o t)
  BY <1>1, FitsConcat, PairedConcat, RestoresConcat DEF Orderly
<1> QED
  BY <1>1, <1>2, ConcatAt DEF Orderly

LEMMA OrderlyEmpty == <<>> \in Orderly
  BY DEF Orderly, Fits, Paired, Restores

LEMMA OrderlyOne ==
  ASSUME NEW a \in Accesses, a.do # "rmw", ~Lowers(a), a.on \in {"checks", "leaves", "swallows"}
  PROVE  <<a>> \in Orderly
<1>1. <<a>> \in Seq(Accesses) /\ Len(<<a>>) = 1 /\ <<a>>[1] = a
  OBVIOUS
<1>2. Fits(<<a>>)
  BY <1>1 DEF Fits, Lands, Skips
<1>3. Paired(<<a>>) /\ Restores(<<a>>)
  BY <1>1 DEF Paired, Restores
<1> QED
  BY <1>1, <1>2, <1>3 DEF Orderly

-----------------------------------------------------------------------------
(* The experiments on the ports.                                           *)

TameNames == {"rc", "phy_common", "smc", "clkreq"} \cup PortNames

\* An access of an experiment: it writes what the experiments are about, and
\* rewrites pins under their masks.
Tame(a) ==
    /\ a \in Accesses /\ a.do \in {"read", "write", "hold", "rmw"} /\ a.reg[1] \in TameNames
    /\ a.do = "write" => a.reg[1] \notin {"phy_common", "smc", "clkreq", "perst"}
    /\ a.do = "rmw" => /\ a.reg[1] \in {"clkreq", "perst"}
                       /\ a.set \cup a.clear \subseteq OutputBits \cup {9}

Experiments == {s \in Orderly : \A i \in 1 .. Len(s) : Tame(s[i])}

LEMMA ExperimentEmpty == <<>> \in Experiments
  BY OrderlyEmpty DEF Experiments

LEMMA ExperimentConcat ==
  ASSUME NEW s \in Experiments, NEW t \in Experiments
  PROVE  s \o t \in Experiments
<1>1. s \in Seq(Accesses) /\ t \in Seq(Accesses) /\ s \in Orderly /\ t \in Orderly
  BY DEF Experiments, Orderly
<1>2. ASSUME NEW i \in 1 .. Len(s \o t)
      PROVE  Tame((s \o t)[i])
  <2>1. Len(s) \in Nat /\ Len(t) \in Nat /\ i \in 1 .. Len(s) + Len(t)
    BY <1>1, ConcatAt
  <2>2. CASE i \in 1 .. Len(s)
    BY <1>1, <2>2, ConcatAt DEF Experiments
  <2>3. CASE i \in Len(s) + 1 .. Len(s) + Len(t)
    BY <1>1, <2>3, ConcatAt DEF Experiments
  <2> QED
    BY <2>1, <2>2, <2>3
<1> QED
  BY <1>1, <1>2, OrderlyConcat DEF Experiments

LEMMA ExperimentOpt ==
  ASSUME NEW c, NEW s \in Experiments
  PROVE  Opt(c, s) \in Experiments
  BY ExperimentEmpty DEF Opt

\* An access that is neither a rewrite nor made to the pin.
LEMMA ExperimentOne ==
  ASSUME NEW a, Tame(a), a.do # "rmw", ~Lowers(a), a.on \in {"checks", "leaves", "swallows"}
  PROVE  <<a>> \in Experiments
<1>1. <<a>> \in Orderly
  BY OrderlyOne DEF Tame
<1>2. Len(<<a>>) = 1 /\ <<a>>[1] = a
  OBVIOUS
<1> QED
  BY <1>1, <1>2 DEF Experiments

\* for i in active_ports
LEMMA ExperimentEach ==
  ASSUME NEW a \in Experiments, NEW b \in Experiments, NEW c \in Experiments
  PROVE  Opt(0 \in ActivePorts, a) \o Opt(1 \in ActivePorts, b) \o Opt(2 \in ActivePorts, c)
             \in Experiments
  BY ExperimentOpt, ExperimentConcat

TameRegs == {RcCtl, PhyCommon, Smc, Clkreq, Pin0}
            \cup {<<n, i>> : n \in PortNames \ {"perst"}, i \in Ports}

LEMMA TameRegsAreRegs ==
  /\ TameRegs \subseteq Regs
  /\ \A r \in TameRegs : r[1] \in TameNames
  /\ Pin0[1] = "perst" /\ Clkreq[1] = "clkreq" /\ RcCtl[1] = "rc"
  /\ \A n \in PortNames, i \in Ports : <<n, i>>[1] = n
<1>1. NicPort \in Ports
  BY PortAssumption
<1>2. Pin0 \in Regs /\ Clkreq \in Regs /\ Smc \in Regs /\ RcCtl \in Regs /\ PhyCommon \in Regs
  BY <1>1 DEF Pin0, Perst, Clkreq, Smc, RcCtl, PhyCommon, Regs, Windows, Offsets, PortNames
<1>3. \A n \in PortNames \ {"perst"}, i \in Ports : <<n, i>> \in Regs /\ n \in TameNames
  BY DEF Regs, TameNames
<1>4. \A r \in {RcCtl, PhyCommon, Smc, Clkreq, Pin0} : r[1] \in TameNames
  BY DEF Pin0, Perst, Clkreq, Smc, RcCtl, PhyCommon, TameNames, PortNames
<1>5. Pin0[1] = "perst" /\ Clkreq[1] = "clkreq" /\ RcCtl[1] = "rc"
  BY DEF Pin0, Perst, Clkreq, RcCtl
<1> QED
  BY <1>2, <1>3, <1>4, <1>5 DEF TameRegs

\* The names the experiments use are those of tame registers.
LEMMA PortRegs ==
  ASSUME NEW i \in Ports
  PROVE  \A r \in {Lane(i), PortWord(i), PortReset(i), Ltssm(i), Start(i)} :
             r \in TameRegs /\ r[1] \in PortNames \ {"perst"} /\ r # Pin0
  BY DEF TameRegs, Lane, PortWord, PortReset, Ltssm, Start, PortNames, Pin0, Perst

\* Plain reads and writes: a list of them in any order is an experiment.
Simple == {a \in Accesses : Tame(a) /\ a.do \in {"read", "write"} /\ a.reg # Pin0
                            /\ a.on \in {"checks", "swallows"}}

LEMMA SimpleSequence ==
  ASSUME NEW s \in Seq(Simple)
  PROVE  s \in Experiments
<1>1. /\ s \in Seq(Accesses) /\ Len(s) \in Nat
      /\ \A i \in 1 .. Len(s) : s[i] \in Simple
  BY DEF Simple
<1>2. Fits(s)
  <2> SUFFICES ASSUME NEW k \in 1 .. Len(s) PROVE Lands(s, k) <= Len(s) + 1
    BY DEF Fits
  <2>1. s[k].on \in {"checks", "swallows"}
    BY <1>1 DEF Simple
  <2> QED
    BY <1>1, <2>1 DEF Lands, Skips
<1>3. Paired(s) /\ Restores(s)
  BY <1>1 DEF Paired, Restores, Simple, Lowers
<1>4. \A i \in 1 .. Len(s) : Tame(s[i])
  BY <1>1 DEF Simple
<1> QED
  BY <1>1, <1>2, <1>3, <1>4 DEF Experiments, Orderly

\* The registers of the ports an experiment writes.
Written == TameRegs \ {PhyCommon, Smc, Clkreq, Pin0}

LEMMA SimpleReads ==
  ASSUME NEW r \in TameRegs, r # Pin0
  PROVE  Read(r) \in Simple /\ Watch(r) \in Simple
<1>1. r \in Regs /\ r[1] \in TameNames
  BY TameRegsAreRegs
<1> QED
  BY <1>1 DEF Read, Watch, Access, Simple, Tame, Accesses

LEMMA SimpleWrites ==
  ASSUME NEW r \in Written, NEW bits \in SUBSET Bits
  PROVE  Write32(r, bits) \in Simple /\ Set32(r, bits) \in Simple /\ Clear32(r, bits) \in Simple
<1>1. r \in Regs /\ r[1] \in TameNames /\ r # Pin0
  BY TameRegsAreRegs DEF Written
<1>2. r[1] \notin {"phy_common", "smc", "clkreq", "perst"}
  <2>1. r = RcCtl \/ r \in {<<n, i>> : n \in PortNames \ {"perst"}, i \in Ports}
    BY DEF Written, TameRegs
  <2> QED
    BY <2>1 DEF RcCtl, PortNames
<1> QED
  BY <1>1, <1>2 DEF Write32, Set32, Clear32, Access, Simple, Tame, Accesses

LEMMA PortWritten ==
  ASSUME NEW i \in Ports
  PROVE  /\ \A r \in {Lane(i), PortWord(i), PortReset(i), Ltssm(i), Start(i)} :
                r \in Written /\ r \in TameRegs /\ r # Pin0
         /\ RcCtl \in Written /\ RcCtl \in TameRegs /\ RcCtl # Pin0
<1>1. \A r \in {PhyCommon, Smc, Clkreq, Pin0} : r[1] \notin PortNames \ {"perst"} /\ r[1] # "rc"
  BY DEF PhyCommon, Smc, Clkreq, Pin0, Perst, PortNames
<1>2. RcCtl[1] = "rc" /\ RcCtl \in TameRegs
  BY DEF RcCtl, TameRegs
<1> QED
  BY <1>1, <1>2, PortRegs DEF Written

-----------------------------------------------------------------------------
(* The pins.                                                               *)

\* The endpoint may still be in reset at the end of s, but nothing since ended s.
Pending(s) ==
    \A i \in 1 .. Len(s) : Lowers(s[i]) =>
        \/ \E j \in i + 1 .. Len(s) : LiftsFrom(s, i, j)
        \/ \A k \in i .. Len(s) : Waits(s[k])

LEMMA PinPiece ==
  ASSUME NEW r \in {Clkreq, Pin0}, NEW set \in SUBSET (OutputBits \cup {9}),
         NEW clear \in SUBSET (OutputBits \cup {9})
  PROVE  /\ Pin(r, set, clear) \in Seq(Accesses) /\ Len(Pin(r, set, clear)) = 3
         /\ Fits(Pin(r, set, clear)) /\ Paired(Pin(r, set, clear))
         /\ \A i \in 1 .. 3 : Tame(Pin(r, set, clear)[i])
         /\ r = Pin0 => \A i \in 1 .. 3 : Waits(Pin(r, set, clear)[i])
         /\ r # Pin0 \/ 0 \in set => Restores(Pin(r, set, clear))
<1> DEFINE s == Pin(r, set, clear)
           a == Access("hold", "leaves", r, {}, {})
           b == Access("rmw", "leaves", r, set, clear)
           c == Access("read", "leaves", r, {}, {})
<1>1. r \in Regs /\ r[1] \in {"clkreq", "perst"} /\ r[1] \in TameNames
  BY TameRegsAreRegs DEF TameRegs
<1>2. set \subseteq Bits /\ clear \subseteq Bits
  BY DEF OutputBits, ModeBits, PeriphBits, Bits
<1>3. a \in Accesses /\ b \in Accesses /\ c \in Accesses
  BY <1>1, <1>2 DEF Access, Accesses
<1>4. Tame(a) /\ Tame(b) /\ Tame(c)
  BY <1>1, <1>3 DEF Access, Tame
<1>5. s = <<a, b, c>>
  BY DEF Pin
<1>6. s \in Seq(Accesses) /\ Len(s) = 3 /\ s[1] = a /\ s[2] = b /\ s[3] = c
  BY <1>3, <1>5
<1>7. /\ a.do = "hold" /\ b.do = "rmw" /\ c.do = "read" /\ a.reg = r /\ b.reg = r /\ c.reg = r
      /\ a.on = "leaves" /\ b.on = "leaves" /\ c.on = "leaves" /\ b.set = set
  BY DEF Access
<1> HIDE DEF a, b, c, s
<1>8. \A k \in 1 .. 3 : Lands(s, k) = 4
  BY <1>6, <1>7 DEF Lands
<1>9. Feeds(s, 1, 2)
  BY <1>6, <1>7, <1>8 DEF Feeds
<1>10. Fits(s) /\ Paired(s)
  BY <1>6, <1>7, <1>8, <1>9 DEF Fits, Paired
<1>11. \A i \in 1 .. 3 : Tame(s[i])
  BY <1>4, <1>6
<1>12. r = Pin0 => \A i \in 1 .. 3 : Waits(s[i])
  BY <1>1, <1>6, <1>7 DEF Waits, Stays, Starts
<1>13. r # Pin0 \/ 0 \in set => Restores(s)
  BY <1>6, <1>7 DEF Restores, Lowers, Writing
<1> QED
  BY <1>6, <1>10, <1>11, <1>12, <1>13 DEF s

\* A program whose endpoint may be in reset goes on with accesses that stay.
LEMMA PendingAppend ==
  ASSUME NEW s \in Seq(Accesses), NEW t \in Seq(Accesses), Pending(s), Pending(t),
         \A k \in 1 .. Len(t) : Waits(t[k])
  PROVE  Pending(s \o t)
<1> SUFFICES ASSUME NEW i \in 1 .. Len(s) + Len(t), Lowers((s \o t)[i])
             PROVE  \/ \E j \in i + 1 .. Len(s) + Len(t) : LiftsFrom(s \o t, i, j)
                    \/ \A k \in i .. Len(s) + Len(t) : Waits((s \o t)[k])
  BY ConcatAt DEF Pending
<1>1. Len(s) \in Nat /\ Len(t) \in Nat
  OBVIOUS
<1>2. \A k \in Len(s) + 1 .. Len(s) + Len(t) : Waits((s \o t)[k])
  BY ConcatAt
<1>3. CASE i \in 1 .. Len(s)
  <2>1. Lowers(s[i])
    BY <1>3, ConcatAt
  <2>2. CASE \E j \in i + 1 .. Len(s) : LiftsFrom(s, i, j)
    <3>1. PICK j \in i + 1 .. Len(s) : LiftsFrom(s, i, j)
      BY <2>2
    <3>2. \A k \in i .. j : (s \o t)[k] = s[k]
      BY <1>3, <3>1, ConcatAt
    <3>3. j \in i .. j /\ j \in i + 1 .. Len(s) + Len(t)
      BY <1>1, <1>3, <3>1
    <3> QED
      BY <3>1, <3>2, <3>3 DEF LiftsFrom
  <2>3. CASE \A k \in i .. Len(s) : Waits(s[k])
    <3>1. ASSUME NEW k \in i .. Len(s) + Len(t)
          PROVE  Waits((s \o t)[k])
      <4>1. CASE k \in 1 .. Len(s)
        BY <2>3, <4>1, ConcatAt
      <4>2. CASE k \in Len(s) + 1 .. Len(s) + Len(t)
        BY <1>2, <4>2
      <4> QED
        BY <1>1, <1>3, <4>1, <4>2
    <3> QED
      BY <3>1
  <2> QED
    BY <1>3, <2>1, <2>2, <2>3 DEF Pending
<1>4. CASE i \in Len(s) + 1 .. Len(s) + Len(t)
  BY <1>1, <1>2, <1>4
<1> QED
  BY <1>1, <1>3, <1>4

\* And is lifted by a part that stays, and lifts it.
LEMMA PendingLifted ==
  ASSUME NEW s \in Seq(Accesses), NEW t \in Seq(Accesses), Pending(s), Restores(t),
         \A k \in 1 .. Len(t) : Waits(t[k]), NEW m \in 1 .. Len(t), Lifts(t[m])
  PROVE  Restores(s \o t)
<1> SUFFICES ASSUME NEW i \in 1 .. Len(s) + Len(t), Lowers((s \o t)[i])
             PROVE  \E j \in i + 1 .. Len(s) + Len(t) : LiftsFrom(s \o t, i, j)
  BY ConcatAt DEF Restores
<1> DEFINE n == Len(s)
<1>1. n \in Nat /\ Len(t) \in Nat
  OBVIOUS
<1>2. \A k \in n + 1 .. n + Len(t) : (s \o t)[k] = t[k - n] /\ k - n \in 1 .. Len(t)
  BY ConcatAt
<1>3. CASE i \in 1 .. n
  <2>1. Lowers(s[i])
    BY <1>3, ConcatAt
  <2>2. CASE \E j \in i + 1 .. n : LiftsFrom(s, i, j)
    <3>1. PICK j \in i + 1 .. n : LiftsFrom(s, i, j)
      BY <2>2
    <3>2. \A k \in i .. j : (s \o t)[k] = s[k]
      BY <1>3, <3>1, ConcatAt
    <3>3. j \in i .. j /\ j \in i + 1 .. n + Len(t)
      BY <1>1, <1>3, <3>1
    <3> QED
      BY <3>1, <3>2, <3>3 DEF LiftsFrom
  <2>3. CASE \A k \in i .. n : Waits(s[k])
    <3>1. ASSUME NEW k \in i .. n + m
          PROVE  Waits((s \o t)[k])
      <4>1. CASE k \in 1 .. n
        BY <2>3, <4>1, ConcatAt
      <4>2. CASE k \in n + 1 .. n + Len(t)
        BY <1>2, <4>2
      <4> QED
        BY <1>1, <1>3, <4>1, <4>2
    <3>2. n + m \in n + 1 .. n + Len(t) /\ (n + m) - n = m /\ n + m \in i + 1 .. n + Len(t)
      BY <1>1, <1>3
    <3>3. Lifts((s \o t)[n + m])
      BY <1>2, <3>2
    <3> QED
      BY <3>1, <3>2, <3>3 DEF LiftsFrom
  <2> QED
    BY <1>3, <2>1, <2>2, <2>3 DEF Pending
<1>4. CASE i \in n + 1 .. n + Len(t)
  <2> DEFINE d == i - n
  <2>1. d \in 1 .. Len(t) /\ Lowers(t[d]) /\ i = n + d
    BY <1>1, <1>2, <1>4
  <2> HIDE DEF d, n
  <2>2. PICK j \in d + 1 .. Len(t) : LiftsFrom(t, d, j)
    BY <2>1 DEF Restores
  <2>3. \A k \in i .. n + j : k \in n + 1 .. n + Len(t) /\ k - n \in d .. j
    BY <1>1, <2>1, <2>2
  <2>4. n + j \in i .. n + j /\ n + j \in i + 1 .. n + Len(t) /\ (n + j) - n = j
    BY <1>1, <2>1, <2>2
  <2>5. LiftsFrom(s \o t, i, n + j)
    BY <1>2, <2>2, <2>3, <2>4 DEF LiftsFrom
  <2> QED
    BY <2>4, <2>5 DEF n
<1> QED
  BY <1>1, <1>3, <1>4

\* Programs that may leave the endpoint in reset, but would go on.
Lowered == {s \in Seq(Accesses) : /\ Fits(s) /\ Paired(s) /\ Pending(s)
                                  /\ \A i \in 1 .. Len(s) : Tame(s[i])}

LEMMA TameConcat ==
  ASSUME NEW s \in Seq(Accesses), NEW t \in Seq(Accesses),
         \A i \in 1 .. Len(s) : Tame(s[i]), \A i \in 1 .. Len(t) : Tame(t[i])
  PROVE  \A i \in 1 .. Len(s \o t) : Tame((s \o t)[i])
<1> SUFFICES ASSUME NEW i \in 1 .. Len(s) + Len(t) PROVE Tame((s \o t)[i])
  BY ConcatAt
<1>1. CASE i \in 1 .. Len(s)
  BY <1>1, ConcatAt
<1>2. CASE i \in Len(s) + 1 .. Len(s) + Len(t)
  BY <1>2, ConcatAt
<1> QED
  BY <1>1, <1>2

LEMMA DriveTyped ==
  /\ \A level \in {0, 1} :
        /\ {1} \cup (IF level = 1 THEN {0} ELSE {}) \in SUBSET (OutputBits \cup {9})
        /\ OutputBits \in SUBSET (OutputBits \cup {9})
  /\ {6, 9} \in SUBSET (OutputBits \cup {9}) /\ PeriphBits \in SUBSET (OutputBits \cup {9})
  BY DEF OutputBits, ModeBits, PeriphBits

LEMMA PinLowered ==
  ASSUME NEW s \in Experiments
  PROVE  s \o Drive(Pin0, 0) \in Lowered
<1> DEFINE d == Drive(Pin0, 0)
<1>1. /\ d \in Seq(Accesses) /\ Len(d) = 3 /\ Fits(d) /\ Paired(d)
      /\ \A i \in 1 .. 3 : Tame(d[i]) /\ Waits(d[i])
  BY PinPiece, DriveTyped DEF Drive
<1> HIDE DEF d
<1>2. s \in Seq(Accesses) /\ Fits(s) /\ Paired(s) /\ Pending(s)
      /\ \A i \in 1 .. Len(s) : Tame(s[i])
  BY DEF Experiments, Orderly, Restores, Pending
<1>3. Pending(d)
  BY <1>1 DEF Pending
<1>4. \A i \in 1 .. Len(d) : Tame(d[i]) /\ Waits(d[i])
  BY <1>1
<1>5. Fits(s \o d) /\ Paired(s \o d) /\ Pending(s \o d) /\ s \o d \in Seq(Accesses)
  BY <1>1, <1>2, <1>3, <1>4, FitsConcat, PairedConcat, PendingAppend, ConcatAt
<1>6. s \o d \in Lowered
  BY <1>1, <1>2, <1>4, <1>5, TameConcat DEF Lowered
<1> QED
  BY <1>6 DEF d

LEMMA LoweredGoesOn ==
  ASSUME NEW s \in Lowered, NEW t \in Seq(Simple), \A k \in 1 .. Len(t) : ~Starts(t[k])
  PROVE  s \o t \in Lowered
<1>1. t \in Experiments /\ t \in Seq(Accesses) /\ Len(t) \in Nat
      /\ \A k \in 1 .. Len(t) : t[k] \in Simple
  BY SimpleSequence DEF Simple
<1>2. \A k \in 1 .. Len(t) : Waits(t[k]) /\ Tame(t[k]) /\ ~Lowers(t[k])
  BY <1>1 DEF Simple, Waits, Stays, Lowers
<1>3. Fits(t) /\ Paired(t) /\ Pending(t)
  BY <1>1, <1>2 DEF Experiments, Orderly, Pending
<1>4. s \in Seq(Accesses) /\ Fits(s) /\ Paired(s) /\ Pending(s)
      /\ \A i \in 1 .. Len(s) : Tame(s[i])
  BY DEF Lowered
<1>5. Fits(s \o t) /\ Paired(s \o t) /\ Pending(s \o t) /\ s \o t \in Seq(Accesses)
  BY <1>1, <1>2, <1>3, <1>4, FitsConcat, PairedConcat, PendingAppend, ConcatAt
<1> QED
  BY <1>1, <1>2, <1>4, <1>5, TameConcat DEF Lowered

LEMMA PinLifted ==
  ASSUME NEW s \in Lowered
  PROVE  s \o Drive(Pin0, 1) \in Experiments
<1> DEFINE d == Drive(Pin0, 1)
           set == {1} \cup (IF 1 = 1 THEN {0} ELSE {})
<1>1. /\ d \in Seq(Accesses) /\ Len(d) = 3 /\ Fits(d) /\ Paired(d) /\ Restores(d)
      /\ \A i \in 1 .. 3 : Tame(d[i]) /\ Waits(d[i])
  BY PinPiece, DriveTyped DEF Drive
<1>2. Lifts(d[2])
  BY DEF Drive, Pin, Access, Lifts, Writing
<1> HIDE DEF d
<1>3. \A i \in 1 .. Len(d) : Tame(d[i]) /\ Waits(d[i])
  BY <1>1
<1>4. s \in Seq(Accesses) /\ Fits(s) /\ Paired(s) /\ Pending(s)
      /\ \A i \in 1 .. Len(s) : Tame(s[i])
  BY DEF Lowered
<1>5. 2 \in 1 .. Len(d)
  BY <1>1
<1>6. Restores(s \o d)
  BY <1>1, <1>2, <1>3, <1>4, <1>5, PendingLifted
<1>7. Fits(s \o d) /\ Paired(s \o d) /\ s \o d \in Seq(Accesses)
  BY <1>1, <1>4, FitsConcat, PairedConcat, ConcatAt
<1>8. s \o d \in Experiments
  BY <1>1, <1>3, <1>4, <1>6, <1>7, TameConcat DEF Experiments, Orderly
<1> QED
  BY <1>8 DEF d

-----------------------------------------------------------------------------
(* The experiments, one by one.                                            *)

LEMMA SimpleConcat ==
  ASSUME NEW s \in Seq(Simple), NEW t \in Seq(Simple)
  PROVE  s \o t \in Seq(Simple)
  OBVIOUS

LEMMA SimpleOpt ==
  ASSUME NEW c, NEW s \in Seq(Simple)
  PROVE  Opt(c, s) \in Seq(Simple)
  BY DEF Opt

LEMMA SimpleEach ==
  ASSUME NEW a \in Seq(Simple), NEW b \in Seq(Simple), NEW c \in Seq(Simple)
  PROVE  Opt(0 \in ActivePorts, a) \o Opt(1 \in ActivePorts, b) \o Opt(2 \in ActivePorts, c)
             \in Seq(Simple)
  BY SimpleOpt, SimpleConcat

LEMMA SomeBits ==
  /\ {0} \in SUBSET Bits /\ {1} \in SUBSET Bits /\ {2} \in SUBSET Bits /\ {8} \in SUBSET Bits
  /\ {14} \in SUBSET Bits /\ {31} \in SUBSET Bits /\ {0, 1} \in SUBSET Bits
  /\ {9, 10} \in SUBSET Bits /\ {30, 31} \in SUBSET Bits
  BY DEF Bits

\* The accesses to a port, and the lists that recur.
LEMMA PortSimple ==
  ASSUME NEW i \in Ports
  PROVE  /\ \A r \in {Lane(i), PortWord(i), PortReset(i), Ltssm(i), Start(i), RcCtl} :
                /\ Read(r) \in Simple /\ Watch(r) \in Simple
                /\ \A bits \in SUBSET Bits : /\ Write32(r, bits) \in Simple
                                             /\ Set32(r, bits) \in Simple
                                             /\ Clear32(r, bits) \in Simple
         /\ Snap(i) \in Seq(Simple) /\ LtssmWrites(i) \in Seq(Simple)
         /\ ResetCycle(i) \in Seq(Simple)
<1>1. \A r \in {Lane(i), PortWord(i), PortReset(i), Ltssm(i), Start(i), RcCtl} :
          r \in Written /\ r \in TameRegs /\ r # Pin0
  BY PortWritten
<1>2. \A r \in {Lane(i), PortWord(i), PortReset(i), Ltssm(i), Start(i), RcCtl} :
          /\ Read(r) \in Simple /\ Watch(r) \in Simple
          /\ \A bits \in SUBSET Bits : /\ Write32(r, bits) \in Simple
                                       /\ Set32(r, bits) \in Simple
                                       /\ Clear32(r, bits) \in Simple
  BY <1>1, SimpleReads, SimpleWrites
<1>3. Snap(i) \in Seq(Simple)
  BY <1>2 DEF Snap
<1>4. /\ Write32(Ltssm(i), {1}) \in Simple /\ Write32(Ltssm(i), {2}) \in Simple
      /\ Set32(Ltssm(i), {1}) \in Simple /\ Write32(Start(i), {0}) \in Simple
      /\ Clear32(PortReset(i), {0}) \in Simple /\ Set32(PortReset(i), {0}) \in Simple
      /\ Read(PortReset(i)) \in Simple
  BY <1>2, SomeBits
<1>5. LtssmWrites(i) \in Seq(Simple)
  BY <1>4 DEF LtssmWrites
<1>6. ResetCycle(i) \in Seq(Simple)
  BY <1>4 DEF ResetCycle
<1> QED
  BY <1>2, <1>3, <1>5, <1>6

LEMMA RefclkExperiment ==
  ASSUME NEW i \in Ports, NEW cgen
  PROVE  SetupRefclk(i, cgen) \in Experiments
<1>1. /\ Set32(Lane(i), {0}) \in Simple /\ Set32(Lane(i), {1}) \in Simple
      /\ Set32(Lane(i), {9, 10}) \in Simple /\ PollAck(i) \in Simple
      /\ Set32(Lane(i), {30, 31}) \in Simple
  BY PortSimple, SomeBits DEF PollAck
<1>2. /\ <<Set32(Lane(i), {0}), PollAck(i), Set32(Lane(i), {1}), PollAck(i),
           Set32(Lane(i), {9, 10})>> \in Seq(Simple)
      /\ <<Set32(Lane(i), {30, 31})>> \in Seq(Simple)
  BY <1>1
<1>3. SetupRefclk(i, cgen) \in Seq(Simple)
  BY <1>2, PortSimple, SimpleOpt, SimpleConcat DEF SetupRefclk
<1> QED
  BY <1>3, SimpleSequence

\* The endpoint is lifted again before the port is started.
LEMMA ResequenceExperiment ==
  ASSUME NEW i \in Ports
  PROVE  PerstResequence(i) \in Experiments
<1>1. Snap(i) \in Experiments /\ LtssmWrites(i) \in Experiments
  BY PortSimple, SimpleSequence
<1>2. <<Read(PortWord(i))>> \in Experiments /\ <<Read(Start(i))>> \in Experiments
  <2>1. Read(PortWord(i)) \in Simple /\ Read(Start(i)) \in Simple
    BY PortSimple
  <2>2. <<Read(PortWord(i))>> \in Seq(Simple) /\ <<Read(Start(i))>> \in Seq(Simple)
    BY <2>1
  <2> QED
    BY <2>2, SimpleSequence
<1>3. \A k \in 1 .. Len(ResetCycle(i)) : ~Starts(ResetCycle(i)[k])
  BY DEF ResetCycle, Starts, Clear32, Set32, Read, Access, PortReset
<1>4. Snap(i) \o Drive(Pin0, 0) \o ResetCycle(i) \o Drive(Pin0, 1) \in Experiments
  BY <1>1, <1>3, PortSimple, PinLowered, LoweredGoesOn, PinLifted
<1> QED
  BY <1>1, <1>2, <1>4, ExperimentConcat DEF PerstResequence, Pin0

LEMMA DeassertExperiment == DeassertPerstn(Pin0) \in Experiments
<1> DEFINE a == Access("read", "leaves", Pin0, {}, {})
<1>1. Tame(a) /\ a.do # "rmw" /\ ~Lowers(a) /\ a.on = "leaves"
  BY TameRegsAreRegs DEF TameRegs, Access, Tame, Accesses, Lowers, Writing
<1>2. <<a>> \in Experiments
  BY <1>1, ExperimentOne
<1> QED
  BY <1>2, PinLowered, PinLifted DEF DeassertPerstn

LEMMA ClkreqExperiment ==
  Drive(Clkreq, 0) \in Experiments /\ Periph(Clkreq) \in Experiments
<1>1. Clkreq # Pin0
  BY DEF Clkreq, Pin0, Perst
<1>2. ASSUME NEW set \in SUBSET (OutputBits \cup {9}), NEW clear \in SUBSET (OutputBits \cup {9})
      PROVE  Pin(Clkreq, set, clear) \in Experiments
  BY <1>1, PinPiece DEF Experiments, Orderly
<1>3. /\ {1} \cup (IF 0 = 1 THEN {0} ELSE {}) \in SUBSET (OutputBits \cup {9})
      /\ OutputBits \in SUBSET (OutputBits \cup {9})
      /\ {6, 9} \in SUBSET (OutputBits \cup {9}) /\ PeriphBits \in SUBSET (OutputBits \cup {9})
  BY DriveTyped
<1> QED
  BY <1>2, <1>3 DEF Drive, Periph

LEMMA SmcSimple == Watch(Smc) \in Simple /\ Read(PhyCommon) \in Simple
<1>1. Smc # Pin0 /\ PhyCommon # Pin0
  BY DEF Smc, PhyCommon, Pin0, Perst
<1>2. Smc \in TameRegs /\ PhyCommon \in TameRegs
  BY DEF TameRegs
<1> QED
  BY <1>1, <1>2, SimpleReads

LEMMA PortsAre == 0 \in Ports /\ 1 \in Ports /\ 2 \in Ports
  BY DEF Ports

LEMMA DiagExperiment == EndpointDiag \in Experiments
<1>1. <<Watch(Smc)>> \in Seq(Simple)
  BY SmcSimple
<1>2. ASSUME NEW i \in Ports
      PROVE  <<Read(PortWord(i))>> \in Seq(Simple) /\ <<Read(Ltssm(i)), Read(Start(i))>> \in Seq(Simple)
  <2>1. Read(PortWord(i)) \in Simple /\ Read(Ltssm(i)) \in Simple /\ Read(Start(i)) \in Simple
    BY PortSimple
  <2> QED
    BY <2>1
<1>3. EndpointDiag \in Seq(Simple)
  BY <1>1, <1>2, PortsAre, SimpleEach, SimpleConcat DEF EndpointDiag, EachPort
<1> QED
  BY <1>3, SimpleSequence

LEMMA WatchExperiment == WatchLinksts \in Experiments
<1>1. ASSUME NEW i \in Ports
      PROVE  <<Watch(PortWord(i))>> \in Seq(Simple)
  <2>1. Watch(PortWord(i)) \in Simple
    BY PortSimple
  <2> QED
    BY <2>1
<1>2. WatchLinksts \in Seq(Simple)
  BY <1>1, PortsAre, SimpleEach DEF WatchLinksts, EachPort
<1> QED
  BY <1>2, SimpleSequence

LEMMA DumpExperiment ==
  ASSUME NEW tier
  PROVE  Dump(tier) \in Experiments
<1>1. ASSUME NEW i \in Ports
      PROVE  /\ <<Read(PortWord(i))>> \in Seq(Simple) /\ <<Read(Lane(i))>> \in Seq(Simple)
             /\ <<Read(Ltssm(i)), Read(Start(i))>> \in Seq(Simple)
             /\ <<Read(RcCtl)>> \in Seq(Simple)
  <2>1. /\ Read(PortWord(i)) \in Simple /\ Read(Ltssm(i)) \in Simple /\ Read(Start(i)) \in Simple
        /\ Read(Lane(i)) \in Simple /\ Read(RcCtl) \in Simple
    BY PortSimple
  <2> QED
    BY <2>1
<1>2. <<Read(PhyCommon)>> \in Seq(Simple)
  BY SmcSimple
<1>3. Dump(tier) \in Seq(Simple)
  BY <1>1, <1>2, PortsAre, SimpleEach, SimpleOpt, SimpleConcat DEF Dump, EachPort
<1> QED
  BY <1>3, SimpleSequence

LEMMA ReplayedSimple ==
  ASSUME NEW i \in Ports, NEW bits \in SUBSET Bits,
         NEW r \in {Lane(i), PortWord(i), PortReset(i), Ltssm(i), Start(i), RcCtl}
  PROVE  /\ Replayed(Write32(r, bits)) \in Seq(Simple)
         /\ Replayed(Set32(r, bits)) \in Seq(Simple)
         /\ Replayed(Clear32(r, bits)) \in Seq(Simple)
<1>1. /\ Write32(r, bits).reg = r /\ Set32(r, bits).reg = r /\ Clear32(r, bits).reg = r
  BY DEF Write32, Set32, Clear32, Access
<1>2. /\ Read(r) \in Simple /\ Write32(r, bits) \in Simple /\ Set32(r, bits) \in Simple
      /\ Clear32(r, bits) \in Simple
  BY PortSimple
<1> QED
  BY <1>1, <1>2 DEF Replayed

LEMMA T602xExperiment ==
  ASSUME NEW i \in Ports, NEW o
  PROVE  T602xReplay(o, i) \in Experiments /\ T602xReplay(o, i) \in Seq(Simple)
<1>1. /\ <<Read(PortWord(i))>> \in Seq(Simple) /\ LtssmWrites(i) \in Seq(Simple)
      /\ ResetCycle(i) \in Seq(Simple)
  <2>1. Read(PortWord(i)) \in Simple
    BY PortSimple
  <2> QED
    BY <2>1, PortSimple
<1>2. /\ Replayed(Set32(RcCtl, {0})) \in Seq(Simple)
      /\ Replayed(Write32(PortWord(i), {1})) \in Seq(Simple)
      /\ Replayed(Clear32(Lane(i), {14})) \in Seq(Simple)
      /\ Disarm(o) \in Seq(Simple)
  BY ReplayedSimple, SomeBits DEF Disarm
<1>3. /\ <<Clear32(PortWord(i), {8}), Read(PortWord(i))>> \in Seq(Simple)
      /\ <<Write32(PortWord(i), {31})>> \in Seq(Simple)
      /\ <<Write32(PortWord(i), {0, 1}), Read(PortWord(i))>> \in Seq(Simple)
  <2>1. /\ Clear32(PortWord(i), {8}) \in Simple /\ Write32(PortWord(i), {31}) \in Simple
        /\ Write32(PortWord(i), {0, 1}) \in Simple /\ Read(PortWord(i)) \in Simple
    BY PortSimple, SomeBits
  <2> QED
    BY <2>1
<1>4. /\ Opt("t602x_aggressive" \in o.flags,
             LtssmWrites(i) \o <<Clear32(PortWord(i), {8}), Read(PortWord(i))>>) \in Seq(Simple)
      /\ Opt("t602x_do_again" \in o.flags,
             ResetCycle(i) \o <<Read(PortWord(i))>> \o LtssmWrites(i)
             \o <<Read(PortWord(i))>>) \in Seq(Simple)
      /\ Opt("t602x_msimap" \in o.flags, <<Write32(PortWord(i), {31})>>) \in Seq(Simple)
  BY <1>1, <1>3, SimpleOpt, SimpleConcat
<1>5. T602xReplay(o, i) \in Seq(Simple)
  BY <1>1, <1>2, <1>3, <1>4, SimpleConcat DEF T602xReplay
<1> QED
  BY <1>5, SimpleSequence

\* The two accesses of one try, and what follows them.
LEMMA PairsExperiment ==
  ASSUME NEW i \in Ports
  PROVE  <<Access("write", "pairs", PortReset(i), {}, {0}), Set32(PortReset(i), {0}),
           Read(PortWord(i))>> \in Experiments
<1> DEFINE a == Access("write", "pairs", PortReset(i), {}, {0})
           b == Set32(PortReset(i), {0})
           c == Read(PortWord(i))
           s == <<a, b, c>>
<1>1. PortReset(i) \in Written /\ PortReset(i) # Pin0 /\ PortReset(i)[1] = "port+0x82c"
  BY PortWritten DEF PortReset
<1>2. PortReset(i) \in Regs
  BY <1>1, TameRegsAreRegs DEF Written
<1>3. a \in Accesses /\ Tame(a) /\ a.do = "write" /\ a.on = "pairs" /\ a.reg # Pin0
  BY <1>1, <1>2, SomeBits DEF Access, Accesses, Tame, TameNames, PortNames
<1>4. b \in Simple /\ c \in Simple
  BY PortSimple, SomeBits
<1>5. b \in Accesses /\ c \in Accesses /\ Tame(b) /\ Tame(c)
  BY <1>4 DEF Simple
<1> HIDE DEF a, b, c
<1>6. s \in Seq(Accesses) /\ Len(s) = 3 /\ s[1] = a /\ s[2] = b /\ s[3] = c
  BY <1>3, <1>5
<1> HIDE DEF s
<1>7. \A k \in 1 .. 3 : s[k].do \in {"read", "write"} /\ ~Lowers(s[k]) /\ Tame(s[k])
  BY <1>3, <1>4, <1>5, <1>6 DEF Simple, Lowers
<1>8. Fits(s)
  BY <1>3, <1>4, <1>6 DEF Fits, Lands, Skips, Simple
<1>9. Paired(s) /\ Restores(s)
  BY <1>6, <1>7 DEF Paired, Restores
<1>10. s \in Experiments
  BY <1>6, <1>7, <1>8, <1>9 DEF Experiments, Orderly
<1> QED
  BY <1>10 DEF s, a, b, c

LEMMA KickExperiment ==
  ASSUME NEW i \in Ports, NEW o
  PROVE  LtssmKick(o, i) \in Experiments
<1>1. <<Read(PortWord(i))>> \in Experiments
  <2>1. Read(PortWord(i)) \in Simple
    BY PortSimple
  <2>2. <<Read(PortWord(i))>> \in Seq(Simple)
    BY <2>1
  <2> QED
    BY <2>2, SimpleSequence
<1>2. /\ Replayed(Set32(RcCtl, {0})) \in Experiments
      /\ Replayed(Write32(PortWord(i), {1})) \in Experiments
  BY ReplayedSimple, SomeBits, SimpleSequence
<1>3. LtssmWrites(i) \o <<Clear32(PortWord(i), {8}), Read(PortWord(i))>> \in Experiments
  <2>1. Clear32(PortWord(i), {8}) \in Simple /\ Read(PortWord(i)) \in Simple
    BY PortSimple, SomeBits
  <2>2. <<Clear32(PortWord(i), {8}), Read(PortWord(i))>> \in Seq(Simple)
    BY <2>1
  <2> QED
    BY <2>2, PortSimple, SimpleConcat, SimpleSequence
<1> QED
  BY <1>1, <1>2, <1>3, PairsExperiment, ExperimentOpt, ExperimentConcat DEF LtssmKick

-----------------------------------------------------------------------------
(* The programs of a boot.                                                 *)

LEMMA RewrittenNames ==
  /\ \A r \in Rewritten : r[1] \in {"perst", "clkreq", "rvbar", "axi_sub5", "axi", "phy_common"}
  /\ \A r : r[1] \in {"perst", "clkreq"} => Meant(r) = OutputBits \cup {9}
<1>1. \A r \in Rewritten : r[1] \in {"perst", "clkreq", "rvbar", "axi_sub5", "axi", "phy_common"}
  BY DEF Rewritten, Perst, Clkreq, Rvbar
<1>2. \A r : r[1] \in {"perst", "clkreq"} => Meant(r) = OutputBits \cup {9}
  BY DEF Meant
<1> QED
  BY <1>1, <1>2

\* An experiment as a program of main(), guarded as a whole or not at all.
LEMMA ExperimentProgram ==
  ASSUME NEW fs, NEW name \in ProgramNames, NEW guarding \in {"none", "section"},
         NEW gated \in BOOLEAN, NEW ops \in Experiments,
         AsNamed(Program(name, guarding, gated, {}, ops))
  PROVE  Program(name, guarding, gated, {}, ops) \in ProgramSet(fs)
<1> DEFINE p == Program(name, guarding, gated, {}, ops)
<1>1. /\ p \in [name : ProgramNames, guarding : {"none", "section", "access"}, gated : BOOLEAN,
                needs : SUBSET Reachable, ops : Orderly]
      /\ p.ops = ops /\ p.guarding = guarding /\ p.needs = {} /\ AsNamed(p)
  BY DEF Program, Experiments
<1> HIDE DEF p
<1>2. \A i \in 1 .. Len(ops) :
          /\ ops[i].do \in {"read", "write", "hold", "rmw"} /\ ops[i].reg[1] \in TameNames
          /\ ops[i].do = "write" => ops[i].reg[1] \notin {"phy_common", "smc", "clkreq", "perst"}
          /\ ops[i].do = "rmw" => /\ ops[i].reg[1] \in {"clkreq", "perst"}
                                  /\ ops[i].set \cup ops[i].clear \subseteq OutputBits \cup {9}
  BY DEF Experiments, Tame
<1>3. TouchesNeeded(p, fs) /\ ClocksNeeded(p, fs) /\ StrobesInRelease(p)
  BY <1>1, <1>2 DEF TouchesNeeded, ClocksNeeded, StrobesInRelease, TameNames, PortNames,
                    FirstTouchWindows
<1>4. GatesFlagged(p) /\ GuardFits(p)
  BY <1>1, <1>2 DEF GatesFlagged, GuardFits
<1>5. WritesMeant(p, fs)
  <2> SUFFICES ASSUME NEW i \in 1 .. Len(ops), ops[i].do \in Writing
               PROVE  /\ ops[i].reg[1] \notin {"acio gate", "cpu gate"}
                      /\ ops[i].reg \in Rewritten =>
                            ops[i].do = "rmw" /\ ops[i].set \cup ops[i].clear \subseteq Meant(ops[i].reg)
    BY <1>1 DEF WritesMeant
  <2>1. ops[i].reg[1] \in TameNames
    BY <1>2
  <2>2. CASE ops[i].do = "write"
    BY <1>2, <2>1, <2>2, RewrittenNames DEF TameNames, PortNames
  <2>3. CASE ops[i].do = "rmw"
    <3>1. ops[i].reg[1] \in {"clkreq", "perst"}
      BY <1>2, <2>3
    <3>2. Meant(ops[i].reg) = OutputBits \cup {9}
      BY <3>1, RewrittenNames
    <3>3. ops[i].set \cup ops[i].clear \subseteq Meant(ops[i].reg)
      BY <1>2, <2>3, <3>2
    <3> QED
      BY <2>3, <3>1, <3>3
  <2> QED
    BY <2>2, <2>3 DEF Writing
<1>6. p \in ProgramSet(fs)
  BY <1>1, <1>3, <1>4, <1>5 DEF ProgramSet
<1> QED
  BY <1>6 DEF p

\* Accesses whose order says nothing.
Loose == {a \in Accesses : a.do # "rmw" /\ ~Lowers(a) /\ a.on \in {"checks", "leaves", "swallows"}}

LEMMA LooseOrderly ==
  ASSUME NEW s \in Seq(Loose)
  PROVE  s \in Orderly /\ \A i \in 1 .. Len(s) : s[i] \in Loose
<1>1. /\ s \in Seq(Accesses) /\ Len(s) \in Nat
      /\ \A i \in 1 .. Len(s) : s[i] \in Loose
  BY DEF Loose
<1>2. Fits(s)
  <2> SUFFICES ASSUME NEW k \in 1 .. Len(s) PROVE Lands(s, k) <= Len(s) + 1
    BY DEF Fits
  <2>1. s[k].on \in {"checks", "leaves", "swallows"}
    BY <1>1 DEF Loose
  <2> QED
    BY <1>1, <2>1 DEF Lands, Skips
<1>3. Paired(s) /\ Restores(s)
  BY <1>1 DEF Paired, Restores, Loose
<1> QED
  BY <1>1, <1>2, <1>3 DEF Orderly

LEMMA Thirds ==
  ASSUME NEW L \in Nat, NEW n \in 1 .. 3 * L
  PROVE  \E m \in 1 .. L : n = 3 * m - 2 \/ n = 3 * m - 1 \/ n = 3 * m
<1> DEFINE m == (n + 2) \div 3
<1>1. m \in Nat /\ 3 * m <= n + 2 /\ n + 2 < 3 * m + 3
  OBVIOUS
<1> HIDE DEF m
<1>2. m \in 1 .. L
  BY <1>1
<1> QED
  BY <1>1, <1>2

LEMMA ThirdOf ==
  ASSUME NEW m \in Nat \ {0}
  PROVE  /\ (3 * m - 2) % 3 = 1 /\ ((3 * m - 2) + 2) \div 3 = m
         /\ (3 * m - 1) % 3 = 2 /\ ((3 * m - 1) + 2) \div 3 = m
         /\ (3 * m) % 3 = 0 /\ ((3 * m) + 2) \div 3 = m
  OBVIOUS

Entries(prop) == 1 .. Len(Tunables[prop])
Tuned == {<<"axi", "axi2af">>, <<"axi_sub5", "pcieclkgen">>, <<"axi_sub5", "cio3pllcore">>,
          <<"phy_common", "cio3pllcore">>}

LEMMA ApplyLength ==
  ASSUME NEW w, NEW prop, Len(Tunables[prop]) \in Nat
  PROVE  /\ Len(NakedApply(w, prop)) = 3 * Len(Tunables[prop])
         /\ NakedApply(w, prop) = [n \in 1 .. 3 * Len(Tunables[prop]) |-> NakedApply(w, prop)[n]]
  BY DEF NakedApply

\* The three accesses of the m-th entry.
LEMMA ApplyAt ==
  ASSUME NEW w, NEW prop, Len(Tunables[prop]) \in Nat, NEW m \in Entries(prop)
  PROVE  /\ NakedApply(w, prop)[3 * m - 2] =
                Access("hold", "entry", <<w, Tunables[prop][m].off>>, Tunables[prop][m].value,
                       Tunables[prop][m].mask)
         /\ NakedApply(w, prop)[3 * m - 1] =
                Access("rmw", "checks", <<w, Tunables[prop][m].off>>, Tunables[prop][m].value,
                       Tunables[prop][m].mask)
         /\ NakedApply(w, prop)[3 * m] = Read(<<w, Tunables[prop][m].off>>)
<1> DEFINE L == Len(Tunables[prop])
           entry(n) == Tunables[prop][(n + 2) \div 3]
           reg(n) == <<w, entry(n).off>>
           access(n) ==
               CASE n % 3 = 1 -> Access("hold", "entry", reg(n), entry(n).value, entry(n).mask)
                 [] n % 3 = 2 -> Access("rmw", "checks", reg(n), entry(n).value, entry(n).mask)
                 [] OTHER -> Read(reg(n))
           s == NakedApply(w, prop)
<1>1. s = [n \in 1 .. 3 * L |-> access(n)]
  BY Zenon DEF NakedApply
<1>2. \A n : n % 3 = 1 /\ n % 3 # 2 =>
          access(n) = Access("hold", "entry", reg(n), entry(n).value, entry(n).mask)
  BY Zenon
<1>3. \A n : n % 3 = 2 /\ n % 3 # 1 =>
          access(n) = Access("rmw", "checks", reg(n), entry(n).value, entry(n).mask)
  BY Zenon
<1>4. \A n : n % 3 # 2 /\ n % 3 # 1 => access(n) = Read(reg(n))
  BY Zenon
<1> HIDE DEF access, s, entry, reg
<1>5. \A n \in 1 .. 3 * L : s[n] = access(n)
  BY <1>1
<1>6. /\ 3 * m - 2 \in 1 .. 3 * L /\ 3 * m - 1 \in 1 .. 3 * L /\ 3 * m \in 1 .. 3 * L
      /\ (3 * m - 2) % 3 = 1 /\ ((3 * m - 2) + 2) \div 3 = m
      /\ (3 * m - 1) % 3 = 2 /\ ((3 * m - 1) + 2) \div 3 = m
      /\ (3 * m) % 3 = 0 /\ ((3 * m) + 2) \div 3 = m
      /\ (3 * m - 2) % 3 # 2 /\ (3 * m - 1) % 3 # 1
      /\ (3 * m) % 3 # 2 /\ (3 * m) % 3 # 1
  BY ThirdOf DEF Entries
<1>7. /\ entry(3 * m - 2) = Tunables[prop][m] /\ entry(3 * m - 1) = Tunables[prop][m]
      /\ entry(3 * m) = Tunables[prop][m]
  BY <1>6 DEF entry
<1>8. /\ access(3 * m - 2) = Access("hold", "entry", reg(3 * m - 2), entry(3 * m - 2).value,
                                    entry(3 * m - 2).mask)
      /\ access(3 * m - 1) = Access("rmw", "checks", reg(3 * m - 1), entry(3 * m - 1).value,
                                    entry(3 * m - 1).mask)
      /\ access(3 * m) = Read(reg(3 * m))
  BY <1>2, <1>3, <1>4, <1>6, Zenon
<1> QED
  BY <1>5, <1>6, <1>7, <1>8 DEF reg, s

LEMMA TunedRegs ==
  ASSUME NEW t \in Tuned, NEW m \in Entries(t[2])
  PROVE  LET e == Tunables[t[2]][m]
             r == <<t[1], Tunables[t[2]][m].off>>
         IN  /\ r \in Regs /\ r # Pin0 /\ r[1] = t[1]
             /\ t[1] \in {"axi", "axi_sub5", "phy_common"}
             /\ e.value \in SUBSET Bits /\ e.mask \in SUBSET Bits
             /\ e.value \cup e.mask \subseteq Meant(r)
<1> DEFINE e == Tunables[t[2]][m]
           r == <<t[1], e.off>>
<1>1. t[1] \in {"axi", "axi_sub5", "phy_common"} /\ t[2] \in {"axi2af", "pcieclkgen", "cio3pllcore"}
  BY DEF Tuned
<1>2. e \in [off : Offsets, mask : SUBSET Bits, value : SUBSET Bits] /\ t[2] \in DOMAIN Tunables
      /\ m \in DOMAIN Tunables[t[2]]
  <2>1. /\ t[2] \in DOMAIN Tunables
        /\ Tunables[t[2]] \in Seq([off : Offsets, mask : SUBSET Bits, value : SUBSET Bits])
    BY <1>1, PortAssumption
  <2> DEFINE q == Tunables[t[2]]
             E == [off : Offsets, mask : SUBSET Bits, value : SUBSET Bits]
  <2>2. m \in 1 .. Len(q)
    BY DEF Entries
  <2>3. q \in Seq(E)
    BY <2>1
  <2> HIDE DEF q, E
  <2>4. m \in DOMAIN q /\ q[m] \in E
    BY <2>2, <2>3
  <2> QED
    BY <2>1, <2>4 DEF q, E
<1>3. r \in Regs /\ r # Pin0 /\ r[1] = t[1] /\ r[2] = e.off
  BY <1>1, <1>2 DEF Regs, Windows, Pin0, Perst
<1>4. r # Rvbar /\ r[1] \notin {"perst", "clkreq"}
  BY <1>1 DEF Rvbar
<1>5. e.value \cup e.mask \subseteq Meant(r)
  <2> DEFINE entries(p) == {n \in DOMAIN Tunables[p] : Tunables[p][n].off = r[2]}
             bits(p) == UNION {Tunables[p][n].mask \cup Tunables[p][n].value : n \in entries(p)}
  <2>1. Meant(r) = UNION {bits(p) : p \in DOMAIN Tunables}
    BY <1>4, Zenon DEF Meant
  <2>2. m \in entries(t[2])
    BY <1>2, <1>3
  <2>3. e.value \cup e.mask \subseteq bits(t[2])
    BY <2>2
  <2> HIDE DEF bits
  <2> QED
    BY <1>2, <2>1, <2>3
<1> QED
  BY <1>1, <1>2, <1>3, <1>5

\* Every entry is read before it is written, and given up whole.
LEMMA ApplyOrderly ==
  ASSUME NEW t \in Tuned
  PROVE  /\ NakedApply(t[1], t[2]) \in Orderly
         /\ \A i \in 1 .. Len(NakedApply(t[1], t[2])) :
               LET a == NakedApply(t[1], t[2])[i]
               IN  /\ a.reg[1] = t[1] /\ a.do \in {"hold", "rmw", "read"}
                   /\ a.set \cup a.clear \subseteq Meant(a.reg)
<1> DEFINE L == Len(Tunables[t[2]])
           s == NakedApply(t[1], t[2])
           r(m) == <<t[1], Tunables[t[2]][m].off>>
<1>1. L \in Nat
  BY PortAssumption DEF Tuned
<1>2. /\ Len(s) = 3 * L /\ s = [n \in 1 .. 3 * L |-> s[n]]
      /\ \A m \in 1 .. L :
            /\ s[3 * m - 2] = Access("hold", "entry", r(m), Tunables[t[2]][m].value,
                                     Tunables[t[2]][m].mask)
            /\ s[3 * m - 1] = Access("rmw", "checks", r(m), Tunables[t[2]][m].value,
                                     Tunables[t[2]][m].mask)
            /\ s[3 * m] = Read(r(m))
  <2>1. Len(s) = 3 * L /\ s = [n \in 1 .. 3 * L |-> s[n]]
    BY <1>1, ApplyLength
  <2>2. ASSUME NEW m \in 1 .. L
        PROVE  /\ s[3 * m - 2] = Access("hold", "entry", r(m), Tunables[t[2]][m].value,
                                        Tunables[t[2]][m].mask)
               /\ s[3 * m - 1] = Access("rmw", "checks", r(m), Tunables[t[2]][m].value,
                                        Tunables[t[2]][m].mask)
               /\ s[3 * m] = Read(r(m))
    <3>1. m \in Entries(t[2])
      BY DEF Entries
    <3> QED
      BY <1>1, <3>1, ApplyAt
  <2> QED
    BY <2>1, <2>2
<1>3. \A m \in 1 .. L :
         /\ r(m) \in Regs /\ r(m) # Pin0 /\ r(m)[1] = t[1]
         /\ Tunables[t[2]][m].value \in SUBSET Bits /\ Tunables[t[2]][m].mask \in SUBSET Bits
         /\ Tunables[t[2]][m].value \cup Tunables[t[2]][m].mask \subseteq Meant(r(m))
  BY TunedRegs DEF Entries
<1> HIDE DEF s, r, L
<1>4. \A m \in 1 .. L :
         /\ s[3 * m - 2].do = "hold" /\ s[3 * m - 2].on = "entry" /\ s[3 * m - 2].reg = r(m)
         /\ s[3 * m - 1].do = "rmw" /\ s[3 * m - 1].on = "checks" /\ s[3 * m - 1].reg = r(m)
         /\ s[3 * m].do = "read" /\ s[3 * m].on = "checks" /\ s[3 * m].reg = r(m)
  <2> TAKE m \in 1 .. L
  <2>1. /\ s[3 * m - 2] = Access("hold", "entry", r(m), Tunables[t[2]][m].value,
                                 Tunables[t[2]][m].mask)
        /\ s[3 * m - 1] = Access("rmw", "checks", r(m), Tunables[t[2]][m].value,
                                 Tunables[t[2]][m].mask)
        /\ s[3 * m] = Read(r(m))
    BY <1>2
  <2> QED
    BY <2>1 DEF Access, Read
<1>5. \A m \in 1 .. L : \A i \in {3 * m - 2, 3 * m - 1, 3 * m} :
         s[i] \in Accesses /\ s[i].set \cup s[i].clear \subseteq Meant(s[i].reg)
  <2> TAKE m \in 1 .. L
  <2> DEFINE e == Tunables[t[2]][m]
  <2>1. /\ r(m) \in Regs /\ e.value \in SUBSET Bits /\ e.mask \in SUBSET Bits
        /\ e.value \cup e.mask \subseteq Meant(r(m))
    BY <1>3
  <2> HIDE DEF e
  <2> DEFINE x == Access("hold", "entry", r(m), e.value, e.mask)
             y == Access("rmw", "checks", r(m), e.value, e.mask)
             z == Access("read", "checks", r(m), {}, {})
  <2>2. x \in Accesses /\ x.reg = r(m) /\ x.set = e.value /\ x.clear = e.mask
    BY <2>1 DEF Access, Accesses
  <2>3. y \in Accesses /\ y.reg = r(m) /\ y.set = e.value /\ y.clear = e.mask
    BY <2>1 DEF Access, Accesses
  <2>4. z \in Accesses /\ z.reg = r(m) /\ z.set = {} /\ z.clear = {}
    BY <2>1 DEF Access, Accesses
  <2>5. s[3 * m - 2] = x /\ s[3 * m - 1] = y /\ s[3 * m] = z
    BY <1>2 DEF e, Read
  <2> HIDE DEF x, y, z
  <2>6. \A a \in {x, y, z} : a \in Accesses /\ a.set \cup a.clear \subseteq Meant(a.reg)
    BY <2>1, <2>2, <2>3, <2>4
  <2> QED
    BY <2>5, <2>6
<1>6. \A i \in 1 .. 3 * L :
         /\ s[i] \in Accesses /\ s[i].set \cup s[i].clear \subseteq Meant(s[i].reg)
         /\ s[i].reg[1] = t[1] /\ s[i].reg # Pin0 /\ s[i].do \in {"hold", "rmw", "read"}
  <2> TAKE i \in 1 .. 3 * L
  <2>1. PICK m \in 1 .. L : i = 3 * m - 2 \/ i = 3 * m - 1 \/ i = 3 * m
    BY <1>1, Thirds DEF L
  <2> QED
    BY <1>3, <1>4, <1>5, <2>1
<1>7. s \in Seq(Accesses) /\ Len(s) = 3 * L
  <2>1. 3 * L \in Nat
    BY <1>1 DEF L
  <2>2. s \in [1 .. 3 * L -> Accesses]
    BY <1>2, <1>6
  <2> QED
    BY <1>2, <2>1, <2>2
<1>8. \A m \in 1 .. L : /\ Lands(s, 3 * m - 2) = (3 * m - 2) + 3
                        /\ Lands(s, 3 * m - 1) = (3 * m - 1) + 1 /\ Lands(s, 3 * m) = 3 * m + 1
  BY <1>4 DEF Lands, Skips
<1>9. \A k \in 1 .. 3 * L : \E m \in 1 .. L :
          \/ k = 3 * m - 2 /\ Lands(s, k) = 3 * m + 1
          \/ k = 3 * m - 1 /\ Lands(s, k) = 3 * m
          \/ k = 3 * m /\ Lands(s, k) = 3 * m + 1
  <2> TAKE k \in 1 .. 3 * L
  <2>1. PICK m \in 1 .. L : k = 3 * m - 2 \/ k = 3 * m - 1 \/ k = 3 * m
    BY <1>1, Thirds DEF L
  <2> QED
    BY <1>1, <1>8, <2>1
<1>10. Fits(s)
  <2> SUFFICES ASSUME NEW k \in 1 .. 3 * L PROVE Lands(s, k) <= 3 * L + 1
    BY <1>7 DEF Fits
  <2>1. PICK m \in 1 .. L :
          \/ k = 3 * m - 2 /\ Lands(s, k) = 3 * m + 1
          \/ k = 3 * m - 1 /\ Lands(s, k) = 3 * m
          \/ k = 3 * m /\ Lands(s, k) = 3 * m + 1
    BY <1>9
  <2> QED
    BY <1>1, <2>1
<1>11. Paired(s)
  <2> SUFFICES ASSUME NEW i \in 1 .. 3 * L, s[i].do = "rmw"
               PROVE  \E h \in 1 .. i - 1 : Feeds(s, h, i)
    BY <1>7 DEF Paired
  <2>1. PICK m \in 1 .. L : i = 3 * m - 2 \/ i = 3 * m - 1 \/ i = 3 * m
    BY <1>1, Thirds DEF L
  <2>2. i = 3 * m - 1
    BY <1>4, <2>1
  <2>3. 3 * m - 2 \in 1 .. i - 1 /\ (3 * m - 2) + 1 = i
    BY <2>2
  <2>4. s[3 * m - 2].do = "hold" /\ s[3 * m - 2].reg = s[i].reg
    BY <1>4, <2>2
  <2>5. ASSUME NEW k \in 1 .. 3 * m - 2
        PROVE  Lands(s, k) # i
    <3>1. k \in 1 .. 3 * L
      BY <1>1 DEF L
    <3>2. PICK d \in 1 .. L :
             \/ k = 3 * d - 2 /\ Lands(s, k) = 3 * d + 1
             \/ k = 3 * d - 1 /\ Lands(s, k) = 3 * d
             \/ k = 3 * d /\ Lands(s, k) = 3 * d + 1
      BY <1>9, <3>1
    <3> QED
      BY <2>2, <3>2
  <2>6. \A k \in 1 .. 3 * m - 2 : Lands(s, k) \notin (3 * m - 2) + 1 .. i
    BY <2>3, <2>5
  <2>7. \A k \in (3 * m - 2) + 1 .. i - 1 : s[k].do # "hold"
    BY <2>3
  <2>8. Feeds(s, 3 * m - 2, i)
    BY <2>4, <2>6, <2>7 DEF Feeds
  <2> QED
    BY <2>3, <2>8
<1>12. Restores(s)
  BY <1>6, <1>7 DEF Restores, Lowers
<1>13. s \in Orderly
  BY <1>7, <1>10, <1>11, <1>12 DEF Orderly
<1> QED
  BY <1>6, <1>7, <1>13 DEF s

LEMMA ApplyProgram ==
  ASSUME NEW fs, NEW t \in Tuned
  PROVE  Apply(t[1], t[2]) \in Seq(PlainSet(fs))
<1> DEFINE s == NakedApply(t[1], t[2])
           p == Program("apply", "access", FALSE, Needs(t[1]), s)
<1>1. /\ s \in Orderly
      /\ \A i \in 1 .. Len(s) : /\ s[i].reg[1] = t[1] /\ s[i].do \in {"hold", "rmw", "read"}
                                /\ s[i].set \cup s[i].clear \subseteq Meant(s[i].reg)
  BY ApplyOrderly
<1>2. t[1] \in {"axi", "axi_sub5", "phy_common"}
  BY DEF Tuned
<1>3. Needs(t[1]) \in SUBSET Reachable /\ t[1] \notin FirstTouchWindows \ Needs(t[1])
  BY DEF Needs, Reachable
<1> HIDE DEF s
<1>4. /\ p \in [name : ProgramNames, guarding : {"none", "section", "access"}, gated : BOOLEAN,
                needs : SUBSET Reachable, ops : Orderly]
      /\ p.ops = s /\ p.guarding = "access" /\ p.needs = Needs(t[1]) /\ p.name = "apply"
  <2>1. ASSUME NEW name \in ProgramNames, NEW needs \in SUBSET Reachable
        PROVE  Program(name, "access", FALSE, needs, s) \in
                  [name : ProgramNames, guarding : {"none", "section", "access"}, gated : BOOLEAN,
                   needs : SUBSET Reachable, ops : Orderly]
    BY <1>1 DEF Program
  <2>2. "apply" \in ProgramNames
    BY DEF ProgramNames
  <2> QED
    BY <1>3, <2>1, <2>2 DEF Program
<1> HIDE DEF p
<1>5. TouchesNeeded(p, fs) /\ ClocksNeeded(p, fs) /\ StrobesInRelease(p) /\ GatesFlagged(p)
  BY <1>1, <1>2, <1>3, <1>4 DEF TouchesNeeded, ClocksNeeded, StrobesInRelease, GatesFlagged
<1>6. GuardFits(p)
  <2>1. Pin0[1] = "perst"
    BY DEF Pin0, Perst
  <2> QED
    BY <1>1, <1>2, <1>4, <2>1 DEF GuardFits
<1>7. WritesMeant(p, fs)
  BY <1>1, <1>2, <1>4 DEF WritesMeant, Writing
<1>8. p.name \in PlainNames /\ \A i \in 1 .. Len(s) : Aside(s[i])
  BY <1>1, <1>2, <1>4, TameRegsAreRegs DEF PlainNames, ProgramNames, Bringup, Aside, StartWords
<1>9. p \in ProgramSet(fs)
  BY <1>4, <1>5, <1>6, <1>7, <1>8, PlainNamed DEF ProgramSet
<1>10. <<p>> \in Seq(PlainSet(fs))
  BY <1>8, <1>9 DEF PlainSet
<1> QED
  BY <1>10 DEF Apply, Guarded, p, s

\* An access that neither rewrites a word nor touches the pin, where these
\* windows and gates were seen.
Harmless(fs, needs) ==
    {a \in Accesses :
        /\ a.do \in {"read", "look", "gate", "touch", "write"}
        /\ a.on \in {"checks", "leaves", "swallows"}
        /\ a.do # "touch" => a.reg[1] \notin FirstTouchWindows \ needs
        /\ a.reg[1] = "acio" => "acio gate" \in needs
        /\ a.reg[1] = "core" => "cpu gate" \in needs \/ "smp_probe" \in fs
        /\ a.do = "write" =>
               /\ a.reg[1] \notin {"acio gate", "cpu gate", "cpustart", "perst"} \cup StartWords
               /\ a.reg # RcCtl
               /\ "naked_write_test" \notin fs => a.reg \notin Rewritten
        /\ a.do = "gate" => a.reg[1] \in {"acio gate", "cpu gate"}}

\* The write test takes the windows for seen that it does not need.
Granted(name, needs) ==
    needs \cup IF name = "write test" THEN FirstTouchWindows ELSE {}

LEMMA SeenProgram ==
  ASSUME NEW fs, NEW name \in PlainNames, NEW guarding \in {"none", "access"},
         NEW needs \in SUBSET Reachable, NEW seen, NEW s \in Seq(Harmless(fs, seen)),
         seen \subseteq Granted(name, needs)
  PROVE  <<Program(name, guarding, FALSE, needs, s)>> \in Seq(PlainSet(fs))
<1> DEFINE p == Program(name, guarding, FALSE, needs, s)
           H == Harmless(fs, seen)
<1>1. Pin0[1] = "perst"
  BY DEF Pin0, Perst
<1>2. ASSUME NEW a \in H
      PROVE  a \in Loose
  BY <1>1 DEF Harmless, Loose, Lowers, Writing
<1>3. s \in Seq(H) /\ \A i \in 1 .. Len(s) : s[i] \in H
  OBVIOUS
<1> HIDE DEF H
<1>4. s \in Seq(Loose)
  BY <1>2, <1>3
<1>5. s \in Orderly
  BY <1>4, LooseOrderly
<1>6. /\ p \in [name : ProgramNames, guarding : {"none", "section", "access"}, gated : BOOLEAN,
                needs : SUBSET Reachable, ops : Orderly]
      /\ p.ops = s /\ p.guarding = guarding /\ p.needs = needs /\ p.name = name
  BY <1>5 DEF Program, PlainNames
<1> HIDE DEF p
<1>7. TouchesNeeded(p, fs) /\ ClocksNeeded(p, fs) /\ StrobesInRelease(p) /\ GatesFlagged(p)
  BY <1>3, <1>6 DEF TouchesNeeded, ClocksNeeded, StrobesInRelease, GatesFlagged, H, Harmless, Writing,
     FirstTouchWindows, Granted
<1>8. GuardFits(p)
  BY <1>1, <1>3, <1>6 DEF GuardFits, H, Harmless, Writing
<1>9. WritesMeant(p, fs)
  BY <1>3, <1>6 DEF WritesMeant, H, Harmless, Writing
<1>10. \A i \in 1 .. Len(s) : Aside(s[i])
  BY <1>3 DEF H, Harmless, Aside, Writing
<1>11. p \in PlainSet(fs)
  BY <1>6, <1>7, <1>8, <1>9, <1>10, PlainNamed DEF ProgramSet, PlainSet
<1>12. <<p>> \in Seq(PlainSet(fs))
  BY <1>11
<1> QED
  BY <1>12 DEF p

LEMMA HarmlessProgram ==
  ASSUME NEW fs, NEW name \in PlainNames, NEW guarding \in {"none", "access"},
         NEW needs \in SUBSET Reachable, NEW s \in Seq(Harmless(fs, needs))
  PROVE  <<Program(name, guarding, FALSE, needs, s)>> \in Seq(PlainSet(fs))
  BY SeenProgram DEF Granted

LEMMA HarmlessReads ==
  ASSUME NEW fs, NEW needs, NEW r \in Regs,
         r[1] \notin FirstTouchWindows \ needs,
         r[1] = "acio" => "acio gate" \in needs,
         r[1] = "core" => "cpu gate" \in needs \/ "smp_probe" \in fs
  PROVE  /\ Read(r) \in Harmless(fs, needs)
         /\ Look(r) \in Harmless(fs, needs)
         /\ r[1] \in {"acio gate", "cpu gate"} => Gate(r) \in Harmless(fs, needs)
<1> DEFINE A(do, on) == Access(do, on, r, {}, {})
<1>1. ASSUME NEW do \in {"read", "look", "gate"}, NEW on \in {"checks", "swallows"},
             do = "gate" => r[1] \in {"acio gate", "cpu gate"}
      PROVE  A(do, on) \in Harmless(fs, needs)
  <2>1. A(do, on) \in Accesses
    BY DEF Access, Accesses
  <2>2. A(do, on).do = do /\ A(do, on).on = on /\ A(do, on).reg = r
    BY DEF Access
  <2> HIDE DEF A
  <2> QED
    BY <1>1, <2>1, <2>2 DEF Harmless
<1> QED
  BY <1>1 DEF Read, Look, Gate

LEMMA SocRegs ==
  /\ \A n \in {0, 1} : /\ AcioGate(n) \in Regs /\ CpuGate(n) \in Regs /\ Acio(n) \in Regs
                       /\ Core(n) \in Regs
                       /\ AcioGate(n)[1] = "acio gate" /\ CpuGate(n)[1] = "cpu gate"
                       /\ Acio(n)[1] = "acio" /\ Core(n)[1] = "core"
  /\ \A n \in 0 .. 2 : ScanWord(n) \in Regs /\ ScanWord(n)[1] = "pmgr"
  /\ Rvbar \in Regs /\ Rvbar[1] = "rvbar" /\ Smp \in Regs /\ Smp[1] = "smp_start_secondaries"
  /\ \A off \in {4, 8} : CpuStart(off) \in Regs /\ CpuStart(off)[1] = "cpustart"
<1>1. \A n \in {0, 1} : /\ AcioGate(n) \in Regs /\ CpuGate(n) \in Regs /\ Acio(n) \in Regs
                        /\ Core(n) \in Regs
  BY DEF AcioGate, CpuGate, Acio, Core, Regs, SocNames
<1>2. \A n \in {0, 1} : /\ AcioGate(n)[1] = "acio gate" /\ CpuGate(n)[1] = "cpu gate"
                        /\ Acio(n)[1] = "acio" /\ Core(n)[1] = "core"
  BY DEF AcioGate, CpuGate, Acio, Core
<1>3. \A n \in 0 .. 2 : ScanWord(n) \in Regs /\ ScanWord(n)[1] = "pmgr"
  BY DEF ScanWord, Regs
<1>4. Rvbar \in Regs /\ Rvbar[1] = "rvbar" /\ Smp \in Regs /\ Smp[1] = "smp_start_secondaries"
  BY DEF Rvbar, Smp, Regs
<1>5. \A off \in {4, 8} : CpuStart(off) \in Regs /\ CpuStart(off)[1] = "cpustart"
  BY DEF CpuStart, Regs
<1> QED
  BY <1>1, <1>2, <1>3, <1>4, <1>5

LEMMA ShortSequences ==
  ASSUME NEW S, NEW a \in S, NEW b \in S, NEW c \in S, NEW d \in S
  PROVE  /\ <<a>> \in Seq(S) /\ <<a, b>> \in Seq(S) /\ <<a, b, c>> \in Seq(S)
         /\ <<a, b, c, d>> \in Seq(S)
  OBVIOUS

LEMMA SevenSequence ==
  ASSUME NEW S, NEW a \in S, NEW b \in S, NEW c \in S, NEW d \in S, NEW e \in S, NEW f \in S,
         NEW g \in S
  PROVE  <<a, b, c, d, e, f, g>> \in Seq(S)
  OBVIOUS

LEMMA SequencesJoin ==
  ASSUME NEW S, NEW s \in Seq(S), NEW t \in Seq(S)
  PROVE  s \o t \in Seq(S) /\ <<>> \in Seq(S)
  OBVIOUS

\* The probes of soc_bringup.py that read.
LEMMA SocReads ==
  ASSUME NEW fs
  PROVE  /\ SmpDiag \in Seq(PlainSet(fs)) /\ SocRecon \in Seq(PlainSet(fs))
         /\ CpustartDecode \in Seq(PlainSet(fs)) /\ CpustartScan \in Seq(PlainSet(fs))
         /\ CoreDiffScan \in Seq(PlainSet(fs)) /\ AcioStatus \in Seq(PlainSet(fs))
         /\ "smp_probe" \in fs => SmpProbe \in Seq(PlainSet(fs))
<1> DEFINE H(needs) == Harmless(fs, needs)
<1>1. /\ {} \in SUBSET Reachable /\ {"cpu gate"} \in SUBSET Reachable
      /\ {"acio gate"} \in SUBSET Reachable
  BY DEF Reachable
<1>2. /\ \A n \in {0, 1} : /\ Gate(CpuGate(n)) \in H({}) /\ Look(CpuGate(n)) \in H({})
                           /\ Gate(AcioGate(n)) \in H({}) /\ Look(AcioGate(n)) \in H({})
                           /\ Read(Core(n)) \in H({"cpu gate"})
                           /\ Read(Acio(n)) \in H({"acio gate"})
      /\ \A n \in 0 .. 2 : Read(ScanWord(n)) \in H({})
  <2>1. ASSUME NEW n \in {0, 1}
        PROVE  /\ Gate(CpuGate(n)) \in H({}) /\ Look(CpuGate(n)) \in H({})
               /\ Gate(AcioGate(n)) \in H({}) /\ Look(AcioGate(n)) \in H({})
    BY SocRegs, HarmlessReads DEF FirstTouchWindows
  <2>2. ASSUME NEW n \in {0, 1}
        PROVE  Read(Core(n)) \in H({"cpu gate"})
    <3>1. Core(n) \in Regs /\ Core(n)[1] = "core"
      BY SocRegs
    <3> QED
      BY <3>1, HarmlessReads DEF FirstTouchWindows
  <2>3. ASSUME NEW n \in {0, 1}
        PROVE  Read(Acio(n)) \in H({"acio gate"})
    <3>1. Acio(n) \in Regs /\ Acio(n)[1] = "acio"
      BY SocRegs
    <3> QED
      BY <3>1, HarmlessReads DEF FirstTouchWindows
  <2>4. ASSUME NEW n \in 0 .. 2
        PROVE  Read(ScanWord(n)) \in H({})
    BY SocRegs, HarmlessReads DEF FirstTouchWindows
  <2>5. 0 \in 0 .. 2
    OBVIOUS
  <2> HIDE DEF H
  <2> QED
    BY <2>1, <2>2, <2>3, <2>4, <2>5
<1>3. /\ Read(Rvbar) \in H({})
      /\ "smp_probe" \in fs => Read(Core(0)) \in H({})
      /\ Read(CpuStart(4)) \in H({}) /\ Read(CpuStart(8)) \in H({})
  BY SocRegs, HarmlessReads DEF FirstTouchWindows
<1> HIDE DEF H
<1>4. /\ <<Gate(CpuGate(0)), Gate(CpuGate(1))>> \in Seq(H({}))
      /\ <<Look(CpuGate(0)), Look(CpuGate(1))>> \in Seq(H({}))
      /\ <<Gate(AcioGate(0)), Gate(AcioGate(1))>> \in Seq(H({}))
      /\ <<Look(AcioGate(0)), Look(AcioGate(1))>> \in Seq(H({}))
  BY <1>2, ShortSequences
<1>5. /\ <<Read(Core(0)), Read(Core(1))>> \in Seq(H({"cpu gate"}))
      /\ <<Read(Acio(0)), Read(Acio(1))>> \in Seq(H({"acio gate"}))
  BY <1>2, ShortSequences
<1>6. /\ <<Read(ScanWord(0)), Read(ScanWord(0))>> \in Seq(H({}))
      /\ <<Read(ScanWord(0)), Read(ScanWord(1)), Read(ScanWord(2))>> \in Seq(H({}))
      /\ "smp_probe" \in fs =>
            <<Read(Rvbar), Read(Core(0)), Read(CpuStart(4)), Read(CpuStart(8))>>
                \in Seq(H({}))
  <2>1. /\ Read(ScanWord(0)) \in H({}) /\ Read(ScanWord(1)) \in H({})
        /\ Read(ScanWord(2)) \in H({})
    <3>1. 0 \in 0 .. 2 /\ 1 \in 0 .. 2 /\ 2 \in 0 .. 2
      OBVIOUS
    <3> QED
      BY <1>2, <3>1
  <2> QED
    BY <1>3, <2>1, ShortSequences
<1>7. /\ \A name \in PlainNames, ops \in Seq(H({})) :
            Bare(name, ops) \in Seq(PlainSet(fs))
      /\ \A name \in PlainNames, needs \in SUBSET Reachable : \A ops \in Seq(H(needs)) :
            Guarded(name, needs, ops) \in Seq(PlainSet(fs))
  BY <1>1, HarmlessProgram DEF H, Bare, Guarded
<1>8. {"smp diag", "recon", "decode", "scan", "core gates", "core diff", "acio gates", "acio",
       "smp probe"} \subseteq PlainNames
  BY DEF PlainNames, ProgramNames, Bringup
<1>9. SmpDiag \in Seq(PlainSet(fs)) /\ SocRecon \in Seq(PlainSet(fs))
  BY <1>4, <1>7, <1>8 DEF SmpDiag, SocRecon
<1>10. CpustartDecode \in Seq(PlainSet(fs)) /\ CpustartScan \in Seq(PlainSet(fs))
  BY <1>1, <1>6, <1>7, <1>8 DEF CpustartDecode, CpustartScan
<1>11. "smp_probe" \in fs => SmpProbe \in Seq(PlainSet(fs))
  BY <1>1, <1>6, <1>7, <1>8 DEF SmpProbe
<1>12. /\ Bare("core gates", <<Gate(CpuGate(0)), Gate(CpuGate(1))>>) \in Seq(PlainSet(fs))
       /\ Guarded("core diff", {"cpu gate"}, <<Read(Core(0)), Read(Core(1))>>) \in Seq(PlainSet(fs))
       /\ Bare("acio gates", <<Gate(AcioGate(0)), Gate(AcioGate(1))>>) \in Seq(PlainSet(fs))
       /\ Guarded("acio", {"acio gate"}, <<Read(Acio(0)), Read(Acio(1))>>) \in Seq(PlainSet(fs))
  BY <1>1, <1>4, <1>5, <1>7, <1>8
<1>13. CoreDiffScan \in Seq(PlainSet(fs)) /\ AcioStatus \in Seq(PlainSet(fs))
  BY <1>12, SequencesJoin DEF CoreDiffScan, AcioStatus
<1> QED
  BY <1>9, <1>10, <1>11, <1>13

LEMMA SmpStartProgram ==
  ASSUME NEW fs
  PROVE  SmpStart \in Seq(PlainSet(fs))
<1> DEFINE a == Access("write", "swallows", Smp, {0}, {})
<1>1. a \in Accesses /\ a.do = "write" /\ a.on = "swallows" /\ a.reg = Smp
  BY SocRegs, SomeBits DEF Access, Accesses
<1> HIDE DEF a
<1>2. a \in Harmless(fs, {})
  BY <1>1, SocRegs, RewrittenNames, TameRegsAreRegs DEF Harmless, FirstTouchWindows, StartWords
<1>3. <<a>> \in Seq(Harmless(fs, {})) /\ "smp start" \in PlainNames
  BY <1>2 DEF PlainNames, ProgramNames, Bringup
<1> QED
  BY <1>3, HarmlessProgram DEF SmpStart, Bare, a

\* The accesses of the release probe, one by one.
LEMMA ReleaseAccesses ==
  /\ Len(ReleaseOps) = 7
  /\ ReleaseOps = <<ReleaseOps[1], ReleaseOps[2], ReleaseOps[3], ReleaseOps[4], ReleaseOps[5],
                    ReleaseOps[6], ReleaseOps[7]>>
  /\ \A k \in 1 .. 7 : ReleaseOps[k] \in Accesses
  /\ ReleaseOps[1].do = "hold" /\ ReleaseOps[1].on = "leaves" /\ ReleaseOps[1].reg = Rvbar
  /\ ReleaseOps[1].set = {} /\ ReleaseOps[1].clear = {}
  /\ ReleaseOps[2].do = "read" /\ ReleaseOps[2].on = "drops" /\ ReleaseOps[2].reg = CpuStart(4)
  /\ ReleaseOps[2].set = {} /\ ReleaseOps[2].clear = {}
  /\ ReleaseOps[3].do = "read" /\ ReleaseOps[3].on = "swallows" /\ ReleaseOps[3].reg = CpuStart(8)
  /\ ReleaseOps[3].set = {} /\ ReleaseOps[3].clear = {}
  /\ ReleaseOps[4].do = "rmw" /\ ReleaseOps[4].on = "leaves" /\ ReleaseOps[4].reg = Rvbar
  /\ ReleaseOps[4].set = {} /\ ReleaseOps[4].clear = RvbarNotAddress
  /\ ReleaseOps[5].do = "stop if" /\ ReleaseOps[5].on = "leaves" /\ ReleaseOps[5].reg = Rvbar
  /\ ReleaseOps[5].set = {RvbarLock} /\ ReleaseOps[5].clear = {}
  /\ ReleaseOps[6].do = "write" /\ ReleaseOps[6].on = "leaves" /\ ReleaseOps[6].reg = CpuStart(4)
  /\ ReleaseOps[6].set = {1} /\ ReleaseOps[6].clear = Bits
  /\ ReleaseOps[7].do = "write" /\ ReleaseOps[7].on = "leaves" /\ ReleaseOps[7].reg = CpuStart(8)
  /\ ReleaseOps[7].set = {1} /\ ReleaseOps[7].clear = Bits
<1> DEFINE s == ReleaseOps
<1>1. /\ Len(s) = 7
      /\ s[1] = Access("hold", "leaves", Rvbar, {}, {})
      /\ s[2] = Access("read", "drops", CpuStart(4), {}, {})
      /\ s[3] = Watch(CpuStart(8))
      /\ s[4] = Access("rmw", "leaves", Rvbar, {}, RvbarNotAddress)
      /\ s[5] = Access("stop if", "leaves", Rvbar, {RvbarLock}, {})
      /\ s[6] = Access("write", "leaves", CpuStart(4), {1}, Bits)
      /\ s[7] = Access("write", "leaves", CpuStart(8), {1}, Bits)
  BY DEF ReleaseOps, SmpReleaseProbe, Bare, Program
<1>0. s = <<s[1], s[2], s[3], s[4], s[5], s[6], s[7]>>
  BY DEF ReleaseOps, SmpReleaseProbe, Bare, Program
<1>2. /\ {} \in SUBSET Bits /\ RvbarNotAddress \in SUBSET Bits /\ {RvbarLock} \in SUBSET Bits
      /\ {1} \in SUBSET Bits /\ Bits \in SUBSET Bits
  BY DEF RvbarNotAddress, RvbarLock, Bits
<1>31. /\ s[1] \in Accesses /\ s[1].do = "hold" /\ s[1].on = "leaves" /\ s[1].reg = Rvbar
      /\ s[1].set = {} /\ s[1].clear = {}
  <2> DEFINE a == Access("hold", "leaves", Rvbar, {}, {})
  <2>1. /\ a \in Accesses /\ a.do = "hold" /\ a.on = "leaves" /\ a.reg = Rvbar
        /\ a.set = {} /\ a.clear = {}
    BY <1>2, SocRegs DEF Access, Accesses
  <2>2. s[1] = a
    BY <1>1
  <2> HIDE DEF a
  <2> QED
    BY <2>1, <2>2
<1>32. /\ s[2] \in Accesses /\ s[2].do = "read" /\ s[2].on = "drops" /\ s[2].reg = CpuStart(4)
      /\ s[2].set = {} /\ s[2].clear = {}
  <2> DEFINE a == Access("read", "drops", CpuStart(4), {}, {})
  <2>1. /\ a \in Accesses /\ a.do = "read" /\ a.on = "drops" /\ a.reg = CpuStart(4)
        /\ a.set = {} /\ a.clear = {}
    BY <1>2, SocRegs DEF Access, Accesses
  <2>2. s[2] = a
    BY <1>1
  <2> HIDE DEF a
  <2> QED
    BY <2>1, <2>2
<1>33. /\ s[3] \in Accesses /\ s[3].do = "read" /\ s[3].on = "swallows" /\ s[3].reg = CpuStart(8)
      /\ s[3].set = {} /\ s[3].clear = {}
  <2> DEFINE a == Access("read", "swallows", CpuStart(8), {}, {})
  <2>1. /\ a \in Accesses /\ a.do = "read" /\ a.on = "swallows" /\ a.reg = CpuStart(8)
        /\ a.set = {} /\ a.clear = {}
    BY <1>2, SocRegs DEF Access, Accesses
  <2>2. s[3] = a
    BY <1>1 DEF Watch
  <2> HIDE DEF a
  <2> QED
    BY <2>1, <2>2
<1>34. /\ s[4] \in Accesses /\ s[4].do = "rmw" /\ s[4].on = "leaves" /\ s[4].reg = Rvbar
      /\ s[4].set = {} /\ s[4].clear = RvbarNotAddress
  <2> DEFINE a == Access("rmw", "leaves", Rvbar, {}, RvbarNotAddress)
  <2>1. /\ a \in Accesses /\ a.do = "rmw" /\ a.on = "leaves" /\ a.reg = Rvbar
        /\ a.set = {} /\ a.clear = RvbarNotAddress
    BY <1>2, SocRegs DEF Access, Accesses
  <2>2. s[4] = a
    BY <1>1
  <2> HIDE DEF a
  <2> QED
    BY <2>1, <2>2
<1>35. /\ s[5] \in Accesses /\ s[5].do = "stop if" /\ s[5].on = "leaves" /\ s[5].reg = Rvbar
      /\ s[5].set = {RvbarLock} /\ s[5].clear = {}
  <2> DEFINE a == Access("stop if", "leaves", Rvbar, {RvbarLock}, {})
  <2>1. /\ a \in Accesses /\ a.do = "stop if" /\ a.on = "leaves" /\ a.reg = Rvbar
        /\ a.set = {RvbarLock} /\ a.clear = {}
    BY <1>2, SocRegs DEF Access, Accesses
  <2>2. s[5] = a
    BY <1>1
  <2> HIDE DEF a
  <2> QED
    BY <2>1, <2>2
<1>36. /\ s[6] \in Accesses /\ s[6].do = "write" /\ s[6].on = "leaves" /\ s[6].reg = CpuStart(4)
      /\ s[6].set = {1} /\ s[6].clear = Bits
  <2> DEFINE a == Access("write", "leaves", CpuStart(4), {1}, Bits)
  <2>1. /\ a \in Accesses /\ a.do = "write" /\ a.on = "leaves" /\ a.reg = CpuStart(4)
        /\ a.set = {1} /\ a.clear = Bits
    BY <1>2, SocRegs DEF Access, Accesses
  <2>2. s[6] = a
    BY <1>1
  <2> HIDE DEF a
  <2> QED
    BY <2>1, <2>2
<1>37. /\ s[7] \in Accesses /\ s[7].do = "write" /\ s[7].on = "leaves" /\ s[7].reg = CpuStart(8)
      /\ s[7].set = {1} /\ s[7].clear = Bits
  <2> DEFINE a == Access("write", "leaves", CpuStart(8), {1}, Bits)
  <2>1. /\ a \in Accesses /\ a.do = "write" /\ a.on = "leaves" /\ a.reg = CpuStart(8)
        /\ a.set = {1} /\ a.clear = Bits
    BY <1>2, SocRegs DEF Access, Accesses
  <2>2. s[7] = a
    BY <1>1
  <2> HIDE DEF a
  <2> QED
    BY <2>1, <2>2
<1>4. \A k \in 1 .. 7 : s[k] \in Accesses
  <2>1. \A k \in 1 .. 7 : k \in {1, 2, 3, 4, 5, 6, 7}
    OBVIOUS
  <2>2. /\ s[1] \in Accesses /\ s[2] \in Accesses /\ s[3] \in Accesses /\ s[4] \in Accesses
        /\ s[5] \in Accesses /\ s[6] \in Accesses /\ s[7] \in Accesses
    BY <1>31, <1>32, <1>33, <1>34, <1>35, <1>36, <1>37, Zenon
  <2> QED
    BY <2>1, <2>2
<1>5. Len(s) = 7
  BY <1>1
<1> QED
  BY <1>0, <1>4, <1>5, <1>31, <1>32, <1>33, <1>34, <1>35, <1>36, <1>37, Zenon DEF s

\* The release probe reads the word it rewrites three accesses later, and no
\* failure leads in between.
LEMMA ReleaseProgram ==
  ASSUME NEW fs
  PROVE  SmpReleaseProbe \in Seq(PlainSet(fs))
<1> DEFINE s == ReleaseOps
           p == Program("release", "none", FALSE, {}, s)
<1>0. SmpReleaseProbe = <<p>>
  BY DEF ReleaseOps, SmpReleaseProbe, Bare, Program
<1>4. /\ Len(s) = 7 /\ \A k \in 1 .. 7 : s[k] \in Accesses
      /\ s = <<s[1], s[2], s[3], s[4], s[5], s[6], s[7]>>
  BY ReleaseAccesses
<1>31. /\ s[1].do = "hold" /\ s[1].on = "leaves" /\ s[1].reg = Rvbar
      /\ s[1].set = {} /\ s[1].clear = {}
  BY ReleaseAccesses, Zenon
<1>32. /\ s[2].do = "read" /\ s[2].on = "drops" /\ s[2].reg = CpuStart(4)
      /\ s[2].set = {} /\ s[2].clear = {}
  BY ReleaseAccesses, Zenon
<1>33. /\ s[3].do = "read" /\ s[3].on = "swallows" /\ s[3].reg = CpuStart(8)
      /\ s[3].set = {} /\ s[3].clear = {}
  BY ReleaseAccesses, Zenon
<1>34. /\ s[4].do = "rmw" /\ s[4].on = "leaves" /\ s[4].reg = Rvbar
      /\ s[4].set = {} /\ s[4].clear = RvbarNotAddress
  BY ReleaseAccesses, Zenon
<1>35. /\ s[5].do = "stop if" /\ s[5].on = "leaves" /\ s[5].reg = Rvbar
      /\ s[5].set = {RvbarLock} /\ s[5].clear = {}
  BY ReleaseAccesses, Zenon
<1>36. /\ s[6].do = "write" /\ s[6].on = "leaves" /\ s[6].reg = CpuStart(4)
      /\ s[6].set = {1} /\ s[6].clear = Bits
  BY ReleaseAccesses, Zenon
<1>37. /\ s[7].do = "write" /\ s[7].on = "leaves" /\ s[7].reg = CpuStart(8)
      /\ s[7].set = {1} /\ s[7].clear = Bits
  BY ReleaseAccesses, Zenon
<1> HIDE DEF s
<1>6. s \in Seq(Accesses)
  <2>1. /\ s[1] \in Accesses /\ s[2] \in Accesses /\ s[3] \in Accesses /\ s[4] \in Accesses
        /\ s[5] \in Accesses /\ s[6] \in Accesses /\ s[7] \in Accesses
    BY <1>4
  <2>2. <<s[1], s[2], s[3], s[4], s[5], s[6], s[7]>> \in Seq(Accesses)
    BY <2>1, SevenSequence
  <2> QED
    BY <1>4, <2>2
<1>7. /\ Lands(s, 1) = 8 /\ Lands(s, 2) = 4 /\ Lands(s, 3) = 4 /\ Lands(s, 4) = 8
      /\ Lands(s, 5) = 8 /\ Lands(s, 6) = 8 /\ Lands(s, 7) = 8
  <2>1. /\ s[1].on = "leaves" /\ s[2].on = "drops" /\ s[3].on = "swallows" /\ s[4].on = "leaves"
        /\ s[5].on = "leaves" /\ s[6].on = "leaves" /\ s[7].on = "leaves"
    BY <1>31, <1>32, <1>33, <1>34, <1>35, <1>36, <1>37, Zenon
  <2> QED
    BY <1>4, <2>1 DEF Lands, Skips
<1>8. \A i \in 1 .. Len(s) : i \in {1, 2, 3, 4, 5, 6, 7}
  BY <1>4
<1>9. Fits(s)
  BY <1>7, <1>8, <1>4 DEF Fits
<1>10. Feeds(s, 1, 4)
  <2>1. \A k \in 1 + 1 .. 4 - 1 : k \in {2, 3}
    OBVIOUS
  <2>2. \A k \in 1 .. 1 : k = 1
    OBVIOUS
  <2>3. 8 \notin 1 + 1 .. 4
    OBVIOUS
  <2> QED
    BY <1>31, <1>32, <1>33, <1>34, <1>35, <1>36, <1>37, <1>7, <2>1, <2>2, <2>3 DEF Feeds
<1>11. Paired(s)
  <2>1. \A i \in 1 .. Len(s) : s[i].do = "rmw" => i = 4
    BY <1>31, <1>32, <1>33, <1>34, <1>35, <1>36, <1>37, <1>8
  <2>2. 1 \in 1 .. 4 - 1
    OBVIOUS
  <2> QED
    BY <1>10, <2>1, <2>2 DEF Paired
<1>12. Pin0[1] = "perst"
  BY DEF Pin0, Perst
<1>16. \A i \in 1 .. Len(s) : s[i].reg[1] \in {"rvbar", "cpustart"} /\ s[i].do \notin {"gate", "init"}
  <2>1. /\ Rvbar[1] = "rvbar" /\ CpuStart(4)[1] = "cpustart" /\ CpuStart(8)[1] = "cpustart"
    BY SocRegs
  <2>2. \A i \in {1, 4, 5} : s[i].reg[1] = "rvbar" /\ s[i].do \notin {"gate", "init"}
    BY <1>31, <1>34, <1>35, <2>1
  <2>3. \A i \in {2, 3, 6, 7} : s[i].reg[1] = "cpustart" /\ s[i].do \notin {"gate", "init"}
    BY <1>32, <1>33, <1>36, <1>37, <2>1
  <2> QED
    BY <1>8, <2>2, <2>3
<1>13. Restores(s)
  BY <1>8, <1>12, <1>16 DEF Restores, Lowers
<1>14. s \in Orderly
  BY <1>6, <1>9, <1>11, <1>13 DEF Orderly
<1>15. /\ p \in [name : ProgramNames, guarding : {"none", "section", "access"}, gated : BOOLEAN,
                 needs : SUBSET Reachable, ops : Orderly]
       /\ p.ops = s /\ p.guarding = "none" /\ p.needs = {} /\ p.name = "release"
  BY <1>14 DEF Program, ProgramNames
<1> HIDE DEF p
<1>17. TouchesNeeded(p, fs) /\ ClocksNeeded(p, fs) /\ GatesFlagged(p) /\ GuardFits(p)
  BY <1>12, <1>15, <1>16 DEF TouchesNeeded, ClocksNeeded, GatesFlagged, GuardFits, FirstTouchWindows
<1>18. StrobesInRelease(p)
  BY <1>15 DEF StrobesInRelease, s
<1>19. WritesMeant(p, fs)
  <2>1. Meant(Rvbar) = RvbarNotAddress
    BY SocRegs, Zenon DEF Meant
  <2>2. \A r \in Rewritten : r[1] # "cpustart"
    BY RewrittenNames
  <2>3. s[4].set \cup s[4].clear \subseteq Meant(s[4].reg)
    BY <1>31, <1>32, <1>33, <1>34, <1>35, <1>36, <1>37, <2>1
  <2> SUFFICES ASSUME NEW i \in 1 .. Len(s), s[i].do \in Writing
               PROVE  /\ s[i].reg[1] \notin {"acio gate", "cpu gate"}
                      /\ s[i].reg \in Rewritten =>
                            s[i].do = "rmw" /\ s[i].set \cup s[i].clear \subseteq Meant(s[i].reg)
    BY <1>15 DEF WritesMeant
  <2>4. i = 4 \/ i = 6 \/ i = 7
    BY <1>31, <1>32, <1>33, <1>34, <1>35, <1>36, <1>37, <1>8 DEF Writing
  <2>5. CASE i = 4
    BY <1>31, <1>32, <1>33, <1>34, <1>35, <1>36, <1>37, <1>16, <2>3, <2>5
  <2>6. CASE i = 6 \/ i = 7
    BY <1>31, <1>32, <1>33, <1>34, <1>35, <1>36, <1>37, <1>16, <2>2, <2>6, SocRegs
  <2> QED
    BY <2>4, <2>5, <2>6
<1>20. p.name \in PlainNames /\ \A i \in 1 .. Len(s) : Aside(s[i])
  BY <1>15, <1>16, TameRegsAreRegs DEF PlainNames, ProgramNames, Bringup, Aside, StartWords
<1>21. p \in PlainSet(fs)
  BY <1>15, <1>17, <1>18, <1>19, <1>20, PlainNamed DEF ProgramSet, PlainSet
<1> QED
  BY <1>0, <1>21, ShortSequences

LEMMA OptJoins ==
  ASSUME NEW S, NEW c \in BOOLEAN, NEW s, c => s \in Seq(S)
  PROVE  Opt(c, s) \in Seq(S)
  BY SequencesJoin DEF Opt

\* What a flag adds to a list of programs.
LEMMA FlagJoins ==
  ASSUME NEW S, NEW flag, NEW set, NEW s, flag \in set => s \in Seq(S)
  PROVE  Opt(flag \in set, s) \in Seq(S)
  BY SequencesJoin DEF Opt

LEMMA ScanPrograms ==
  ASSUME NEW fs
  PROVE  ReachableScan \in Seq(PlainSet(fs))
<1>1. ASSUME NEW w \in Windows
      PROVE  Guarded("scan", Needs(w), <<Read(<<w, 0>>)>>) \in Seq(PlainSet(fs))
  <2> DEFINE r == <<w, 0>>
  <2>1. r \in Regs /\ r[1] = w
    BY DEF Regs, Offsets
  <2>2. Needs(w) \in SUBSET Reachable /\ w \notin FirstTouchWindows \ Needs(w)
    BY DEF Needs, Reachable
  <2>3. w # "acio" /\ w # "core"
    BY DEF Windows
  <2>4. Read(r) \in Harmless(fs, Needs(w))
    BY <2>1, <2>2, <2>3, HarmlessReads
  <2>5. <<Read(r)>> \in Seq(Harmless(fs, Needs(w))) /\ "scan" \in PlainNames
    BY <2>4, ShortSequences DEF PlainNames, ProgramNames, Bringup
  <2> QED
    BY <2>2, <2>5, HarmlessProgram DEF Guarded
<1>2. {"rc", "phy_common", "phy_shared", "axi", "axi_sub5", "axi_sub6"} \subseteq Windows
  BY DEF Windows
<1> QED
  BY <1>1, <1>2, SequencesJoin DEF ReachableScan

\* The write test is the one program that writes what it has not read, and a
\* window that has not answered.
LEMMA WriteTestProgram ==
  ASSUME NEW fs, NEW write \in BOOLEAN, write => "naked_write_test" \in fs
  PROVE  Guarded("write test", {}, NakedWriteTest(write)) \in Seq(PlainSet(fs))
<1> DEFINE H == Harmless(fs, FirstTouchWindows)
           pre(t) == Access("touch", "checks", <<t.window, 0>>, {}, {})
           rest(t) == <<Write32(<<t.window, 0>>, t.value), Read(<<t.window, 0>>)>>
           target(t) == <<pre(t)>> \o Opt(write, rest(t))
           Targets == [window : {"axi_sub5", "axi_sub6", "rc", "axi"}, value : SUBSET Bits]
<1>1. ASSUME NEW t \in Targets
      PROVE  pre(t) \in H
  <2> DEFINE r == <<t.window, 0>>
  <2>1. r \in Regs /\ r[1] \in {"axi_sub5", "axi_sub6", "rc", "axi"}
    BY DEF Regs, Windows, Offsets
  <2> HIDE DEF r
  <2>2. /\ Access("touch", "checks", r, {}, {}) \in Accesses
        /\ Access("touch", "checks", r, {}, {}).do = "touch"
        /\ Access("touch", "checks", r, {}, {}).on = "checks"
        /\ Access("touch", "checks", r, {}, {}).reg = r
    BY <2>1 DEF Access, Accesses
  <2>3. Access("touch", "checks", r, {}, {}) \in H
    BY <2>1, <2>2 DEF Harmless, FirstTouchWindows
  <2> QED
    BY <2>3 DEF r
<1>2. ASSUME NEW t \in Targets, write
      PROVE  Write32(<<t.window, 0>>, t.value) \in H /\ Read(<<t.window, 0>>) \in H
  <2> DEFINE r == <<t.window, 0>>
             a == Access("write", "checks", r, t.value, Bits)
             b == Access("read", "checks", r, {}, {})
  <2>1. r \in Regs /\ r[1] \in {"axi_sub5", "axi_sub6", "rc", "axi"} /\ r # RcCtl
    BY DEF Regs, Windows, Offsets, RcCtl
  <2> HIDE DEF r
  <2>2. /\ a \in Accesses /\ a.do = "write" /\ a.on = "checks" /\ a.reg = r
        /\ b \in Accesses /\ b.do = "read" /\ b.on = "checks" /\ b.reg = r
    BY <2>1 DEF Access, Accesses
  <2> HIDE DEF a, b
  <2>3. a \in H /\ b \in H
    BY <1>2, <2>1, <2>2 DEF Harmless, StartWords, FirstTouchWindows
  <2> QED
    BY <2>3 DEF a, b, r, Write32, Read
<1>3. ASSUME NEW t \in Targets
      PROVE  target(t) \in Seq(H)
  <2> HIDE DEF H
  <2>1. <<pre(t)>> \in Seq(H)
    BY <1>1, ShortSequences
  <2>2. write => rest(t) \in Seq(H)
    BY <1>2, ShortSequences
  <2>3. Opt(write, rest(t)) \in Seq(H)
    BY <2>2, OptJoins
  <2> QED
    BY <2>1, <2>3, SequencesJoin
<1>4. \A i \in {1, 2, 3, 4} : NakedTargets[i] \in Targets
  BY DEF NakedTargets, Target, Bits
<1>5. NakedWriteTest(write) = target(NakedTargets[1]) \o target(NakedTargets[2])
                              \o target(NakedTargets[3]) \o target(NakedTargets[4])
  BY DEF NakedWriteTest
<1> HIDE DEF target, Targets, H
<1>6. NakedWriteTest(write) \in Seq(H)
  <2>1. /\ target(NakedTargets[1]) \in Seq(H) /\ target(NakedTargets[2]) \in Seq(H)
        /\ target(NakedTargets[3]) \in Seq(H) /\ target(NakedTargets[4]) \in Seq(H)
    BY <1>3, <1>4
  <2> QED
    BY <1>5, <2>1, SequencesJoin
<1>7. "write test" \in PlainNames /\ {} \in SUBSET Reachable
  BY DEF PlainNames, ProgramNames, Bringup
<1> QED
  BY <1>6, <1>7, SeenProgram DEF Guarded, H, Granted

LEMMA PhaseFPrograms ==
  ASSUME NEW o
  PROVE  PhaseF(o) \in Seq(PlainSet(o.flags))
<1> DEFINE S == PlainSet(o.flags)
           diag == Opt("reachable_scan" \in o.flags, ReachableScan)
<1>1. diag \in Seq(S)
  BY ScanPrograms, FlagJoins
<1>2. /\ Apply("axi", "axi2af") \in Seq(S) /\ Apply("axi_sub5", "pcieclkgen") \in Seq(S)
      /\ Apply("axi_sub5", "cio3pllcore") \in Seq(S) /\ Apply("phy_common", "cio3pllcore") \in Seq(S)
  <2>1. \A t \in Tuned : Apply(t[1], t[2]) \in Seq(S)
    BY ApplyProgram
  <2>2. /\ <<"axi", "axi2af">> \in Tuned /\ <<"axi_sub5", "pcieclkgen">> \in Tuned
        /\ <<"axi_sub5", "cio3pllcore">> \in Tuned /\ <<"phy_common", "cio3pllcore">> \in Tuned
    BY DEF Tuned
  <2> HIDE DEF S
  <2> QED
    BY <2>1, <2>2
<1>3. /\ "naked_write_test" \in o.flags =>
            Guarded("write test", {}, NakedWriteTest(TRUE)) \in Seq(S)
      /\ Guarded("write test", {}, NakedWriteTest(FALSE)) \in Seq(S)
  BY WriteTestProgram
<1> HIDE DEF S, diag
<1>4. /\ Opt("naked_write_test" \in o.flags,
             Guarded("write test", {}, NakedWriteTest(TRUE)) \o diag) \in Seq(S)
      /\ Opt("naked_readonly" \in o.flags,
             Guarded("write test", {}, NakedWriteTest(FALSE)) \o diag) \in Seq(S)
      /\ Opt("axi2af_naked" \in o.flags, Apply("axi", "axi2af") \o diag) \in Seq(S)
      /\ Opt("pcieclkgen_naked" \in o.flags, Apply("axi_sub5", "pcieclkgen") \o diag) \in Seq(S)
      /\ Opt("cio3_sub5" \in o.flags, Apply("axi_sub5", "cio3pllcore") \o diag) \in Seq(S)
      /\ Opt("cio3_common" \in o.flags, Apply("phy_common", "cio3pllcore") \o diag) \in Seq(S)
  BY <1>1, <1>2, <1>3, SequencesJoin, FlagJoins
<1> QED
  BY <1>1, <1>4, SequencesJoin DEF PhaseF, S, diag

LEMMA SocMainPrograms ==
  ASSUME NEW o
  PROVE  SocMain(o) \in Seq(PlainSet(o.flags))
<1> DEFINE S == PlainSet(o.flags)
<1>1. /\ SmpStart \in Seq(S) /\ SmpDiag \in Seq(S) /\ SocRecon \in Seq(S)
      /\ CpustartDecode \in Seq(S) /\ CpustartScan \in Seq(S) /\ SmpReleaseProbe \in Seq(S)
      /\ CoreDiffScan \in Seq(S) /\ AcioStatus \in Seq(S)
      /\ "smp_probe" \in o.flags => SmpProbe \in Seq(S)
  BY SmpStartProgram, SocReads, ReleaseProgram
<1> HIDE DEF S
<1>2. /\ Opt("smp_start" \in o.flags, SmpStart) \in Seq(S)
      /\ Opt("smp_diag" \in o.flags, SmpDiag) \in Seq(S)
      /\ Opt("smp_probe" \in o.flags, SmpProbe) \in Seq(S)
      /\ Opt("cpustart_decode" \in o.flags, CpustartDecode) \in Seq(S)
      /\ Opt("cpustart_scan" \in o.flags, CpustartScan) \in Seq(S)
      /\ Opt("smp_release_probe" \in o.flags, SmpReleaseProbe) \in Seq(S)
      /\ Opt("core_diff_scan" \in o.flags, CoreDiffScan) \in Seq(S)
      /\ Opt("soc_recon" \in o.flags, SocRecon) \in Seq(S)
      /\ Opt("acio_status" \in o.flags, AcioStatus) \in Seq(S)
  BY <1>1, FlagJoins
<1> QED
  BY <1>2, SequencesJoin DEF SocMain, S

-----------------------------------------------------------------------------
(* The programs that start ports, and those that do not.                   *)

LEMMA EachJoins ==
  ASSUME NEW S, NEW a, NEW b, NEW c, 0 \in ActivePorts => a \in Seq(S),
         1 \in ActivePorts => b \in Seq(S), 2 \in ActivePorts => c \in Seq(S)
  PROVE  Opt(0 \in ActivePorts, a) \o Opt(1 \in ActivePorts, b) \o Opt(2 \in ActivePorts, c)
             \in Seq(S)
<1>1. /\ Opt(0 \in ActivePorts, a) \in Seq(S) /\ Opt(1 \in ActivePorts, b) \in Seq(S)
      /\ Opt(2 \in ActivePorts, c) \in Seq(S)
  BY FlagJoins
<1> QED
  BY <1>1, SequencesJoin

AsideSet == {a \in Accesses : Aside(a)}

LEMMA AsideAll ==
  ASSUME NEW s \in Seq(AsideSet)
  PROVE  \A i \in 1 .. Len(s) : Aside(s[i])
  BY DEF AsideSet

LEMMA AsideAccesses ==
  ASSUME NEW i \in Ports
  PROVE  /\ \A r \in {Lane(i), PortWord(i), Ltssm(i), Start(i), RcCtl, Smc, PhyCommon} :
                Read(r) \in AsideSet /\ Watch(r) \in AsideSet
         /\ \A bits \in SUBSET Bits : Set32(Lane(i), bits) \in AsideSet
<1>1. \A r \in {Lane(i), PortWord(i), Ltssm(i), Start(i), RcCtl, Smc, PhyCommon} : r \in Regs
  BY TameRegsAreRegs, PortRegs DEF TameRegs
<1>2. ASSUME NEW r \in Regs
      PROVE  Read(r) \in AsideSet /\ Watch(r) \in AsideSet
  BY DEF Read, Watch, Access, Accesses, AsideSet, Aside, Writing
<1>3. ASSUME NEW bits \in SUBSET Bits
      PROVE  Set32(Lane(i), bits) \in AsideSet
  <2> DEFINE a == Set32(Lane(i), bits)
  <2>1. a \in Accesses /\ a.do = "write" /\ a.reg = Lane(i)
    BY <1>1 DEF Set32, Access, Accesses
  <2>2. Lane(i)[1] = "phy+0x000"
    BY DEF Lane
  <2>3. Aside(a)
    BY <2>1, <2>2, TameRegsAreRegs DEF Aside, StartWords
  <2> QED
    BY <2>1, <2>3 DEF AsideSet
<1> QED
  BY <1>1, <1>2, <1>3

LEMMA ReadsAside ==
  ASSUME NEW tier
  PROVE  Dump(tier) \in Seq(AsideSet) /\ WatchLinksts \in Seq(AsideSet)
         /\ EndpointDiag \in Seq(AsideSet)
<1> DEFINE S == AsideSet
<1>1. ASSUME NEW i \in Ports
      PROVE  /\ <<Read(PortWord(i))>> \in Seq(S) /\ <<Read(Lane(i))>> \in Seq(S)
             /\ <<Read(Ltssm(i)), Read(Start(i))>> \in Seq(S)
             /\ <<Read(RcCtl)>> \in Seq(S) /\ <<Watch(PortWord(i))>> \in Seq(S)
             /\ <<Watch(Smc)>> \in Seq(S) /\ <<Read(PhyCommon)>> \in Seq(S)
  <2> HIDE DEF S
  <2>1. /\ Read(PortWord(i)) \in S /\ Read(Ltssm(i)) \in S /\ Read(Start(i)) \in S
        /\ Read(Lane(i)) \in S /\ Read(RcCtl) \in S /\ Watch(PortWord(i)) \in S
        /\ Watch(Smc) \in S /\ Read(PhyCommon) \in S
    BY AsideAccesses DEF S
  <2> QED
    BY <2>1, ShortSequences
<1> HIDE DEF S
<1>2. /\ <<Read(PortWord(0))>> \in Seq(S) /\ <<Read(PortWord(1))>> \in Seq(S)
      /\ <<Read(PortWord(2))>> \in Seq(S) /\ <<Read(Lane(0))>> \in Seq(S)
      /\ <<Read(Lane(1))>> \in Seq(S) /\ <<Read(Lane(2))>> \in Seq(S)
      /\ <<Read(Ltssm(0)), Read(Start(0))>> \in Seq(S)
      /\ <<Read(Ltssm(1)), Read(Start(1))>> \in Seq(S)
      /\ <<Read(Ltssm(2)), Read(Start(2))>> \in Seq(S)
      /\ <<Watch(PortWord(0))>> \in Seq(S) /\ <<Watch(PortWord(1))>> \in Seq(S)
      /\ <<Watch(PortWord(2))>> \in Seq(S)
      /\ <<Read(RcCtl)>> \in Seq(S) /\ <<Watch(Smc)>> \in Seq(S) /\ <<Read(PhyCommon)>> \in Seq(S)
  BY <1>1, PortsAre
<1>3. WatchLinksts \in Seq(S)
  BY <1>2, EachJoins DEF WatchLinksts, EachPort
<1>4. EndpointDiag \in Seq(S)
  BY <1>2, EachJoins, SequencesJoin DEF EndpointDiag, EachPort
<1>5. Dump(tier) \in Seq(S)
  <2> DEFINE links == Opt(0 \in ActivePorts, <<Read(PortWord(0))>>)
                      \o Opt(1 \in ActivePorts, <<Read(PortWord(1))>>)
                      \o Opt(2 \in ActivePorts, <<Read(PortWord(2))>>)
             lanes == Opt(0 \in ActivePorts, <<Read(Lane(0))>>)
                      \o Opt(1 \in ActivePorts, <<Read(Lane(1))>>)
                      \o Opt(2 \in ActivePorts, <<Read(Lane(2))>>)
             words == Opt(0 \in ActivePorts, <<Read(Ltssm(0)), Read(Start(0))>>)
                      \o Opt(1 \in ActivePorts, <<Read(Ltssm(1)), Read(Start(1))>>)
                      \o Opt(2 \in ActivePorts, <<Read(Ltssm(2)), Read(Start(2))>>)
  <2>1. links \in Seq(S) /\ lanes \in Seq(S) /\ words \in Seq(S)
    BY <1>2, EachJoins
  <2>2. Dump(tier) = <<Read(RcCtl)>> \o links
                     \o Opt(tier = 3, <<Read(PhyCommon)>> \o lanes \o words)
    BY DEF Dump, EachPort
  <2> HIDE DEF links, lanes, words
  <2>3. Opt(tier = 3, <<Read(PhyCommon)>> \o lanes \o words) \in Seq(S)
    BY <1>2, <2>1, SequencesJoin DEF Opt
  <2> QED
    BY <1>2, <2>1, <2>2, <2>3, SequencesJoin
<1> QED
  BY <1>3, <1>4, <1>5 DEF S

LEMMA RefclkAside ==
  ASSUME NEW i \in Ports, NEW cgen
  PROVE  SetupRefclk(i, cgen) \in Seq(AsideSet)
<1> DEFINE S == AsideSet
<1>1. /\ Read(Lane(i)) \in S /\ Read(PortWord(i)) \in S /\ PollAck(i) \in S
      /\ Set32(Lane(i), {0}) \in S /\ Set32(Lane(i), {1}) \in S /\ Set32(Lane(i), {9, 10}) \in S
      /\ Set32(Lane(i), {30, 31}) \in S
  BY AsideAccesses, SomeBits DEF PollAck
<1> HIDE DEF S
<1>2. /\ Snap(i) \in Seq(S) /\ <<Set32(Lane(i), {30, 31})>> \in Seq(S)
      /\ <<Set32(Lane(i), {0}), PollAck(i), Set32(Lane(i), {1}), PollAck(i),
           Set32(Lane(i), {9, 10})>> \in Seq(S)
  BY <1>1 DEF Snap
<1>3. Opt(cgen, <<Set32(Lane(i), {30, 31})>>) \in Seq(S)
  BY <1>2, SequencesJoin DEF Opt
<1> QED
  BY <1>2, <1>3, SequencesJoin DEF SetupRefclk, S

LEMMA PinAside ==
  ASSUME NEW r \in {Clkreq, Pin0}, NEW set, NEW clear
  PROVE  \A i \in 1 .. Len(Pin(r, set, clear)) : Aside(Pin(r, set, clear)[i])
<1>1. r[1] \in {"clkreq", "perst"} /\ RcCtl[1] = "rc"
  BY TameRegsAreRegs
<1> DEFINE a == Access("hold", "leaves", r, {}, {})
           b == Access("rmw", "leaves", r, set, clear)
           c == Access("read", "leaves", r, {}, {})
           s == <<a, b, c>>
<1>2. /\ a.do = "hold" /\ b.do = "rmw" /\ c.do = "read" /\ b.reg = r
  BY DEF Access
<1> HIDE DEF a, b, c
<1>3. Aside(a) /\ Aside(b) /\ Aside(c)
  BY <1>1, <1>2 DEF Aside, Writing, StartWords
<1>4. Len(s) = 3 /\ s[1] = a /\ s[2] = b /\ s[3] = c
  OBVIOUS
<1> HIDE DEF s
<1>5. \A i \in 1 .. Len(s) : Aside(s[i])
  BY <1>3, <1>4
<1> QED
  BY <1>5 DEF s, a, b, c, Pin

\* What holds of the programs that start ports, part by part.  mode: whether
\* they may enter config-write mode.
PartOf(mode, a) ==
    /\ Starts(a) => \E n \in ActivePorts : a.reg = Start(n)
    /\ a.do \in Writing /\ a.reg = RcCtl => mode /\ a.do = "write"

Parts(mode) ==
    {s \in Seq(Accesses) : Recovers(s) /\ \A i \in 1 .. Len(s) : PartOf(mode, s[i])}

LEMMA RecoversConcat ==
  ASSUME NEW s \in Seq(Accesses), NEW t \in Seq(Accesses), Recovers(s), Recovers(t)
  PROVE  Recovers(s \o t)
<1> SUFFICES ASSUME NEW n \in Ports, NEW i \in 1 .. Len(s) + Len(t), ResetBy((s \o t)[i], n)
             PROVE  \E j \in i + 1 .. Len(s) + Len(t) : FreesFrom(s \o t, i + 1, j, n)
  BY ConcatAt DEF Recovers
<1> DEFINE m == Len(s)
<1>1. m \in Nat /\ Len(t) \in Nat
  OBVIOUS
<1>2. /\ \A k \in 1 .. m : (s \o t)[k] = s[k]
      /\ \A k \in m + 1 .. m + Len(t) : (s \o t)[k] = t[k - m] /\ k - m \in 1 .. Len(t)
  BY ConcatAt
<1>3. CASE i \in 1 .. m
  <2>1. PICK j \in i + 1 .. m : FreesFrom(s, i + 1, j, n)
    BY <1>2, <1>3 DEF Recovers
  <2>2. \A k \in i + 1 .. j : (s \o t)[k] = s[k]
    BY <1>1, <1>2, <1>3, <2>1
  <2>3. j \in i + 1 .. j /\ j \in i + 1 .. m + Len(t)
    BY <1>1, <1>3, <2>1
  <2> QED
    BY <2>1, <2>2, <2>3 DEF FreesFrom
<1>4. CASE i \in m + 1 .. m + Len(t)
  <2> DEFINE d == i - m
  <2>1. d \in 1 .. Len(t) /\ ResetBy(t[d], n) /\ i = m + d
    BY <1>1, <1>2, <1>4
  <2> HIDE DEF d, m
  <2>2. PICK j \in d + 1 .. Len(t) : FreesFrom(t, d + 1, j, n)
    BY <2>1 DEF Recovers
  <2>3. \A k \in i + 1 .. m + j : k \in m + 1 .. m + Len(t) /\ k - m \in d + 1 .. j
    BY <1>1, <2>1, <2>2
  <2>4. m + j \in i + 1 .. m + j /\ m + j \in i + 1 .. m + Len(t) /\ (m + j) - m = j
    BY <1>1, <2>1, <2>2
  <2>5. FreesFrom(s \o t, i + 1, m + j, n)
    BY <1>2, <2>2, <2>3, <2>4 DEF FreesFrom
  <2> QED
    BY <2>4, <2>5 DEF m
<1> QED
  BY <1>1, <1>3, <1>4

LEMMA PartsConcat ==
  ASSUME NEW mode, NEW s \in Parts(mode), NEW t \in Parts(mode)
  PROVE  s \o t \in Parts(mode)
<1>1. s \in Seq(Accesses) /\ t \in Seq(Accesses) /\ Recovers(s) /\ Recovers(t)
  BY DEF Parts
<1>2. ASSUME NEW i \in 1 .. Len(s \o t)
      PROVE  PartOf(mode, (s \o t)[i])
  <2>1. Len(s) \in Nat /\ Len(t) \in Nat /\ i \in 1 .. Len(s) + Len(t)
    BY <1>1, ConcatAt
  <2>2. CASE i \in 1 .. Len(s)
    BY <1>1, <2>2, ConcatAt DEF Parts
  <2>3. CASE i \in Len(s) + 1 .. Len(s) + Len(t)
    BY <1>1, <2>3, ConcatAt DEF Parts
  <2> QED
    BY <2>1, <2>2, <2>3
<1> QED
  BY <1>1, <1>2, ConcatAt, RecoversConcat DEF Parts

LEMMA PartsEmpty ==
  ASSUME NEW mode
  PROVE  <<>> \in Parts(mode)
  BY DEF Parts, Recovers

LEMMA PartsOpt ==
  ASSUME NEW mode, NEW c, NEW s, c => s \in Parts(mode)
  PROVE  Opt(c, s) \in Parts(mode)
  BY PartsEmpty DEF Opt

LEMMA PartsEach ==
  ASSUME NEW mode, NEW a, NEW b, NEW c, 0 \in ActivePorts => a \in Parts(mode),
         1 \in ActivePorts => b \in Parts(mode), 2 \in ActivePorts => c \in Parts(mode)
  PROVE  Opt(0 \in ActivePorts, a) \o Opt(1 \in ActivePorts, b) \o Opt(2 \in ActivePorts, c)
             \in Parts(mode)
<1>1. /\ Opt(0 \in ActivePorts, a) \in Parts(mode) /\ Opt(1 \in ActivePorts, b) \in Parts(mode)
      /\ Opt(2 \in ActivePorts, c) \in Parts(mode)
  BY PartsOpt
<1> QED
  BY <1>1, PartsConcat

\* Accesses that leave the resets alone are a part in any order.
Onward(mode) ==
    {a \in Accesses : PartOf(mode, a) /\ (a.do \in Writing => a.reg[1] # "port+0x82c")}

LEMMA OnwardParts ==
  ASSUME NEW mode, NEW s \in Seq(Onward(mode))
  PROVE  s \in Parts(mode)
<1>1. s \in Seq(Accesses) /\ Len(s) \in Nat /\ \A i \in 1 .. Len(s) : s[i] \in Onward(mode)
  BY DEF Onward
<1>2. \A n : PortReset(n)[1] = "port+0x82c"
  BY DEF PortReset
<1>3. Recovers(s)
  BY <1>1, <1>2 DEF Recovers, ResetBy, Onward
<1> QED
  BY <1>1, <1>3 DEF Parts, Onward

LEMMA OnwardAccesses ==
  ASSUME NEW mode, NEW i \in ActivePorts
  PROVE  /\ \A r \in {Lane(i), PortWord(i), Ltssm(i), Start(i)} :
                /\ Read(r) \in Onward(mode)
                /\ \A bits \in SUBSET Bits : /\ Write32(r, bits) \in Onward(mode)
                                             /\ Set32(r, bits) \in Onward(mode)
                                             /\ Clear32(r, bits) \in Onward(mode)
         /\ mode => /\ Read(RcCtl) \in Onward(mode) /\ Set32(RcCtl, {0}) \in Onward(mode)
                    /\ Clear32(RcCtl, {0}) \in Onward(mode)
<1>1. i \in Ports
  BY PortAssumption
<1>2. \A r \in {Lane(i), PortWord(i), Ltssm(i), Start(i)} :
          /\ r \in Regs /\ r[1] # "port+0x82c" /\ r # RcCtl
          /\ r[1] = "ltssm+0x14" => r = Start(i)
  <2>1. \A r \in {Lane(i), PortWord(i), Ltssm(i), Start(i)} : r \in Regs
    BY <1>1, PortRegs, TameRegsAreRegs
  <2>2. /\ Lane(i)[1] = "phy+0x000" /\ PortWord(i)[1] = "port" /\ Ltssm(i)[1] = "ltssm"
        /\ Start(i)[1] = "ltssm+0x14"
    BY DEF Lane, PortWord, Ltssm, Start
  <2> QED
    BY <2>1, <2>2, TameRegsAreRegs
<1>3. RcCtl \in Regs /\ RcCtl[1] = "rc"
  BY TameRegsAreRegs DEF TameRegs
<1>4. ASSUME NEW r \in Regs, NEW do \in {"read", "write"}, NEW set \in SUBSET Bits,
             NEW clear \in SUBSET Bits, r[1] # "port+0x82c",
             r[1] = "ltssm+0x14" => r = Start(i), r = RcCtl => mode
      PROVE  Access(do, "checks", r, set, clear) \in Onward(mode)
  <2> DEFINE a == Access(do, "checks", r, set, clear)
  <2>1. a \in Accesses /\ a.do = do /\ a.reg = r
    BY DEF Access, Accesses
  <2> HIDE DEF a
  <2>2. Starts(a) => i \in ActivePorts /\ a.reg = Start(i)
    BY <1>4, <2>1 DEF Starts
  <2>3. a.do \in Writing /\ a.reg = RcCtl => mode /\ a.do = "write"
    BY <1>4, <2>1 DEF Writing
  <2>4. a \in Onward(mode)
    BY <1>4, <2>1, <2>2, <2>3 DEF Onward, PartOf
  <2> QED
    BY <2>4 DEF a
<1>5. {} \in SUBSET Bits /\ {0} \in SUBSET Bits /\ Bits \in SUBSET Bits
  BY SomeBits
<1> QED
  BY <1>2, <1>3, <1>4, <1>5 DEF Read, Write32, Set32, Clear32

\* The two places a port is put into reset.
LEMMA ResetParts ==
  ASSUME NEW mode, NEW i \in ActivePorts
  PROVE  /\ ResetCycle(i) \in Parts(mode)
         /\ <<Access("write", "pairs", PortReset(i), {}, {0}), Set32(PortReset(i), {0}),
              Read(PortWord(i))>> \in Parts(mode)
<1> DEFINE r == PortReset(i)
           a == Clear32(r, {0})
           b == Read(r)
           c == Set32(r, {0})
           d == Access("write", "pairs", r, {}, {0})
           e == Read(PortWord(i))
<1>1. i \in Ports /\ \A n \in Ports : PortReset(n) = r <=> n = i
  BY PortAssumption DEF PortReset
<1>2. r \in Regs /\ PortWord(i) \in Regs /\ r[1] = "port+0x82c" /\ RcCtl[1] = "rc"
  BY <1>1, PortRegs, TameRegsAreRegs DEF PortReset
<1>3. /\ a \in Accesses /\ b \in Accesses /\ c \in Accesses /\ d \in Accesses /\ e \in Accesses
      /\ a.do = "write" /\ b.do = "read" /\ c.do = "write" /\ d.do = "write" /\ e.do = "read"
      /\ a.reg = r /\ b.reg = r /\ c.reg = r /\ d.reg = r
      /\ a.set = {} /\ c.set = {0} /\ d.set = {}
      /\ b.on = "checks" /\ c.on = "checks"
  BY <1>2, SomeBits DEF Read, Set32, Clear32, Access, Accesses
<1> HIDE DEF r, a, b, c, d, e
<1>4. PartOf(mode, a) /\ PartOf(mode, b) /\ PartOf(mode, c) /\ PartOf(mode, d) /\ PartOf(mode, e)
  BY <1>2, <1>3 DEF PartOf, Starts, Writing
<1>5. GoesOn(b) /\ GoesOn(c) /\ ~Starts(b) /\ ~Starts(c)
  BY <1>2, <1>3 DEF GoesOn, Starts
<1>6. \A n \in Ports : /\ ResetBy(a, n) => FreedBy(c, n)
                       /\ ResetBy(d, n) => FreedBy(c, n)
                       /\ ~ResetBy(b, n) /\ ~ResetBy(c, n) /\ ~ResetBy(e, n)
  BY <1>1, <1>3 DEF ResetBy, FreedBy, Writing
<1>7. <<a, b, c, b>> \in Parts(mode)
  <2> DEFINE s == <<a, b, c, b>>
  <2>1. s \in Seq(Accesses) /\ Len(s) = 4 /\ s[1] = a /\ s[2] = b /\ s[3] = c /\ s[4] = b
    BY <1>3
  <2> HIDE DEF s
  <2>2. ASSUME NEW n \in Ports, NEW k \in 1 .. 4, ResetBy(s[k], n)
        PROVE  \E j \in k + 1 .. 4 : FreesFrom(s, k + 1, j, n)
    <3>1. k = 1
      BY <1>6, <2>1, <2>2
    <3>2. \A l \in 2 .. 3 : GoesOn(s[l]) /\ ~Starts(s[l])
      BY <1>5, <2>1
    <3>3. FreesFrom(s, 2, 3, n)
      BY <1>6, <2>1, <2>2, <3>1, <3>2 DEF FreesFrom
    <3> QED
      BY <3>1, <3>3
  <2>3. Recovers(s) /\ \A k \in 1 .. Len(s) : PartOf(mode, s[k])
    BY <1>4, <2>1, <2>2 DEF Recovers
  <2> QED
    BY <2>1, <2>3 DEF Parts, s
<1>8. <<d, c, e>> \in Parts(mode)
  <2> DEFINE s == <<d, c, e>>
  <2>1. s \in Seq(Accesses) /\ Len(s) = 3 /\ s[1] = d /\ s[2] = c /\ s[3] = e
    BY <1>3
  <2> HIDE DEF s
  <2>2. ASSUME NEW n \in Ports, NEW k \in 1 .. 3, ResetBy(s[k], n)
        PROVE  \E j \in k + 1 .. 3 : FreesFrom(s, k + 1, j, n)
    <3>1. k = 1
      BY <1>6, <2>1, <2>2
    <3>2. \A l \in 2 .. 2 : GoesOn(s[l]) /\ ~Starts(s[l])
      BY <1>5, <2>1
    <3>3. FreesFrom(s, 2, 2, n)
      BY <1>6, <2>1, <2>2, <3>1, <3>2 DEF FreesFrom
    <3> QED
      BY <3>1, <3>3
  <2>3. Recovers(s) /\ \A k \in 1 .. Len(s) : PartOf(mode, s[k])
    BY <1>4, <2>1, <2>2 DEF Recovers
  <2> QED
    BY <2>1, <2>3 DEF Parts, s
<1> QED
  BY <1>7, <1>8 DEF ResetCycle, a, b, c, d, e, r

LEMMA AsideParts ==
  ASSUME NEW mode, NEW s \in Seq(Accesses), \A i \in 1 .. Len(s) : Aside(s[i])
  PROVE  s \in Parts(mode)
<1>1. \A n : PortReset(n)[1] = "port+0x82c"
  BY DEF PortReset
<1>2. Recovers(s)
  BY <1>1 DEF Recovers, ResetBy, Aside, StartWords
<1>3. \A i \in 1 .. Len(s) : PartOf(mode, s[i])
  BY DEF PartOf, Starts, Aside, StartWords
<1> QED
  BY <1>2, <1>3 DEF Parts

LEMMA DriveAside ==
  ASSUME NEW level \in {0, 1}, NEW r \in {Clkreq, Pin0}
  PROVE  /\ Drive(r, level) \in Seq(Accesses)
         /\ \A i \in 1 .. Len(Drive(r, level)) : Aside(Drive(r, level)[i])
  BY PinPiece, DriveTyped, PinAside DEF Drive

LEMMA PortOnward ==
  ASSUME NEW mode, NEW i \in ActivePorts
  PROVE  /\ LtssmWrites(i) \in Parts(mode) /\ Snap(i) \in Parts(mode)
         /\ <<Read(PortWord(i))>> \in Parts(mode) /\ <<Read(Start(i))>> \in Parts(mode)
         /\ <<Clear32(PortWord(i), {8}), Read(PortWord(i))>> \in Parts(mode)
         /\ <<Write32(PortWord(i), {31})>> \in Parts(mode)
         /\ <<Write32(PortWord(i), {0, 1}), Read(PortWord(i))>> \in Parts(mode)
<1> DEFINE S == Onward(mode)
<1>1. /\ Read(Lane(i)) \in S /\ Read(PortWord(i)) \in S /\ Read(Start(i)) \in S
      /\ Write32(Ltssm(i), {1}) \in S /\ Write32(Ltssm(i), {2}) \in S
      /\ Set32(Ltssm(i), {1}) \in S /\ Write32(Start(i), {0}) \in S
      /\ Clear32(PortWord(i), {8}) \in S /\ Write32(PortWord(i), {31}) \in S
      /\ Write32(PortWord(i), {0, 1}) \in S
  BY OnwardAccesses, SomeBits
<1> HIDE DEF S
<1>2. /\ LtssmWrites(i) \in Seq(S) /\ Snap(i) \in Seq(S)
      /\ <<Read(PortWord(i))>> \in Seq(S) /\ <<Read(Start(i))>> \in Seq(S)
      /\ <<Clear32(PortWord(i), {8}), Read(PortWord(i))>> \in Seq(S)
      /\ <<Write32(PortWord(i), {31})>> \in Seq(S)
      /\ <<Write32(PortWord(i), {0, 1}), Read(PortWord(i))>> \in Seq(S)
  BY <1>1 DEF LtssmWrites, Snap
<1> QED
  BY <1>2, OnwardParts DEF S

LEMMA ReplayedParts ==
  ASSUME NEW i \in ActivePorts
  PROVE  /\ Replayed(Set32(RcCtl, {0})) \in Parts(TRUE)
         /\ Replayed(Clear32(RcCtl, {0})) \in Parts(TRUE)
         /\ Replayed(Write32(PortWord(i), {1})) \in Parts(TRUE)
         /\ Replayed(Clear32(Lane(i), {14})) \in Parts(TRUE)
<1> DEFINE S == Onward(TRUE)
<1>1. /\ Set32(RcCtl, {0}) \in S /\ Clear32(RcCtl, {0}) \in S /\ Write32(PortWord(i), {1}) \in S
      /\ Clear32(Lane(i), {14}) \in S
      /\ Read(RcCtl) \in S /\ Read(PortWord(i)) \in S /\ Read(Lane(i)) \in S
  BY OnwardAccesses, SomeBits
<1>2. /\ Set32(RcCtl, {0}).reg = RcCtl /\ Clear32(RcCtl, {0}).reg = RcCtl
      /\ Write32(PortWord(i), {1}).reg = PortWord(i) /\ Clear32(Lane(i), {14}).reg = Lane(i)
  BY DEF Set32, Clear32, Write32, Access
<1> HIDE DEF S
<1>3. /\ Replayed(Set32(RcCtl, {0})) \in Seq(S) /\ Replayed(Clear32(RcCtl, {0})) \in Seq(S)
      /\ Replayed(Write32(PortWord(i), {1})) \in Seq(S)
      /\ Replayed(Clear32(Lane(i), {14})) \in Seq(S)
  BY <1>1, <1>2 DEF Replayed
<1> QED
  BY <1>3, OnwardParts DEF S

LEMMA BringupParts ==
  ASSUME NEW o, NEW i \in ActivePorts
  PROVE  /\ PerstResequence(i) \in Parts(FALSE)
         /\ LtssmKick(o, i) \in Parts(TRUE)
         /\ T602xReplay(o, i) \in Parts(TRUE)
<1>1. PerstResequence(i) \in Parts(FALSE)
  <2>1. Drive(Pin0, 0) \in Parts(FALSE) /\ Drive(Pin0, 1) \in Parts(FALSE)
    BY DriveAside, AsideParts
  <2> QED
    BY <2>1, PortOnward, ResetParts, PartsConcat DEF PerstResequence, Pin0
<1> DEFINE S == Parts(TRUE)
           word == <<Read(PortWord(i))>>
           start == LtssmWrites(i) \o <<Clear32(PortWord(i), {8}), Read(PortWord(i))>>
           again == ResetCycle(i) \o word \o LtssmWrites(i) \o word
           config == <<Write32(PortWord(i), {0, 1}), Read(PortWord(i))>>
           pair == <<Access("write", "pairs", PortReset(i), {}, {0}), Set32(PortReset(i), {0}),
                     Read(PortWord(i))>>
<1>2. \A s \in S, t \in S : s \o t \in S
  BY PartsConcat
<1>3. word \in S /\ config \in S /\ pair \in S /\ <<Write32(PortWord(i), {31})>> \in S
  BY PortOnward, ResetParts
<1>4. start \in S /\ again \in S
  <2>1. LtssmWrites(i) \in S /\ <<Clear32(PortWord(i), {8}), Read(PortWord(i))>> \in S
        /\ ResetCycle(i) \in S
    BY PortOnward, ResetParts
  <2> HIDE DEF S, word
  <2> QED
    BY <1>2, <1>3, <2>1
<1>5. /\ Opt("t602x_aggressive" \in o.flags, start) \in S
      /\ Opt("kick_aggressive" \in o.flags, start) \in S
      /\ Opt("t602x_do_again" \in o.flags, again) \in S
      /\ Opt("t602x_msimap" \in o.flags, <<Write32(PortWord(i), {31})>>) \in S
  <2> HIDE DEF start, again
  <2> QED
    BY <1>3, <1>4, PartsOpt
<1>6. LtssmKick(o, i) = word \o Replayed(Set32(RcCtl, {0})) \o Replayed(Write32(PortWord(i), {1}))
                        \o word \o Opt("kick_aggressive" \in o.flags, start) \o pair
  BY DEF LtssmKick
<1>7. T602xReplay(o, i) =
          word \o Replayed(Set32(RcCtl, {0})) \o Replayed(Write32(PortWord(i), {1}))
          \o Replayed(Clear32(Lane(i), {14})) \o word
          \o Opt("t602x_aggressive" \in o.flags, start)
          \o Opt("t602x_do_again" \in o.flags, again)
          \o Opt("t602x_msimap" \in o.flags, <<Write32(PortWord(i), {31})>>)
          \o config \o Replayed(Clear32(RcCtl, {0})) \o word
  BY DEF T602xReplay, Disarm
<1>8. /\ Replayed(Set32(RcCtl, {0})) \in S /\ Replayed(Clear32(RcCtl, {0})) \in S
      /\ Replayed(Write32(PortWord(i), {1})) \in S /\ Replayed(Clear32(Lane(i), {14})) \in S
  BY ReplayedParts
<1> HIDE DEF S, word, start, again, config, pair
<1>9. LtssmKick(o, i) \in S
  BY <1>2, <1>3, <1>5, <1>6, <1>8
<1>10. T602xReplay(o, i) \in S
  <2> DEFINE head == word \o Replayed(Set32(RcCtl, {0})) \o Replayed(Write32(PortWord(i), {1}))
                     \o Replayed(Clear32(Lane(i), {14})) \o word
  <2>1. head \in S
    BY <1>2, <1>3, <1>8
  <2> HIDE DEF head
  <2>2. head \o Opt("t602x_aggressive" \in o.flags, start)
        \o Opt("t602x_do_again" \in o.flags, again)
        \o Opt("t602x_msimap" \in o.flags, <<Write32(PortWord(i), {31})>>) \in S
    BY <1>2, <1>5, <2>1
  <2> QED
    BY <1>2, <1>3, <1>7, <1>8, <2>2 DEF head
<1> QED
  BY <1>1, <1>9, <1>10 DEF S

-----------------------------------------------------------------------------
(* Config-write mode.                                                      *)

Disarmed(s) == \E j \in 1 .. Len(s) : Disarms(s[j])

\* The mode is left after it was entered.
Closing(s) ==
    \A i \in 1 .. Len(s) : Arms(s[i]) => \E j \in i + 1 .. Len(s) : Disarms(s[j])

LEMMA DisarmedConcat ==
  ASSUME NEW s \in Seq(Accesses), NEW t \in Seq(Accesses), Disarmed(s) \/ Disarmed(t)
  PROVE  Disarmed(s \o t)
<1>1. Len(s) \in Nat /\ Len(t) \in Nat
  OBVIOUS
<1>2. CASE Disarmed(s)
  <2>1. PICK j \in 1 .. Len(s) : Disarms(s[j])
    BY <1>2 DEF Disarmed
  <2>2. (s \o t)[j] = s[j] /\ j \in 1 .. Len(s \o t)
    BY <1>1, <2>1, ConcatAt
  <2> QED
    BY <2>1, <2>2 DEF Disarmed
<1>3. CASE Disarmed(t)
  <2>1. PICK j \in 1 .. Len(t) : Disarms(t[j])
    BY <1>3 DEF Disarmed
  <2>2. Len(s) + j \in Len(s) + 1 .. Len(s) + Len(t) /\ (Len(s) + j) - Len(s) = j
    BY <1>1, <2>1
  <2>3. (s \o t)[Len(s) + j] = t[j] /\ Len(s) + j \in 1 .. Len(s \o t)
    BY <1>1, <2>2, ConcatAt
  <2> QED
    BY <2>1, <2>3 DEF Disarmed
<1> QED
  BY <1>2, <1>3

LEMMA ClosingConcat ==
  ASSUME NEW s \in Seq(Accesses), NEW t \in Seq(Accesses), Closing(t), Closing(s) \/ Disarmed(t)
  PROVE  Closing(s \o t)
<1> SUFFICES ASSUME NEW i \in 1 .. Len(s) + Len(t), Arms((s \o t)[i])
             PROVE  \E j \in i + 1 .. Len(s) + Len(t) : Disarms((s \o t)[j])
  BY ConcatAt DEF Closing
<1>1. Len(s) \in Nat /\ Len(t) \in Nat
  OBVIOUS
<1>2. CASE i \in 1 .. Len(s) /\ Closing(s)
  <2>1. Arms(s[i])
    BY <1>2, ConcatAt
  <2>2. PICK j \in i + 1 .. Len(s) : Disarms(s[j])
    BY <1>2, <2>1 DEF Closing
  <2>3. (s \o t)[j] = s[j] /\ j \in i + 1 .. Len(s) + Len(t)
    BY <1>1, <1>2, <2>2, ConcatAt
  <2> QED
    BY <2>2, <2>3
<1>3. CASE i \in 1 .. Len(s) /\ Disarmed(t)
  <2>1. PICK j \in 1 .. Len(t) : Disarms(t[j])
    BY <1>3 DEF Disarmed
  <2>2. Len(s) + j \in Len(s) + 1 .. Len(s) + Len(t) /\ (Len(s) + j) - Len(s) = j
        /\ Len(s) + j \in i + 1 .. Len(s) + Len(t)
    BY <1>1, <1>3, <2>1
  <2>3. (s \o t)[Len(s) + j] = t[j]
    BY <2>2, ConcatAt
  <2> QED
    BY <2>1, <2>2, <2>3
<1>4. CASE i \notin 1 .. Len(s)
  <2>1. i \in Len(s) + 1 .. Len(s) + Len(t)
    BY <1>1, <1>4
  <2>2. i - Len(s) \in 1 .. Len(t) /\ Arms(t[i - Len(s)])
    BY <2>1, ConcatAt
  <2>3. PICK j \in (i - Len(s)) + 1 .. Len(t) : Disarms(t[j])
    BY <2>2 DEF Closing
  <2>4. Len(s) + j \in Len(s) + 1 .. Len(s) + Len(t) /\ (Len(s) + j) - Len(s) = j
        /\ Len(s) + j \in i + 1 .. Len(s) + Len(t)
    BY <1>1, <2>1, <2>2, <2>3
  <2>5. (s \o t)[Len(s) + j] = t[j]
    BY <2>4, ConcatAt
  <2> QED
    BY <2>3, <2>4, <2>5
<1> QED
  BY <1>2, <1>3, <1>4

\* The replay of a port ends by leaving the mode.
LEMMA ReplayCloses ==
  ASSUME NEW o, NEW i \in Ports
  PROVE  Closing(T602xReplay(o, i)) /\ Disarmed(T602xReplay(o, i))
<1> DEFINE head == <<Read(PortWord(i))>> \o Replayed(Set32(RcCtl, {0}))
                   \o Replayed(Write32(PortWord(i), {1}))
                   \o Replayed(Clear32(Lane(i), {14})) \o <<Read(PortWord(i))>>
           start == Opt("t602x_aggressive" \in o.flags,
                        LtssmWrites(i) \o <<Clear32(PortWord(i), {8}), Read(PortWord(i))>>)
           again == Opt("t602x_do_again" \in o.flags,
                        ResetCycle(i) \o <<Read(PortWord(i))>> \o LtssmWrites(i)
                        \o <<Read(PortWord(i))>>)
           msimap == Opt("t602x_msimap" \in o.flags, <<Write32(PortWord(i), {31})>>)
           config == <<Write32(PortWord(i), {0, 1}), Read(PortWord(i))>>
           a == Read(RcCtl)
           b == Clear32(RcCtl, {0})
           c == Read(PortWord(i))
           tail == Disarm(o) \o <<c>>
<1>1. head \o start \o again \o msimap \o config \in Seq(Simple)
  <2>1. <<Read(PortWord(i))>> \in Seq(Simple) /\ LtssmWrites(i) \in Seq(Simple)
        /\ ResetCycle(i) \in Seq(Simple)
        /\ <<Clear32(PortWord(i), {8}), Read(PortWord(i))>> \in Seq(Simple)
        /\ <<Write32(PortWord(i), {31})>> \in Seq(Simple) /\ config \in Seq(Simple)
    <3>1. /\ Clear32(PortWord(i), {8}) \in Simple /\ Write32(PortWord(i), {31}) \in Simple
          /\ Write32(PortWord(i), {0, 1}) \in Simple /\ Read(PortWord(i)) \in Simple
      BY PortSimple, SomeBits
    <3> QED
      BY <3>1, PortSimple
  <2>2. /\ Replayed(Set32(RcCtl, {0})) \in Seq(Simple)
        /\ Replayed(Write32(PortWord(i), {1})) \in Seq(Simple)
        /\ Replayed(Clear32(Lane(i), {14})) \in Seq(Simple)
    BY ReplayedSimple, SomeBits
  <2> HIDE DEF config
  <2>3. head \in Seq(Simple)
    BY <2>1, <2>2, SequencesJoin
  <2>4. start \in Seq(Simple) /\ again \in Seq(Simple) /\ msimap \in Seq(Simple)
    BY <2>1, SimpleOpt, SequencesJoin
  <2> HIDE DEF head, start, again, msimap
  <2> QED
    BY <2>1, <2>3, <2>4, SequencesJoin
<1>2. T602xReplay(o, i) = (head \o start \o again \o msimap \o config) \o tail
  <2>1. T602xReplay(o, i) = head \o start \o again \o msimap \o config \o Disarm(o) \o <<c>>
    BY DEF T602xReplay
  <2>2. Disarm(o) \in Seq(Simple) /\ <<c>> \in Seq(Simple)
    BY ReplayedSimple, SomeBits, PortSimple DEF Disarm
  <2> HIDE DEF head, start, again, msimap, config, c
  <2>3. ASSUME NEW s \in Seq(Simple), NEW t \in Seq(Simple), NEW u \in Seq(Simple)
        PROVE  s \o t \o u = s \o (t \o u)
    OBVIOUS
  <2> QED
    BY <1>1, <2>1, <2>2, <2>3, Zenon
<1>3. /\ a.do = "read" /\ b.do = "write" /\ c.do = "read" /\ b.reg = RcCtl
      /\ b.set = {} /\ b.clear = {0} /\ a \in Simple /\ b \in Simple /\ c \in Simple
  BY PortSimple, SomeBits DEF Read, Clear32, Access
<1>4. Disarm(o) = <<a, b, a>>
  BY DEF Disarm, Replayed, Clear32, Access
<1> HIDE DEF a, b, c, head, start, again, msimap, config
<1>5. /\ Disarm(o) \in Seq(Accesses) /\ Len(Disarm(o)) = 3 /\ Disarm(o)[1] = a
      /\ Disarm(o)[2] = b /\ Disarm(o)[3] = a
      /\ <<c>> \in Seq(Accesses) /\ Len(<<c>>) = 1 /\ <<c>>[1] = c
  BY <1>3, <1>4 DEF Simple
<1> HIDE DEF tail
<1>6. tail \in Seq(Accesses) /\ Len(tail) = 4 /\ tail[1] = a /\ tail[2] = b /\ tail[3] = a
      /\ tail[4] = c
  <2> DEFINE d == Disarm(o)
             e == <<c>>
  <2>1. /\ d \in Seq(Accesses) /\ Len(d) = 3 /\ d[1] = a /\ d[2] = b /\ d[3] = a
        /\ e \in Seq(Accesses) /\ Len(e) = 1 /\ e[1] = c /\ tail = d \o e
    BY <1>5 DEF tail
  <2> HIDE DEF d, e
  <2>2. /\ d \o e \in Seq(Accesses) /\ Len(d \o e) = 3 + 1
        /\ \A k \in 1 .. 3 : (d \o e)[k] = d[k]
        /\ \A k \in 3 + 1 .. 3 + 1 : (d \o e)[k] = e[k - 3]
    <3>1. /\ d \o e \in Seq(Accesses) /\ Len(d \o e) = Len(d) + Len(e)
          /\ \A k \in 1 .. Len(d) : (d \o e)[k] = d[k]
          /\ \A k \in Len(d) + 1 .. Len(d) + Len(e) : (d \o e)[k] = e[k - Len(d)]
      <4>1. d \in Seq(Accesses) /\ e \in Seq(Accesses)
        BY <2>1
      <4> QED
        BY <4>1, ConcatAt
    <3>2. Len(d) = 3 /\ Len(e) = 1
      BY <2>1
    <3> QED
      BY <3>1, <3>2
  <2> QED
    BY <2>1, <2>2
<1>7. Disarmed(tail) /\ Closing(tail)
  BY <1>3, <1>6 DEF Disarmed, Closing, Disarms, Arms
<1>8. head \o start \o again \o msimap \o config \in Seq(Accesses)
  BY <1>1 DEF Simple
<1> QED
  BY <1>2, <1>6, <1>7, <1>8, ClosingConcat, DisarmedConcat

LEMMA ReplaySettles ==
  ASSUME NEW o
  PROVE  LET replay(i) == T602xReplay(o, i)
         IN  Settles(EachPort(replay))
<1> DEFINE replay(i) == T602xReplay(o, i)
           a == Opt(0 \in ActivePorts, replay(0))
           b == Opt(1 \in ActivePorts, replay(1))
           c == Opt(2 \in ActivePorts, replay(2))
<1>1. /\ a \in Seq(Simple) /\ b \in Seq(Simple) /\ c \in Seq(Simple)
      /\ Closing(a) /\ Closing(b) /\ Closing(c)
      /\ 0 \in ActivePorts => Disarmed(a)
      /\ 1 \in ActivePorts => Disarmed(b)
      /\ 2 \in ActivePorts => Disarmed(c)
  <2>1. ASSUME NEW i \in Ports
        PROVE  /\ Opt(i \in ActivePorts, replay(i)) \in Seq(Simple)
               /\ Closing(Opt(i \in ActivePorts, replay(i)))
               /\ i \in ActivePorts => Disarmed(Opt(i \in ActivePorts, replay(i)))
    <3>1. replay(i) \in Seq(Simple) /\ Closing(replay(i)) /\ Disarmed(replay(i))
      BY T602xExperiment, ReplayCloses
    <3>2. <<>> \in Seq(Simple) /\ Closing(<<>>)
      BY DEF Closing
    <3> HIDE DEF replay
    <3> QED
      BY <3>1, <3>2 DEF Opt
  <2> HIDE DEF replay
  <2> QED
    BY <2>1, PortsAre
<1>2. EachPort(replay) = (a \o b) \o c
  BY DEF EachPort
<1> HIDE DEF a, b, c, replay
<1>3. a \in Seq(Accesses) /\ b \in Seq(Accesses) /\ c \in Seq(Accesses) /\ a \o b \in Seq(Accesses)
  BY <1>1 DEF Simple
<1>4. (a \o b) \o c \in Seq(Simple)
  BY <1>1
<1>5. Closing((a \o b) \o c)
  BY <1>1, <1>3, ClosingConcat
<1>6. Disarmed((a \o b) \o c)
  <2>1. 0 \in ActivePorts \/ 1 \in ActivePorts \/ 2 \in ActivePorts
    BY PortAssumption DEF Ports
  <2> QED
    BY <1>1, <1>3, <2>1, DisarmedConcat
<1>7. \A k \in 1 .. Len((a \o b) \o c) : GoesOn(((a \o b) \o c)[k])
  <2>1. \A k \in 1 .. Len((a \o b) \o c) : ((a \o b) \o c)[k] \in Simple
    BY <1>4
  <2> QED
    BY <2>1 DEF Simple, GoesOn
<1>8. Settles((a \o b) \o c)
  BY <1>5, <1>6, <1>7 DEF Settles, Closing, Disarmed
<1> QED
  BY <1>2, <1>8 DEF replay

-----------------------------------------------------------------------------
(* The order of the programs of a boot.                                    *)

Without(s, names) == \A k \in 1 .. Len(s) : s[k].name \notin names

\* Every program of these names comes after one of that name, and there is one.
Led(s, name, names) ==
    /\ \A k \in 1 .. Len(s) : s[k].name \in names => \E m \in 1 .. k - 1 : s[m].name = name
    /\ \E m \in 1 .. Len(s) : s[m].name = name

\* pcie_init is not called after a kick.
Quiet(s) ==
    \A k \in 1 .. Len(s) : s[k].name = "kick" => \A m \in k .. Len(s) : s[m].name # "pcie_init"

\* The m-th program is the replay, and none from the k-th to it calls pcie_init.
ReplayAt(s, k, m) == s[m].name = "t602x" /\ \A l \in k .. m : s[l].name # "pcie_init"

\* A kick is followed by a replay.
Replays(s) ==
    \A k \in 1 .. Len(s) : s[k].name = "kick" => \E m \in k + 1 .. Len(s) : ReplayAt(s, k, m)

\* The programs that start ports come after both resets were released, and the
\* replay, when there is one, after the kick.
Placed(s, fs) ==
    /\ \A k \in 1 .. Len(s) : s[k].name \in Bringup =>
          /\ \E m \in 1 .. k - 1 : s[m].name = "perstn"
          /\ \E m \in 1 .. k - 1 : s[m].name = "pcie_init"
    /\ "t602x_init" \in fs => Replays(s)

LEMMA JoinAt ==
  ASSUME NEW S, NEW s \in Seq(S), NEW t \in Seq(S)
  PROVE  /\ s \o t \in Seq(S) /\ Len(s \o t) = Len(s) + Len(t)
         /\ Len(s) \in Nat /\ Len(t) \in Nat
         /\ \A i \in 1 .. Len(s) : (s \o t)[i] = s[i]
         /\ \A i \in Len(s) + 1 .. Len(s) + Len(t) :
                i - Len(s) \in 1 .. Len(t) /\ (s \o t)[i] = t[i - Len(s)]
<1>1. /\ s \o t \in Seq(S)
      /\ Len(s \o t) = Len(s) + Len(t)
      /\ \A i \in 1 .. Len(s) + Len(t) :
            (s \o t)[i] = IF i <= Len(s) THEN s[i] ELSE t[i - Len(s)]
  BY ConcatProperties, Zenon
<1>2. Len(s) \in Nat /\ Len(t) \in Nat
  OBVIOUS
<1> QED
  BY <1>1, <1>2

\* Where the k-th element of the second part stands.
LEMMA JoinLater ==
  ASSUME NEW S, NEW s \in Seq(S), NEW t \in Seq(S), NEW k \in 1 .. Len(t)
  PROVE  Len(s) + k \in 1 .. Len(s \o t) /\ (s \o t)[Len(s) + k] = t[k]
<1>1. Len(s) + k \in Len(s) + 1 .. Len(s) + Len(t) /\ (Len(s) + k) - Len(s) = k
  OBVIOUS
<1> QED
  BY <1>1, JoinAt

LEMMA LedFirst ==
  ASSUME NEW S, NEW s \in Seq(S), NEW t \in Seq(S), NEW name, NEW names, Led(s, name, names)
  PROVE  Led(s \o t, name, names)
<1>1. PICK m \in 1 .. Len(s) : s[m].name = name
  BY DEF Led
<1>2. m \in 1 .. Len(s \o t) /\ (s \o t)[m].name = name /\ Len(s) \in Nat
  BY <1>1, JoinAt
<1>3. ASSUME NEW k \in 1 .. Len(s \o t), (s \o t)[k].name \in names
      PROVE  \E l \in 1 .. k - 1 : (s \o t)[l].name = name
  <2>1. CASE k \in 1 .. Len(s)
    <3>1. s[k].name \in names
      BY <1>3, <2>1, JoinAt
    <3>2. PICK l \in 1 .. k - 1 : s[l].name = name
      BY <2>1, <3>1 DEF Led
    <3>3. l \in 1 .. Len(s)
      BY <2>1, <3>2, <1>2
    <3> QED
      BY <3>2, <3>3, JoinAt
  <2>2. CASE k \notin 1 .. Len(s)
    <3>1. m \in 1 .. k - 1
      BY <1>2, <1>3, <2>2
    <3> QED
      BY <1>2, <3>1
  <2> QED
    BY <2>1, <2>2
<1> QED
  BY <1>2, <1>3 DEF Led

LEMMA LedSecond ==
  ASSUME NEW S, NEW s \in Seq(S), NEW t \in Seq(S), NEW name, NEW names,
         Without(s, names), Led(t, name, names)
  PROVE  Led(s \o t, name, names)
<1>1. PICK m \in 1 .. Len(t) : t[m].name = name
  BY DEF Led
<1>2. Len(s) + m \in 1 .. Len(s \o t) /\ (s \o t)[Len(s) + m].name = name /\ Len(s) \in Nat
      /\ Len(t) \in Nat
  BY <1>1, JoinLater, JoinAt
<1>3. ASSUME NEW k \in 1 .. Len(s \o t), (s \o t)[k].name \in names
      PROVE  \E l \in 1 .. k - 1 : (s \o t)[l].name = name
  <2>1. k \notin 1 .. Len(s)
    BY <1>3, JoinAt DEF Without
  <2>2. k - Len(s) \in 1 .. Len(t) /\ t[k - Len(s)].name \in names
    BY <1>2, <1>3, <2>1, JoinAt
  <2>3. PICK l \in 1 .. (k - Len(s)) - 1 : t[l].name = name
    BY <2>2 DEF Led
  <2>4. l \in 1 .. Len(t) /\ Len(s) + l \in 1 .. k - 1
    BY <1>2, <2>2, <2>3
  <2>5. (s \o t)[Len(s) + l] = t[l]
    BY <2>4, JoinLater
  <2> QED
    BY <2>3, <2>4, <2>5
<1> QED
  BY <1>2, <1>3 DEF Led

LEMMA QuietAppend ==
  ASSUME NEW S, NEW s \in Seq(S), NEW t \in Seq(S), Quiet(s), Without(t, {"pcie_init"})
  PROVE  Quiet(s \o t)
<1> SUFFICES ASSUME NEW k \in 1 .. Len(s \o t), (s \o t)[k].name = "kick",
                    NEW m \in k .. Len(s \o t)
             PROVE  (s \o t)[m].name # "pcie_init"
  BY DEF Quiet
<1>1. Len(s) \in Nat /\ Len(t) \in Nat /\ Len(s \o t) = Len(s) + Len(t)
  BY JoinAt
<1>2. CASE m \in 1 .. Len(s)
  <2>1. k \in 1 .. Len(s)
    BY <1>1, <1>2
  <2> QED
    BY <1>2, <2>1, JoinAt DEF Quiet
<1>3. CASE m \notin 1 .. Len(s)
  <2>1. m \in Len(s) + 1 .. Len(s) + Len(t)
    BY <1>1, <1>3
  <2> QED
    BY <2>1, JoinAt DEF Without
<1> QED
  BY <1>2, <1>3

LEMMA ReplaysLast ==
  ASSUME NEW S, NEW s \in Seq(S), NEW t \in Seq(S), Quiet(s), Without(t, {"kick", "pcie_init"}),
         1 \in 1 .. Len(t), t[1].name = "t602x"
  PROVE  Replays(s \o t)
<1> SUFFICES ASSUME NEW k \in 1 .. Len(s \o t), (s \o t)[k].name = "kick"
             PROVE  \E m \in k + 1 .. Len(s \o t) : ReplayAt(s \o t, k, m)
  BY DEF Replays
<1>1. Len(s) \in Nat /\ Len(t) \in Nat /\ Len(s \o t) = Len(s) + Len(t)
  BY JoinAt
<1>2. k \in 1 .. Len(s)
  <2>1. CASE k \notin 1 .. Len(s)
    <3>1. k \in Len(s) + 1 .. Len(s) + Len(t)
      BY <1>1, <2>1
    <3> QED
      BY <3>1, JoinAt DEF Without
  <2> QED
    BY <2>1
<1>3. /\ Len(s) + 1 \in k + 1 .. Len(s \o t) /\ (s \o t)[Len(s) + 1].name = "t602x"
  BY <1>1, <1>2, JoinLater
<1>4. ASSUME NEW l \in k .. Len(s) + 1
      PROVE  (s \o t)[l].name # "pcie_init"
  <2>1. CASE l \in 1 .. Len(s)
    <3>1. s[k].name = "kick" /\ l \in k .. Len(s)
      BY <1>2, <2>1, JoinAt
    <3> QED
      BY <1>2, <2>1, <3>1, JoinAt DEF Quiet
  <2>2. CASE l \notin 1 .. Len(s)
    BY <1>1, <1>2, <1>3, <2>2
  <2> QED
    BY <2>1, <2>2
<1> QED
  BY <1>3, <1>4 DEF ReplayAt

LEMMA ReplaysSecond ==
  ASSUME NEW S, NEW s \in Seq(S), NEW t \in Seq(S), Without(s, {"kick"}), Replays(t)
  PROVE  Replays(s \o t)
<1> SUFFICES ASSUME NEW k \in 1 .. Len(s \o t), (s \o t)[k].name = "kick"
             PROVE  \E m \in k + 1 .. Len(s \o t) : ReplayAt(s \o t, k, m)
  BY DEF Replays
<1> DEFINE n == Len(s)
<1>1. n \in Nat /\ Len(t) \in Nat /\ Len(s \o t) = n + Len(t)
  BY JoinAt
<1>2. k \notin 1 .. n
  BY JoinAt DEF Without
<1>3. k - n \in 1 .. Len(t) /\ t[k - n].name = "kick"
  BY <1>1, <1>2, JoinAt
<1>4. PICK m \in (k - n) + 1 .. Len(t) : ReplayAt(t, k - n, m)
  BY <1>3 DEF Replays
<1>5. n + m \in k + 1 .. n + Len(t) /\ m \in 1 .. Len(t)
  BY <1>1, <1>3, <1>4
<1>6. ASSUME NEW l \in k .. n + m
      PROVE  (s \o t)[l] = t[l - n] /\ l - n \in k - n .. m
  <2>1. l \in n + 1 .. n + Len(t)
    BY <1>1, <1>3, <1>4, <1>5
  <2> QED
    BY <1>1, <1>3, <1>5, <2>1, JoinAt
<1>7. (s \o t)[n + m] = t[m]
  BY <1>5, JoinLater
<1>8. ReplayAt(s \o t, k, n + m)
  <2> HIDE DEF n
  <2> QED
    BY <1>4, <1>6, <1>7 DEF ReplayAt
<1> QED
  BY <1>1, <1>5, <1>8

-----------------------------------------------------------------------------
(* The programs of a boot, by name.                                        *)

\* The programs of a boot with these flags that have one of these names.
NamedSet(fs, names) == {p \in ProgramSet(fs) : p.name \in names}

LEMMA NamedWithout ==
  ASSUME NEW fs, NEW names, NEW others, names \cap others = {}, NEW s \in Seq(NamedSet(fs, names))
  PROVE  Without(s, others) /\ s \in Seq(ProgramSet(fs))
<1>1. \A k \in 1 .. Len(s) : s[k] \in NamedSet(fs, names)
  OBVIOUS
<1>2. s \in Seq(ProgramSet(fs))
  BY DEF NamedSet
<1> QED
  BY <1>1, <1>2 DEF Without, NamedSet

LEMMA AsideProgram ==
  ASSUME NEW fs, NEW name \in PlainNames, NEW guarding \in {"none", "section"},
         NEW gated \in BOOLEAN, NEW ops \in Experiments, \A i \in 1 .. Len(ops) : Aside(ops[i])
  PROVE  Program(name, guarding, gated, {}, ops) \in NamedSet(fs, {name})
<1> DEFINE p == Program(name, guarding, gated, {}, ops)
<1>1. p.name = name /\ p.ops = ops
  BY DEF Program
<1>2. AsNamed(p)
  <2> HIDE DEF p
  <2> QED
    BY <1>1, PlainNamed
<1>3. p \in ProgramSet(fs)
  BY <1>2, ExperimentProgram DEF PlainNames
<1> QED
  BY <1>1, <1>3 DEF NamedSet

LEMMA BringupProgram ==
  ASSUME NEW fs, NEW name \in Bringup, NEW ops \in Experiments,
         ops \in Parts(name # "resequence"), name = "t602x" => Settles(ops)
  PROVE  Program(name, "section", TRUE, {}, ops) \in NamedSet(fs, {name})
<1> DEFINE p == Program(name, "section", TRUE, {}, ops)
<1>1. p.name = name /\ p.ops = ops /\ p.guarding = "section" /\ p.needs = {}
  BY DEF Program
<1>2. \A i \in 1 .. Len(ops) : ops[i].do # "init"
  BY DEF Experiments, Tame
<1>3. Recovers(ops) /\ \A i \in 1 .. Len(ops) : PartOf(name # "resequence", ops[i])
  BY DEF Parts
<1>4. StartsActive(ops)
  BY <1>3 DEF StartsActive, PartOf
<1>5. name \in {"resequence", "kick", "t602x"}
  BY DEF Bringup
<1> HIDE DEF p
<1>6. \A i \in 1 .. Len(ops) : ops[i].do \in Writing /\ ops[i].reg = RcCtl =>
          name \in {"kick", "t602x"} /\ ops[i].do = "write"
  BY <1>3, <1>5 DEF PartOf
<1>7. AsNamed(p)
  BY <1>1, <1>2, <1>3, <1>4, <1>5, <1>6 DEF AsNamed, Bringup
<1>8. p \in ProgramSet(fs)
  BY <1>5, <1>7, ExperimentProgram DEF ProgramNames, p
<1> QED
  BY <1>1, <1>8 DEF NamedSet, p

LEMMA PerstnIsProgram ==
  ASSUME NEW fs
  PROVE  PerstnProgram[1] \in NamedSet(fs, {"perstn"})
<1> DEFINE p == Program("perstn", "none", FALSE, {}, DeassertPerstn(Pin0))
           a == Access("read", "leaves", Pin0, {}, {})
<1>1. p.name = "perstn" /\ p.ops = DeassertPerstn(Pin0) /\ PerstnProgram[1] = p
  BY DEF Program, PerstnProgram, Bare
<1>2. \A i \in 1 .. Len(DeassertPerstn(Pin0)) : Aside(DeassertPerstn(Pin0)[i])
  <2>1. <<a>> \in Seq(Accesses) /\ \A i \in 1 .. Len(<<a>>) : Aside(<<a>>[i])
    <3>1. a \in Accesses /\ Aside(a)
      BY TameRegsAreRegs DEF TameRegs, Access, Accesses, Aside, Writing
    <3> HIDE DEF a
    <3>2. <<a>> \in Seq(Accesses) /\ Len(<<a>>) = 1 /\ <<a>>[1] = a
      BY <3>1
    <3> QED
      BY <3>1, <3>2
  <2>2. ASSUME NEW s \in Seq(Accesses), NEW t \in Seq(Accesses),
               \A i \in 1 .. Len(s) : Aside(s[i]), \A i \in 1 .. Len(t) : Aside(t[i])
        PROVE  s \o t \in Seq(Accesses) /\ \A i \in 1 .. Len(s \o t) : Aside((s \o t)[i])
    <3>1. \A i \in 1 .. Len(s \o t) : i \in 1 .. Len(s) \/ i \in Len(s) + 1 .. Len(s) + Len(t)
      BY ConcatAt
    <3> QED
      BY <2>2, <3>1, ConcatAt
  <2>3. /\ Drive(Pin0, 0) \in Seq(Accesses) /\ Drive(Pin0, 1) \in Seq(Accesses)
        /\ \A i \in 1 .. Len(Drive(Pin0, 0)) : Aside(Drive(Pin0, 0)[i])
        /\ \A i \in 1 .. Len(Drive(Pin0, 1)) : Aside(Drive(Pin0, 1)[i])
    BY DriveAside
  <2>4. DeassertPerstn(Pin0) = (<<a>> \o Drive(Pin0, 0)) \o Drive(Pin0, 1)
    BY DEF DeassertPerstn
  <2> HIDE DEF a
  <2>5. /\ <<a>> \o Drive(Pin0, 0) \in Seq(Accesses)
        /\ \A i \in 1 .. Len(<<a>> \o Drive(Pin0, 0)) : Aside((<<a>> \o Drive(Pin0, 0))[i])
    BY <2>1, <2>2, <2>3
  <2> QED
    BY <2>2, <2>3, <2>4, <2>5
<1> HIDE DEF p
<1>3. AsNamed(p)
  BY <1>1, <1>2 DEF AsNamed, Aside, Bringup
<1>4. p \in ProgramSet(fs)
  BY <1>3, ExperimentProgram, DeassertExperiment DEF p, ProgramNames
<1> QED
  BY <1>1, <1>4 DEF NamedSet

LEMMA InitIsProgram ==
  ASSUME NEW fs
  PROVE  InitProgram[1] \in NamedSet(fs, {"pcie_init"})
<1> DEFINE a == Access("init", "leaves", Smc, {}, {})
           p == Program("pcie_init", "none", FALSE, {}, <<a>>)
<1>1. InitProgram[1] = p
  BY DEF InitProgram, Bare
<1>2. Smc \in Regs /\ Smc[1] = "smc"
  BY TameRegsAreRegs DEF TameRegs, Smc
<1>3. a \in Accesses /\ a.do = "init" /\ a.on = "leaves" /\ a.reg = Smc
  BY <1>2 DEF Access, Accesses
<1> HIDE DEF a
<1>4. <<a>> \in Orderly
  BY <1>3, OrderlyOne DEF Lowers, Writing
<1>5. /\ p \in [name : ProgramNames, guarding : {"none", "section", "access"}, gated : BOOLEAN,
                needs : SUBSET Reachable, ops : Orderly]
      /\ p.name = "pcie_init" /\ p.guarding = "none" /\ p.ops = <<a>>
  BY <1>4 DEF Program, ProgramNames
<1>6. Len(<<a>>) = 1 /\ <<a>>[1] = a
  OBVIOUS
<1> HIDE DEF p
<1>7. AsNamed(p)
  BY <1>1, <1>3, <1>5, <1>6 DEF AsNamed, Writing, Bringup
<1>8. \A i \in 1 .. Len(p.ops) : p.ops[i].do = "init" /\ p.ops[i].reg[1] = "smc"
  BY <1>2, <1>3, <1>5, <1>6
<1>9. /\ TouchesNeeded(p, fs) /\ ClocksNeeded(p, fs) /\ WritesMeant(p, fs)
      /\ StrobesInRelease(p) /\ GatesFlagged(p) /\ GuardFits(p)
  BY <1>5, <1>8 DEF TouchesNeeded, ClocksNeeded, WritesMeant, StrobesInRelease, GatesFlagged,
     GuardFits, Writing, FirstTouchWindows
<1>10. p \in ProgramSet(fs)
  BY <1>5, <1>7, <1>9 DEF ProgramSet
<1> QED
  BY <1>1, <1>5, <1>10 DEF NamedSet

\* One program, as a list of its own.
LEMMA OneProgram ==
  ASSUME NEW fs, NEW names, NEW p \in NamedSet(fs, names)
  PROVE  <<p>> \in Seq(NamedSet(fs, names))
  OBVIOUS

LEMMA WiderNames ==
  ASSUME NEW fs, NEW names, NEW more, names \subseteq more, NEW s \in Seq(NamedSet(fs, names))
  PROVE  s \in Seq(NamedSet(fs, more))
<1>1. NamedSet(fs, names) \subseteq NamedSet(fs, more)
  BY DEF NamedSet
<1> QED
  BY <1>1

LEMMA SectionPrograms ==
  ASSUME NEW fs, NEW name \in PlainNames, NEW ops \in Experiments,
         \A i \in 1 .. Len(ops) : Aside(ops[i])
  PROVE  /\ Bare(name, ops) \in Seq(PlainSet(fs)) /\ Section(name, ops) \in Seq(PlainSet(fs))
         /\ Gated(name, ops) \in Seq(PlainSet(fs))
         /\ <<Program(name, "none", TRUE, {}, ops)>> \in Seq(PlainSet(fs))
<1>1. /\ Program(name, "none", FALSE, {}, ops) \in NamedSet(fs, {name})
      /\ Program(name, "section", FALSE, {}, ops) \in NamedSet(fs, {name})
      /\ Program(name, "section", TRUE, {}, ops) \in NamedSet(fs, {name})
      /\ Program(name, "none", TRUE, {}, ops) \in NamedSet(fs, {name})
  BY AsideProgram
<1>2. NamedSet(fs, {name}) \subseteq PlainSet(fs)
  BY DEF NamedSet, PlainSet
<1> QED
  BY <1>1, <1>2, ShortSequences DEF Bare, Section, Gated

\* The plain programs of PerstnMain.
LEMMA PlainPrograms ==
  ASSUME NEW fs, NEW tier, NEW cgen
  PROVE  LET refclk(i) == SetupRefclk(i, cgen)
         IN  /\ Bare("clkreq", Periph(Clkreq)) \in Seq(PlainSet(fs))
             /\ Bare("clkreq", Drive(Clkreq, 0)) \in Seq(PlainSet(fs))
             /\ Section("refclk", EachPort(refclk)) \in Seq(PlainSet(fs))
             /\ Gated("refclk", EachPort(refclk)) \in Seq(PlainSet(fs))
             /\ Section("dump", Dump(tier)) \in Seq(PlainSet(fs))
             /\ Gated("dump", Dump(tier)) \in Seq(PlainSet(fs))
             /\ Bare("watch", WatchLinksts) \in Seq(PlainSet(fs))
             /\ GatedWatch \in Seq(PlainSet(fs))
             /\ Gated("endpoint_diag", EndpointDiag) \in Seq(PlainSet(fs))
<1> DEFINE refclk(i) == SetupRefclk(i, cgen)
<1>1. {"clkreq", "refclk", "dump", "watch", "endpoint_diag"} \subseteq PlainNames
  BY DEF PlainNames, ProgramNames, Bringup
<1>2. EachPort(refclk) \in Experiments /\ EachPort(refclk) \in Seq(AsideSet)
  <2>1. \A i \in Ports : refclk(i) \in Experiments /\ refclk(i) \in Seq(AsideSet)
    BY RefclkExperiment, RefclkAside
  <2> HIDE DEF refclk
  <2>2. /\ refclk(0) \in Experiments /\ refclk(1) \in Experiments /\ refclk(2) \in Experiments
        /\ refclk(0) \in Seq(AsideSet) /\ refclk(1) \in Seq(AsideSet)
        /\ refclk(2) \in Seq(AsideSet)
    BY <2>1, PortsAre
  <2> QED
    BY <2>2, ExperimentEach, EachJoins DEF EachPort
<1> HIDE DEF refclk
<1>3. /\ \A i \in 1 .. Len(EachPort(refclk)) : Aside(EachPort(refclk)[i])
      /\ \A i \in 1 .. Len(Dump(tier)) : Aside(Dump(tier)[i])
      /\ \A i \in 1 .. Len(WatchLinksts) : Aside(WatchLinksts[i])
      /\ \A i \in 1 .. Len(EndpointDiag) : Aside(EndpointDiag[i])
  BY <1>2, ReadsAside, AsideAll
<1>4. /\ Dump(tier) \in Experiments /\ WatchLinksts \in Experiments
      /\ EndpointDiag \in Experiments
  BY DumpExperiment, WatchExperiment, DiagExperiment
<1>5. /\ Periph(Clkreq) \in Experiments /\ Drive(Clkreq, 0) \in Experiments
      /\ \A i \in 1 .. Len(Periph(Clkreq)) : Aside(Periph(Clkreq)[i])
      /\ \A i \in 1 .. Len(Drive(Clkreq, 0)) : Aside(Drive(Clkreq, 0)[i])
  BY ClkreqExperiment, PinAside, DriveAside DEF Periph
<1>6. /\ Bare("clkreq", Periph(Clkreq)) \in Seq(PlainSet(fs))
      /\ Bare("clkreq", Drive(Clkreq, 0)) \in Seq(PlainSet(fs))
  BY <1>1, <1>5, SectionPrograms
<1>7. /\ Section("refclk", EachPort(refclk)) \in Seq(PlainSet(fs))
      /\ Gated("refclk", EachPort(refclk)) \in Seq(PlainSet(fs))
  BY <1>1, <1>2, <1>3, SectionPrograms
<1>8. /\ Section("dump", Dump(tier)) \in Seq(PlainSet(fs))
      /\ Gated("dump", Dump(tier)) \in Seq(PlainSet(fs))
  BY <1>1, <1>3, <1>4, SectionPrograms
<1>9. /\ Bare("watch", WatchLinksts) \in Seq(PlainSet(fs)) /\ GatedWatch \in Seq(PlainSet(fs))
  BY <1>1, <1>3, <1>4, SectionPrograms DEF GatedWatch
<1>10. Gated("endpoint_diag", EndpointDiag) \in Seq(PlainSet(fs))
  BY <1>1, <1>3, <1>4, SectionPrograms
<1> QED
  BY <1>6, <1>7, <1>8, <1>9, <1>10 DEF refclk

\* The programs that start ports.
LEMMA BringupPrograms ==
  ASSUME NEW fs, NEW o
  PROVE  LET replay(i) == T602xReplay(o, i)
             kick(i) == LtssmKick(o, i)
         IN  /\ Gated("resequence", EachPort(PerstResequence)) \in Seq(NamedSet(fs, {"resequence"}))
             /\ Gated("kick", EachPort(kick)) \in Seq(NamedSet(fs, {"kick"}))
             /\ Gated("t602x", EachPort(replay)) \in Seq(NamedSet(fs, {"t602x"}))
<1> DEFINE replay(i) == T602xReplay(o, i)
           kick(i) == LtssmKick(o, i)
           again(i) == PerstResequence(i)
<1>1. EachPort(PerstResequence) = EachPort(again)
  BY DEF EachPort
<1>2. Settles(EachPort(replay))
  BY ReplaySettles DEF EachPort
<1>3. /\ \A i \in Ports : /\ replay(i) \in Experiments /\ kick(i) \in Experiments
                          /\ again(i) \in Experiments
      /\ \A i \in ActivePorts : /\ replay(i) \in Parts(TRUE) /\ kick(i) \in Parts(TRUE)
                                /\ again(i) \in Parts(FALSE)
  BY T602xExperiment, KickExperiment, ResequenceExperiment, BringupParts
<1> HIDE DEF replay, kick, again
<1>4. /\ EachPort(replay) \in Experiments /\ EachPort(kick) \in Experiments
      /\ EachPort(again) \in Experiments
  BY <1>3, PortsAre, ExperimentEach DEF EachPort
<1>5. /\ EachPort(replay) \in Parts(TRUE) /\ EachPort(kick) \in Parts(TRUE)
      /\ EachPort(again) \in Parts(FALSE)
  BY <1>3, PartsEach DEF EachPort
<1>6. /\ Program("resequence", "section", TRUE, {}, EachPort(again)) \in NamedSet(fs, {"resequence"})
      /\ Program("kick", "section", TRUE, {}, EachPort(kick)) \in NamedSet(fs, {"kick"})
      /\ Program("t602x", "section", TRUE, {}, EachPort(replay)) \in NamedSet(fs, {"t602x"})
  <2>1. /\ EachPort(again) \in Parts("resequence" # "resequence")
        /\ EachPort(kick) \in Parts("kick" # "resequence")
        /\ EachPort(replay) \in Parts("t602x" # "resequence")
    BY <1>5
  <2> QED
    BY <1>2, <1>4, <2>1, BringupProgram DEF Bringup
<1> QED
  BY <1>1, <1>6, OneProgram DEF Gated, replay, kick

\* A boot of perstn.py, whatever its plain programs are.
PerstnBoot(c, clkreq, early, pre, dump1, post, watch, diag, again, dump, kicks, replays) ==
    clkreq \o PerstnProgram \o early \o pre
    \o Opt(c, (InitProgram \o dump1 \o post \o watch \o diag \o again \o dump)
              \o kicks \o replays)

LEMMA PlacedBoot ==
  ASSUME NEW fs, NEW c \in BOOLEAN,
         NEW clkreq \in Seq(PlainSet(fs)), NEW early \in Seq(PlainSet(fs)),
         NEW pre \in Seq(PlainSet(fs)), NEW dump1 \in Seq(PlainSet(fs)),
         NEW post \in Seq(PlainSet(fs)), NEW watch \in Seq(PlainSet(fs)),
         NEW diag \in Seq(PlainSet(fs)), NEW dump \in Seq(PlainSet(fs)),
         NEW again \in Seq(NamedSet(fs, PlainNames \cup {"resequence"})),
         NEW kicks \in Seq(NamedSet(fs, PlainNames \cup {"kick"})),
         NEW replays \in Seq(NamedSet(fs, PlainNames \cup {"t602x"})),
         "t602x_init" \in fs => 1 \in 1 .. Len(replays) /\ replays[1].name = "t602x"
  PROVE  LET main == PerstnBoot(c, clkreq, early, pre, dump1, post, watch, diag, again, dump,
                                kicks, replays)
         IN  main \in Seq(ProgramSet(fs)) /\ Placed(main, fs)
<1> DEFINE front == InitProgram \o dump1 \o post \o watch \o diag \o again \o dump
           late == front \o kicks \o replays
           opening == clkreq \o PerstnProgram
           head == opening \o early \o pre
           main == head \o Opt(c, late)
           S == ProgramSet(fs)
           N(names) == NamedSet(fs, names)
<1>1. /\ PerstnProgram \in Seq(N({"perstn"})) /\ Len(PerstnProgram) = 1
      /\ InitProgram \in Seq(N({"pcie_init"})) /\ Len(InitProgram) = 1
      /\ PerstnProgram[1].name = "perstn" /\ InitProgram[1].name = "pcie_init"
  <2>1. /\ PerstnProgram = <<PerstnProgram[1]>> /\ InitProgram = <<InitProgram[1]>>
        /\ Len(PerstnProgram) = 1 /\ Len(InitProgram) = 1
    BY DEF PerstnProgram, InitProgram, Bare
  <2>2. /\ PerstnProgram[1] \in N({"perstn"}) /\ InitProgram[1] \in N({"pcie_init"})
    BY PerstnIsProgram, InitIsProgram
  <2>3. PerstnProgram \in Seq(N({"perstn"})) /\ InitProgram \in Seq(N({"pcie_init"}))
    <3> HIDE DEF N
    <3> QED
      BY <2>1, <2>2, ShortSequences
  <2> QED
    BY <2>1, <2>2, <2>3 DEF NamedSet
<1>2. PlainSet(fs) = N(PlainNames)
  BY DEF PlainSet, NamedSet
<1>3. /\ PlainNames \cap (Bringup \cup {"perstn", "pcie_init"}) = {}
      /\ Bringup = {"resequence", "kick", "t602x"}
  BY DEF PlainNames, Bringup
<1> DEFINE Calm == PlainNames \cup {"perstn"}
           Front == PlainNames \cup {"pcie_init", "resequence"}
<1>4. opening \in Seq(N(Calm)) /\ head \in Seq(N(Calm))
  <2>1. /\ clkreq \in Seq(N(Calm)) /\ early \in Seq(N(Calm)) /\ pre \in Seq(N(Calm))
        /\ PerstnProgram \in Seq(N(Calm))
    BY <1>1, <1>2, WiderNames
  <2> HIDE DEF N, Calm
  <2> QED
    BY <2>1, SequencesJoin
<1>5. front \in Seq(N(Front))
  <2>1. /\ dump1 \in Seq(N(Front)) /\ post \in Seq(N(Front)) /\ watch \in Seq(N(Front))
        /\ diag \in Seq(N(Front)) /\ dump \in Seq(N(Front)) /\ again \in Seq(N(Front))
        /\ InitProgram \in Seq(N(Front))
    BY <1>1, <1>2, WiderNames
  <2> HIDE DEF N, Front
  <2> QED
    BY <2>1, SequencesJoin
<1>6. /\ Without(head, Bringup) /\ Without(opening, Bringup) /\ Without(clkreq, Bringup)
      /\ Without(front, {"kick"}) /\ Without(kicks, {"pcie_init"})
      /\ Without(replays, {"kick", "pcie_init"})
  <2>1. Calm \cap Bringup = {} /\ PlainNames \cap Bringup = {} /\ Front \cap {"kick"} = {}
        /\ (PlainNames \cup {"kick"}) \cap {"pcie_init"} = {}
        /\ (PlainNames \cup {"t602x"}) \cap {"kick", "pcie_init"} = {}
    BY <1>3
  <2> HIDE DEF head, opening, front, Calm, Front
  <2> QED
    BY <1>2, <1>4, <1>5, <2>1, NamedWithout
<1>7. /\ opening \in Seq(S) /\ head \in Seq(S) /\ front \in Seq(S) /\ kicks \in Seq(S)
      /\ replays \in Seq(S) /\ early \in Seq(S) /\ pre \in Seq(S) /\ clkreq \in Seq(S)
      /\ PerstnProgram \in Seq(S) /\ InitProgram \in Seq(S)
      /\ dump1 \in Seq(S) /\ post \in Seq(S) /\ watch \in Seq(S) /\ diag \in Seq(S)
      /\ again \in Seq(S) /\ dump \in Seq(S)
  <2>1. ASSUME NEW names, NEW s \in Seq(N(names))
        PROVE  s \in Seq(S)
    BY <2>1 DEF NamedSet
  <2>2. /\ again \in Seq(N(PlainNames \cup {"resequence"})) /\ kicks \in Seq(N(PlainNames \cup {"kick"}))
        /\ replays \in Seq(N(PlainNames \cup {"t602x"}))
    OBVIOUS
  <2> HIDE DEF head, opening, front, Calm, Front, N, S
  <2> QED
    BY <1>1, <1>2, <1>4, <1>5, <2>1, <2>2
<1> HIDE DEF S, N, Calm, Front
<1>8. late \in Seq(S) /\ Opt(c, late) \in Seq(S) /\ main \in Seq(S)
  <2>1. late \in Seq(S)
    <3> HIDE DEF front
    <3> QED
      BY <1>7, SequencesJoin
  <2> HIDE DEF late, head
  <2> QED
    BY <1>7, <2>1, SequencesJoin DEF Opt
<1>9. Led(main, "perstn", Bringup)
  <2>1. Led(PerstnProgram, "perstn", Bringup)
    BY <1>1 DEF Led, Bringup
  <2>2. Led(opening, "perstn", Bringup)
    BY <1>6, <1>7, <2>1, LedSecond
  <2> HIDE DEF opening, late
  <2>3. Led(opening \o early, "perstn", Bringup) /\ opening \o early \in Seq(S)
    BY <1>7, <2>2, LedFirst, SequencesJoin
  <2>4. Led(head, "perstn", Bringup)
    BY <1>7, <2>3, LedFirst
  <2> HIDE DEF head
  <2> QED
    BY <1>7, <1>8, <2>4, LedFirst
<1>10. Led(late, "pcie_init", Bringup)
  <2>1. Led(InitProgram, "pcie_init", Bringup)
    BY <1>1 DEF Led, Bringup
  <2>2. ASSUME NEW s \in Seq(S), NEW t \in Seq(S), Led(s, "pcie_init", Bringup)
        PROVE  s \o t \in Seq(S) /\ Led(s \o t, "pcie_init", Bringup)
    BY <2>2, LedFirst, SequencesJoin
  <2>3. Led(front, "pcie_init", Bringup)
    BY <1>7, <2>1, <2>2
  <2> HIDE DEF front
  <2> QED
    BY <1>7, <2>2, <2>3
<1>11. "t602x_init" \in fs => Replays(late)
  <2> HIDE DEF front
  <2>1. Quiet(front)
    BY <1>6 DEF Quiet, Without
  <2>2. Quiet(front \o kicks) /\ front \o kicks \in Seq(S)
    BY <1>6, <1>7, <2>1, QuietAppend, SequencesJoin
  <2> QED
    BY <1>6, <1>7, <2>2, ReplaysLast
<1> HIDE DEF late, head
<1>12. ASSUME c
       PROVE  Placed(main, fs)
  <2>1. Opt(c, late) = late
    BY <1>12 DEF Opt
  <2>2. late \in Seq(S)
    BY <1>8, <2>1
  <2>3. Led(main, "pcie_init", Bringup)
    BY <1>6, <1>7, <1>10, <2>1, <2>2, LedSecond
  <2>4. Without(head, {"kick"})
    BY <1>3, <1>6 DEF Without
  <2>5. "t602x_init" \in fs => Replays(main)
    BY <1>7, <1>11, <2>1, <2>2, <2>4, ReplaysSecond
  <2> QED
    BY <1>9, <2>3, <2>5 DEF Placed, Led
<1>13. ASSUME ~c
       PROVE  Placed(main, fs)
  <2>1. Opt(c, late) = <<>>
    BY <1>13 DEF Opt
  <2>2. main = head
    BY <1>7, <2>1
  <2>3. Placed(head, fs)
    BY <1>3, <1>6 DEF Placed, Without, Replays
  <2> QED
    BY <2>2, <2>3
<1>14. main \in Seq(S) /\ Placed(main, fs)
  BY <1>8, <1>12, <1>13
<1> QED
  BY <1>14 DEF S, late, head, PerstnBoot

LEMMA PerstnMainPrograms ==
  ASSUME NEW o
  PROVE  PerstnMain(o) \in Seq(ProgramSet(o.flags)) /\ Placed(PerstnMain(o), o.flags)
<1> DEFINE fs == o.flags
           refclk(i) == SetupRefclk(i, "refclk_cgen" \in o.flags)
           replay(i) == T602xReplay(o, i)
           kick(i) == LtssmKick(o, i)
           tier == IF "tier3" \in o.flags THEN 3 ELSE 1
           clkreq == Bare("clkreq", IF "clkreq_periph" \in o.flags THEN Periph(Clkreq)
                                    ELSE Drive(Clkreq, 0))
           early == Opt("t8140_replay" \in o.flags, PhaseF(o))
           pre == Opt("refclk_pre" \in o.flags, Section("refclk", EachPort(refclk)))
           dump1 == Section("dump", Dump(1))
           post == Opt("refclk_post" \in o.flags, Gated("refclk", EachPort(refclk)))
           watch == Bare("watch", WatchLinksts)
           diag == Opt("endpoint_diag" \in o.flags, Gated("endpoint_diag", EndpointDiag))
           sequence == Gated("resequence", EachPort(PerstResequence))
           again == Opt("perst_resequence" \in o.flags, sequence \o GatedWatch)
           dump == Section("dump", Dump(tier))
           kicked == Gated("kick", EachPort(kick))
           dumped == Gated("dump", Dump(tier))
           kicks == Opt("no_kick" \notin o.flags, kicked \o dumped)
           replayed == Gated("t602x", EachPort(replay))
           replays == Opt("t602x_init" \in o.flags, replayed \o dumped \o GatedWatch)
           c == "no_pcie_init" \notin o.flags
           Again == NamedSet(fs, PlainNames \cup {"resequence"})
           Kicks == NamedSet(fs, PlainNames \cup {"kick"})
           Replayed602 == NamedSet(fs, PlainNames \cup {"t602x"})
<1>1. PerstnMain(o) = clkreq \o PerstnProgram \o early \o pre
                      \o Opt(c, (InitProgram \o dump1 \o post \o watch \o diag \o again \o dump)
                                \o kicks \o replays)
  BY DEF PerstnMain, PerstnProgram, InitProgram, Pin0
<1>2. /\ clkreq \in Seq(PlainSet(fs)) /\ Section("refclk", EachPort(refclk)) \in Seq(PlainSet(fs))
      /\ dump1 \in Seq(PlainSet(fs)) /\ Gated("refclk", EachPort(refclk)) \in Seq(PlainSet(fs))
      /\ watch \in Seq(PlainSet(fs)) /\ Gated("endpoint_diag", EndpointDiag) \in Seq(PlainSet(fs))
      /\ dump \in Seq(PlainSet(fs)) /\ dumped \in Seq(PlainSet(fs))
      /\ GatedWatch \in Seq(PlainSet(fs))
  <2>1. /\ Bare("clkreq", Periph(Clkreq)) \in Seq(PlainSet(fs))
        /\ Bare("clkreq", Drive(Clkreq, 0)) \in Seq(PlainSet(fs))
    BY PlainPrograms
  <2>2. clkreq \in Seq(PlainSet(fs))
    BY <2>1
  <2>3. /\ Section("refclk", EachPort(refclk)) \in Seq(PlainSet(fs))
        /\ Gated("refclk", EachPort(refclk)) \in Seq(PlainSet(fs))
    BY PlainPrograms DEF EachPort
  <2>4. /\ dump1 \in Seq(PlainSet(fs)) /\ watch \in Seq(PlainSet(fs))
        /\ Gated("endpoint_diag", EndpointDiag) \in Seq(PlainSet(fs))
        /\ GatedWatch \in Seq(PlainSet(fs))
    BY PlainPrograms
  <2>5. dump \in Seq(PlainSet(fs)) /\ dumped \in Seq(PlainSet(fs))
    <3> HIDE DEF tier
    <3> QED
      BY PlainPrograms
  <2> QED
    BY <2>2, <2>3, <2>4, <2>5
<1>3. /\ sequence \in Seq(NamedSet(fs, {"resequence"})) /\ kicked \in Seq(NamedSet(fs, {"kick"}))
      /\ replayed \in Seq(NamedSet(fs, {"t602x"}))
  BY BringupPrograms DEF EachPort
<1>4. replayed[1].name = "t602x" /\ Len(replayed) = 1
  BY DEF Gated, Program
<1>5. PhaseF(o) \in Seq(PlainSet(fs)) /\ PlainSet(fs) = NamedSet(fs, PlainNames)
  BY PhaseFPrograms DEF PlainSet, NamedSet
<1> HIDE DEF fs, refclk, replay, kick, tier, clkreq, dump1, watch, dump, sequence, kicked, dumped,
             replayed
<1>6. /\ early \in Seq(PlainSet(fs)) /\ pre \in Seq(PlainSet(fs)) /\ post \in Seq(PlainSet(fs))
      /\ diag \in Seq(PlainSet(fs))
  BY <1>2, <1>5, FlagJoins
<1>7. again \in Seq(Again) /\ kicks \in Seq(Kicks) /\ replays \in Seq(Replayed602)
  <2>1. sequence \in Seq(Again) /\ GatedWatch \in Seq(Again) /\ kicked \in Seq(Kicks)
        /\ dumped \in Seq(Kicks) /\ replayed \in Seq(Replayed602) /\ dumped \in Seq(Replayed602)
        /\ GatedWatch \in Seq(Replayed602)
    BY <1>2, <1>3, <1>5, WiderNames
  <2> HIDE DEF Again, Kicks, Replayed602
  <2>2. /\ sequence \o GatedWatch \in Seq(Again) /\ kicked \o dumped \in Seq(Kicks)
        /\ replayed \o dumped \o GatedWatch \in Seq(Replayed602)
    BY <2>1, SequencesJoin
  <2>3. again \in Seq(Again)
    BY <2>2, FlagJoins
  <2>4. kicks \in Seq(Kicks)
    BY <2>2, OptJoins
  <2>5. replays \in Seq(Replayed602)
    BY <2>2, FlagJoins
  <2> QED
    BY <2>3, <2>4, <2>5
<1>8. "t602x_init" \in fs => 1 \in 1 .. Len(replays) /\ replays[1].name = "t602x"
  <2> DEFINE S == NamedSet(fs, PlainNames \cup {"t602x"})
             rest == dumped \o GatedWatch
  <2>1. replayed \in Seq(S) /\ dumped \in Seq(S) /\ GatedWatch \in Seq(S)
    BY <1>2, <1>3, <1>5, WiderNames
  <2> HIDE DEF S
  <2>2. replayed \o dumped \in Seq(S) /\ Len(replayed \o dumped) \in Nat \ {0}
        /\ (replayed \o dumped)[1] = replayed[1]
    BY <1>4, <2>1, JoinAt
  <2>3. /\ Len(replayed \o dumped \o GatedWatch) \in Nat \ {0}
        /\ (replayed \o dumped \o GatedWatch)[1] = replayed[1]
    BY <2>1, <2>2, JoinAt
  <2> QED
    BY <1>4, <2>3 DEF Opt, fs
<1>9. c \in BOOLEAN
  OBVIOUS
<1> HIDE DEF c, early, pre, post, diag, again, kicks, replays
<1> DEFINE main == PerstnBoot(c, clkreq, early, pre, dump1, post, watch, diag, again, dump,
                              kicks, replays)
<1>10. main \in Seq(ProgramSet(fs)) /\ Placed(main, fs)
  BY <1>2, <1>6, <1>7, <1>8, <1>9, PlacedBoot
<1>11. PerstnMain(o) = main
  BY <1>1, Zenon DEF PerstnBoot
<1> HIDE DEF main
<1> QED
  BY <1>10, <1>11 DEF fs

\* What every proof about RegisterPrograms starts from.
LEMMA CodePrograms ==
  ASSUME NEW n \in DOMAIN Orders
  PROVE  /\ Code[n] \in Seq(ProgramSet(Orders[n].flags))
         /\ Placed(Code[n], Orders[n].flags)
<1> DEFINE o == Orders[n]
<1>1. PerstnMain(o) \in Seq(ProgramSet(o.flags)) /\ Placed(PerstnMain(o), o.flags)
  BY PerstnMainPrograms
<1>2. SocMain(o) \in Seq(ProgramSet(o.flags)) /\ Placed(SocMain(o), o.flags)
  <2> DEFINE s == SocMain(o)
  <2>1. s \in Seq(PlainSet(o.flags))
    BY SocMainPrograms
  <2> HIDE DEF s, o
  <2>2. \A k \in 1 .. Len(s) : s[k].name \in PlainNames
    <3>1. \A k \in 1 .. Len(s) : s[k] \in PlainSet(o.flags)
      BY <2>1
    <3> QED
      BY <3>1 DEF PlainSet
  <2>3. s \in Seq(ProgramSet(o.flags))
    BY <2>1 DEF PlainSet
  <2>4. Placed(s, o.flags)
    BY <2>2 DEF Placed, Replays, PlainNames, Bringup
  <2> QED
    BY <2>3, <2>4 DEF s
<1> QED
  BY <1>1, <1>2 DEF Code, Main
=============================================================================
