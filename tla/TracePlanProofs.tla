---------------------------- MODULE TracePlanProofs ----------------------------
(***************************************************************************)
(* Theorems about the planner of traces, for every trace.                  *)
(*                                                                         *)
(* The plan is a recursive function of the trace, so its proofs are by     *)
(* induction.  The library's induction theorems quantify over predicates;  *)
(* here the induction is over a set of numbers, whose complement would     *)
(* have a least element.                                                   *)
(***************************************************************************)
EXTENDS TracePlan, SequenceTheorems, WellFoundedInduction, TLAPS

LEMMA LeastNumber ==
  ASSUME NEW T \in SUBSET Nat, T # {}
  PROVE  \E x \in T : \A y \in T : x <= y
<1> DEFINE R == OpToRel(<, Nat)
<1>1. \E x \in T : \A y \in T : ~(<<y, x>> \in R)
  BY NatLessThanWellFounded, WFMin
<1>2. R = {ss \in Nat \X Nat : ss[1] < ss[2]}
  BY Zenon DEF OpToRel
<1> HIDE DEF R
<1>3. \A x, y \in Nat : <<y, x>> \in R <=> y < x
  BY <1>2
<1>4. PICK x \in T : \A y \in T : ~(<<y, x>> \in R)
  BY <1>1
<1>5. \A y \in T : x <= y
  <2> SUFFICES ASSUME NEW y \in T PROVE x <= y
    OBVIOUS
  <2>1. ~(<<y, x>> \in R)
    BY <1>4
  <2>2. ~(y < x)
    BY <1>3, <2>1
  <2> QED
    BY <2>2
<1> QED
  BY <1>5

\* Induction from the right end of an interval, for a set P.
LEMMA FromTheRight ==
  ASSUME NEW a \in Nat, NEW b \in Nat, NEW P,
         \A k \in a .. b : (\A j \in k + 1 .. b : j \in P) => k \in P
  PROVE  a .. b \subseteq P
<1> SUFFICES ASSUME NEW k0 \in a .. b, k0 \notin P PROVE FALSE
  OBVIOUS
<1> DEFINE T == {m \in Nat : \E k \in a .. b : k \notin P /\ m = b - k}
<1>1. T \subseteq Nat /\ T # {}
  <2>1. b - k0 \in T
    OBVIOUS
  <2> QED
    BY <2>1
<1>2. PICK m \in T : \A y \in T : m <= y
  <2> HIDE DEF T
  <2> QED
    BY <1>1, LeastNumber
<1>3. PICK k \in a .. b : k \notin P /\ m = b - k
  BY <1>2
<1>4. \A j \in k + 1 .. b : j \in P
  <2> SUFFICES ASSUME NEW j \in k + 1 .. b, j \notin P PROVE FALSE
    OBVIOUS
  <2>1. b - j \in T
    OBVIOUS
  <2>2. m <= b - j
    BY <1>2, <2>1
  <2> QED
    BY <1>3, <2>2
<1> QED
  BY <1>3, <1>4

\* B[<<f, k>>] depends on the values of f to the right of k.
LooksRight(a, b, S, B) ==
    /\ B \in [[a .. b -> S] \X (a .. b) -> S]
    /\ \A f, g \in [a .. b -> S] : \A k \in a .. b :
          (\A j \in k + 1 .. b : f[j] = g[j]) => B[<<f, k>>] = B[<<g, k>>]

Solved(a, b, S, B) == \E f \in [a .. b -> S] : \A k \in a .. b : f[k] = B[<<f, k>>]

\* A function that is defined at each number from its values at greater ones.
LEMMA RightRecursion ==
  ASSUME NEW a \in Nat, NEW b \in Nat, NEW S, S # {}, NEW B, LooksRight(a, b, S, B)
  PROVE  Solved(a, b, S, B)
<1> USE DEF LooksRight, Solved
<1> DEFINE D == a .. b
           Solves(f, k) == \A j \in k .. b : f[j] = B[<<f, j>>]
           P == {k \in D : \E f \in [D -> S] : Solves(f, k)}
<1>1. PICK s \in S : TRUE
  OBVIOUS
<1>2. CASE D = {}
  <2>1. [k \in D |-> s] \in [D -> S]
    OBVIOUS
  <2> QED
    BY <1>2, <2>1
<1>3. CASE D # {}
  <2>1. ASSUME NEW k \in D, \A j \in k + 1 .. b : j \in P
        PROVE  k \in P
    <3>1. PICK f \in [D -> S] : \A j \in k + 1 .. b : f[j] = B[<<f, j>>]
      <4>1. CASE k = b
        <5>1. [j \in D |-> s] \in [D -> S] /\ k + 1 .. b = {}
          BY <4>1
        <5> QED
          BY <5>1
      <4>2. CASE k # b
        <5>1. k + 1 \in k + 1 .. b
          BY <4>2
        <5> QED
          BY <2>1, <5>1
      <4> QED
        BY <4>1, <4>2
    <3> DEFINE g == [f EXCEPT ![k] = B[<<f, k>>]]
    <3>2. B[<<f, k>>] \in S
      OBVIOUS
    <3>3. g \in [D -> S] /\ g[k] = B[<<f, k>>] /\ \A j \in D : j # k => g[j] = f[j]
      BY <3>2
    <3> HIDE DEF g
    <3>4. ASSUME NEW j \in k .. b PROVE g[j] = B[<<g, j>>]
      <4>0. j \in D
        OBVIOUS
      <4>1. \A i \in j + 1 .. b : f[i] = g[i]
        BY <3>3
      <4>2. B[<<f, j>>] = B[<<g, j>>]
        BY <3>3, <4>0, <4>1
      <4>3. CASE j = k
        BY <3>3, <4>2, <4>3
      <4>4. CASE j # k
        <5>1. j \in k + 1 .. b
          BY <4>4
        <5> QED
          BY <3>1, <3>3, <4>0, <4>2, <4>4, <5>1
      <4> QED
        BY <4>3, <4>4
    <3> QED
      BY <3>3, <3>4
  <2>2. D \subseteq P
    <3> HIDE DEF P
    <3> QED
      BY <2>1, FromTheRight
  <2>3. a \in D
    BY <1>3
  <2>4. PICK f \in [D -> S] : Solves(f, a)
    BY <2>2, <2>3
  <2> QED
    BY <2>4
<1> QED
  BY <1>2, <1>3

LEMMA LeastOf ==
  ASSUME NEW G \in SUBSET Nat, G # {}
  PROVE  Min(G) \in G /\ \A l \in G : Min(G) <= l
  BY LeastNumber DEF Min

LEMMA GreatestOf ==
  ASSUME NEW b \in Nat, NEW G \in SUBSET (0 .. b), G # {}
  PROVE  Max(G) \in G /\ \A l \in G : l <= Max(G)
<1> DEFINE T == {b - l : l \in G}
<1>1. T \subseteq Nat /\ T # {}
  <2>1. \A l \in G : l \in 0 .. b
    OBVIOUS
  <2>2. \A l \in G : b - l \in Nat
    BY <2>1
  <2>3. PICK l \in G : TRUE
    OBVIOUS
  <2> QED
    BY <2>2, <2>3
<1>2. PICK m \in T : \A y \in T : m <= y
  <2> HIDE DEF T
  <2> QED
    BY <1>1, LeastNumber
<1>3. PICK l \in G : m = b - l
  BY <1>2
<1>4. \A k \in G : k <= l
  <2> SUFFICES ASSUME NEW k \in G PROVE k <= l
    OBVIOUS
  <2>1. m <= b - k
    BY <1>2
  <2> QED
    BY <1>3, <2>1
<1> QED
  BY <1>4 DEF Max

-----------------------------------------------------------------------------
(* The steps of a plan.                                                    *)

Bitset(t) == UNION {t[i].value : i \in DOMAIN t}

Steps(t) == [kind : {"write", "rmw", "read", "pollmask", "pollval"}, at : DOMAIN t,
             a : SUBSET Bitset(t), b : SUBSET Bitset(t)]

LEMMA StepIs ==
  ASSUME NEW Rec, NEW t \in Seq(Rec), NEW i \in DOMAIN t,
         NEW kind \in {"write", "rmw", "read", "pollmask", "pollval"},
         NEW a \in SUBSET Bitset(t), NEW b \in SUBSET Bitset(t)
  PROVE  /\ Step(kind, i, a, b) \in Steps(t)
         /\ Step(kind, i, a, b).kind = kind /\ Step(kind, i, a, b).at = i
         /\ Step(kind, i, a, b).a = a /\ Step(kind, i, a, b).b = b
  BY DEF Step, Steps

LEMMA ValueIn ==
  ASSUME NEW Rec, NEW t \in Seq(Rec), NEW i \in DOMAIN t, NEW x
  PROVE  t[i].value \in SUBSET Bitset(t) /\ t[i].value \ x \in SUBSET Bitset(t)
  BY DEF Bitset

\* A write is planned as what it sets and clears, when the read before it is
\* known, and as its value otherwise.
LEMMA WriteIs ==
  ASSUME NEW Rec, NEW t \in Seq(Rec), NEW i \in DOMAIN t
  PROVE  /\ Write(t, i) \in Steps(t) /\ Write(t, i).at = i
         /\ Write(t, i).kind = IF Fuses(t, i - 1) THEN "rmw" ELSE "write"
         /\ Write(t, i).kind = "rmw" =>
               /\ Write(t, i).a = t[i].value \ t[i - 1].value
               /\ Write(t, i).b = t[i - 1].value \ t[i].value
         /\ Write(t, i).kind = "write" => Write(t, i).a = t[i].value
<1>1. CASE Fuses(t, i - 1)
  <2>1. i - 1 \in DOMAIN t
    BY <1>1 DEF Fuses
  <2>2. /\ t[i].value \ t[i - 1].value \in SUBSET Bitset(t)
        /\ t[i - 1].value \ t[i].value \in SUBSET Bitset(t)
    BY <2>1, ValueIn
  <2>3. Write(t, i) = Step("rmw", i, t[i].value \ t[i - 1].value, t[i - 1].value \ t[i].value)
    BY <1>1 DEF Write
  <2> QED
    BY <1>1, <2>2, <2>3, StepIs
<1>2. CASE ~Fuses(t, i - 1)
  <2>1. t[i].value \in SUBSET Bitset(t) /\ {} \in SUBSET Bitset(t)
    BY ValueIn
  <2>2. Write(t, i) = Step("write", i, t[i].value, {})
    BY <1>2 DEF Write
  <2> QED
    BY <1>2, <2>1, <2>2, StepIs
<1> QED
  BY <1>1, <1>2

LEMMA AsReadIs ==
  ASSUME NEW Rec, NEW t \in Seq(Rec), NEW i \in DOMAIN t
  PROVE  AsRead(t, i) \in Steps(t) /\ AsRead(t, i).kind = "read" /\ AsRead(t, i).at = i
<1>1. t[i].value \in SUBSET Bitset(t) /\ {} \in SUBSET Bitset(t)
  BY ValueIn
<1> QED
  BY <1>1, StepIs DEF AsRead

LEMMA PollvalIs ==
  ASSUME NEW Rec, NEW t \in Seq(Rec), NEW i \in DOMAIN t
  PROVE  /\ Step("pollval", i, t[i].value, {}) \in Steps(t)
         /\ Step("pollval", i, t[i].value, {}).kind = "pollval"
         /\ Step("pollval", i, t[i].value, {}).at = i
         /\ Step("pollval", i, t[i].value, {}).a = t[i].value
<1>1. t[i].value \in SUBSET Bitset(t) /\ {} \in SUBSET Bitset(t)
  BY ValueIn
<1> QED
  BY <1>1, StepIs

\* The reads of a group: one poll at its end, or each of them once.
LEMMA ReadsAre ==
  ASSUME NEW Rec, NEW t \in Seq(Rec), NEW G \in SUBSET (DOMAIN t), G # {}
  PROVE  /\ Reads(t, G) \in Seq(Steps(t))
         /\ \/ /\ Len(Reads(t, G)) = 1 /\ Reads(t, G)[1].kind = "pollval"
               /\ Reads(t, G)[1].at = Max(G) /\ Reads(t, G)[1].a = t[Max(G)].value
            \/ /\ \A p \in DOMAIN Reads(t, G) : Reads(t, G)[p].kind = "read" /\ Reads(t, G)[p].at \in G
               /\ \A l \in G : \E p \in DOMAIN Reads(t, G) : Reads(t, G)[p].at = l
         /\ Max(G) \in G /\ \A l \in G : l <= Max(G)
<1>1. Max(G) \in G /\ \A l \in G : l <= Max(G)
  <2>1. G \in SUBSET (0 .. Len(t)) /\ Len(t) \in Nat
    OBVIOUS
  <2> QED
    BY <2>1, GreatestOf
<1>2. Min(G) \in G
  <2>1. G \in SUBSET Nat
    OBVIOUS
  <2> QED
    BY <2>1, LeastOf
<1>3. CASE Polled(t, G)
  <2> DEFINE s == Step("pollval", Max(G), t[Max(G)].value, {})
  <2>1. Reads(t, G) = <<s>>
    BY <1>3 DEF Reads
  <2>2. s \in Steps(t) /\ s.kind = "pollval" /\ s.at = Max(G) /\ s.a = t[Max(G)].value
    BY <1>1, PollvalIs
  <2> HIDE DEF s
  <2> QED
    BY <1>1, <2>1, <2>2
<1>4. CASE ~Polled(t, G)
  <2> DEFINE u == AsRead(t, Min(G))
             v == AsRead(t, Max(G))
  <2>1. /\ u \in Steps(t) /\ u.kind = "read" /\ u.at = Min(G)
        /\ v \in Steps(t) /\ v.kind = "read" /\ v.at = Max(G)
    BY <1>1, <1>2, AsReadIs
  <2>2. Reads(t, G) = IF Min(G) = Max(G) THEN <<v>> ELSE <<u, v>>
    BY <1>4 DEF Reads
  <2>3. \A l \in G : l = Min(G) \/ l = Max(G)
    BY <1>4 DEF Polled
  <2> HIDE DEF u, v
  <2>4. CASE Min(G) = Max(G)
    BY <1>1, <2>1, <2>2, <2>3, <2>4
  <2>5. CASE Min(G) # Max(G)
    <3>1. Reads(t, G) = <<u, v>>
      BY <2>2, <2>5
    <3>2. <<u, v>>[1] = u /\ <<u, v>>[2] = v /\ DOMAIN <<u, v>> = {1, 2}
      OBVIOUS
    <3>3. <<u, v>> \in Seq(Steps(t))
      BY <2>1
    <3> QED
      BY <1>1, <1>2, <2>1, <2>3, <3>1, <3>2, <3>3
  <2> QED
    BY <2>4, <2>5
<1> QED
  BY <1>3, <1>4

-----------------------------------------------------------------------------
(* Sequences put together.                                                 *)

LEMMA Concatenated ==
  ASSUME NEW S, NEW s \in Seq(S), NEW u \in Seq(S)
  PROVE  /\ s \o u \in Seq(S) /\ Len(s \o u) = Len(s) + Len(u)
         /\ \A p \in DOMAIN s : p \in DOMAIN (s \o u) /\ (s \o u)[p] = s[p]
         /\ \A p \in DOMAIN u : p + Len(s) \in DOMAIN (s \o u) /\ (s \o u)[p + Len(s)] = u[p]
         /\ \A p \in DOMAIN (s \o u) :
               \/ p \in DOMAIN s /\ (s \o u)[p] = s[p]
               \/ p - Len(s) \in DOMAIN u /\ p > Len(s) /\ (s \o u)[p] = u[p - Len(s)]
<1>1. s \o u \in Seq(S) /\ Len(s \o u) = Len(s) + Len(u)
  OBVIOUS
<1>2. \A p \in DOMAIN s : p \in DOMAIN (s \o u) /\ (s \o u)[p] = s[p]
  OBVIOUS
<1>3. \A p \in DOMAIN u : p + Len(s) \in DOMAIN (s \o u) /\ (s \o u)[p + Len(s)] = u[p]
  <2> SUFFICES ASSUME NEW p \in 1 .. Len(u)
               PROVE  p + Len(s) \in DOMAIN (s \o u) /\ (s \o u)[p + Len(s)] = u[p]
    OBVIOUS
  <2>1. (s \o u)[p + Len(s)] = u[(p + Len(s)) - Len(s)]
    OBVIOUS
  <2>2. (p + Len(s)) - Len(s) = p
    OBVIOUS
  <2> QED
    BY <1>1, <2>1, <2>2
<1>4. ASSUME NEW p \in DOMAIN (s \o u)
      PROVE  \/ p \in DOMAIN s /\ (s \o u)[p] = s[p]
             \/ p - Len(s) \in DOMAIN u /\ p > Len(s) /\ (s \o u)[p] = u[p - Len(s)]
  <2>1. p \in 1 .. Len(s) + Len(u)
    BY <1>1
  <2>2. CASE p <= Len(s)
    BY <1>2, <2>1, <2>2
  <2>3. CASE p > Len(s)
    <3>1. (s \o u)[p] = u[p - Len(s)]
      BY <2>1, <2>3
    <3>2. p - Len(s) \in 1 .. Len(u)
      BY <2>1, <2>3
    <3> QED
      BY <2>3, <3>1, <3>2
  <2> QED
    BY <2>1, <2>2, <2>3
<1> QED
  BY <1>1, <1>2, <1>3, <1>4

-----------------------------------------------------------------------------
(* A plan of the accesses from i to j.                                     *)

Covers(t, i, j, s) ==
    /\ \A p \in DOMAIN s :
          /\ s[p].at \in i .. j
          /\ s[p].kind \in Writing => t[s[p].at].kind = "W" /\ s[p] = Write(t, s[p].at)
    /\ KeepsOrder(s)
    /\ \A l \in i .. j : t[l].kind = "W" =>
          \E p \in DOMAIN s : s[p].kind \in Writing /\ s[p].at = l
    /\ \A l \in i .. j : t[l].kind = "R" => Answers(t, s, l)
    /\ PollsToTheEnd(t, s)

\* Plans of neighbouring parts make a plan of both.
LEMMA CoversJoin ==
  ASSUME NEW Rec, NEW t \in Seq(Rec), NEW i \in Nat, NEW m \in Nat, NEW n \in Nat,
         i <= m + 1, m <= n,
         NEW s \in Seq(Steps(t)), NEW u \in Seq(Steps(t)),
         Covers(t, i, m, s), Covers(t, m + 1, n, u)
  PROVE  s \o u \in Seq(Steps(t)) /\ Covers(t, i, n, s \o u)
<1> DEFINE w == s \o u
<1>1. /\ w \in Seq(Steps(t)) /\ Len(w) = Len(s) + Len(u)
      /\ \A p \in DOMAIN s : p \in DOMAIN w /\ w[p] = s[p]
      /\ \A p \in DOMAIN u : p + Len(s) \in DOMAIN w /\ w[p + Len(s)] = u[p]
      /\ \A p \in DOMAIN w :
            \/ p \in DOMAIN s /\ w[p] = s[p]
            \/ p - Len(s) \in DOMAIN u /\ p > Len(s) /\ w[p] = u[p - Len(s)]
  BY Concatenated
<1> HIDE DEF w
<1>2. /\ \A p \in DOMAIN s : s[p].at \in i .. m
      /\ \A p \in DOMAIN u : u[p].at \in m + 1 .. n
  BY DEF Covers
<1>3. \A p \in DOMAIN w :
          /\ w[p].at \in i .. n
          /\ w[p].kind \in Writing => t[w[p].at].kind = "W" /\ w[p] = Write(t, w[p].at)
  <2> DEFINE Fine(x) == /\ x.at \in i .. n
                        /\ x.kind \in Writing => t[x.at].kind = "W" /\ x = Write(t, x.at)
  <2>1. i .. m \subseteq i .. n /\ m + 1 .. n \subseteq i .. n
    OBVIOUS
  <2>2. \A p \in DOMAIN s : Fine(s[p])
    BY <1>2, <2>1 DEF Covers
  <2>3. \A p \in DOMAIN u : Fine(u[p])
    BY <1>2, <2>1 DEF Covers
  <2>4. \A p \in DOMAIN w : Fine(w[p])
    <3> HIDE DEF Fine
    <3> QED
      BY <1>1, <2>2, <2>3
  <2> QED
    BY <2>4
<1>4. KeepsOrder(w)
  <2> SUFFICES ASSUME NEW p \in DOMAIN w, NEW q \in DOMAIN w, p < q,
                      {w[p].kind, w[q].kind} \cap Writing # {}
               PROVE  w[p].at < w[q].at
    BY DEF KeepsOrder
  <2>0. p \in Nat /\ q \in Nat /\ Len(s) \in Nat
    BY <1>1
  <2>1. CASE q \in DOMAIN s /\ w[q] = s[q]
    <3>1. p \in DOMAIN s /\ w[p] = s[p]
      BY <1>1, <2>0, <2>1
    <3> QED
      BY <2>1, <3>1 DEF Covers, KeepsOrder
  <2>2. CASE q - Len(s) \in DOMAIN u /\ w[q] = u[q - Len(s)]
    <3>1. CASE p \in DOMAIN s /\ w[p] = s[p]
      <4>1. w[p].at \in i .. m /\ w[q].at \in m + 1 .. n
        BY <1>2, <2>2, <3>1
      <4> QED
        BY <4>1
    <3>2. CASE p - Len(s) \in DOMAIN u /\ w[p] = u[p - Len(s)]
      <4>1. p - Len(s) < q - Len(s)
        BY <2>0
      <4> QED
        BY <2>2, <3>2, <4>1 DEF Covers, KeepsOrder
    <3> QED
      BY <1>1, <3>1, <3>2
  <2> QED
    BY <1>1, <2>1, <2>2
<1>5. \A l \in i .. n : l \in i .. m \/ l \in m + 1 .. n
  OBVIOUS
<1>6. ASSUME NEW l \in i .. n, t[l].kind = "W"
      PROVE  \E p \in DOMAIN w : w[p].kind \in Writing /\ w[p].at = l
  <2>1. CASE l \in i .. m
    BY <1>1, <1>6, <2>1 DEF Covers
  <2>2. CASE l \in m + 1 .. n
    <3>1. PICK p \in DOMAIN u : u[p].kind \in Writing /\ u[p].at = l
      BY <1>6, <2>2 DEF Covers
    <3> QED
      BY <1>1, <3>1
  <2> QED
    BY <1>5, <2>1, <2>2
<1>7. ASSUME NEW l \in i .. n, t[l].kind = "R"
      PROVE  Answers(t, w, l)
  <2> DEFINE Polls(x) == /\ x.kind = "pollval" /\ x.a = t[x.at].value
                         /\ x.at > l /\ t[x.at].addr = t[l].addr
                         /\ \A k \in l .. x.at : t[k].kind = "R"
  <2>1. ASSUME NEW v \in {s, u}, Answers(t, v, l),
               \A p \in DOMAIN v : \E q \in DOMAIN w : w[q] = v[p],
               \A q \in DOMAIN w : w[q].at = l => \E p \in DOMAIN v : w[q] = v[p]
        PROVE  Answers(t, w, l)
    <3>1. \/ Fuses(t, l) /\ \A p \in DOMAIN v : v[p].at = l => v[p].kind = "pollmask"
          \/ ~Fuses(t, l) /\ \E p \in DOMAIN v : v[p].kind \notin Writing /\ v[p].at = l
          \/ \E p \in DOMAIN v : Polls(v[p])
      BY <2>1 DEF Answers
    <3>2. \/ Fuses(t, l) /\ \A p \in DOMAIN w : w[p].at = l => w[p].kind = "pollmask"
          \/ ~Fuses(t, l) /\ \E p \in DOMAIN w : w[p].kind \notin Writing /\ w[p].at = l
          \/ \E p \in DOMAIN w : Polls(w[p])
      <4> HIDE DEF Polls
      <4> QED
        BY <2>1, <3>1
    <3> QED
      BY <3>2 DEF Answers
  <2> HIDE DEF Polls
  <2>2. CASE l \in i .. m
    <3>1. Answers(t, s, l)
      BY <1>7, <2>2 DEF Covers
    <3>2. \A q \in DOMAIN w : w[q].at = l => \E p \in DOMAIN s : w[q] = s[p]
      <4> SUFFICES ASSUME NEW q \in DOMAIN w, w[q].at = l PROVE \E p \in DOMAIN s : w[q] = s[p]
        OBVIOUS
      <4>1. CASE q - Len(s) \in DOMAIN u /\ w[q] = u[q - Len(s)]
        <5>1. w[q].at \in m + 1 .. n
          BY <1>2, <4>1
        <5> QED
          BY <2>2, <5>1
      <4> QED
        BY <1>1, <4>1
    <3> QED
      BY <1>1, <2>1, <3>1, <3>2
  <2>3. CASE l \in m + 1 .. n
    <3>1. Answers(t, u, l)
      BY <1>7, <2>3 DEF Covers
    <3>2. \A q \in DOMAIN w : w[q].at = l => \E p \in DOMAIN u : w[q] = u[p]
      <4> SUFFICES ASSUME NEW q \in DOMAIN w, w[q].at = l PROVE \E p \in DOMAIN u : w[q] = u[p]
        OBVIOUS
      <4>1. CASE q \in DOMAIN s /\ w[q] = s[q]
        <5>1. w[q].at \in i .. m
          BY <1>2, <4>1
        <5> QED
          BY <2>3, <5>1
      <4> QED
        BY <1>1, <4>1
    <3> QED
      BY <1>1, <2>1, <3>1, <3>2
  <2> QED
    BY <1>5, <2>2, <2>3
<1>8. PollsToTheEnd(t, w)
  <2>1. \A p \in DOMAIN w : (\E q \in DOMAIN s : w[p] = s[q]) \/ (\E q \in DOMAIN u : w[p] = u[q])
    BY <1>1
  <2> DEFINE Ends(x) == x.kind = "pollval" =>
        \A k \in x.at + 1 .. Len(t) :
            \/ t[k].addr # t[x.at].addr \/ Fuses(t, k)
            \/ \E l \in x.at .. k : t[l].kind = "W"
  <2>2. \A q \in DOMAIN s : Ends(s[q])
    BY DEF Covers, PollsToTheEnd
  <2>3. \A q \in DOMAIN u : Ends(u[q])
    BY DEF Covers, PollsToTheEnd
  <2>4. \A p \in DOMAIN w : Ends(w[p])
    <3> HIDE DEF Ends
    <3> QED
      BY <2>1, <2>2, <2>3
  <2> QED
    BY <2>4 DEF PollsToTheEnd
<1>9. Covers(t, i, n, w)
  BY <1>3, <1>4, <1>6, <1>7, <1>8 DEF Covers
<1> QED
  BY <1>1, <1>9 DEF w

-----------------------------------------------------------------------------
(* The parts.                                                              *)

IsTrace(t) == \A i \in DOMAIN t : t[i].kind \in {"R", "W"}

LEMMA WriteCovers ==
  ASSUME NEW Rec, NEW t \in Seq(Rec), NEW i \in DOMAIN t, t[i].kind = "W"
  PROVE  <<Write(t, i)>> \in Seq(Steps(t)) /\ Covers(t, i, i, <<Write(t, i)>>)
<1> DEFINE x == Write(t, i)
<1>1. x \in Steps(t) /\ x.at = i /\ x.kind \in Writing /\ x.kind # "pollval"
  BY WriteIs DEF Writing
<1>2. x = Write(t, x.at)
  BY <1>1
<1> HIDE DEF x
<1>3. <<x>> \in Seq(Steps(t)) /\ DOMAIN <<x>> = {1} /\ <<x>>[1] = x
  BY <1>1
<1>4. KeepsOrder(<<x>>)
  <2>1. ~(1 < 1)
    OBVIOUS
  <2> QED
    BY <1>3, <2>1 DEF KeepsOrder
<1>5. PollsToTheEnd(t, <<x>>)
  BY <1>1, <1>3 DEF PollsToTheEnd
<1>6. \A l \in i .. i : l = i
  OBVIOUS
<1>7. \A l \in i .. i : t[l].kind = "R" => Answers(t, <<x>>, l)
  BY <1>6
<1>8. \A p \in DOMAIN <<x>> :
          /\ <<x>>[p].at \in i .. i
          /\ <<x>>[p].kind \in Writing => t[<<x>>[p].at].kind = "W" /\ <<x>>[p] = Write(t, <<x>>[p].at)
  BY <1>1, <1>2, <1>3
<1>9. \A l \in i .. i : t[l].kind = "W" =>
          \E p \in DOMAIN <<x>> : <<x>>[p].kind \in Writing /\ <<x>>[p].at = l
  BY <1>1, <1>3, <1>6
<1>10. Covers(t, i, i, <<x>>)
  BY <1>4, <1>5, <1>7, <1>8, <1>9 DEF Covers
<1> QED
  BY <1>3, <1>10 DEF x

\* A read that shows what the write before it started.
LEMMA PollmaskCovers ==
  ASSUME NEW Rec, NEW t \in Seq(Rec), NEW i \in DOMAIN t, t[i].kind = "R", NEW y
  PROVE  LET x == Step("pollmask", i, t[i].value \ y, {})
         IN  <<x>> \in Seq(Steps(t)) /\ Covers(t, i, i, <<x>>)
<1> DEFINE x == Step("pollmask", i, t[i].value \ y, {})
<1>1. x \in Steps(t) /\ x.at = i /\ x.kind = "pollmask"
  <2>1. t[i].value \ y \in SUBSET Bitset(t) /\ {} \in SUBSET Bitset(t)
    BY ValueIn
  <2> QED
    BY <2>1, StepIs
<1> HIDE DEF x
<1>2. <<x>> \in Seq(Steps(t)) /\ DOMAIN <<x>> = {1} /\ <<x>>[1] = x
  BY <1>1
<1>3. KeepsOrder(<<x>>)
  <2>1. ~(1 < 1)
    OBVIOUS
  <2> QED
    BY <1>2, <2>1 DEF KeepsOrder
<1>4. PollsToTheEnd(t, <<x>>)
  BY <1>1, <1>2 DEF PollsToTheEnd
<1>5. \A l \in i .. i : l = i
  OBVIOUS
<1>6. Answers(t, <<x>>, i)
  BY <1>1, <1>2 DEF Answers, Writing
<1>7. \A p \in DOMAIN <<x>> : <<x>>[p].at \in i .. i /\ <<x>>[p].kind \notin Writing
  BY <1>1, <1>2 DEF Writing
<1>8. Covers(t, i, i, <<x>>)
  BY <1>3, <1>4, <1>5, <1>6, <1>7 DEF Covers
<1> QED
  BY <1>2, <1>8 DEF x

\* A read that is left to the write after it.
LEMMA FusedCovers ==
  ASSUME NEW t, NEW i \in Nat, Fuses(t, i)
  PROVE  Covers(t, i, i, <<>>)
<1>1. \A l \in i .. i : l = i
  OBVIOUS
<1>2. DOMAIN <<>> = {}
  OBVIOUS
<1>3. Answers(t, <<>>, i)
  BY <1>2 DEF Answers
<1>4. t[i].kind = "R"
  BY DEF Fuses
<1> QED
  BY <1>1, <1>2, <1>3, <1>4 DEF Covers, KeepsOrder, PollsToTheEnd

\* The end of a run of reads: before a write, or before a read that is fused.
LEMMA RunEndIs ==
  ASSUME NEW Rec, NEW t \in Seq(Rec), IsTrace(t), NEW i \in DOMAIN t, t[i].kind = "R",
         ~Fuses(t, i)
  PROVE  /\ RunEnd(t, i) \in i .. Len(t)
         /\ \A k \in i .. RunEnd(t, i) : t[k].kind = "R" /\ ~Fuses(t, k)
         /\ RunEnd(t, i) < Len(t) => \/ t[RunEnd(t, i) + 1].kind = "W"
                                     \/ /\ Fuses(t, RunEnd(t, i) + 1)
                                        /\ RunEnd(t, i) + 2 <= Len(t)
                                        /\ t[RunEnd(t, i) + 2].kind = "W"
<1> DEFINE Ends(j) == /\ \A k \in i .. j : t[k].kind = "R"
                      /\ j < Len(t) => t[j + 1].kind = "W"
           last == CHOOSE j \in i .. Len(t) : Ends(j)
           T == {k \in i .. Len(t) : t[k].kind = "W"}
<1>1. \E j \in i .. Len(t) : Ends(j)
  <2>1. CASE T = {}
    BY <2>1 DEF IsTrace
  <2>2. CASE T # {}
    <3>1. T \in SUBSET Nat
      OBVIOUS
    <3>2. PICK w \in T : \A y \in T : w <= y
      <4> HIDE DEF T
      <4> QED
        BY <2>2, <3>1, LeastNumber
    <3>3. w \in i .. Len(t) /\ t[w].kind = "W" /\ w # i
      BY <3>2
    <3>4. \A k \in i .. w - 1 : t[k].kind = "R"
      <4> SUFFICES ASSUME NEW k \in i .. w - 1, t[k].kind # "R" PROVE FALSE
        OBVIOUS
      <4>1. k \in i .. Len(t) /\ k < w
        BY <3>3
      <4>2. k \in DOMAIN t
        BY <4>1
      <4>3. k \in T
        BY <4>1, <4>2 DEF IsTrace
      <4>4. w <= k
        BY <3>2, <4>3
      <4> QED
        BY <3>3, <4>1, <4>4
    <3>5. w - 1 \in i .. Len(t) /\ (w - 1) + 1 = w
      BY <3>3
    <3> QED
      BY <3>3, <3>4, <3>5
  <2> QED
    BY <2>1, <2>2
<1>2. last \in i .. Len(t) /\ Ends(last)
  BY <1>1
<1>3. RunEnd(t, i) = IF last > i /\ Fuses(t, last) THEN last - 1 ELSE last
  BY DEF RunEnd
<1> HIDE DEF last, T
<1>4. \A k \in i .. last : k # last => ~Fuses(t, k)
  <2> SUFFICES ASSUME NEW k \in i .. last, k # last, Fuses(t, k) PROVE FALSE
    OBVIOUS
  <2>1. k + 1 \in i .. last /\ t[k + 1].kind = "W"
    BY <1>2 DEF Fuses
  <2> QED
    BY <1>2, <2>1
<1>5. CASE last > i /\ Fuses(t, last)
  <2>1. RunEnd(t, i) = last - 1
    BY <1>3, <1>5
  <2>2. last \in 1 .. Len(t) - 1 /\ t[last + 1].kind = "W"
    BY <1>5 DEF Fuses
  <2>3. last - 1 \in i .. Len(t) /\ (last - 1) + 1 = last /\ (last - 1) + 2 = last + 1
    BY <1>2, <1>5, <2>2
  <2>4. \A k \in i .. last - 1 : k \in i .. last /\ k # last
    BY <1>2
  <2>5. last + 1 <= Len(t)
    BY <2>2
  <2> QED
    BY <1>2, <1>4, <1>5, <2>1, <2>2, <2>3, <2>4, <2>5
<1>6. CASE ~(last > i /\ Fuses(t, last))
  <2>1. RunEnd(t, i) = last
    BY <1>3, <1>6
  <2>2. ~Fuses(t, last)
    BY <1>2, <1>6
  <2> QED
    BY <1>2, <1>4, <2>1, <2>2
<1> QED
  BY <1>5, <1>6

-----------------------------------------------------------------------------
(* The run of reads from i to j.  Part(t, i, j, k, s): s plans those whose *)
(* address first appears at k or later.                                    *)

Own(t, i, j, x) ==
    /\ x.kind \in {"read", "pollval"} /\ x.at \in i .. j
    /\ x.kind = "pollval" =>
          x.a = t[x.at].value /\ \A l \in i .. j : t[l].addr = t[x.at].addr => l <= x.at

For(t, x, l) ==
    \/ x.at = l
    \/ x.kind = "pollval" /\ x.at >= l /\ t[x.at].addr = t[l].addr

Part(t, i, j, k, s) ==
    /\ s \in Seq(Steps(t))
    /\ \A p \in DOMAIN s : Own(t, i, j, s[p])
    /\ \A l \in i .. j :
          (\A m \in i .. k - 1 : t[m].addr # t[l].addr) => \E p \in DOMAIN s : For(t, s[p], l)

LEMMA GroupIs ==
  ASSUME NEW Rec, NEW t \in Seq(Rec), NEW i \in DOMAIN t, NEW j \in i .. Len(t), NEW k \in i .. j
  PROVE  LET s == Reads(t, Group(t, i, j, k)) IN
         /\ s \in Seq(Steps(t))
         /\ \A p \in DOMAIN s : Own(t, i, j, s[p])
         /\ \A l \in i .. j : t[l].addr = t[k].addr => \E p \in DOMAIN s : For(t, s[p], l)
<1> DEFINE G == Group(t, i, j, k)
           s == Reads(t, G)
<1>1. G \in SUBSET (DOMAIN t) /\ G # {} /\ G \subseteq i .. j
  <2>1. k \in G
    BY DEF Group
  <2> QED
    BY <2>1 DEF Group
<1>2. \A l \in i .. j : l \in G <=> t[l].addr = t[k].addr
  BY DEF Group
<1> HIDE DEF G
<1>3. /\ s \in Seq(Steps(t))
      /\ \/ /\ Len(s) = 1 /\ s[1].kind = "pollval" /\ s[1].at = Max(G) /\ s[1].a = t[Max(G)].value
         \/ /\ \A p \in DOMAIN s : s[p].kind = "read" /\ s[p].at \in G
            /\ \A l \in G : \E p \in DOMAIN s : s[p].at = l
      /\ Max(G) \in G /\ \A l \in G : l <= Max(G)
  BY <1>1, ReadsAre
<1> HIDE DEF s
<1>4. CASE Len(s) = 1 /\ s[1].kind = "pollval" /\ s[1].at = Max(G) /\ s[1].a = t[Max(G)].value
  <2>1. DOMAIN s = {1}
    BY <1>3, <1>4
  <2>2. t[Max(G)].addr = t[k].addr /\ Max(G) \in i .. j
    BY <1>1, <1>2, <1>3
  <2>3. Own(t, i, j, s[1])
    BY <1>2, <1>3, <1>4, <2>2 DEF Own
  <2>4. ASSUME NEW l \in i .. j, t[l].addr = t[k].addr PROVE For(t, s[1], l)
    <3>1. l <= Max(G)
      BY <1>2, <1>3, <2>4
    <3> QED
      BY <1>4, <2>2, <2>4, <3>1 DEF For
  <2> QED
    BY <1>3, <2>1, <2>3, <2>4 DEF s, G
<1>5. CASE /\ \A p \in DOMAIN s : s[p].kind = "read" /\ s[p].at \in G
           /\ \A l \in G : \E p \in DOMAIN s : s[p].at = l
  <2>1. \A p \in DOMAIN s : Own(t, i, j, s[p])
    BY <1>1, <1>5 DEF Own
  <2>2. \A l \in i .. j : t[l].addr = t[k].addr => \E p \in DOMAIN s : For(t, s[p], l)
    BY <1>2, <1>5 DEF For
  <2> QED
    BY <1>3, <2>1, <2>2 DEF s, G
<1> QED
  BY <1>3, <1>4, <1>5

LEMMA PartEnd ==
  ASSUME NEW t, NEW i \in Nat, NEW j \in Nat
  PROVE  Part(t, i, j, j + 1, <<>>)
<1>1. (j + 1) - 1 = j /\ DOMAIN <<>> = {} /\ <<>> \in Seq(Steps(t))
  OBVIOUS
<1> QED
  BY <1>1 DEF Part

LEMMA PartSkip ==
  ASSUME NEW t, NEW i \in Nat, NEW j \in Nat, NEW k \in i .. j, NEW s,
         Part(t, i, j, k + 1, s), \E l \in i .. k - 1 : t[l].addr = t[k].addr
  PROVE  Part(t, i, j, k, s)
<1> SUFFICES ASSUME NEW l \in i .. j, \A m \in i .. k - 1 : t[m].addr # t[l].addr
             PROVE  \A m \in i .. (k + 1) - 1 : t[m].addr # t[l].addr
  BY DEF Part
<1>1. \A m \in i .. (k + 1) - 1 : m \in i .. k - 1 \/ m = k
  OBVIOUS
<1> QED
  BY <1>1

LEMMA PartGroup ==
  ASSUME NEW Rec, NEW t \in Seq(Rec), NEW i \in DOMAIN t, NEW j \in i .. Len(t), NEW k \in i .. j,
         NEW u, Part(t, i, j, k + 1, u)
  PROVE  Part(t, i, j, k, Reads(t, Group(t, i, j, k)) \o u)
<1> DEFINE s == Reads(t, Group(t, i, j, k))
           w == s \o u
<1>1. /\ s \in Seq(Steps(t))
      /\ \A p \in DOMAIN s : Own(t, i, j, s[p])
      /\ \A l \in i .. j : t[l].addr = t[k].addr => \E p \in DOMAIN s : For(t, s[p], l)
  BY GroupIs
<1>2. /\ u \in Seq(Steps(t))
      /\ \A p \in DOMAIN u : Own(t, i, j, u[p])
      /\ \A l \in i .. j :
            (\A m \in i .. (k + 1) - 1 : t[m].addr # t[l].addr) => \E p \in DOMAIN u : For(t, u[p], l)
  BY DEF Part
<1> HIDE DEF s
<1>3. /\ w \in Seq(Steps(t))
      /\ \A p \in DOMAIN s : p \in DOMAIN w /\ w[p] = s[p]
      /\ \A p \in DOMAIN u : p + Len(s) \in DOMAIN w /\ w[p + Len(s)] = u[p]
      /\ \A p \in DOMAIN w :
            \/ p \in DOMAIN s /\ w[p] = s[p]
            \/ p - Len(s) \in DOMAIN u /\ p > Len(s) /\ w[p] = u[p - Len(s)]
  BY <1>1, <1>2, Concatenated
<1> HIDE DEF w
<1>4. \A p \in DOMAIN w : Own(t, i, j, w[p])
  BY <1>1, <1>2, <1>3
<1>5. ASSUME NEW l \in i .. j, \A m \in i .. k - 1 : t[m].addr # t[l].addr
      PROVE  \E p \in DOMAIN w : For(t, w[p], l)
  <2>1. CASE t[l].addr = t[k].addr
    BY <1>1, <1>3, <2>1
  <2>2. CASE t[l].addr # t[k].addr
    <3>1. \A m \in i .. (k + 1) - 1 : m \in i .. k - 1 \/ m = k
      OBVIOUS
    <3>2. \A m \in i .. (k + 1) - 1 : t[m].addr # t[l].addr
      BY <1>5, <2>2, <3>1
    <3> QED
      BY <1>2, <1>3, <3>2
  <2> QED
    BY <2>1, <2>2
<1>6. Part(t, i, j, k, w)
  BY <1>3, <1>4, <1>5 DEF Part
<1> QED
  BY <1>6 DEF w, s

\* Grouped is a solution of the equation that defines it.
GroupedAt(t, i, j, f, k) ==
    IF k > j THEN <<>>
    ELSE IF \E l \in i .. k - 1 : t[l].addr = t[k].addr THEN f[k + 1]
    ELSE Reads(t, Group(t, i, j, k)) \o f[k + 1]

LEMMA GroupedSolves ==
  ASSUME NEW Rec, NEW t \in Seq(Rec), NEW i \in DOMAIN t, NEW j \in i .. Len(t)
  PROVE  \E f : Grouped(t, i, j) = f[i] /\ \A k \in i .. j + 1 : f[k] = GroupedAt(t, i, j, f, k)
<1> DEFINE D == i .. j + 1
           S == Seq(Steps(t))
           B == [p \in [D -> S] \X D |-> GroupedAt(t, i, j, p[1], p[2])]
           Solves(from) == from = [k \in D |-> GroupedAt(t, i, j, from, k)]
<1>1. S # {}
  <2>1. <<>> \in S
    OBVIOUS
  <2> QED
    BY <2>1
<1>2. ASSUME NEW f \in [D -> S], NEW k \in D PROVE GroupedAt(t, i, j, f, k) \in S
  <2>1. CASE k > j
    BY <2>1 DEF GroupedAt
  <2>2. CASE k <= j
    <3>1. k \in i .. j /\ k + 1 \in D /\ ~(k > j)
      BY <2>2
    <3>2. f[k + 1] \in S
      BY <3>1
    <3>3. Reads(t, Group(t, i, j, k)) \in Seq(Steps(t))
      BY <3>1, GroupIs
    <3>4. Reads(t, Group(t, i, j, k)) \o f[k + 1] \in Seq(Steps(t))
      BY <3>2, <3>3, Concatenated
    <3> QED
      BY <3>1, <3>2, <3>4 DEF GroupedAt
  <2> QED
    BY <2>1, <2>2
<1>3. \A f \in [D -> S], k \in D : B[<<f, k>>] = GroupedAt(t, i, j, f, k)
  OBVIOUS
<1>4. B \in [[D -> S] \X D -> S]
  <2>1. \A p \in [D -> S] \X D : GroupedAt(t, i, j, p[1], p[2]) \in S
    <3> HIDE DEF S, D
    <3> QED
      BY <1>2
  <2> QED
    BY <2>1
<1>5. ASSUME NEW f \in [D -> S], NEW g \in [D -> S], NEW k \in D, \A l \in k + 1 .. j + 1 : f[l] = g[l]
      PROVE  B[<<f, k>>] = B[<<g, k>>]
  <2>1. CASE k > j
    <3>1. GroupedAt(t, i, j, f, k) = <<>> /\ GroupedAt(t, i, j, g, k) = <<>>
      BY <2>1 DEF GroupedAt
    <3> HIDE DEF B, S, D
    <3> QED
      BY <1>3, <3>1
  <2>2. CASE k <= j
    <3>1. f[k + 1] = g[k + 1]
      <4>1. k + 1 \in k + 1 .. j + 1
        BY <2>2
      <4> QED
        BY <1>5, <4>1
    <3>2. GroupedAt(t, i, j, f, k) = GroupedAt(t, i, j, g, k)
      BY <3>1, Zenon DEF GroupedAt
    <3> HIDE DEF B, S, D
    <3> QED
      BY <1>3, <3>2
  <2> QED
    BY <2>1, <2>2
<1>6. \E f \in [D -> S] : \A k \in D : f[k] = B[<<f, k>>]
  <2>1. i \in Nat /\ j + 1 \in Nat
    OBVIOUS
  <2>2. LooksRight(i, j + 1, S, B)
    <3> HIDE DEF B, S
    <3> QED
      BY <1>4, <1>5 DEF LooksRight
  <2> HIDE DEF B, S
  <2>3. Solved(i, j + 1, S, B)
    BY <1>1, <2>1, <2>2, RightRecursion
  <2> QED
    BY <2>3 DEF Solved
<1>7. PICK f \in [D -> S] : \A k \in D : f[k] = B[<<f, k>>]
  BY <1>6
<1>8. Solves(f)
  <2>1. \A k \in D : f[k] = GroupedAt(t, i, j, f, k)
    <3> HIDE DEF B, S, D
    <3> QED
      BY <1>3, <1>7
  <2>2. f = [k \in D |-> f[k]]
    OBVIOUS
  <2> HIDE DEF S, D
  <2> QED
    BY <2>1, <2>2
<1> DEFINE from == CHOOSE from : Solves(from)
<1>9. Solves(from)
  <2> HIDE DEF Solves
  <2> QED
    BY <1>8
<1>10. Grouped(t, i, j) = from[i]
  BY Zenon DEF Grouped, GroupedAt
<1>11. \A k \in D : from[k] = GroupedAt(t, i, j, from, k)
  <2> HIDE DEF from, D
  <2> QED
    BY <1>9
<1> HIDE DEF from
<1> QED
  BY <1>10, <1>11

LEMMA GroupedPart ==
  ASSUME NEW Rec, NEW t \in Seq(Rec), NEW i \in DOMAIN t, NEW j \in i .. Len(t)
  PROVE  Part(t, i, j, i, Grouped(t, i, j))
<1>1. PICK f : Grouped(t, i, j) = f[i] /\ \A k \in i .. j + 1 : f[k] = GroupedAt(t, i, j, f, k)
  BY GroupedSolves
<1> DEFINE P == {k \in Nat : Part(t, i, j, k, f[k])}
<1>2. ASSUME NEW k \in i .. j + 1, \A l \in k + 1 .. j + 1 : l \in P PROVE k \in P
  <2>0. k \in Nat /\ f[k] = GroupedAt(t, i, j, f, k) /\ i \in Nat /\ j \in Nat
    BY <1>1
  <2>1. CASE k = j + 1
    <3>1. f[k] = <<>>
      BY <2>0, <2>1 DEF GroupedAt
    <3>2. Part(t, i, j, j + 1, <<>>)
      BY <2>0, PartEnd
    <3> QED
      BY <2>0, <2>1, <3>1, <3>2
  <2>2. CASE k # j + 1
    <3>1. k \in i .. j /\ k + 1 \in k + 1 .. j + 1 /\ ~(k > j)
      BY <2>2
    <3>2. Part(t, i, j, k + 1, f[k + 1])
      BY <1>2, <3>1
    <3>3. CASE \E l \in i .. k - 1 : t[l].addr = t[k].addr
      <4>1. f[k] = f[k + 1]
        BY <2>0, <3>1, <3>3 DEF GroupedAt
      <4>2. Part(t, i, j, k, f[k + 1])
        BY <2>0, <3>1, <3>2, <3>3, PartSkip
      <4> QED
        BY <2>0, <4>1, <4>2
    <3>4. CASE ~\E l \in i .. k - 1 : t[l].addr = t[k].addr
      <4>1. f[k] = Reads(t, Group(t, i, j, k)) \o f[k + 1]
        BY <2>0, <3>1, <3>4 DEF GroupedAt
      <4>2. Part(t, i, j, k, Reads(t, Group(t, i, j, k)) \o f[k + 1])
        BY <3>1, <3>2, PartGroup
      <4> QED
        BY <2>0, <4>1, <4>2
    <3> QED
      BY <3>3, <3>4
  <2> QED
    BY <2>1, <2>2
<1>3. i .. j + 1 \subseteq P
  <2>1. i \in Nat /\ j + 1 \in Nat
    OBVIOUS
  <2> HIDE DEF P
  <2> QED
    BY <1>2, <2>1, FromTheRight
<1>4. i \in i .. j + 1
  OBVIOUS
<1> QED
  BY <1>1, <1>3, <1>4

\* A run of reads that ends before a write or before a read fused with one.
LEMMA GroupedCovers ==
  ASSUME NEW Rec, NEW t \in Seq(Rec), NEW i \in DOMAIN t, NEW j \in i .. Len(t),
         \A k \in i .. j : t[k].kind = "R" /\ ~Fuses(t, k),
         j < Len(t) => \/ t[j + 1].kind = "W"
                       \/ Fuses(t, j + 1) /\ j + 2 <= Len(t) /\ t[j + 2].kind = "W"
  PROVE  Grouped(t, i, j) \in Seq(Steps(t)) /\ Covers(t, i, j, Grouped(t, i, j))
<1> DEFINE s == Grouped(t, i, j)
<1>0. i \in Nat /\ j \in Nat /\ Len(t) \in Nat /\ j <= Len(t)
  OBVIOUS
<1>1. /\ s \in Seq(Steps(t))
      /\ \A p \in DOMAIN s : Own(t, i, j, s[p])
      /\ \A l \in i .. j :
            (\A m \in i .. i - 1 : t[m].addr # t[l].addr) => \E p \in DOMAIN s : For(t, s[p], l)
  BY GroupedPart DEF Part
<1> HIDE DEF s
<1>2. \A l \in i .. j : \E p \in DOMAIN s : For(t, s[p], l)
  <2>1. i .. i - 1 = {}
    BY <1>0
  <2> QED
    BY <1>1, <2>1
<1>3. \A p \in DOMAIN s : s[p].at \in i .. j /\ s[p].kind \notin Writing
  BY <1>1 DEF Own, Writing
<1>4. KeepsOrder(s)
  BY <1>3 DEF KeepsOrder
<1>5. ASSUME NEW l \in i .. j PROVE Answers(t, s, l)
  <2>1. PICK p \in DOMAIN s : For(t, s[p], l)
    BY <1>2
  <2>2. CASE s[p].at = l
    BY <1>3, <1>5, <2>2 DEF Answers
  <2>3. CASE s[p].at # l
    <3>1. s[p].kind = "pollval" /\ s[p].at >= l /\ t[s[p].at].addr = t[l].addr
      BY <2>1, <2>3 DEF For
    <3>2. s[p].a = t[s[p].at].value /\ s[p].at \in i .. j
      BY <1>1, <3>1 DEF Own
    <3>3. s[p].at > l
      BY <2>3, <3>1, <3>2
    <3>4. \A k \in l .. s[p].at : t[k].kind = "R"
      <4>1. \A k \in l .. s[p].at : k \in i .. j
        BY <3>2
      <4> QED
        BY <4>1
    <3> QED
      BY <3>1, <3>2, <3>3, <3>4 DEF Answers
  <2> QED
    BY <2>2, <2>3
<1>6. PollsToTheEnd(t, s)
  <2> SUFFICES ASSUME NEW p \in DOMAIN s, s[p].kind = "pollval", NEW k \in s[p].at + 1 .. Len(t),
                      t[k].addr = t[s[p].at].addr, ~Fuses(t, k)
               PROVE  \E l \in s[p].at .. k : t[l].kind = "W"
    BY DEF PollsToTheEnd
  <2>1. s[p].at \in i .. j /\ \A l \in i .. j : t[l].addr = t[s[p].at].addr => l <= s[p].at
    BY <1>1 DEF Own
  <2>2. k > j
    BY <1>0, <2>1
  <2>3. k >= j + 1 /\ j + 1 <= Len(t) /\ j < Len(t)
    BY <1>0, <2>1, <2>2
  <2>4. CASE t[j + 1].kind = "W"
    <3>1. j + 1 \in s[p].at .. k
      BY <1>0, <2>1, <2>3
    <3> QED
      BY <2>4, <3>1
  <2>5. CASE Fuses(t, j + 1) /\ j + 2 <= Len(t) /\ t[j + 2].kind = "W"
    <3>1. k # j + 1
      BY <2>5
    <3>2. j + 2 \in s[p].at .. k
      BY <1>0, <2>1, <2>3, <3>1
    <3> QED
      BY <2>5, <3>2
  <2> QED
    BY <2>3, <2>4, <2>5
<1>7. Covers(t, i, j, s)
  <2>1. \A l \in i .. j : t[l].kind # "W"
    OBVIOUS
  <2> QED
    BY <1>3, <1>4, <1>5, <1>6, <2>1 DEF Covers
<1> QED
  BY <1>1, <1>7 DEF s

-----------------------------------------------------------------------------
(* The whole plan.                                                         *)

\* PlanOf is a solution of the equation that defines it.
PlanAt(t, f, i) ==
    IF i > Len(t) THEN <<>>
    ELSE IF t[i].kind = "W" THEN <<Write(t, i)>> \o f[i + 1]
    ELSE IF Acknowledges(t, i)
         THEN <<Step("pollmask", i, t[i].value \ t[i - 1].value, {})>> \o f[i + 1]
    ELSE IF Fuses(t, i) THEN f[i + 1]
    ELSE Grouped(t, i, RunEnd(t, i)) \o f[RunEnd(t, i) + 1]

LEMMA RunCovers ==
  ASSUME NEW Rec, NEW t \in Seq(Rec), IsTrace(t), NEW i \in DOMAIN t, t[i].kind = "R",
         ~Fuses(t, i)
  PROVE  /\ RunEnd(t, i) \in i .. Len(t)
         /\ Grouped(t, i, RunEnd(t, i)) \in Seq(Steps(t))
         /\ Covers(t, i, RunEnd(t, i), Grouped(t, i, RunEnd(t, i)))
<1>1. /\ RunEnd(t, i) \in i .. Len(t)
      /\ \A k \in i .. RunEnd(t, i) : t[k].kind = "R" /\ ~Fuses(t, k)
      /\ RunEnd(t, i) < Len(t) => \/ t[RunEnd(t, i) + 1].kind = "W"
                                  \/ /\ Fuses(t, RunEnd(t, i) + 1)
                                     /\ RunEnd(t, i) + 2 <= Len(t)
                                     /\ t[RunEnd(t, i) + 2].kind = "W"
  BY RunEndIs
<1> QED
  BY <1>1, GroupedCovers

LEMMA PlanAtIs ==
  ASSUME NEW Rec, NEW t \in Seq(Rec), IsTrace(t),
         NEW f \in [1 .. Len(t) + 1 -> Seq(Steps(t))], NEW i \in 1 .. Len(t) + 1
  PROVE  PlanAt(t, f, i) \in Seq(Steps(t))
<1>1. CASE i > Len(t)
  BY <1>1 DEF PlanAt
<1>2. CASE i <= Len(t)
  <2>0. i \in DOMAIN t /\ i + 1 \in 1 .. Len(t) + 1 /\ ~(i > Len(t))
    BY <1>2
  <2>1. f[i + 1] \in Seq(Steps(t))
    BY <2>0
  <2>2. CASE t[i].kind = "W"
    <3>1. <<Write(t, i)>> \in Seq(Steps(t))
      BY <2>0, <2>2, WriteCovers
    <3>2. <<Write(t, i)>> \o f[i + 1] \in Seq(Steps(t))
      BY <2>1, <3>1, Concatenated
    <3> QED
      BY <2>0, <2>2, <3>2 DEF PlanAt
  <2>3. CASE t[i].kind = "R"
    <3>1. CASE Acknowledges(t, i)
      <4> DEFINE x == Step("pollmask", i, t[i].value \ t[i - 1].value, {})
      <4>1. <<x>> \in Seq(Steps(t))
        BY <2>0, <2>3, PollmaskCovers
      <4>2. <<x>> \o f[i + 1] \in Seq(Steps(t))
        BY <2>1, <4>1, Concatenated
      <4> QED
        BY <2>0, <2>3, <3>1, <4>2 DEF PlanAt
    <3>2. CASE ~Acknowledges(t, i) /\ Fuses(t, i)
      BY <2>0, <2>1, <2>3, <3>2 DEF PlanAt
    <3>3. CASE ~Acknowledges(t, i) /\ ~Fuses(t, i)
      <4>1. /\ RunEnd(t, i) \in i .. Len(t)
            /\ Grouped(t, i, RunEnd(t, i)) \in Seq(Steps(t))
        BY <2>0, <2>3, <3>3, RunCovers
      <4>2. RunEnd(t, i) + 1 \in 1 .. Len(t) + 1
        BY <2>0, <4>1
      <4>3. Grouped(t, i, RunEnd(t, i)) \o f[RunEnd(t, i) + 1] \in Seq(Steps(t))
        BY <4>1, <4>2, Concatenated
      <4> QED
        BY <2>0, <2>3, <3>3, <4>3 DEF PlanAt
    <3> QED
      BY <3>1, <3>2, <3>3
  <2> QED
    BY <2>0, <2>2, <2>3 DEF IsTrace
<1> QED
  BY <1>1, <1>2

LEMMA PlanSolves ==
  ASSUME NEW Rec, NEW t \in Seq(Rec), IsTrace(t)
  PROVE  \E f : PlanOf(t) = f[1] /\ \A i \in 1 .. Len(t) + 1 : f[i] = PlanAt(t, f, i)
<1> DEFINE D == 1 .. Len(t) + 1
           S == Seq(Steps(t))
           B == [p \in [D -> S] \X D |-> PlanAt(t, p[1], p[2])]
           Solves(from) == from = [i \in D |-> PlanAt(t, from, i)]
<1>1. S # {}
  <2>1. <<>> \in S
    OBVIOUS
  <2> QED
    BY <2>1
<1>2. \A f \in [D -> S], i \in D : PlanAt(t, f, i) \in S
  BY PlanAtIs
<1>3. \A f \in [D -> S], i \in D : B[<<f, i>>] = PlanAt(t, f, i)
  OBVIOUS
<1>4. B \in [[D -> S] \X D -> S]
  <2>1. \A p \in [D -> S] \X D : PlanAt(t, p[1], p[2]) \in S
    <3> HIDE DEF S, D
    <3> QED
      BY <1>2
  <2> QED
    BY <2>1
<1>5. ASSUME NEW f \in [D -> S], NEW g \in [D -> S], NEW i \in D,
             \A l \in i + 1 .. Len(t) + 1 : f[l] = g[l]
      PROVE  B[<<f, i>>] = B[<<g, i>>]
  <2>1. PlanAt(t, f, i) = PlanAt(t, g, i)
    <3>1. CASE i > Len(t)
      BY <3>1 DEF PlanAt
    <3>2. CASE i <= Len(t)
      <4>0. i \in DOMAIN t /\ ~(i > Len(t)) /\ i + 1 \in i + 1 .. Len(t) + 1
        BY <3>2
      <4>1. f[i + 1] = g[i + 1]
        BY <1>5, <4>0
      <4>2. CASE t[i].kind = "W" \/ Acknowledges(t, i) \/ Fuses(t, i)
        BY <4>1, <4>2, Zenon DEF PlanAt
      <4>3. CASE ~(t[i].kind = "W" \/ Acknowledges(t, i) \/ Fuses(t, i))
        <5>1. t[i].kind = "R"
          BY <4>0, <4>3 DEF IsTrace
        <5>2. RunEnd(t, i) \in i .. Len(t)
          BY <4>0, <4>3, <5>1, RunCovers
        <5>3. RunEnd(t, i) + 1 \in i + 1 .. Len(t) + 1
          BY <4>0, <5>2
        <5>4. f[RunEnd(t, i) + 1] = g[RunEnd(t, i) + 1]
          BY <1>5, <5>3
        <5> QED
          BY <4>1, <5>4, Zenon DEF PlanAt
      <4> QED
        BY <4>2, <4>3
    <3> QED
      BY <3>1, <3>2
  <2> HIDE DEF B, S, D
  <2> QED
    BY <1>3, <2>1
<1>6. \E f \in [D -> S] : \A i \in D : f[i] = B[<<f, i>>]
  <2>1. 1 \in Nat /\ Len(t) + 1 \in Nat
    OBVIOUS
  <2>2. LooksRight(1, Len(t) + 1, S, B)
    <3> HIDE DEF B, S
    <3> QED
      BY <1>4, <1>5 DEF LooksRight
  <2> HIDE DEF B, S
  <2>3. Solved(1, Len(t) + 1, S, B)
    BY <1>1, <2>1, <2>2, RightRecursion
  <2> QED
    BY <2>3 DEF Solved
<1>7. PICK f \in [D -> S] : \A i \in D : f[i] = B[<<f, i>>]
  BY <1>6
<1>8. Solves(f)
  <2>1. \A i \in D : f[i] = PlanAt(t, f, i)
    <3> HIDE DEF B, S, D
    <3> QED
      BY <1>3, <1>7
  <2>2. f = [i \in D |-> f[i]]
    OBVIOUS
  <2> HIDE DEF S, D
  <2> QED
    BY <2>1, <2>2
<1> DEFINE from == CHOOSE from : Solves(from)
<1>9. Solves(from)
  <2> HIDE DEF Solves
  <2> QED
    BY <1>8
<1>10. PlanOf(t) = from[1]
  BY Zenon DEF PlanOf, PlanAt
<1>11. \A i \in D : from[i] = PlanAt(t, from, i)
  <2> HIDE DEF from, D
  <2> QED
    BY <1>9
<1> HIDE DEF from
<1> QED
  BY <1>10, <1>11

LEMMA PlanCovers ==
  ASSUME NEW Rec, NEW t \in Seq(Rec), IsTrace(t)
  PROVE  PlanOf(t) \in Seq(Steps(t)) /\ Covers(t, 1, Len(t), PlanOf(t))
<1>1. PICK f : PlanOf(t) = f[1] /\ \A i \in 1 .. Len(t) + 1 : f[i] = PlanAt(t, f, i)
  BY PlanSolves
<1> DEFINE n == Len(t)
           P == {i \in Nat : f[i] \in Seq(Steps(t)) /\ Covers(t, i, n, f[i])}
<1>0. n \in Nat /\ DOMAIN t = 1 .. n
  OBVIOUS
<1> HIDE DEF n
<1>2. ASSUME NEW i \in 1 .. n, NEW m \in i .. n, NEW s \in Seq(Steps(t)), Covers(t, i, m, s),
             m + 1 \in P, f[i] = s \o f[m + 1]
      PROVE  i \in P
  <2>1. i \in Nat /\ m \in Nat /\ i <= m + 1 /\ m <= n
    BY <1>0
  <2>2. f[m + 1] \in Seq(Steps(t)) /\ Covers(t, m + 1, n, f[m + 1])
    BY <1>2
  <2>3. s \o f[m + 1] \in Seq(Steps(t)) /\ Covers(t, i, n, s \o f[m + 1])
    BY <1>0, <1>2, <2>1, <2>2, CoversJoin
  <2> QED
    BY <1>2, <2>1, <2>3
<1>3. ASSUME NEW i \in 1 .. n + 1, \A j \in i + 1 .. n + 1 : j \in P PROVE i \in P
  <2>0. i \in Nat /\ f[i] = PlanAt(t, f, i)
    BY <1>1 DEF n
  <2>1. CASE i > n
    <3>1. f[i] = <<>> /\ <<>> \in Seq(Steps(t)) /\ DOMAIN <<>> = {}
      BY <2>0, <2>1 DEF PlanAt, n
    <3>2. i .. n = {}
      BY <1>0, <2>1
    <3>3. Covers(t, i, n, <<>>)
      BY <3>1, <3>2 DEF Covers, KeepsOrder, PollsToTheEnd
    <3> QED
      BY <2>0, <3>1, <3>3
  <2>2. CASE i <= n
    <3>0. i \in 1 .. n /\ i \in DOMAIN t /\ i \in i .. n /\ i + 1 \in P /\ ~(i > Len(t))
      BY <1>0, <1>3, <2>2 DEF n
    <3>1. CASE t[i].kind = "W"
      <4>1. f[i] = <<Write(t, i)>> \o f[i + 1]
        BY <2>0, <3>0, <3>1 DEF PlanAt
      <4>2. <<Write(t, i)>> \in Seq(Steps(t)) /\ Covers(t, i, i, <<Write(t, i)>>)
        BY <3>0, <3>1, WriteCovers
      <4> QED
        BY <1>2, <3>0, <4>1, <4>2
    <3>2. CASE t[i].kind = "R" /\ Acknowledges(t, i)
      <4> DEFINE x == Step("pollmask", i, t[i].value \ t[i - 1].value, {})
      <4>1. f[i] = <<x>> \o f[i + 1]
        BY <2>0, <3>0, <3>2 DEF PlanAt
      <4>2. <<x>> \in Seq(Steps(t)) /\ Covers(t, i, i, <<x>>)
        BY <3>0, <3>2, PollmaskCovers
      <4> HIDE DEF x
      <4> QED
        BY <1>2, <3>0, <4>1, <4>2
    <3>3. CASE t[i].kind = "R" /\ ~Acknowledges(t, i) /\ Fuses(t, i)
      <4>1. f[i] = f[i + 1]
        BY <2>0, <3>0, <3>3 DEF PlanAt
      <4>2. Covers(t, i, i, <<>>) /\ <<>> \in Seq(Steps(t))
        BY <2>0, <3>3, FusedCovers
      <4>3. f[i + 1] \in Seq(Steps(t))
        BY <3>0
      <4>4. f[i] = <<>> \o f[i + 1]
        BY <4>1, <4>3
      <4> QED
        BY <1>2, <3>0, <4>2, <4>4
    <3>4. CASE t[i].kind = "R" /\ ~Acknowledges(t, i) /\ ~Fuses(t, i)
      <4> DEFINE e == RunEnd(t, i)
      <4>1. f[i] = Grouped(t, i, e) \o f[e + 1]
        BY <2>0, <3>0, <3>4 DEF PlanAt
      <4>2. e \in i .. n /\ Grouped(t, i, e) \in Seq(Steps(t)) /\ Covers(t, i, e, Grouped(t, i, e))
        BY <3>0, <3>4, RunCovers DEF n
      <4> HIDE DEF e
      <4>3. e + 1 \in i + 1 .. n + 1
        BY <1>0, <3>0, <4>2
      <4> QED
        BY <1>2, <1>3, <3>0, <4>1, <4>2, <4>3
    <3> QED
      BY <3>0, <3>1, <3>2, <3>3, <3>4 DEF IsTrace
  <2> QED
    BY <1>0, <2>1, <2>2
<1>4. 1 .. n + 1 \subseteq P
  <2>1. 1 \in Nat /\ n + 1 \in Nat
    BY <1>0
  <2> HIDE DEF P
  <2> QED
    BY <1>3, <2>1, FromTheRight
<1>5. 1 \in 1 .. n + 1
  BY <1>0
<1> QED
  BY <1>1, <1>4, <1>5 DEF n

-----------------------------------------------------------------------------
(* What every plan owes to its trace.                                      *)

\* plan_segment makes the writes of a trace, all of them and no other, in their
\* order, and moves no read across one of them.
THEOREM PlansKeepOrder ==
  ASSUME NEW Rec, NEW t \in Seq(Rec), IsTrace(t)
  PROVE  WritesOf(t, PlanOf(t)) /\ KeepsOrder(PlanOf(t))
<1> DEFINE plan == PlanOf(t)
<1>1. Covers(t, 1, Len(t), plan) /\ DOMAIN t = 1 .. Len(t)
  BY PlanCovers
<1> HIDE DEF plan
<1>2. KeepsOrder(plan)
  BY <1>1 DEF Covers
<1>3. WritesOf(t, plan)
  BY <1>1 DEF Covers, WritesOf
<1> QED
  BY <1>2, <1>3 DEF plan

\* plan_segment finds a place for every read: in the read-modify-write of the
\* write after it and nowhere else, by itself, or in a poll that ends in the
\* value, and after the last read, of its series.
THEOREM PlansAnswerReads ==
  ASSUME NEW Rec, NEW t \in Seq(Rec), IsTrace(t)
  PROVE  /\ \A i \in DOMAIN t : t[i].kind = "R" => Answers(t, PlanOf(t), i)
         /\ PollsToTheEnd(t, PlanOf(t))
<1> DEFINE plan == PlanOf(t)
<1>1. Covers(t, 1, Len(t), plan) /\ DOMAIN t = 1 .. Len(t)
  BY PlanCovers
<1> HIDE DEF plan
<1>2. PollsToTheEnd(t, plan)
  BY <1>1 DEF Covers
<1>3. \A i \in DOMAIN t : t[i].kind = "R" => Answers(t, plan, i)
  BY <1>1 DEF Covers
<1> QED
  BY <1>2, <1>3 DEF plan

\* A read-modify-write of a plan replaces a read and the write after it, of one
\* register; it sets the bits that went up between them and clears those that
\* went down, so on what was read it gives what was written.
THEOREM DeltasAreExact ==
  ASSUME NEW Rec, NEW t \in Seq(Rec), IsTrace(t), NEW p \in DOMAIN PlanOf(t),
         PlanOf(t)[p].kind = "rmw"
  PROVE  /\ Fuses(t, PlanOf(t)[p].at - 1)
         /\ PlanOf(t)[p].a \cap PlanOf(t)[p].b = {}
         /\ (t[PlanOf(t)[p].at - 1].value \cup PlanOf(t)[p].a) \ PlanOf(t)[p].b
               = t[PlanOf(t)[p].at].value
<1> DEFINE x == PlanOf(t)[p]
<1>1. x.at \in DOMAIN t /\ x = Write(t, x.at)
  <2>1. Covers(t, 1, Len(t), PlanOf(t)) /\ DOMAIN t = 1 .. Len(t)
    BY PlanCovers
  <2>2. x.kind \in Writing
    BY DEF Writing
  <2> QED
    BY <2>1, <2>2 DEF Covers
<1>2. x.kind = "rmw"
  OBVIOUS
<1> HIDE DEF x
<1> DEFINE i == x.at
<1>3. /\ Write(t, i).kind = IF Fuses(t, i - 1) THEN "rmw" ELSE "write"
      /\ Write(t, i).kind = "rmw" =>
               /\ Write(t, i).a = t[i].value \ t[i - 1].value
               /\ Write(t, i).b = t[i - 1].value \ t[i].value
  BY <1>1, WriteIs
<1>4. /\ Fuses(t, x.at - 1)
      /\ x.a = t[x.at].value \ t[x.at - 1].value
      /\ x.b = t[x.at - 1].value \ t[x.at].value
  BY <1>1, <1>2, <1>3
<1>5. x.a \cap x.b = {} /\ (t[x.at - 1].value \cup x.a) \ x.b = t[x.at].value
  BY <1>4
<1> QED
  BY <1>4, <1>5 DEF x
=============================================================================
