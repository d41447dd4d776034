-------------------------- MODULE ProcQueueProofs --------------------------
(***************************************************************************)
(* TLAPS proofs that the pointers of ProcQueue make circles and a stack,   *)
(* and implement the lists of PcbLists, for any number of pcbs and queues. *)
(***************************************************************************)
EXTENDS ProcQueue, PcbQueueProofs, FiniteSetTheorems, WellFoundedInduction

(***************************************************************************)
(* Induction, for a set of numbers.                                        *)
(***************************************************************************)
Less == {ss \in Nat \X Nat : ss[1] < ss[2]}

\* A set of numbers that has one has a least one.
LEMMA Least == ASSUME NEW T \in SUBSET Nat, T # {} PROVE \E n \in T : \A m \in T : n <= m
<1>1. IsWellFoundedOn(Less, Nat)
  <2>1. Less = OpToRel(<, Nat)
    BY DEF Less, OpToRel
  <2> QED  BY <2>1, NatLessThanWellFounded
<1>2. PICK n \in T : \A m \in T : ~(<<m, n>> \in Less)
  BY <1>1, WFMin
<1>3. ASSUME NEW m \in T, m < n PROVE FALSE
  <2>1. <<m, n>> \in Less
    BY <1>3 DEF Less
  <2> QED  BY <2>1, <1>2
<1> QED  BY <1>2, <1>3

\* A set that has 0, and the next number with each number, has them all.
LEMMA Induct == ASSUME NEW S, 0 \in S, \A n \in Nat : n \in S => n + 1 \in S PROVE Nat \subseteq S
<1> SUFFICES ASSUME Nat \ S # {} PROVE FALSE
  OBVIOUS
<1>1. PICK n \in Nat \ S : \A m \in Nat \ S : n <= m
  BY Least
<1>2. n # 0 /\ n - 1 \in Nat
  BY <1>1
<1>3. n - 1 \in S
  BY <1>1, <1>2
<1> QED  BY <1>1, <1>2, <1>3

-----------------------------------------------------------------------------
(***************************************************************************)
(* Following pointers.                                                     *)
(***************************************************************************)
\* Where the link of p leads.
After(ptrs, p) == IF p = NULL THEN NULL ELSE ptrs[p]

\* g follows the links from p, n times.
Follows(ptrs, p, g, n) ==
    g = [k \in 0 .. n |-> IF k = 0 THEN p ELSE After(ptrs, g[k - 1])]

LEMMA FollowExists == ASSUME NEW ptrs, NEW p, NEW n \in Nat PROVE \E g : Follows(ptrs, p, g, n)
<1> DEFINE S == {k \in Nat : \E g : Follows(ptrs, p, g, k)}
<1>1. 0 \in S
  <2>1. Follows(ptrs, p, [k \in 0 .. 0 |-> p], 0)
    BY DEF Follows
  <2> QED  BY <2>1
<1>2. ASSUME NEW k \in Nat, k \in S PROVE k + 1 \in S
  <2>1. PICK g : Follows(ptrs, p, g, k)
    BY <1>2
  <2> DEFINE h == [i \in 0 .. k + 1 |-> IF i = k + 1 THEN After(ptrs, g[k]) ELSE g[i]]
  <2>2. ASSUME NEW i \in 0 .. k + 1
        PROVE  h[i] = IF i = 0 THEN p ELSE After(ptrs, h[i - 1])
    BY <2>1 DEF Follows
  <2>3. h = [i \in 0 .. k + 1 |-> IF i = 0 THEN p ELSE After(ptrs, h[i - 1])]
    <3> HIDE DEF h
    <3>1. h = [i \in 0 .. k + 1 |-> h[i]]
      BY DEF h
    <3> QED  BY <3>1, <2>2
  <2> HIDE DEF h
  <2>4. Follows(ptrs, p, h, k + 1)
    BY <2>3 DEF Follows
  <2> QED  BY <2>4
<1> HIDE DEF S
<1>3. n \in S
  BY <1>1, <1>2, Induct
<1> QED  BY <1>3 DEF S

\* The walk of Behind.
LEMMA BehindSteps ==
    ASSUME NEW ptrs, NEW p
    PROVE  LET f == Behind(ptrs, p) IN
           /\ f[0] = p
           /\ \A n \in 1 .. Cardinality(Pcb) : f[n] = After(ptrs, f[n - 1])
<1>1. Cardinality(Pcb) \in Nat
  BY FS_CardinalityType, PcbAssumption
<1>2. \E g : Follows(ptrs, p, g, Cardinality(Pcb))
  BY <1>1, FollowExists
<1>3. Follows(ptrs, p, Behind(ptrs, p), Cardinality(Pcb))
  BY <1>2 DEF Behind, Follows, After
<1> HIDE DEF Behind
<1> QED  BY <1>1, <1>3 DEF Follows

-----------------------------------------------------------------------------
(***************************************************************************)
(* What the pointers make.                                                 *)
(***************************************************************************)
\* The links nx from h go through the pcbs of s and end.
ChainOf(nx, h, s) ==
    /\ s \in Seq(Pcb) /\ IsInjective(s)
    /\ h = IF s = <<>> THEN NULL ELSE s[1]
    /\ \A i \in 1 .. Len(s) : nx[s[i]] = IF i = Len(s) THEN NULL ELSE s[i + 1]

\* The links nx forwards and pv backwards make a circle of the pcbs of s, which
\* the pointer t to the tail leads to.
CircleOf(nx, pv, t, s) ==
    /\ s \in Seq(Pcb) /\ IsInjective(s)
    /\ t = IF s = <<>> THEN NULL ELSE s[Len(s)]
    /\ \A i \in 1 .. Len(s) - 1 : nx[s[i]] = s[i + 1] /\ pv[s[i + 1]] = s[i]
    /\ s # <<>> => nx[s[Len(s)]] = s[1] /\ pv[s[1]] = s[Len(s)]

LEMMA SeqFacts ==
    ASSUME NEW s \in Seq(Pcb)
    PROVE  /\ Len(s) \in Nat /\ DOMAIN s = 1 .. Len(s)
           /\ s = <<>> <=> Len(s) = 0
           /\ \A i \in 1 .. Len(s) : s[i] \in Pcb /\ s[i] \in ToSet(s)
           /\ \A p : p \in ToSet(s) <=> \E i \in 1 .. Len(s) : s[i] = p
  BY QueueElements, LenProperties, ElementOfSeq

\* There are no more pcbs in a list than there are.
LEMMA NoLonger ==
    ASSUME NEW s \in Seq(Pcb), IsInjective(s)
    PROVE  /\ Cardinality(Pcb) \in Nat /\ Len(s) <= Cardinality(Pcb)
           /\ Len(s) = Cardinality(Pcb) => ToSet(s) = Pcb
<1>1. s \in Injection(1 .. Len(s), Pcb)
  BY SeqFacts DEF Injection, IsInjective
<1>2. /\ Cardinality(1 .. Len(s)) <= Cardinality(Pcb)
      /\ Cardinality(1 .. Len(s)) = Cardinality(Pcb) => s \in Surjection(1 .. Len(s), Pcb)
  BY <1>1, FS_Injection, PcbAssumption
<1>3. Cardinality(1 .. Len(s)) = Len(s)
  BY SeqFacts, FS_Interval
<1>4. ASSUME s \in Surjection(1 .. Len(s), Pcb) PROVE ToSet(s) = Pcb
  BY <1>4, SeqFacts DEF Surjection
<1>5. Cardinality(Pcb) \in Nat
  BY FS_CardinalityType, PcbAssumption
<1> QED  BY <1>2, <1>3, <1>4, <1>5

\* Behind the tail come the pcbs of the circle, head first, round and round.
LEMMA RoundCircle ==
    ASSUME NEW nx, NEW pv, NEW t, NEW s, CircleOf(nx, pv, t, s), s # <<>>
    PROVE  LET f == Behind(nx, t) IN
           /\ f[0] = t
           /\ \A n \in 1 .. Len(s) : f[n] = s[n]
           /\ \A n \in 0 .. Cardinality(Pcb) : f[n] \in ToSet(s)
<1> DEFINE f == Behind(nx, t)
           S == {n \in Nat : n \in 1 .. Len(s) => f[n] = s[n]}
           R == {n \in Nat : n <= Cardinality(Pcb) => f[n] \in ToSet(s)}
<1>1. /\ f[0] = t
      /\ \A n \in 1 .. Cardinality(Pcb) : f[n] = After(nx, f[n - 1])
  BY BehindSteps
<1>2. /\ Len(s) \in Nat \ {0} /\ Len(s) <= Cardinality(Pcb) /\ Cardinality(Pcb) \in Nat
      /\ \A i \in 1 .. Len(s) : s[i] \in Pcb /\ s[i] \in ToSet(s) /\ s[i] # NULL
      /\ \A p \in ToSet(s) : \E i \in 1 .. Len(s) : s[i] = p
      /\ t = s[Len(s)] /\ nx[t] = s[1]
      /\ \A i \in 1 .. Len(s) - 1 : nx[s[i]] = s[i + 1]
  BY SeqFacts, NoLonger, PcbAssumption DEF CircleOf
<1> HIDE DEF f
<1>3. 0 \in S /\ 0 \in R
  BY <1>1, <1>2
<1>4. ASSUME NEW n \in Nat, n \in S PROVE n + 1 \in S
  <2> SUFFICES ASSUME n + 1 \in 1 .. Len(s) PROVE f[n + 1] = s[n + 1]
    OBVIOUS
  <2>1. f[n + 1] = After(nx, f[n])
    BY <1>1, <1>2
  <2>2. CASE n = 0
    BY <2>1, <2>2, <1>1, <1>2 DEF After
  <2>3. CASE n # 0
    BY <2>1, <2>3, <1>4, <1>2 DEF After
  <2> QED  BY <2>2, <2>3
<1>5. ASSUME NEW n \in Nat, n \in R PROVE n + 1 \in R
  <2> SUFFICES ASSUME n + 1 <= Cardinality(Pcb) PROVE f[n + 1] \in ToSet(s)
    OBVIOUS
  <2>1. f[n + 1] = After(nx, f[n])
    BY <1>1, <1>2
  <2>2. PICK i \in 1 .. Len(s) : s[i] = f[n]
    BY <1>2, <1>5
  <2>3. CASE i = Len(s)
    BY <2>1, <2>2, <2>3, <1>2 DEF After
  <2>4. CASE i # Len(s)
    BY <2>1, <2>2, <2>4, <1>2 DEF After
  <2> QED  BY <2>3, <2>4
<1> HIDE DEF S, R
<1>6. Nat \subseteq S /\ Nat \subseteq R
  BY <1>3, <1>4, <1>5, Induct
<1>7. \A n \in 1 .. Len(s) : f[n] = s[n]
  BY <1>6 DEF S
<1>8. \A n \in 0 .. Cardinality(Pcb) : f[n] \in ToSet(s)
  BY <1>6, <1>2 DEF R
<1> QED  BY <1>1, <1>7, <1>8 DEF f

\* From the top of a stack come its pcbs, and then NULL.
LEMMA DownChain ==
    ASSUME NEW nx, NEW h, NEW s, ChainOf(nx, h, s)
    PROVE  LET f == Behind(nx, h) IN
           \A n \in 0 .. Cardinality(Pcb) : f[n] = IF n < Len(s) THEN s[n + 1] ELSE NULL
<1> DEFINE f == Behind(nx, h)
           S == {n \in Nat : n <= Cardinality(Pcb) => f[n] = IF n < Len(s) THEN s[n + 1] ELSE NULL}
<1>1. /\ f[0] = h
      /\ \A n \in 1 .. Cardinality(Pcb) : f[n] = After(nx, f[n - 1])
  BY BehindSteps
<1>2. /\ Len(s) \in Nat /\ Len(s) <= Cardinality(Pcb) /\ Cardinality(Pcb) \in Nat
      /\ \A i \in 1 .. Len(s) : s[i] # NULL
      /\ s = <<>> <=> Len(s) = 0
      /\ h = IF s = <<>> THEN NULL ELSE s[1]
      /\ \A i \in 1 .. Len(s) : nx[s[i]] = IF i = Len(s) THEN NULL ELSE s[i + 1]
  BY SeqFacts, NoLonger, PcbAssumption DEF ChainOf
<1> HIDE DEF f
<1>3. 0 \in S
  BY <1>1, <1>2
<1>4. ASSUME NEW n \in Nat, n \in S PROVE n + 1 \in S
  <2> SUFFICES ASSUME n + 1 <= Cardinality(Pcb)
               PROVE  f[n + 1] = IF n + 1 < Len(s) THEN s[n + 1 + 1] ELSE NULL
    OBVIOUS
  <2>1. f[n + 1] = After(nx, f[n])
    BY <1>1, <1>2
  <2>2. f[n] = IF n < Len(s) THEN s[n + 1] ELSE NULL
    BY <1>2, <1>4
  <2>3. CASE n < Len(s)
    BY <2>1, <2>2, <2>3, <1>2 DEF After
  <2>4. CASE ~(n < Len(s))
    BY <2>1, <2>2, <2>4, <1>2 DEF After
  <2> QED  BY <2>3, <2>4
<1> HIDE DEF S
<1>5. Nat \subseteq S
  BY <1>3, <1>4, Induct
<1> QED  BY <1>5, <1>2 DEF S, f

-----------------------------------------------------------------------------
(***************************************************************************)
(* Circle and Chain, read off the pointers, are these sequences.           *)
(***************************************************************************)
Ring(nx, t) ==
    IF t = NULL THEN <<>>
    ELSE LET f == Behind(nx, t)
         IN IF \E n \in Steps : f[n] = t
            THEN SubSeq([n \in Steps |-> f[n]], 1,
                        CHOOSE n \in Steps : f[n] = t /\ \A m \in 1 .. n - 1 : f[m] # t)
            ELSE <<>>

LEMMA CircleIsRing ==
    /\ \A q \in Queue : Circle(q) = Ring(p_next, tp[q]) /\ Circle(q)' = Ring(p_next', tp'[q])
    /\ Chain = LinkedFrom(p_next, pcbFree_h) /\ Chain' = LinkedFrom(p_next', pcbFree_h')
  BY DEF Circle, Ring, Chain, emptyProcQ

LEMMA RingRead ==
    ASSUME NEW nx, NEW pv, NEW t, NEW s, CircleOf(nx, pv, t, s)
    PROVE  Ring(nx, t) = s
<1>1. CASE s = <<>>
  BY <1>1 DEF Ring, CircleOf
<1>2. CASE s # <<>>
  <2> DEFINE f == Behind(nx, t)
             g == [n \in Steps |-> f[n]]
             k == CHOOSE n \in Steps : f[n] = t /\ \A m \in 1 .. n - 1 : f[m] # t
  <2>1. \A n \in 1 .. Len(s) : f[n] = s[n]
    BY <1>2, RoundCircle
  <2>2. \A n \in 0 .. Cardinality(Pcb) : f[n] \in ToSet(s)
    BY <1>2, RoundCircle
  <2>3. /\ Len(s) \in Steps /\ Len(s) \in Nat \ {0} /\ Cardinality(Pcb) \in Nat
        /\ t = s[Len(s)] /\ t # NULL /\ s \in Seq(Pcb) /\ ToSet(s) \subseteq Pcb
        /\ DOMAIN s = 1 .. Len(s)
    BY <1>2, SeqFacts, NoLonger, QueueElements, PcbAssumption DEF CircleOf, Steps
  <2> HIDE DEF f
  <2>4. \A m \in 1 .. Len(s) - 1 : s[m] # t
    BY <2>3 DEF CircleOf, IsInjective
  <2>5. f[Len(s)] = t /\ \A m \in 1 .. Len(s) - 1 : f[m] # t
    BY <2>1, <2>3, <2>4
  <2>6. k \in Steps /\ f[k] = t /\ \A m \in 1 .. k - 1 : f[m] # t
    BY <2>3, <2>5
  <2> HIDE DEF k
  <2>7. k = Len(s)
    <3>1. k \in Nat \ {0}
      BY <2>3, <2>6 DEF Steps
    <3>2. ~(k < Len(s))
      BY <3>1, <2>3, <2>5, <2>6
    <3>3. ~(Len(s) < k)
      BY <3>1, <2>3, <2>5, <2>6
    <3>4. Len(s) \in Nat
      BY <2>3
    <3> QED  BY <3>1, <3>2, <3>3, <3>4
  <2>8. g \in Seq(Pcb) /\ Len(g) = Cardinality(Pcb) /\ \A n \in 1 .. Len(s) : g[n] = s[n]
    <3>1. \A n \in Steps : f[n] \in Pcb
      BY <2>2, <2>3 DEF Steps
    <3>2. g \in [1 .. Cardinality(Pcb) -> Pcb]
      BY <3>1 DEF Steps
    <3>3. g \in Seq(Pcb) /\ Len(g) = Cardinality(Pcb)
      BY <3>2, <2>3, IsASeq, LenProperties
    <3> QED  BY <3>3, <2>1, <2>3 DEF Steps
  <2> HIDE DEF g
  <2>9. SubSeq(g, 1, Len(s)) = s
    <3> DEFINE r == SubSeq(g, 1, Len(s))
    <3>1. Len(s) <= Len(g)
      BY <2>3, <2>8 DEF Steps
    <3>2. \A i \in 1 .. Len(s) : g[i] \in Pcb
      BY <3>1, <2>8, <2>3, ElementOfSeq
    <3>3. /\ r \in Seq(Pcb) /\ Len(r) = Len(s)
          /\ \A i \in 1 .. Len(s) : r[i] = g[i]
      <4>1. /\ r \in Seq(Pcb) /\ Len(r) = IF 1 <= Len(s) THEN Len(s) - 1 + 1 ELSE 0
            /\ \A i \in 1 .. Len(s) - 1 + 1 : r[i] = g[1 + i - 1]
        BY <2>3, <3>2, SubSeqProperties
      <4> QED  BY <4>1, <2>3
    <3> HIDE DEF r
    <3>4. r = s
      BY <3>3, <2>8, <2>3, SeqEqual
    <3> QED  BY <3>4 DEF r
  <2> QED  BY <2>3, <2>5, <2>7, <2>9 DEF Ring, f, g, k
<1> QED  BY <1>1, <1>2

LEMMA StackRead ==
    ASSUME NEW nx, NEW h, NEW s, ChainOf(nx, h, s)
    PROVE  LinkedFrom(nx, h) = s
<1> DEFINE f == Behind(nx, h)
           there == {m \in 0 .. Cardinality(Pcb) : f[m] # NULL}
<1>1. \A n \in 0 .. Cardinality(Pcb) : f[n] = IF n < Len(s) THEN s[n + 1] ELSE NULL
  BY DownChain
<1>2. /\ Len(s) \in Nat /\ Len(s) <= Cardinality(Pcb) /\ Cardinality(Pcb) \in Nat
      /\ \A i \in 1 .. Len(s) : s[i] # NULL
      /\ DOMAIN s = 1 .. Len(s) /\ s \in Seq(Pcb)
  BY SeqFacts, NoLonger, PcbAssumption DEF ChainOf
<1> HIDE DEF f
<1>3. there = 0 .. Len(s) - 1
  BY <1>1, <1>2
<1>4. Cardinality(0 .. Len(s) - 1) = Len(s)
  <2>1. Len(s) - 1 \in Int /\ 0 \in Int
    BY <1>2
  <2>2. Cardinality(0 .. Len(s) - 1) = IF 0 > Len(s) - 1 THEN 0 ELSE Len(s) - 1 - 0 + 1
    BY <2>1, FS_Interval
  <2> QED  BY <2>2, <1>2
<1>5. s = [n \in 1 .. Len(s) |-> s[n]]
  BY <1>2, LenProperties
<1>6. \A n \in 1 .. Len(s) : f[n - 1] = s[n]
  BY <1>1, <1>2
<1> HIDE DEF there
<1>7. LinkedFrom(nx, h) = [n \in 1 .. Cardinality(there) |-> f[n - 1]]
  BY DEF LinkedFrom, there, f
<1>8. Cardinality(there) = Len(s)
  BY <1>3, <1>4
<1> QED  BY <1>5, <1>6, <1>7, <1>8

-----------------------------------------------------------------------------
(***************************************************************************)
(* What each operation does to a chain or a circle.                        *)
(***************************************************************************)
\* The list whose pcbs keep their links is the same.
LEMMA ChainStays ==
    ASSUME NEW nx, NEW nx2, NEW h, NEW s, ChainOf(nx, h, s), \A p \in ToSet(s) : nx2[p] = nx[p]
    PROVE  ChainOf(nx2, h, s)
  BY SeqFacts DEF ChainOf

LEMMA CircleStays ==
    ASSUME NEW nx, NEW nx2, NEW pv, NEW pv2, NEW t, NEW s, CircleOf(nx, pv, t, s),
           \A p \in ToSet(s) : nx2[p] = nx[p] /\ pv2[p] = pv[p]
    PROVE  CircleOf(nx2, pv2, t, s)
<1>1. /\ s \in Seq(Pcb) /\ Len(s) \in Nat /\ (s # <<>> => Len(s) # 0)
      /\ \A i \in 1 .. Len(s) : s[i] \in ToSet(s)
  BY SeqFacts DEF CircleOf
<1> QED  BY <1>1 DEF CircleOf

LEMMA ChainPush ==
    ASSUME NEW nx, NEW nx2, NEW h, NEW s, ChainOf(nx, h, s), NEW p \in Pcb \ ToSet(s),
           nx2[p] = h, \A r \in ToSet(s) : nx2[r] = nx[r]
    PROVE  ChainOf(nx2, p, <<p>> \o s)
<1> DEFINE r == <<p>> \o s
<1>1. /\ s \in Seq(Pcb) /\ Len(s) \in Nat /\ (s = <<>> <=> Len(s) = 0)
      /\ IsInjective(s)
      /\ \A i \in 1 .. Len(s) : s[i] \in ToSet(s)
      /\ h = IF s = <<>> THEN NULL ELSE s[1]
      /\ \A i \in 1 .. Len(s) : nx[s[i]] = IF i = Len(s) THEN NULL ELSE s[i + 1]
  BY SeqFacts DEF ChainOf
<1>2. r \in Seq(Pcb) /\ IsInjective(r)
  BY <1>1, PushChild
<1>3. /\ Len(r) = Len(s) + 1 /\ r[1] = p
      /\ \A i \in 1 .. Len(s) : r[i + 1] = s[i]
  <2>1. <<p>> \in Seq(Pcb) /\ Len(<<p>>) = 1
    OBVIOUS
  <2>2. /\ Len(r) = Len(<<p>>) + Len(s)
        /\ \A i \in 1 .. Len(<<p>>) + Len(s) :
              r[i] = IF i <= Len(<<p>>) THEN <<p>>[i] ELSE s[i - Len(<<p>>)]
    BY <1>1, <2>1, ConcatProperties
  <2>3. ASSUME NEW i \in 1 .. Len(s) PROVE r[i + 1] = s[i]
    <3>1. i + 1 \in 1 .. Len(<<p>>) + Len(s) /\ ~(i + 1 <= Len(<<p>>)) /\ i + 1 - Len(<<p>>) = i
      BY <1>1, <2>1
    <3> QED  BY <2>2, <3>1
  <2>4. 1 \in 1 .. Len(<<p>>) + Len(s) /\ 1 <= Len(<<p>>) /\ <<p>>[1] = p
    BY <1>1, <2>1
  <2> QED  BY <1>1, <2>1, <2>2, <2>3, <2>4
<1> HIDE DEF r
<1>4. r # <<>>
  BY <1>1, <1>2, <1>3, SeqFacts
<1>5. ASSUME NEW i \in 1 .. Len(r) PROVE nx2[r[i]] = IF i = Len(r) THEN NULL ELSE r[i + 1]
  <2>1. CASE i = 1
    BY <2>1, <1>1, <1>3
  <2>2. CASE i # 1
    <3>1. i - 1 \in 1 .. Len(s) /\ r[i] = s[i - 1]
      BY <2>2, <1>1, <1>3
    <3>2. nx2[r[i]] = IF i - 1 = Len(s) THEN NULL ELSE s[i]
      BY <3>1, <1>1
    <3>3. i # Len(r) => i \in 1 .. Len(s)
      BY <1>1, <1>3
    <3> QED  BY <3>1, <3>2, <3>3, <1>1, <1>3
  <2> QED  BY <2>1, <2>2
<1>6. ChainOf(nx2, p, r)
  BY <1>2, <1>3, <1>4, <1>5 DEF ChainOf
<1> QED  BY <1>6 DEF r

LEMMA ChainPop ==
    ASSUME NEW nx, NEW nx2, NEW h, NEW s, ChainOf(nx, h, s), s # <<>>,
           \A r \in ToSet(s) \ {h} : nx2[r] = nx[r]
    PROVE  h = Head(s) /\ ChainOf(nx2, nx[h], Tail(s))
<1> DEFINE r == Tail(s)
<1>1. /\ s \in Seq(Pcb) /\ Len(s) \in Nat \ {0} /\ DOMAIN s = 1 .. Len(s)
      /\ IsInjective(s) /\ h = s[1] /\ Head(s) = s[1]
      /\ \A i \in 1 .. Len(s) : s[i] \in ToSet(s)
      /\ \A i \in 1 .. Len(s) : nx[s[i]] = IF i = Len(s) THEN NULL ELSE s[i + 1]
  BY SeqFacts DEF ChainOf
<1>2. r \in Seq(Pcb) /\ IsInjective(r)
  BY <1>1, RemoveQueue
<1>3. Len(r) = Len(s) - 1 /\ \A i \in 1 .. Len(r) : r[i] = s[i + 1]
  BY <1>1, HeadTailProperties
<1> HIDE DEF r
<1>4. Len(s) \in Nat \ {0} /\ Len(r) = Len(s) - 1 /\ (r = <<>> <=> Len(r) = 0)
  BY <1>1, <1>2, <1>3, SeqFacts
<1>5. nx[h] = IF r = <<>> THEN NULL ELSE r[1]
  <2>1. 1 \in 1 .. Len(s) /\ (Len(s) # 1 => 1 \in 1 .. Len(r))
    BY <1>4
  <2>2. nx[h] = IF 1 = Len(s) THEN NULL ELSE s[1 + 1]
    BY <1>1, <2>1
  <2>3. r = <<>> <=> 1 = Len(s)
    BY <1>4
  <2>4. 1 # Len(s) => r[1] = s[1 + 1]
    BY <1>3, <2>1
  <2> QED  BY <2>2, <2>3, <2>4
<1>6. ASSUME NEW i \in 1 .. Len(r) PROVE nx2[r[i]] = IF i = Len(r) THEN NULL ELSE r[i + 1]
  <2>1. /\ i + 1 \in 1 .. Len(s) /\ 1 \in 1 .. Len(s) /\ i + 1 # 1
        /\ i = Len(r) <=> i + 1 = Len(s)
        /\ i # Len(r) => i + 1 \in 1 .. Len(r)
    BY <1>4
  <2>2. r[i] = s[i + 1] /\ r[i] \in ToSet(s)
    BY <1>1, <1>3, <2>1
  <2>3. r[i] # h
    BY <2>1, <2>2, <1>1 DEF IsInjective
  <2>4. nx2[r[i]] = IF i + 1 = Len(s) THEN NULL ELSE s[i + 1 + 1]
    BY <2>1, <2>2, <2>3, <1>1
  <2>5. i # Len(r) => r[i + 1] = s[i + 1 + 1]
    BY <2>1, <1>3
  <2> QED  BY <2>1, <2>4, <2>5
<1>7. ChainOf(nx2, nx[h], r)
  BY <1>2, <1>5, <1>6 DEF ChainOf
<1> QED  BY <1>1, <1>7 DEF r

\* The chain goes round the k-th pcb, which is not the first.
Skips(nx, nx2, s, k) ==
    /\ nx2[s[k - 1]] = nx[s[k]]
    /\ \A r \in ToSet(s) \ {s[k - 1], s[k]} : nx2[r] = nx[r]

LEMMA ChainUnlink ==
    ASSUME NEW nx, NEW nx2, NEW h, NEW s, ChainOf(nx, h, s), NEW k \in 2 .. Len(s),
           Skips(nx, nx2, s, k)
    PROVE  ChainOf(nx2, h, RemoveAt(s, k))
<1> DEFINE w == RemoveAt(s, k)
<1>1. /\ s \in Seq(Pcb) /\ Len(s) \in Nat /\ DOMAIN s = 1 .. Len(s) /\ IsInjective(s)
      /\ \A i \in 1 .. Len(s) : s[i] \in ToSet(s)
      /\ \A i \in 1 .. Len(s) : nx[s[i]] = IF i = Len(s) THEN NULL ELSE s[i + 1]
      /\ s # <<>> /\ h = s[1] /\ k \in 2 .. Len(s)
  <2>1. s \in Seq(Pcb) /\ IsInjective(s)
    BY DEF ChainOf
  <2>2. Len(s) \in Nat /\ k \in 2 .. Len(s)
    BY <2>1, SeqFacts
  <2>3. Len(s) # 0
    BY <2>2
  <2> QED  BY <2>1, <2>2, <2>3, SeqFacts DEF ChainOf
<1>2. Len(s) \in Nat /\ k \in 2 .. Len(s)
  BY <1>1
<1>3. k \in 1 .. Len(s) /\ s[k] \in ToSet(s)
  <2>1. k \in 1 .. Len(s)
    BY <1>2
  <2> QED  BY <1>1, <2>1
<1>4. /\ w \in Seq(Pcb) /\ Len(w) = Len(s) - 1
      /\ \A i \in 1 .. Len(s) - 1 : w[i] = IF i < k THEN s[i] ELSE s[i + 1]
  BY <1>1, <1>3, RemoveAtQueue
<1> HIDE DEF w
<1>5. \A i, j \in 1 .. Len(s) : s[i] = s[j] => i = j
  BY <1>1 DEF IsInjective
<1>6. DOMAIN w = 1 .. Len(s) - 1 /\ Len(w) \in Nat /\ w # <<>>
  <2>1. Len(w) \in Nat /\ DOMAIN w = 1 .. Len(w)
    BY <1>4, SeqFacts
  <2>2. Len(w) # 0
    <3>1. Len(s) \in Nat /\ k \in 2 .. Len(s) /\ Len(w) = Len(s) - 1
      BY <1>2, <1>4
    <3> QED  BY <3>1
  <2> QED  BY <1>4, <2>1, <2>2, SeqFacts
<1>7. IsInjective(w)
  <2>1. ASSUME NEW i \in 1 .. Len(s) - 1, NEW j \in 1 .. Len(s) - 1, w[i] = w[j] PROVE i = j
    <3> DEFINE origin(x) == IF x < k THEN x ELSE x + 1
    <3>1. origin(i) \in 1 .. Len(s) /\ origin(j) \in 1 .. Len(s)
      BY <1>2
    <3>2. w[i] = s[origin(i)] /\ w[j] = s[origin(j)]
      BY <1>4
    <3>3. origin(i) = origin(j)
      BY <1>5, <2>1, <3>1, <3>2
    <3> QED  BY <3>3, <1>2
  <2> QED  BY <1>6, <2>1 DEF IsInjective
<1>8. h = w[1]
  <2>1. 1 \in 1 .. Len(s) - 1 /\ 1 < k
    BY <1>2
  <2> QED  BY <1>1, <1>4, <2>1
<1>9. ASSUME NEW i \in 1 .. Len(s) - 1
      PROVE  nx2[w[i]] = IF i = Len(s) - 1 THEN NULL ELSE w[i + 1]
  <2>1. CASE i < k - 1
    <3>1. /\ i \in 1 .. Len(s) /\ i + 1 \in 1 .. Len(s) - 1 /\ i # k /\ i # k - 1 /\ i # Len(s)
          /\ i # Len(s) - 1 /\ k - 1 \in 1 .. Len(s) /\ i < k /\ i + 1 < k
      BY <1>2, <2>1
    <3>2. w[i] = s[i] /\ w[i + 1] = s[i + 1]
      BY <1>4, <3>1
    <3>3. s[i] \in ToSet(s) \ {s[k - 1], s[k]}
      BY <1>1, <1>3, <1>5, <3>1
    <3>4. nx2[s[i]] = s[i + 1]
      BY <1>1, <3>1, <3>3 DEF Skips
    <3> QED  BY <3>1, <3>2, <3>4
  <2>2. CASE i = k - 1
    <3>1. w[i] = s[k - 1]
      <4>1. i < k
        BY <1>2, <2>2
      <4> QED  BY <1>4, <2>2, <4>1
    <3>2. nx2[w[i]] = IF k = Len(s) THEN NULL ELSE s[k + 1]
      BY <1>1, <1>3, <3>1 DEF Skips
    <3>3. i = Len(s) - 1 <=> k = Len(s)
      BY <1>2, <2>2
    <3>4. k # Len(s) => w[i + 1] = s[k + 1]
      <4>1. ASSUME k # Len(s) PROVE k \in 1 .. Len(s) - 1 /\ ~(k < k) /\ i + 1 = k
        BY <1>2, <2>2, <4>1
      <4> QED  BY <1>4, <4>1
    <3> QED  BY <3>2, <3>3, <3>4
  <2>3. CASE i > k - 1
    <3>1. /\ i + 1 \in 1 .. Len(s) /\ i + 1 # k /\ i + 1 # k - 1 /\ k - 1 \in 1 .. Len(s) /\ ~(i < k)
          /\ (i + 1 = Len(s) <=> i = Len(s) - 1)
          /\ i # Len(s) - 1 => i + 1 \in 1 .. Len(s) - 1 /\ ~(i + 1 < k)
      BY <1>2, <2>3
    <3>2. w[i] = s[i + 1] /\ (i # Len(s) - 1 => w[i + 1] = s[i + 1 + 1])
      BY <1>4, <3>1
    <3>3. s[i + 1] \in ToSet(s) \ {s[k - 1], s[k]}
      BY <1>1, <1>3, <1>5, <3>1
    <3>4. nx2[s[i + 1]] = IF i + 1 = Len(s) THEN NULL ELSE s[i + 1 + 1]
      BY <1>1, <3>1, <3>3 DEF Skips
    <3> QED  BY <3>1, <3>2, <3>4
  <2> QED  BY <2>1, <2>2, <2>3, <1>2
<1>10. ChainOf(nx2, h, w)
  BY <1>4, <1>6, <1>7, <1>8, <1>9 DEF ChainOf
<1> QED  BY <1>10 DEF w

LEMMA RemoveAtSet ==
    ASSUME NEW s \in Seq(Pcb), IsInjective(s), NEW k \in 1 .. Len(s)
    PROVE  ToSet(RemoveAt(s, k)) = ToSet(s) \ {s[k]}
<1>1. DOMAIN s = 1 .. Len(s) /\ s[k] \in ToSet(s)
  BY SeqFacts
<1>2. (CHOOSE i \in DOMAIN s : s[i] = s[k]) = k
  BY <1>1 DEF IsInjective
<1>3. Without(s, s[k]) = RemoveAt(s, k)
  BY <1>2 DEF Without
<1> QED  BY <1>1, <1>3, WithoutQueue

\* What is freed one after the other is a chain, the last in front.
LEMMA FreedChain ==
    ASSUME NEW S \in SUBSET Pcb, NEW nx, \A p \in S : nx[p] = Freed(S)[p]
    PROVE  \E F : ChainOf(nx, LastFreed(S), F) /\ ToSet(F) = S /\ Len(F) = Cardinality(S)
<1> DEFINE N == Cardinality(S)
           array == SetToSeq(S)
           F == [k \in 1 .. N |-> array[N + 1 - k]]
<1>1. N \in Nat /\ array \in [1 .. N -> S] /\ IsInjective(array)
  <2>1. IsFiniteSet(S)
    BY FS_Subset, PcbAssumption
  <2>2. N \in Nat /\ ExistsBijection(1 .. N, S)
    BY <2>1, FS_CardinalityType
  <2>3. \E g \in [1 .. N -> S] : IsInjective(g)
    BY <2>2 DEF ExistsBijection, Bijection, Injection
  <2> QED  BY <2>2, <2>3 DEF SetToSeq
<1>2. \A p \in S : nx[p] = LET i == CHOOSE i \in DOMAIN array : array[i] = p
                          IN IF i = 1 THEN NULL ELSE array[i - 1]
  BY DEF Freed
<1>3. LastFreed(S) = IF S = {} THEN NULL ELSE Last(array)
  BY DEF LastFreed
<1>4. IsFiniteSet(S)
  BY FS_Subset, PcbAssumption
<1>5. S = {array[k] : k \in 1 .. N}
  <2>1. array \in Injection(1 .. N, S)
    BY <1>1 DEF Injection, IsInjective
  <2>2. Cardinality(1 .. N) = N
    BY <1>1, FS_Interval
  <2>3. array \in Surjection(1 .. N, S)
    BY <1>4, <2>1, <2>2, FS_Injection
  <2> QED  BY <1>1, <2>3 DEF Surjection
<1> HIDE DEF array, N
<1>6. /\ DOMAIN array = 1 .. N /\ Len(array) = N /\ \A i \in 1 .. N : array[i] \in S
      /\ \A i, j \in 1 .. N : array[i] = array[j] => i = j
  BY <1>1 DEF IsInjective
<1>7. F \in Seq(Pcb) /\ Len(F) = N /\ DOMAIN F = 1 .. N /\ IsInjective(F)
  <2>1. \A k \in 1 .. N : N + 1 - k \in 1 .. N
    BY <1>1
  <2>2. F \in [1 .. N -> Pcb]
    BY <1>6, <2>1
  <2>3. F \in Seq(Pcb) /\ Len(F) = N
    BY <1>1, <2>2
  <2>4. ASSUME NEW i \in 1 .. N, NEW j \in 1 .. N, F[i] = F[j] PROVE i = j
    <3>1. N + 1 - i = N + 1 - j
      BY <1>6, <2>1, <2>4
    <3> QED  BY <1>1, <3>1
  <2> QED  BY <2>2, <2>3, <2>4 DEF IsInjective
<1>8. \A k \in 1 .. N : F[k] = array[N + 1 - k]
  OBVIOUS
<1> HIDE DEF F
<1>9. ToSet(F) = S
  <2>1. \A k \in 1 .. N : N + 1 - k \in 1 .. N /\ N + 1 - (N + 1 - k) = k
    BY <1>1
  <2>2. \A k \in 1 .. N : array[k] = F[N + 1 - k]
    BY <1>8, <2>1
  <2>3. \A p : p \in ToSet(F) <=> \E k \in 1 .. N : F[k] = p
    BY <1>7, SeqFacts
  <2>4. ASSUME NEW p \in ToSet(F) PROVE p \in S
    BY <1>6, <1>8, <2>1, <2>3
  <2>5. ASSUME NEW p \in S PROVE p \in ToSet(F)
    <3>1. PICK k \in 1 .. N : array[k] = p
      BY <1>5
    <3>2. N + 1 - k \in 1 .. N /\ F[N + 1 - k] = p
      BY <2>1, <2>2, <3>1
    <3> QED  BY <2>3, <3>2
  <2> QED  BY <2>4, <2>5
<1>10. \A i \in 1 .. N : nx[array[i]] = IF i = 1 THEN NULL ELSE array[i - 1]
  <2> TAKE i \in 1 .. N
  <2>1. (CHOOSE j \in DOMAIN array : array[j] = array[i]) = i
    BY <1>6
  <2> QED  BY <1>2, <1>6, <2>1
<1>11. LastFreed(S) = IF F = <<>> THEN NULL ELSE F[1]
  <2>1. F = <<>> <=> S = {}
    BY <1>7, <1>9, QueueElements
  <2>2. ASSUME S # {} PROVE F[1] = Last(array)
    <3>1. 1 \in 1 .. N /\ N + 1 - 1 = N
      BY <1>1, <1>7, <2>1, <2>2, SeqFacts
    <3> QED  BY <1>6, <1>8, <3>1 DEF Last
  <2> QED  BY <1>3, <2>1, <2>2
<1>12. \A i \in 1 .. Len(F) : nx[F[i]] = IF i = Len(F) THEN NULL ELSE F[i + 1]
  <2> SUFFICES ASSUME NEW i \in 1 .. N
               PROVE  nx[F[i]] = IF i = N THEN NULL ELSE F[i + 1]
    BY <1>7
  <2>1. PICK j \in 1 .. N : F[i] = array[j] /\ (j = 1 <=> i = N) /\ (i # N => F[i + 1] = array[j - 1])
    <3>1. /\ N + 1 - i \in 1 .. N /\ (N + 1 - i = 1 <=> i = N)
          /\ i # N => i + 1 \in 1 .. N /\ N + 1 - (i + 1) = N + 1 - i - 1
      BY <1>1
    <3>2. F[i] = array[N + 1 - i]
      BY <1>8
    <3>3. i # N => F[i + 1] = array[N + 1 - (i + 1)]
      BY <1>8, <3>1
    <3>4. PICK j, k : j = N + 1 - i /\ k = N + 1 - (i + 1)
      OBVIOUS
    <3>5. j \in 1 .. N /\ (j = 1 <=> i = N) /\ k = j - 1
      BY <1>1, <3>1, <3>4
    <3>6. F[i] = array[j] /\ (i # N => F[i + 1] = array[k])
      BY <3>2, <3>3, <3>4
    <3> QED  BY <3>5, <3>6
  <2>2. nx[array[j]] = IF j = 1 THEN NULL ELSE array[j - 1]
    BY <1>10
  <2> QED  BY <2>1, <2>2
<1> QED  BY <1>7, <1>9, <1>11, <1>12 DEF ChainOf, N

\* insertProcQ on an empty queue, and on one with a tail.
LEMMA CircleOne ==
    ASSUME NEW nx2, NEW pv2, NEW p \in Pcb, nx2[p] = p, pv2[p] = p
    PROVE  CircleOf(nx2, pv2, p, Append(<<>>, p))
<1>1. Append(<<>>, p) = <<p>> /\ <<p>> \in Seq(Pcb) /\ Len(<<p>>) = 1 /\ <<p>>[1] = p
  OBVIOUS
<1>2. IsInjective(<<p>>)
  BY DEF IsInjective
<1> QED  BY <1>1, <1>2 DEF CircleOf

LEMMA CircleAppend ==
    ASSUME NEW nx, NEW nx2, NEW pv, NEW pv2, NEW t, NEW s, CircleOf(nx, pv, t, s), s # <<>>,
           NEW p \in Pcb \ ToSet(s), nx2[p] = nx[t], nx2[t] = p, pv2[p] = t, pv2[nx[t]] = p,
           \A r \in ToSet(s) : (r # t => nx2[r] = nx[r]) /\ (r # nx[t] => pv2[r] = pv[r])
    PROVE  CircleOf(nx2, pv2, p, Append(s, p))
<1> DEFINE r == Append(s, p)
<1>1. /\ s \in Seq(Pcb) /\ Len(s) \in Nat \ {0} /\ DOMAIN s = 1 .. Len(s)
      /\ IsInjective(s) /\ t = s[Len(s)] /\ nx[t] = s[1]
      /\ \A i \in 1 .. Len(s) : s[i] \in ToSet(s)
      /\ \A i \in 1 .. Len(s) - 1 : nx[s[i]] = s[i + 1] /\ pv[s[i + 1]] = s[i]
  BY SeqFacts DEF CircleOf
<1>2. /\ r \in Seq(Pcb) /\ Len(r) = Len(s) + 1
      /\ \A i \in 1 .. Len(s) : r[i] = s[i]
      /\ r[Len(s) + 1] = p
  BY <1>1, AppendProperties
<1>3. IsInjective(r)
  BY <1>1, InsertQueue DEF InsertProcQ
<1> HIDE DEF r
<1>4. r # <<>>
  BY <1>1, <1>2, SeqFacts
<1>5. Len(s) \in Nat \ {0} /\ Len(r) = Len(s) + 1
  BY <1>1, <1>2
<1>6. \A i, j \in 1 .. Len(s) : s[i] = s[j] => i = j
  BY <1>1 DEF IsInjective
<1>7. ASSUME NEW i \in 1 .. Len(r) - 1 PROVE nx2[r[i]] = r[i + 1] /\ pv2[r[i + 1]] = r[i]
  <2>1. i \in 1 .. Len(s) /\ r[i] = s[i]
    BY <1>2, <1>5
  <2>2. CASE i = Len(s)
    BY <2>1, <2>2, <1>1, <1>2
  <2>3. CASE i # Len(s)
    <3>1. /\ i \in 1 .. Len(s) - 1 /\ i + 1 \in 1 .. Len(s) /\ i + 1 # 1
          /\ 1 \in 1 .. Len(s) /\ Len(s) \in 1 .. Len(s)
      BY <2>1, <2>3, <1>5
    <3>2. r[i + 1] = s[i + 1] /\ nx[s[i]] = s[i + 1] /\ pv[s[i + 1]] = s[i]
      BY <3>1, <1>1, <1>2
    <3>3. s[i] # s[Len(s)] /\ s[i + 1] # s[1]
      BY <2>1, <2>3, <3>1, <1>6
    <3>4. s[i] \in ToSet(s) /\ s[i + 1] \in ToSet(s) /\ s[i] # t /\ s[i + 1] # nx[t]
      BY <2>1, <3>1, <3>3, <1>1
    <3> QED  BY <2>1, <3>2, <3>4
  <2> QED  BY <2>2, <2>3
<1>8. nx2[r[Len(r)]] = r[1] /\ pv2[r[1]] = r[Len(r)]
  BY <1>1, <1>2
<1>9. CircleOf(nx2, pv2, p, r)
  BY <1>2, <1>3, <1>4, <1>7, <1>8 DEF CircleOf
<1> QED  BY <1>9 DEF r

\* A pcb that is not the tail is unlinked: r is s without its k-th pcb.
IsWithout(r, s, k) ==
    /\ r \in Seq(Pcb) /\ IsInjective(r) /\ Len(r) = Len(s) - 1
    /\ \A i \in 1 .. Len(r) : r[i] = IF i < k THEN s[i] ELSE s[i + 1]
GoesRound(nx, nx2, pv, pv2, s, p) ==
    /\ nx2[pv[p]] = nx[p] /\ pv2[nx[p]] = pv[p]
    /\ \A e \in ToSet(s) \ {p} : (e # pv[p] => nx2[e] = nx[e]) /\ (e # nx[p] => pv2[e] = pv[e])

LEMMA CircleUnlink ==
    ASSUME NEW nx, NEW nx2, NEW pv, NEW pv2, NEW t, NEW s, CircleOf(nx, pv, t, s),
           NEW k \in 1 .. Len(s) - 1, NEW r, IsWithout(r, s, k), GoesRound(nx, nx2, pv, pv2, s, s[k])
    PROVE  CircleOf(nx2, pv2, t, r)
<1> DEFINE p == s[k]
<1>0. /\ r \in Seq(Pcb) /\ IsInjective(r) /\ Len(r) = Len(s) - 1
      /\ \A i \in 1 .. Len(r) : r[i] = IF i < k THEN s[i] ELSE s[i + 1]
      /\ p = s[k] /\ nx2[pv[p]] = nx[p] /\ pv2[nx[p]] = pv[p]
      /\ \A e \in ToSet(s) \ {p} : (e # pv[p] => nx2[e] = nx[e]) /\ (e # nx[p] => pv2[e] = pv[e])
  BY DEF IsWithout, GoesRound
<1> HIDE DEF p
<1>1. /\ s \in Seq(Pcb) /\ Len(s) \in Nat /\ Len(s) > 1 /\ DOMAIN s = 1 .. Len(s)
      /\ IsInjective(s) /\ t = s[Len(s)] /\ nx[t] = s[1] /\ pv[s[1]] = t
      /\ \A i \in 1 .. Len(s) : s[i] \in ToSet(s)
      /\ \A i \in 1 .. Len(s) - 1 : nx[s[i]] = s[i + 1] /\ pv[s[i + 1]] = s[i]
  <2>1. s \in Seq(Pcb) /\ Len(s) \in Nat /\ s # <<>>
    BY SeqFacts DEF CircleOf
  <2> QED  BY <2>1, SeqFacts DEF CircleOf
<1>2. \A i, j \in 1 .. Len(s) : s[i] = s[j] => i = j
  BY <1>1 DEF IsInjective
<1>3. Len(s) \in Nat /\ Len(s) > 1 /\ Len(r) = Len(s) - 1 /\ k \in 1 .. Len(s) - 1
  BY <1>0, <1>1
<1>4. r # <<>> /\ t = r[Len(r)]
  <2>1. r # <<>>
    BY <1>0, <1>3, SeqFacts
  <2>2. Len(r) \in 1 .. Len(r) /\ ~(Len(r) < k) /\ Len(r) + 1 = Len(s)
    BY <1>3
  <2> QED  BY <2>1, <2>2, <1>0, <1>1
<1>5. nx[p] = s[k + 1] /\ pv[p] = IF k = 1 THEN s[Len(s)] ELSE s[k - 1]
  <2>1. k # 1 => k - 1 \in 1 .. Len(s) - 1 /\ k - 1 + 1 = k
    BY <1>3
  <2> QED  BY <2>1, <1>0, <1>1
<1>6. ASSUME NEW i \in 1 .. Len(s), i # k
      PROVE  /\ i # k + 1 => pv2[s[i]] = pv[s[i]]
             /\ i # (IF k = 1 THEN Len(s) ELSE k - 1) => nx2[s[i]] = nx[s[i]]
  <2>1. /\ k \in 1 .. Len(s) /\ k + 1 \in 1 .. Len(s)
        /\ (IF k = 1 THEN Len(s) ELSE k - 1) \in 1 .. Len(s)
    BY <1>3
  <2>2. s[i] \in ToSet(s) \ {p}
    BY <2>1, <1>0, <1>1, <1>2, <1>6
  <2>3. i # k + 1 => s[i] # nx[p]
    BY <2>1, <1>0, <1>2, <1>5
  <2>4. i # (IF k = 1 THEN Len(s) ELSE k - 1) => s[i] # pv[p]
    BY <2>1, <1>0, <1>2, <1>5
  <2> QED  BY <2>2, <2>3, <2>4, <1>0
<1>7. ASSUME NEW i \in 1 .. Len(r) - 1 PROVE nx2[r[i]] = r[i + 1] /\ pv2[r[i + 1]] = r[i]
  <2>1. i \in 1 .. Len(r) /\ i + 1 \in 1 .. Len(r)
    BY <1>3
  <2>2. CASE i + 1 < k
    <3>1. /\ i < k /\ i \in 1 .. Len(s) - 1 /\ i \in 1 .. Len(s) /\ i + 1 \in 1 .. Len(s) /\ i # k
          /\ i + 1 # k /\ i + 1 # k + 1 /\ i # (IF k = 1 THEN Len(s) ELSE k - 1)
      BY <2>2, <1>3
    <3>2. r[i] = s[i] /\ r[i + 1] = s[i + 1]
      BY <2>1, <2>2, <3>1, <1>0
    <3>3. nx2[s[i]] = nx[s[i]] /\ pv2[s[i + 1]] = pv[s[i + 1]]
      BY <3>1, <1>6
    <3> QED  BY <3>1, <3>2, <3>3, <1>1
  <2>3. CASE i + 1 = k
    <3>1. i < k /\ ~(i + 1 < k) /\ k # 1 /\ i = k - 1 /\ i + 1 + 1 = k + 1
      BY <2>3, <1>3
    <3>2. r[i] = s[k - 1] /\ r[i + 1] = s[k + 1]
      BY <2>1, <3>1, <1>0
    <3> QED  BY <3>1, <3>2, <1>0, <1>5
  <2>4. CASE ~(i + 1 <= k)
    <3>1. /\ ~(i < k) /\ ~(i + 1 < k) /\ i + 1 \in 1 .. Len(s) - 1 /\ i + 1 \in 1 .. Len(s)
          /\ i + 1 + 1 \in 1 .. Len(s) /\ i + 1 # k /\ i + 1 + 1 # k /\ i + 1 + 1 # k + 1
          /\ i + 1 # (IF k = 1 THEN Len(s) ELSE k - 1)
      BY <2>4, <1>3
    <3>2. r[i] = s[i + 1] /\ r[i + 1] = s[i + 1 + 1]
      BY <2>1, <3>1, <1>0
    <3>3. nx2[s[i + 1]] = nx[s[i + 1]] /\ pv2[s[i + 1 + 1]] = pv[s[i + 1 + 1]]
      BY <3>1, <1>6
    <3> QED  BY <3>1, <3>2, <3>3, <1>1
  <2>5. i + 1 < k \/ i + 1 = k \/ ~(i + 1 <= k)
    BY <1>3
  <2> QED  BY <2>2, <2>3, <2>4, <2>5
<1>8. nx2[r[Len(r)]] = r[1] /\ pv2[r[1]] = r[Len(r)]
  <2>1. 1 \in 1 .. Len(r) /\ r[1] = IF k = 1 THEN s[2] ELSE s[1]
    <3>1. 1 \in 1 .. Len(r) /\ (1 < k <=> k # 1)
      BY <1>3
    <3> QED  BY <3>1, <1>0
  <2>2. CASE k = 1
    BY <2>1, <2>2, <1>0, <1>1, <1>4, <1>5
  <2>3. CASE k # 1
    <3>1. /\ 1 \in 1 .. Len(s) /\ Len(s) \in 1 .. Len(s) /\ 1 # k /\ 1 # k + 1 /\ Len(s) # k
          /\ Len(s) # (IF k = 1 THEN Len(s) ELSE k - 1)
      BY <2>3, <1>3
    <3>2. nx2[s[Len(s)]] = nx[s[Len(s)]] /\ pv2[s[1]] = pv[s[1]]
      BY <3>1, <1>6
    <3> QED  BY <2>1, <2>3, <3>2, <1>1, <1>4
  <2> QED  BY <2>2, <2>3
<1> QED  BY <1>0, <1>1, <1>4, <1>7, <1>8 DEF CircleOf

-----------------------------------------------------------------------------
(***************************************************************************)
(* The inductive invariant.                                                *)
(***************************************************************************)
\* The free pcbs are a stack, each queue is a circle, and every pcb is in one
\* place.
Shape(nx, pv, h, tps, hd, F, Q) ==
    /\ nx \in [Pcb -> Pointer] /\ pv \in [Pcb -> Pointer] /\ tps \in [Queue -> Pointer]
    /\ Q \in [Queue -> Seq(Pcb)]
    /\ ChainOf(nx, h, F) /\ \A q \in Queue : CircleOf(nx, pv, tps[q], Q[q])
    /\ ToSet(F) \cap hd = {}
    /\ \A q \in Queue : ToSet(Q[q]) \cap (ToSet(F) \cup hd) = {}
    /\ \A q, r \in Queue : q # r => ToSet(Q[q]) \cap ToSet(Q[r]) = {}
    /\ hd \subseteq Pcb
    /\ \A p \in Pcb : p \in ToSet(F) \/ p \in hd \/ \E q \in Queue : p \in ToSet(Q[q])

Circles == [q \in Queue |-> Circle(q)]
Shaped == Shape(p_next, p_prev, pcbFree_h, tp, held, Chain, Circles)
ShapeInv == fault # "dangling" => Shaped

\* The sequences of a shape are those the pointers lead through.
LEMMA ShapeRead ==
    ASSUME NEW nx, NEW pv, NEW h, NEW tps, NEW hd, NEW F, NEW Q,
           Shape(nx, pv, h, tps, hd, F, Q)
    PROVE  LinkedFrom(nx, h) = F /\ [q \in Queue |-> Ring(nx, tps[q])] = Q
<1>1. LinkedFrom(nx, h) = F
  BY StackRead DEF Shape
<1>2. \A q \in Queue : Ring(nx, tps[q]) = Q[q]
  BY RingRead DEF Shape
<1>3. Q = [q \in Queue |-> Q[q]]
  BY DEF Shape
<1> QED  BY <1>1, <1>2, <1>3

LEMMA ShapeNow ==
    ASSUME NEW F, NEW Q, Shape(p_next, p_prev, pcbFree_h, tp, held, F, Q)
    PROVE  Shaped /\ Chain = F /\ Circles = Q
<1>1. LinkedFrom(p_next, pcbFree_h) = F /\ [q \in Queue |-> Ring(p_next, tp[q])] = Q
  BY ShapeRead
<1>2. Chain = F
  BY <1>1, CircleIsRing
<1>3. Circles = Q
  BY <1>1, CircleIsRing DEF Circles
<1> QED  BY <1>2, <1>3 DEF Shaped

LEMMA ShapeNext ==
    ASSUME NEW F, NEW Q, Shape(p_next', p_prev', pcbFree_h', tp', held', F, Q)
    PROVE  Shaped' /\ Chain' = F /\ Circles' = Q
<1>1. LinkedFrom(p_next', pcbFree_h') = F /\ [q \in Queue |-> Ring(p_next', tp'[q])] = Q
  BY ShapeRead
<1>2. Chain' = F
  BY <1>1, CircleIsRing
<1>3. Circles' = Q
  BY <1>1, CircleIsRing DEF Circles
<1> QED  BY <1>2, <1>3 DEF Shaped

\* What a shape says of a queue and its tail.
LEMMA ShapeFacts ==
    ASSUME NEW nx, NEW pv, NEW h, NEW tps, NEW hd, NEW F, NEW Q,
           Shape(nx, pv, h, tps, hd, F, Q)
    PROVE  /\ F \in Seq(Pcb) /\ IsInjective(F) /\ ToSet(F) \subseteq Pcb /\ hd \subseteq Pcb
           /\ (h = NULL <=> F = <<>>) /\ (h # NULL => h \in ToSet(F) /\ h = Head(F))
           /\ \A q \in Queue :
                /\ Q[q] \in Seq(Pcb) /\ IsInjective(Q[q]) /\ ToSet(Q[q]) \subseteq Pcb
                /\ tps[q] = NULL <=> Q[q] = <<>>
                /\ Q[q] # <<>> => /\ Len(Q[q]) \in Nat \ {0} /\ tps[q] = Q[q][Len(Q[q])]
                                  /\ tps[q] \in ToSet(Q[q]) /\ nx[tps[q]] = Head(Q[q])
                                  /\ nx[tps[q]] = Q[q][1]
           /\ \A q \in Queue : \A p \in ToSet(Q[q]) :
                /\ nx[p] \in ToSet(Q[q]) /\ pv[p] \in ToSet(Q[q]) /\ pv[nx[p]] = p
<1>1. /\ F \in Seq(Pcb) /\ IsInjective(F) /\ hd \subseteq Pcb
      /\ h = IF F = <<>> THEN NULL ELSE F[1]
  BY DEF Shape, ChainOf
<1>2. ToSet(F) \subseteq Pcb /\ (F # <<>> => F[1] \in Pcb /\ F[1] \in ToSet(F) /\ F[1] = Head(F))
  <2>1. ToSet(F) \subseteq Pcb
    BY <1>1, QueueElements
  <2>2. ASSUME F # <<>> PROVE 1 \in 1 .. Len(F)
    BY <1>1, <2>2, SeqFacts
  <2> QED  BY <1>1, <2>1, <2>2, SeqFacts
<1>3. (h = NULL <=> F = <<>>) /\ (h # NULL => h \in ToSet(F) /\ h = Head(F))
  BY <1>1, <1>2, PcbAssumption
<1>4. ASSUME NEW q \in Queue
      PROVE  /\ Q[q] \in Seq(Pcb) /\ IsInjective(Q[q]) /\ ToSet(Q[q]) \subseteq Pcb
             /\ tps[q] = NULL <=> Q[q] = <<>>
             /\ Q[q] # <<>> => /\ Len(Q[q]) \in Nat \ {0} /\ tps[q] = Q[q][Len(Q[q])]
                               /\ tps[q] \in ToSet(Q[q]) /\ nx[tps[q]] = Head(Q[q])
                               /\ nx[tps[q]] = Q[q][1]
             /\ \A p \in ToSet(Q[q]) :
                   nx[p] \in ToSet(Q[q]) /\ pv[p] \in ToSet(Q[q]) /\ pv[nx[p]] = p
  <2> DEFINE s == Q[q]
  <2>1. CircleOf(nx, pv, tps[q], s)
    BY DEF Shape
  <2> HIDE DEF s
  <2>2. s \in Seq(Pcb) /\ IsInjective(s) /\ ToSet(s) \subseteq Pcb
    BY <2>1, QueueElements DEF CircleOf
  <2>3. Len(s) \in Nat /\ (s # <<>> => Len(s) \in Nat \ {0} /\ 1 \in 1 .. Len(s) /\ Len(s) \in 1 .. Len(s))
    BY <2>2, SeqFacts
  <2>4. \A i \in 1 .. Len(s) : s[i] \in Pcb /\ s[i] \in ToSet(s)
    BY <2>2, SeqFacts
  <2>5. s # <<>> => /\ tps[q] = s[Len(s)] /\ tps[q] \in ToSet(s) /\ tps[q] # NULL
                    /\ nx[tps[q]] = s[1] /\ s[1] = Head(s) /\ pv[s[1]] = tps[q]
    BY <2>1, <2>3, <2>4, PcbAssumption DEF CircleOf
  <2>6. s = <<>> => tps[q] = NULL
    BY <2>1 DEF CircleOf
  <2>7. ASSUME NEW p \in ToSet(s)
        PROVE  nx[p] \in ToSet(s) /\ pv[p] \in ToSet(s) /\ pv[nx[p]] = p
    <3>1. PICK i \in 1 .. Len(s) : s[i] = p
      BY <2>2, SeqFacts
    <3>2. s # <<>>
      BY <2>2, QueueElements
    <3>3. nx[p] \in ToSet(s) /\ pv[nx[p]] = p
      <4>1. CASE i = Len(s)
        BY <3>1, <3>2, <4>1, <2>3, <2>4, <2>5
      <4>2. CASE i # Len(s)
        <5>1. i \in 1 .. Len(s) - 1 /\ i + 1 \in 1 .. Len(s)
          BY <4>2, <2>3
        <5> QED  BY <5>1, <3>1, <2>1, <2>4 DEF CircleOf
      <4> QED  BY <4>1, <4>2
    <3>4. pv[p] \in ToSet(s)
      <4>1. CASE i = 1
        BY <3>1, <3>2, <4>1, <2>3, <2>4, <2>5
      <4>2. CASE i # 1
        <5>1. i - 1 \in 1 .. Len(s) - 1 /\ i - 1 \in 1 .. Len(s) /\ i - 1 + 1 = i
          BY <4>2, <2>3
        <5> QED  BY <5>1, <3>1, <2>1, <2>4 DEF CircleOf
      <4> QED  BY <4>1, <4>2
    <3> QED  BY <3>3, <3>4
  <2>8. s = Q[q]
    BY DEF s
  <2> QED  BY <2>2, <2>3, <2>5, <2>6, <2>7, <2>8
<1> QED  BY <1>1, <1>2, <1>3, <1>4

-----------------------------------------------------------------------------
(***************************************************************************)
(* Every operation keeps the shape, and is one of PcbLists.                *)
(***************************************************************************)
LEMMA AllocStep == ASSUME Shaped, allocPcb PROVE Shaped' /\ Lists!allocPcb
<1> DEFINE F == Chain
           Q == Circles
           h == pcbFree_h
<1>1. Shape(p_next, p_prev, h, tp, held, F, Q)
  BY DEF Shaped
<1>2. /\ F # <<>> /\ h \in ToSet(F) /\ h = Head(F) /\ h \in Pcb
      /\ F \in Seq(Pcb) /\ IsInjective(F)
      /\ \A q \in Queue : ToSet(Q[q]) \subseteq Pcb
  BY <1>1, ShapeFacts DEF allocPcb
<1> HIDE DEF F, Q
<1>3. ToSet(Tail(F)) = ToSet(F) \ {h}
  BY <1>2, RemoveQueue
<1>4. p_next \in [Pcb -> Pointer] /\ p_prev \in [Pcb -> Pointer]
  BY <1>1 DEF Shape
<1>5. /\ \A p \in Pcb \ {h} : p_next'[p] = p_next[p] /\ p_prev'[p] = p_prev[p]
      /\ p_next' \in [Pcb -> Pointer] /\ p_prev' \in [Pcb -> Pointer]
      /\ pcbFree_h' = p_next[h] /\ held' = held \cup {h} /\ tp' = tp
  BY <1>2, <1>4 DEF allocPcb, Pointer
<1>6. ChainOf(p_next', pcbFree_h', Tail(F))
  <2>1. ChainOf(p_next, h, F) /\ ToSet(F) \subseteq Pcb
    BY <1>1, <1>2, QueueElements DEF Shape
  <2> QED  BY <2>1, <1>2, <1>5, ChainPop
<1>7. ASSUME NEW q \in Queue PROVE CircleOf(p_next', p_prev', tp'[q], Q[q])
  <2>1. CircleOf(p_next, p_prev, tp[q], Q[q]) /\ h \notin ToSet(Q[q])
    BY <1>1, <1>2 DEF Shape
  <2> QED  BY <2>1, <1>2, <1>5, CircleStays
<1>8. Shape(p_next', p_prev', pcbFree_h', tp', held', Tail(F), Q)
  BY <1>1, <1>2, <1>3, <1>5, <1>6, <1>7 DEF Shape
<1>9. Shaped' /\ Chain' = Tail(F) /\ Circles' = Q
  BY <1>8, ShapeNext
<1> QED  BY <1>2, <1>5, <1>9 DEF Lists!allocPcb, Circles, F, Q

LEMMA FreeStep ==
    ASSUME Shaped, NEW p \in Pcb, freePcb(p) PROVE Shaped' /\ Lists!freePcb(p)
<1> DEFINE F == Chain
           Q == Circles
<1>1. Shape(p_next, p_prev, pcbFree_h, tp, held, F, Q)
  BY DEF Shaped
<1>2. F \in Seq(Pcb) /\ IsInjective(F) /\ ToSet(F) \subseteq Pcb /\ p \in held /\ p \notin ToSet(F)
  <2>1. p \in held
    BY DEF freePcb
  <2>2. ToSet(F) \cap held = {}
    BY <1>1 DEF Shape
  <2> QED  BY <1>1, <2>1, <2>2, ShapeFacts
<1>3. \A q \in Queue : ToSet(Q[q]) \subseteq Pcb /\ p \notin ToSet(Q[q])
  <2>1. \A q \in Queue : ToSet(Q[q]) \cap (ToSet(F) \cup held) = {}
    BY <1>1 DEF Shape
  <2> QED  BY <1>1, <1>2, <2>1, ShapeFacts
<1> HIDE DEF F, Q
<1>4. ToSet(<<p>> \o F) = {p} \cup ToSet(F)
  BY <1>2, PushChild
<1>5. p_next \in [Pcb -> Pointer] /\ ChainOf(p_next, pcbFree_h, F)
  BY <1>1 DEF Shape
<1>6. pcbFree_h \in Pointer
  BY <1>1, <1>2, ShapeFacts DEF Pointer
<1>7. /\ \A r \in Pcb \ {p} : p_next'[r] = p_next[r]
      /\ p_next'[p] = pcbFree_h /\ p_next' \in [Pcb -> Pointer] /\ pcbFree_h' = p
      /\ held' = held \ {p} /\ p_prev' = p_prev /\ tp' = tp
  BY <1>5, <1>6 DEF freePcb
<1>8. ChainOf(p_next', p, <<p>> \o F)
  BY <1>2, <1>5, <1>7, ChainPush
<1>9. ASSUME NEW q \in Queue PROVE CircleOf(p_next', p_prev', tp'[q], Q[q])
  <2>1. CircleOf(p_next, p_prev, tp[q], Q[q])
    BY <1>1 DEF Shape
  <2> QED  BY <2>1, <1>3, <1>7, CircleStays
<1>10. Shape(p_next', p_prev', pcbFree_h', tp', held', <<p>> \o F, Q)
  BY <1>1, <1>2, <1>3, <1>4, <1>7, <1>8, <1>9 DEF Shape
<1>11. Shaped' /\ Chain' = <<p>> \o F /\ Circles' = Q
  BY <1>10, ShapeNext
<1> QED  BY <1>2, <1>7, <1>11 DEF Lists!freePcb, Circles, F, Q

\* A pcb points to itself when it is alone in its circle.
LEMMA AloneInCircle ==
    ASSUME NEW nx, NEW pv, NEW t, NEW s, CircleOf(nx, pv, t, s), NEW p \in ToSet(s)
    PROVE  nx[p] = p <=> Len(s) = 1
<1>1. s \in Seq(Pcb) /\ Len(s) \in Nat /\ DOMAIN s = 1 .. Len(s)
  BY SeqFacts DEF CircleOf
<1>2. PICK i \in 1 .. Len(s) : s[i] = p
  BY <1>1, SeqFacts
<1>3. \A j, k \in 1 .. Len(s) : s[j] = s[k] => j = k
  BY <1>1 DEF CircleOf, IsInjective
<1>4. CASE i = Len(s)
  <2>1. s # <<>> /\ 1 \in 1 .. Len(s)
    BY <1>1, <1>2, SeqFacts
  <2>2. nx[p] = s[1]
    BY <1>2, <1>4, <2>1 DEF CircleOf
  <2> QED  BY <1>2, <1>3, <1>4, <2>1, <2>2
<1>5. CASE i # Len(s)
  <2>1. i \in 1 .. Len(s) - 1 /\ i + 1 \in 1 .. Len(s) /\ i + 1 # i /\ Len(s) # 1
    <3>1. Len(s) \in Nat
      BY <1>1
    <3> QED  BY <1>5, <3>1
  <2>2. nx[p] = s[i + 1]
    BY <1>2, <2>1 DEF CircleOf
  <2> QED  BY <1>2, <1>3, <2>1, <2>2
<1> QED  BY <1>4, <1>5

\* Only queue q and the pcbs held change, from old and held to s and held'.
OneQueue(q, old, s) ==
    /\ CircleOf(p_next', p_prev', tp'[q], s)
    /\ p_next' \in [Pcb -> Pointer] /\ p_prev' \in [Pcb -> Pointer]
    /\ pcbFree_h' = pcbFree_h /\ tp' \in [Queue -> Pointer]
    /\ \A r \in Queue \ {q} : tp'[r] = tp[r]
    /\ \A p \in Pcb \ (ToSet(old) \cup held) : p_next'[p] = p_next[p] /\ p_prev'[p] = p_prev[p]
    /\ ToSet(s) \cup held' = ToSet(old) \cup held /\ ToSet(s) \cap held' = {}

LEMMA QueueStep ==
    ASSUME Shaped, NEW q \in Queue, NEW s, OneQueue(q, Circle(q), s)
    PROVE  Shaped' /\ Chain' = Chain /\ Circles' = [Circles EXCEPT ![q] = s]
<1> DEFINE F == Chain
           Q == Circles
           R == [Q EXCEPT ![q] = s]
<1>0. Shape(p_next, p_prev, pcbFree_h, tp, held, F, Q) /\ Q[q] = Circle(q)
  BY DEF Shaped, Circles
<1> HIDE DEF F, Q
<1>1. /\ F \in Seq(Pcb) /\ ToSet(F) \subseteq Pcb /\ held \subseteq Pcb
      /\ \A r \in Queue : ToSet(Q[r]) \subseteq Pcb
  BY <1>0, ShapeFacts
<1>2. /\ tp \in [Queue -> Pointer] /\ Q \in [Queue -> Seq(Pcb)] /\ s \in Seq(Pcb)
      /\ ChainOf(p_next, pcbFree_h, F)
      /\ \A r \in Queue : CircleOf(p_next, p_prev, tp[r], Q[r])
  <2>1. s \in Seq(Pcb)
    BY DEF OneQueue, CircleOf
  <2> QED  BY <1>0, <2>1 DEF Shape
<1>3. /\ ToSet(F) \cap held = {}
      /\ \A r \in Queue : ToSet(Q[r]) \cap (ToSet(F) \cup held) = {}
      /\ \A r, x \in Queue : r # x => ToSet(Q[r]) \cap ToSet(Q[x]) = {}
      /\ \A p \in Pcb : p \in ToSet(F) \/ p \in held \/ \E r \in Queue : p \in ToSet(Q[r])
  BY <1>0 DEF Shape
<1>4. R \in [Queue -> Seq(Pcb)] /\ R[q] = s /\ \A r \in Queue \ {q} : R[r] = Q[r]
  BY <1>2
<1>5. /\ tp' \in [Queue -> Pointer] /\ \A r \in Queue \ {q} : tp'[r] = tp[r]
      /\ CircleOf(p_next', p_prev', tp'[q], s)
      /\ p_next' \in [Pcb -> Pointer] /\ p_prev' \in [Pcb -> Pointer] /\ pcbFree_h' = pcbFree_h
      /\ \A p \in Pcb \ (ToSet(Q[q]) \cup held) : p_next'[p] = p_next[p] /\ p_prev'[p] = p_prev[p]
      /\ ToSet(s) \cup held' = ToSet(Q[q]) \cup held /\ ToSet(s) \cap held' = {}
  BY <1>0 DEF OneQueue
<1> HIDE DEF R
<1>6. ChainOf(p_next', pcbFree_h', F)
  <2>1. \A p \in ToSet(F) : p_next'[p] = p_next[p]
    BY <1>1, <1>3, <1>5
  <2> QED  BY <1>2, <1>5, <2>1, ChainStays
<1>7. ASSUME NEW r \in Queue PROVE CircleOf(p_next', p_prev', tp'[r], R[r])
  <2>1. CASE r = q
    BY <2>1, <1>4, <1>5
  <2>2. CASE r # q
    <3>1. \A p \in ToSet(Q[r]) : p_next'[p] = p_next[p] /\ p_prev'[p] = p_prev[p]
      BY <1>1, <1>3, <1>5, <2>2
    <3>2. CircleOf(p_next', p_prev', tp[r], Q[r])
      BY <1>2, <3>1, CircleStays
    <3> QED  BY <1>4, <1>5, <2>2, <3>2
  <2> QED  BY <2>1, <2>2
<1>8. /\ ToSet(F) \cap held' = {} /\ held' \subseteq Pcb
      /\ \A r \in Queue : ToSet(R[r]) \cap (ToSet(F) \cup held') = {}
      /\ \A r, x \in Queue : r # x => ToSet(R[r]) \cap ToSet(R[x]) = {}
  <2>1. ToSet(s) \subseteq ToSet(Q[q]) \cup held /\ held' \subseteq ToSet(Q[q]) \cup held
    BY <1>5
  <2>2. ToSet(F) \cap held' = {} /\ held' \subseteq Pcb
    BY <1>1, <1>3, <2>1
  <2>3. ASSUME NEW r \in Queue PROVE ToSet(R[r]) \cap (ToSet(F) \cup held') = {}
    <3>1. CASE r = q
      BY <1>3, <1>4, <1>5, <2>1, <3>1
    <3>2. CASE r # q
      BY <1>3, <1>4, <2>1, <3>2
    <3> QED  BY <3>1, <3>2
  <2>4. ASSUME NEW r \in Queue \ {q} PROVE ToSet(R[r]) \cap ToSet(R[q]) = {}
    BY <1>3, <1>4, <2>1
  <2>5. ASSUME NEW r \in Queue \ {q}, NEW x \in Queue \ {q}, r # x
        PROVE  ToSet(R[r]) \cap ToSet(R[x]) = {}
    BY <1>3, <1>4, <2>5
  <2>6. ASSUME NEW r \in Queue, NEW x \in Queue, r # x PROVE ToSet(R[r]) \cap ToSet(R[x]) = {}
    <3>1. CASE r = q
      BY <2>4, <2>6, <3>1
    <3>2. CASE x = q
      BY <2>4, <2>6, <3>2
    <3>3. CASE r # q /\ x # q
      BY <2>5, <2>6, <3>3
    <3> QED  BY <3>1, <3>2, <3>3
  <2> QED  BY <2>2, <2>3, <2>6
<1>9. \A p \in Pcb : p \in ToSet(F) \/ p \in held' \/ \E r \in Queue : p \in ToSet(R[r])
  BY <1>3, <1>4, <1>5
<1>10. Shape(p_next', p_prev', pcbFree_h', tp', held', F, R)
  BY <1>4, <1>5, <1>6, <1>7, <1>8, <1>9 DEF Shape
<1>11. Shaped' /\ Chain' = F /\ Circles' = R
  BY <1>10, ShapeNext
<1> QED  BY <1>11 DEF R, F, Q

LEMMA InsertStep ==
    ASSUME Shaped, NEW q \in Queue, NEW p \in Pcb, insertProcQ(q, p)
    PROVE  Shaped' /\ Lists!insertProcQ(q, p) /\ fault' = fault
<1> DEFINE F == Chain
           Q == Circles
           t == tp[q]
           s == Q[q]
<1>1. Shape(p_next, p_prev, pcbFree_h, tp, held, F, Q)
  BY DEF Shaped
<1>2. /\ s \in Seq(Pcb) /\ IsInjective(s) /\ ToSet(s) \subseteq Pcb
      /\ t = NULL <=> s = <<>>
      /\ s # <<>> => t \in ToSet(s) /\ p_next[t] \in ToSet(s) /\ p_next[t] = Head(s)
  BY <1>1, ShapeFacts
<1>3. CircleOf(p_next, p_prev, t, s) /\ ToSet(s) \cap held = {}
      /\ p_next \in [Pcb -> Pointer] /\ p_prev \in [Pcb -> Pointer] /\ tp \in [Queue -> Pointer]
  BY <1>1 DEF Shape
<1>4. Q[q] = s
  OBVIOUS
<1> HIDE DEF F, Q, s
<1>5. ~(~emptyProcQ(q) /\ p_next[t] = NULL)
  BY <1>2, PcbAssumption DEF emptyProcQ
<1>6. /\ p \in held
      /\ IF t = NULL THEN InsertFirst(q, p) ELSE InsertLast(q, p)
      /\ tp' = [tp EXCEPT ![q] = p] /\ held' = held \ {p} /\ UNCHANGED <<pcbFree_h, fault>>
  BY <1>5 DEF insertProcQ, emptyProcQ
<1>7. p \notin ToSet(s) /\ p \in Pointer
  BY <1>3, <1>6 DEF Pointer
<1>8. tp'[q] = p
  BY <1>3, <1>6
<1>9. /\ CircleOf(p_next', p_prev', tp'[q], Append(s, p))
      /\ p_next' \in [Pcb -> Pointer] /\ p_prev' \in [Pcb -> Pointer]
      /\ \A r \in Pcb \ (ToSet(s) \cup held) : p_next'[r] = p_next[r] /\ p_prev'[r] = p_prev[r]
  <2>1. CASE t = NULL
    <3>1. /\ p_next' = [p_next EXCEPT ![p] = p] /\ p_prev' = [p_prev EXCEPT ![p] = p]
      BY <1>6, <2>1 DEF InsertFirst
    <3>2. p_next'[p] = p /\ p_prev'[p] = p
      BY <1>3, <3>1
    <3>3. CircleOf(p_next', p_prev', p, Append(<<>>, p))
      BY <3>2, CircleOne
    <3> QED  BY <1>2, <1>3, <1>6, <1>7, <1>8, <2>1, <3>1, <3>3
  <2>2. CASE t # NULL
    <3>1. /\ p_next' = [p_next EXCEPT ![p] = p_next[t], ![t] = p]
          /\ p_prev' = [p_prev EXCEPT ![p] = t, ![p_next[t]] = p]
      BY <1>6, <2>2 DEF InsertLast
    <3>2. s # <<>> /\ t \in ToSet(s) /\ p_next[t] \in ToSet(s) /\ t \in Pcb /\ p_next[t] \in Pcb
      BY <1>2, <2>2
    <3>3. p # t /\ p # p_next[t]
      BY <1>7, <3>2
    <3>4. /\ p_next'[p] = p_next[t] /\ p_next'[t] = p /\ p_prev'[p] = t /\ p_prev'[p_next[t]] = p
          /\ \A r \in Pcb \ {p, t} : p_next'[r] = p_next[r]
          /\ \A r \in Pcb \ {p, p_next[t]} : p_prev'[r] = p_prev[r]
          /\ p_next' \in [Pcb -> Pointer] /\ p_prev' \in [Pcb -> Pointer]
      BY <1>3, <1>7, <3>1, <3>2, <3>3 DEF Pointer
    <3>5. \A r \in ToSet(s) : /\ r # t => p_next'[r] = p_next[r]
                              /\ r # p_next[t] => p_prev'[r] = p_prev[r]
      BY <1>2, <1>7, <3>4
    <3>6. CircleOf(p_next', p_prev', p, Append(s, p))
      BY <1>3, <1>7, <3>2, <3>4, <3>5, CircleAppend
    <3> QED  BY <1>2, <1>6, <1>8, <3>2, <3>4, <3>6
  <2> QED  BY <2>1, <2>2
<1>10. ToSet(Append(s, p)) = ToSet(s) \cup {p}
  BY <1>2, InsertQueue DEF InsertProcQ
<1>11. Shaped' /\ Chain' = F /\ Circles' = [Q EXCEPT ![q] = Append(s, p)]
  <2>1. ToSet(Append(s, p)) \cup held' = ToSet(s) \cup held /\ ToSet(Append(s, p)) \cap held' = {}
    BY <1>3, <1>6, <1>10
  <2>2. tp' \in [Queue -> Pointer] /\ \A r \in Queue \ {q} : tp'[r] = tp[r]
    BY <1>3, <1>6, <1>7
  <2>3. OneQueue(q, s, Append(s, p))
    BY <1>6, <1>9, <2>1, <2>2 DEF OneQueue
  <2>4. s = Circle(q)
    BY DEF s, Q, Circles
  <2> QED  BY <2>3, <2>4, QueueStep DEF F, Q
<1>12. Circles' = [Circles EXCEPT ![q] = Append(@, p)] /\ Chain' = Chain
  BY <1>4, <1>11 DEF F, Q
<1> QED  BY <1>6, <1>11, <1>12 DEF Lists!insertProcQ, Circles

\* Unlinking a pcb that is not the tail: r is the queue without its k-th pcb.
LEMMA UnlinkStep ==
    ASSUME Shaped, NEW q \in Queue, NEW k \in 1 .. Len(Circle(q)) - 1,
           NEW r \in Seq(Pcb), IsInjective(r), Len(r) = Len(Circle(q)) - 1,
           \A i \in 1 .. Len(r) : r[i] = IF i < k THEN Circle(q)[i] ELSE Circle(q)[i + 1],
           NEW p, p = Circle(q)[k], ToSet(r) = ToSet(Circle(q)) \ {p},
           p_next' = Cleaned([p_next EXCEPT ![p_prev[p]] = p_next[p]], p),
           p_prev' = Cleaned([p_prev EXCEPT ![p_next[p]] = p_prev[p]], p),
           held' = held \cup {p}, UNCHANGED <<tp, pcbFree_h>>
    PROVE  Shaped' /\ Chain' = Chain /\ Circles' = [Circles EXCEPT ![q] = r]
<1> DEFINE F == Chain
           Q == Circles
           t == tp[q]
           s == Circle(q)
<1>1. Shape(p_next, p_prev, pcbFree_h, tp, held, F, Q) /\ Q[q] = s
  BY DEF Shaped, Circles
<1>2. /\ s \in Seq(Pcb) /\ IsInjective(s) /\ ToSet(s) \subseteq Pcb /\ Len(s) \in Nat
      /\ \A e \in ToSet(s) : /\ p_next[e] \in ToSet(s) /\ p_prev[e] \in ToSet(s)
                             /\ p_prev[p_next[e]] = e
  <2>1. s \in Seq(Pcb)
    BY <1>1, ShapeFacts
  <2>2. Len(s) \in Nat
    BY <2>1, SeqFacts
  <2> QED  BY <1>1, <2>2, ShapeFacts
<1>3. CircleOf(p_next, p_prev, t, s) /\ ToSet(s) \cap held = {}
      /\ p_next \in [Pcb -> Pointer] /\ p_prev \in [Pcb -> Pointer] /\ tp \in [Queue -> Pointer]
  BY <1>1 DEF Shape
<1> HIDE DEF F, Q, s
<1>4. /\ k \in 1 .. Len(s) - 1 /\ Len(r) = Len(s) - 1 /\ p = s[k] /\ ToSet(r) = ToSet(s) \ {p}
      /\ \A i \in 1 .. Len(r) : r[i] = IF i < k THEN s[i] ELSE s[i + 1]
  BY DEF s
<1>5. k \in 1 .. Len(s) /\ Len(s) # 1
  BY <1>2, <1>4
<1>6. p \in ToSet(s) /\ p \in Pcb
  BY <1>2, <1>4, <1>5, SeqFacts
<1>7. p_next[p] # p /\ p_next[p] \in ToSet(s) /\ p_prev[p] \in ToSet(s)
  BY <1>2, <1>3, <1>5, <1>6, AloneInCircle
<1>8. p_prev[p] # p
  <2>1. p_next[p_prev[p]] = p
    <3>1. CASE k = 1
      BY <1>3, <1>4, <1>5, <3>1, SeqFacts DEF CircleOf
    <3>2. CASE k # 1
      <4>1. k - 1 \in 1 .. Len(s) - 1 /\ k - 1 + 1 = k
        BY <1>2, <1>5, <3>2
      <4>2. p_prev[s[k - 1 + 1]] = s[k - 1] /\ p_next[s[k - 1]] = s[k - 1 + 1]
        BY <1>3, <4>1 DEF CircleOf
      <4> QED  BY <4>1, <4>2, <1>4
    <3> QED  BY <3>1, <3>2
  <2> QED  BY <1>7, <2>1
<1>9. /\ p_next'[p_prev[p]] = p_next[p] /\ p_prev'[p_next[p]] = p_prev[p]
      /\ \A e \in Pcb \ {p, p_prev[p]} : p_next'[e] = p_next[e]
      /\ \A e \in Pcb \ {p, p_next[p]} : p_prev'[e] = p_prev[e]
      /\ p_next' \in [Pcb -> Pointer] /\ p_prev' \in [Pcb -> Pointer]
  BY <1>2, <1>3, <1>6, <1>7, <1>8 DEF Cleaned, Pointer
<1>10. CircleOf(p_next', p_prev', t, r)
  <2>1. \A e \in ToSet(s) \ {p} : /\ e # p_prev[p] => p_next'[e] = p_next[e]
                                  /\ e # p_next[p] => p_prev'[e] = p_prev[e]
    BY <1>2, <1>9
  <2>2. CircleOf(p_next, p_prev, t, s) /\ k \in 1 .. Len(s) - 1
    BY <1>3, <1>4
  <2>3. IsWithout(r, s, k)
    BY <1>4 DEF IsWithout
  <2>4. GoesRound(p_next, p_next', p_prev, p_prev', s, s[k])
    BY <1>4, <1>9, <2>1 DEF GoesRound
  <2> QED  BY <2>1, <2>2, <2>3, <2>4, CircleUnlink
<1>11. OneQueue(q, s, r)
  <2>1. \A e \in Pcb \ (ToSet(s) \cup held) : p_next'[e] = p_next[e] /\ p_prev'[e] = p_prev[e]
    BY <1>6, <1>7, <1>9
  <2>2. ToSet(r) \cup held' = ToSet(s) \cup held /\ ToSet(r) \cap held' = {}
    BY <1>3, <1>4, <1>6
  <2> QED  BY <1>3, <1>9, <1>10, <2>1, <2>2 DEF OneQueue
<1> QED  BY <1>11, QueueStep DEF s

LEMMA BeheadStep ==
    ASSUME Shaped, NEW q \in Queue, tp[q] # NULL, Behead(q)
    PROVE  /\ Shaped' /\ Circle(q) # <<>> /\ Chain' = Chain
           /\ Circles' = [Circles EXCEPT ![q] = Tail(Circle(q))]
           /\ held' = held \cup {Head(Circle(q))}
<1> DEFINE Q == Circles
           t == tp[q]
           s == Circle(q)
           h == p_next[t]
<1>1. Shape(p_next, p_prev, pcbFree_h, tp, held, Chain, Q) /\ Q[q] = s
  BY DEF Shaped, Circles
<1>2. /\ s \in Seq(Pcb) /\ IsInjective(s) /\ ToSet(s) \subseteq Pcb /\ Len(s) \in Nat \ {0} /\ s # <<>>
      /\ t = s[Len(s)] /\ t \in ToSet(s) /\ h = Head(s) /\ h = s[1]
      /\ \A e \in ToSet(s) : p_next[e] \in ToSet(s) /\ p_prev[p_next[e]] = e
  BY <1>1, ShapeFacts
<1>3. CircleOf(p_next, p_prev, t, s) /\ ToSet(s) \cap held = {}
      /\ p_next \in [Pcb -> Pointer] /\ p_prev \in [Pcb -> Pointer] /\ tp \in [Queue -> Pointer]
  BY <1>1 DEF Shape
<1>4. /\ Tail(s) \in Seq(Pcb) /\ IsInjective(Tail(s)) /\ ToSet(Tail(s)) = ToSet(s) \ {h}
      /\ Len(Tail(s)) = Len(s) - 1
  BY <1>2, RemoveQueue
<1>5. \A i \in 1 .. Len(Tail(s)) : Tail(s)[i] = s[i + 1]
  BY <1>2, HeadTailProperties
<1> HIDE DEF Q, s
<1>6. h \in ToSet(s) /\ h \in Pcb /\ p_prev[h] = t
  BY <1>2
<1>7. held' = held \cup {h} /\ pcbFree_h' = pcbFree_h
  BY DEF Behead
<1>8. p_next[h] = h <=> Len(s) = 1
  BY <1>3, <1>6, AloneInCircle
<1>9. CASE p_next[h] = h
  <2>1. /\ tp' = [tp EXCEPT ![q] = NULL] /\ p_next' = Cleaned(p_next, h) /\ p_prev' = Cleaned(p_prev, h)
    BY <1>9 DEF Behead, TailAfterRemove
  <2>2. Tail(s) = <<>> /\ ToSet(Tail(s)) = {}
    <3>1. Len(s) = 1
      BY <1>8, <1>9
    <3>2. Len(Tail(s)) = 0
      BY <1>4, <3>1
    <3> QED  BY <3>2, <1>4, QueueElements
  <2>3. ToSet(s) = {h}
    BY <1>4, <1>6, <2>2
  <2>4. tp'[q] = NULL /\ NULL \in Pointer /\ IsInjective(<<>>) /\ <<>> \in Seq(Pcb) /\ Len(<<>>) = 0
    BY <1>3, <2>1 DEF Pointer, IsInjective
  <2>5. CircleOf(p_next', p_prev', tp'[q], Tail(s))
    <3>1. \A i \in 1 .. Len(<<>>) - 1 : FALSE
      BY <2>4
    <3> QED  BY <2>2, <2>4, <3>1 DEF CircleOf
  <2>6. /\ p_next' \in [Pcb -> Pointer] /\ p_prev' \in [Pcb -> Pointer]
        /\ \A e \in Pcb \ (ToSet(s) \cup held) : p_next'[e] = p_next[e] /\ p_prev'[e] = p_prev[e]
    BY <1>3, <1>6, <2>1 DEF Cleaned, Pointer
  <2>7. ToSet(Tail(s)) \cup held' = ToSet(s) \cup held /\ ToSet(Tail(s)) \cap held' = {}
    BY <1>7, <2>2, <2>3
  <2>8. tp' \in [Queue -> Pointer] /\ \A r \in Queue \ {q} : tp'[r] = tp[r]
    BY <1>3, <2>1, <2>4
  <2>9. OneQueue(q, s, Tail(s))
    BY <1>7, <2>5, <2>6, <2>7, <2>8 DEF OneQueue
  <2>10. Shaped' /\ Chain' = Chain /\ Circles' = [Circles EXCEPT ![q] = Tail(s)]
    BY <2>9, QueueStep DEF s
  <2> QED  BY <1>2, <1>7, <2>10 DEF s
<1>10. CASE p_next[h] # h
  <2>1. /\ tp' = tp
        /\ p_next' = Cleaned([p_next EXCEPT ![t] = p_next[h]], h)
        /\ p_prev' = Cleaned([p_prev EXCEPT ![p_next[h]] = t], h)
    BY <1>10 DEF Behead, TailAfterRemove
  <2>2. 1 \in 1 .. Len(s) - 1
    BY <1>2, <1>8, <1>10
  <2>3. \A i \in 1 .. Len(Tail(s)) : Tail(s)[i] = IF i < 1 THEN s[i] ELSE s[i + 1]
    <3>1. ASSUME NEW i \in 1 .. Len(Tail(s)) PROVE ~(i < 1)
      BY <1>4
    <3> QED  BY <1>5, <3>1
  <2>4. Shaped' /\ Chain' = Chain /\ Circles' = [Circles EXCEPT ![q] = Tail(s)]
    <3>1. /\ p_prev' = Cleaned([p_prev EXCEPT ![p_next[h]] = p_prev[h]], h)
          /\ p_next' = Cleaned([p_next EXCEPT ![p_prev[h]] = p_next[h]], h)
      BY <1>6, <2>1
    <3>2. 1 \in 1 .. Len(Circle(q)) - 1 /\ h = Circle(q)[1] /\ Len(Tail(s)) = Len(Circle(q)) - 1
      BY <1>2, <1>4, <2>2 DEF s
    <3>3. /\ Tail(s) \in Seq(Pcb) /\ IsInjective(Tail(s)) /\ ToSet(Tail(s)) = ToSet(Circle(q)) \ {h}
          /\ \A i \in 1 .. Len(Tail(s)) :
                Tail(s)[i] = IF i < 1 THEN Circle(q)[i] ELSE Circle(q)[i + 1]
      BY <1>4, <2>3 DEF s
    <3>4. held' = held \cup {h} /\ UNCHANGED <<tp, pcbFree_h>>
      BY <1>7, <2>1
    <3> HIDE DEF h
    <3> QED  BY <3>1, <3>2, <3>3, <3>4, UnlinkStep
  <2> QED  BY <1>2, <1>7, <2>4 DEF s
<1> QED  BY <1>9, <1>10

LEMMA RemoveStep ==
    ASSUME Shaped, NEW q \in Queue, removeProcQ(q)
    PROVE  Shaped' /\ Lists!removeProcQ(q) /\ fault' = fault
<1>1. Shape(p_next, p_prev, pcbFree_h, tp, held, Chain, Circles)
  BY DEF Shaped
<1>2. tp[q] # NULL /\ Circles[q] # <<>> /\ p_next[tp[q]] \in Pcb
  BY <1>1, ShapeFacts DEF removeProcQ, emptyProcQ
<1>3. Behead(q)
  BY <1>2, PcbAssumption DEF removeProcQ
<1>4. /\ Shaped' /\ Circle(q) # <<>> /\ Chain' = Chain
      /\ Circles' = [Circles EXCEPT ![q] = Tail(Circle(q))]
      /\ held' = held \cup {Head(Circle(q))}
  BY <1>2, <1>3, BeheadStep
<1>5. fault' = fault
  BY <1>3 DEF Behead
<1>6. Circles[q] = Circle(q)
  BY DEF Circles
<1> QED  BY <1>4, <1>5, <1>6 DEF Lists!removeProcQ, Circles

-----------------------------------------------------------------------------
(***************************************************************************)
(* What outProcQ does is what PcbQueue says, and the queue it leaves too.  *)
(***************************************************************************)
LEMMA OutcomeRead ==
    ASSUME Shaped, NEW q \in Queue, NEW p \in Pcb
    PROVE  Outcome(q, p) = OutProcQ(Circle(q), p)
<1> DEFINE s == Circle(q)
           t == tp[q]
           f == Behind(p_next, t)
           N == Cardinality(Pcb)
           Ends(n) == f[n] = NULL \/ p_next[f[n]] = f[n]
<1>1. /\ CircleOf(p_next, p_prev, t, s)
      /\ s \in Seq(Pcb) /\ IsInjective(s) /\ ToSet(s) \subseteq Pcb
      /\ t = NULL <=> s = <<>>
      /\ s # <<>> => /\ Len(s) \in Nat \ {0} /\ t = s[Len(s)] /\ t \in ToSet(s)
                     /\ p_next[t] = Head(s) /\ p_next[t] \in ToSet(s)
  <2>1. Shape(p_next, p_prev, pcbFree_h, tp, held, Chain, Circles) /\ Circles[q] = s
    BY DEF Shaped, Circles
  <2> HIDE DEF s, t
  <2>2. CircleOf(p_next, p_prev, t, s)
    BY <2>1 DEF Shape, t
  <2> QED  BY <2>1, <2>2, ShapeFacts DEF t
<1>2. CASE s = <<>>
  BY <1>1, <1>2 DEF Outcome, isInQ, emptyProcQ, OutProcQ
<1>3. CASE s # <<>>
  <2> HIDE DEF s
  <2>1. N \in Nat /\ Len(s) <= N
    BY <1>1, NoLonger
  <2>2. /\ \A n \in 1 .. Len(s) : f[n] = s[n]
        /\ \A n \in 0 .. N : f[n] \in ToSet(s)
    BY <1>1, <1>3, RoundCircle
  <2> HIDE DEF f
  <2>3. \A e \in ToSet(s) : e # NULL /\ (p_next[e] = e <=> Len(s) = 1)
    BY <1>1, AloneInCircle, PcbAssumption
  <2>4. \A n \in 0 .. N : Ends(n) <=> Len(s) = 1
    BY <2>2, <2>3
  <2> HIDE DEF Ends
  <2>5. 1 \in Steps /\ 1 .. Len(s) \subseteq Steps /\ Steps \subseteq 0 .. N
    BY <1>1, <1>3, <2>1 DEF Steps
  <2>6. LoopEnds(q) <=> Len(s) = 1
    <3>1. LoopEnds(q) <=> \E n \in Steps : Ends(n)
      BY DEF LoopEnds, Ends, f
    <3> QED  BY <3>1, <2>4, <2>5
  <2>7. Seen(q, p) <=> Len(s) # 1 /\ p \in ToSet(s)
    <3>1. Seen(q, p) <=> \E n \in Steps : f[n] = p /\ \A m \in 1 .. n : ~Ends(m)
      BY DEF Seen, Ends, f
    <3>2. ASSUME Seen(q, p) PROVE Len(s) # 1 /\ p \in ToSet(s)
      <4>1. PICK n \in Steps : f[n] = p /\ \A m \in 1 .. n : ~Ends(m)
        BY <3>1, <3>2
      <4>2. 1 \in 1 .. n
        BY <2>1 DEF Steps
      <4> QED  BY <4>1, <4>2, <2>2, <2>4, <2>5
    <3>3. ASSUME Len(s) # 1, p \in ToSet(s) PROVE Seen(q, p)
      <4>1. PICK n \in 1 .. Len(s) : s[n] = p
        BY <1>1, <3>3, SeqFacts
      <4>2. \A m \in 1 .. n : m \in 0 .. N
        BY <1>1, <2>1, <1>3
      <4> QED  BY <3>1, <3>3, <4>1, <4>2, <2>2, <2>4, <2>5
    <3> QED  BY <3>2, <3>3
  <2>8. Len(s) = 1 => (t = p <=> p \in ToSet(s))
    <3>1. ASSUME Len(s) = 1 PROVE t = p <=> p \in ToSet(s)
      <4>1. t = s[1] /\ \A e : e \in ToSet(s) <=> \E i \in 1 .. 1 : s[i] = e
        BY <1>1, <1>3, <3>1, SeqFacts
      <4> QED  BY <4>1
    <3> QED  BY <3>1
  <2>9. isInQ(q, p) = IF p \in ToSet(s) THEN "true" ELSE IF Len(s) = 1 THEN "false" ELSE "hang"
    BY <1>1, <1>3, <2>6, <2>7, <2>8 DEF isInQ, emptyProcQ
  <2>10. p_next[t] # NULL /\ (p_next[p_next[t]] # p_next[t] <=> Len(s) # 1)
    BY <1>1, <1>3, <2>3
  <2>11. Last(s) = t /\ (Len(s) # 1 <=> Len(s) > 1)
    <3>1. Len(s) \in Nat \ {0} /\ t = s[Len(s)]
      BY <1>1, <1>3
    <3>2. \A n \in Nat \ {0} : n # 1 <=> n > 1
      OBVIOUS
    <3> HIDE DEF t
    <3> QED  BY <3>1, <3>2 DEF Last
  <2>12. CASE p \in ToSet(s)
    <3>1. isInQ(q, p) = "true"
      BY <2>9, <2>12
    <3>2. Outcome(q, p) = IF Len(s) # 1 /\ p = t THEN "dangling" ELSE "removed"
      BY <3>1, <2>10 DEF Outcome
    <3>3. OutProcQ(s, p) = IF Len(s) # 1 /\ p = t THEN "dangling" ELSE "removed"
      BY <1>3, <2>11, <2>12 DEF OutProcQ
    <3> QED  BY <3>2, <3>3 DEF s
  <2>13. CASE p \notin ToSet(s)
    <3>1. isInQ(q, p) = IF Len(s) = 1 THEN "false" ELSE "hang"
      BY <2>9, <2>13
    <3>2. Outcome(q, p) = IF Len(s) = 1 THEN "absent" ELSE "hang"
      BY <3>1 DEF Outcome
    <3>3. OutProcQ(s, p) = IF Len(s) = 1 THEN "absent" ELSE "hang"
      BY <1>3, <2>13 DEF OutProcQ
    <3> QED  BY <3>2, <3>3 DEF s
  <2> QED  BY <2>12, <2>13
<1> QED  BY <1>2, <1>3

\* Nothing moves when only fault is set.
LEMMA NothingMoves ==
    ASSUME Shaped, UNCHANGED <<p_next, p_prev, pcbFree_h, tp, held>>
    PROVE  Shaped' /\ UNCHANGED Lists!lists
<1>1. Shape(p_next, p_prev, pcbFree_h, tp, held, Chain, Circles)
  BY DEF Shaped
<1>2. Shape(p_next', p_prev', pcbFree_h', tp', held', Chain, Circles)
  BY <1>1
<1>3. Shaped' /\ Chain' = Chain /\ Circles' = Circles
  BY <1>2, ShapeNext
<1> QED  BY <1>3 DEF Lists!lists, Circles

LEMMA SameRemoveAt == \A s, i : Lists!RemoveAt(s, i) = RemoveAt(s, i)
  BY DEF Lists!RemoveAt, RemoveAt

LEMMA OutStep ==
    ASSUME Shaped, NEW q \in Queue, NEW p \in Pcb, outProcQ(q, p)
    PROVE  \/ fault' = "dangling"
           \/ Shaped' /\ (Lists!outProcQ(q, p) \/ UNCHANGED Lists!lists)
<1> DEFINE s == Circle(q)
           t == tp[q]
<1>1. Shape(p_next, p_prev, pcbFree_h, tp, held, Chain, Circles) /\ Circles[q] = s
  BY DEF Shaped, Circles
<1>2. /\ CircleOf(p_next, p_prev, t, s)
      /\ s \in Seq(Pcb) /\ IsInjective(s)
      /\ s # <<>> => /\ Len(s) \in Nat \ {0} /\ t = s[Len(s)] /\ p_next[t] = Head(s)
                     /\ p_next[t] \in ToSet(s)
      /\ t = NULL <=> s = <<>>
  <2> HIDE DEF s
  <2>1. CircleOf(p_next, p_prev, t, s)
    BY <1>1 DEF Shape
  <2> QED  BY <1>1, <2>1, ShapeFacts
<1>3. Outcome(q, p) = OutProcQ(s, p)
  BY OutcomeRead
<1>4. CASE Outcome(q, p) \in {"trap", "hang", "absent"}
  <2>1. UNCHANGED <<p_next, p_prev, pcbFree_h, tp, held>>
    BY <1>4 DEF outProcQ, Fails, vars
  <2> QED  BY <2>1, NothingMoves
<1>5. CASE Outcome(q, p) \in {"dangling", "removed"} /\ p_next[p_next[t]] = p_next[t]
  <2>1. Behead(q) /\ p \in ToSet(s) /\ s # <<>>
    <3>1. Behead(q)
      BY <1>5 DEF outProcQ
    <3> HIDE DEF s
    <3>2. p \in ToSet(s) /\ s # <<>>
      BY <1>3, <1>5 DEF OutProcQ
    <3> QED  BY <3>1, <3>2
  <2>2. /\ Shaped' /\ Chain' = Chain /\ Circles' = [Circles EXCEPT ![q] = Tail(s)]
        /\ held' = held \cup {Head(s)}
    BY <1>2, <2>1, BeheadStep
  <2> HIDE DEF s
  <2>3. Len(s) = 1
    BY <1>2, <1>5, <2>1, AloneInCircle
  <2>4. s[1] = p /\ Head(s) = p
    BY <1>2, <2>1, <2>3, SeqFacts
  <2>5. RemoveAt(s, 1) = Tail(s)
    <3>1. 1 \in 1 .. Len(s)
      BY <2>3
    <3>2. RemoveAt(s, 1) \in Seq(Pcb) /\ Len(RemoveAt(s, 1)) = 0
      <4>1. s \in Seq(Pcb)
        BY <1>2
      <4>2. RemoveAt(s, 1) \in Seq(Pcb) /\ Len(RemoveAt(s, 1)) = Len(s) - 1
        BY <3>1, <4>1, RemoveAtQueue
      <4> QED  BY <2>3, <4>2
    <3>3. Tail(s) \in Seq(Pcb) /\ Len(Tail(s)) = 0
      BY <1>2, <2>1, <2>3, RemoveQueue
    <3>4. RemoveAt(s, 1) = <<>>
      BY <3>2, SeqFacts
    <3>5. Tail(s) = <<>>
      BY <3>3, SeqFacts
    <3> QED  BY <3>4, <3>5
  <2>6. 1 \in DOMAIN s
    BY <1>2, <2>3, SeqFacts
  <2>7. Circles[q] = s
    BY <1>1
  <2> QED  BY <2>2, <2>4, <2>5, <2>6, <2>7, SameRemoveAt DEF Lists!outProcQ, Circles
<1>6. CASE Outcome(q, p) = "removed" /\ p_next[p_next[t]] # p_next[t]
  <2> HIDE DEF s
  <2>1. p \in ToSet(s) /\ s # <<>> /\ ~(Len(s) > 1 /\ p = Last(s))
    BY <1>3, <1>6 DEF OutProcQ
  <2>2. Len(s) # 1
    BY <1>2, <1>6, <2>1, AloneInCircle
  <2>3. p # t /\ p # s[Len(s)]
    <3>1. Len(s) \in Nat \ {0} /\ t = s[Len(s)]
      BY <1>2, <2>1
    <3>2. \A n \in Nat \ {0} : n # 1 => n > 1
      OBVIOUS
    <3> HIDE DEF t
    <3> QED  BY <2>1, <2>2, <3>1, <3>2 DEF Last
  <2>4. /\ p_next' = Cleaned([p_next EXCEPT ![p_prev[p]] = p_next[p]], p)
        /\ p_prev' = Cleaned([p_prev EXCEPT ![p_next[p]] = p_prev[p]], p)
        /\ held' = held \cup {p} /\ UNCHANGED <<tp, pcbFree_h>>
    BY <1>6 DEF outProcQ, Unlink
  <2> DEFINE k == CHOOSE i \in DOMAIN s : s[i] = p
             r == RemoveAt(s, k)
  <2>5. k \in 1 .. Len(s) - 1 /\ k \in DOMAIN s /\ s[k] = p
    <3>1. k \in 1 .. Len(s) /\ k \in DOMAIN s /\ s[k] = p
      BY <1>2, <2>1, SeqFacts
    <3>2. k # Len(s)
      BY <2>3, <3>1
    <3>3. Len(s) \in Nat
      BY <1>2, <2>1
    <3> HIDE DEF k
    <3> QED  BY <3>1, <3>2, <3>3
  <2>6. IsInjective(r) /\ ToSet(r) = ToSet(s) \ {p}
    BY <1>2, <2>1, WithoutQueue DEF Without
  <2> HIDE DEF k
  <2>7. /\ r \in Seq(Pcb) /\ Len(r) = Len(s) - 1
        /\ \A i \in 1 .. Len(r) : r[i] = IF i < k THEN s[i] ELSE s[i + 1]
    <3>1. k \in 1 .. Len(s)
      BY <1>2, <2>1, <2>5
    <3> QED  BY <1>2, <3>1, RemoveAtQueue
  <2> HIDE DEF r
  <2>8. Shaped' /\ Chain' = Chain /\ Circles' = [Circles EXCEPT ![q] = r]
    <3> USE DEF s
    <3> QED  BY <2>4, <2>5, <2>6, <2>7, UnlinkStep
  <2>9. \E i \in DOMAIN s : s[i] = p /\ Circles' = [Circles EXCEPT ![q] = RemoveAt(s, i)]
    BY <2>5, <2>8 DEF r
  <2>10. Circles[q] = s
    BY <1>1
  <2> QED  BY <2>4, <2>8, <2>9, <2>10, SameRemoveAt DEF Lists!outProcQ, Circles
<1>7. CASE Outcome(q, p) = "dangling" /\ p_next[p_next[t]] # p_next[t]
  <2> HIDE DEF s
  <2>1. p = Last(s) /\ s # <<>>
    BY <1>3, <1>7 DEF OutProcQ
  <2>2. p = t
    BY <1>2, <2>1 DEF Last
  <2> QED  BY <1>7, <2>2 DEF outProcQ
<1>8. Outcome(q, p) \in {"trap", "hang", "absent", "dangling", "removed"}
  BY <1>3 DEF OutProcQ
<1> QED  BY <1>4, <1>5, <1>6, <1>7, <1>8

-----------------------------------------------------------------------------
(***************************************************************************)
(* initPcbs: freed one after the other, all the pcbs are on the free list. *)
(***************************************************************************)
LEMMA InitStep == ASSUME Init PROVE Shaped /\ Lists!Init
<1> DEFINE N == Cardinality(Pcb)
           Q == [q \in Queue |-> <<>>]
<1>1. /\ p_next = Freed(Pcb) /\ pcbFree_h = LastFreed(Pcb)
      /\ p_prev = [p \in Pcb |-> NULL] /\ tp = [q \in Queue |-> NULL] /\ held = {}
  BY DEF Init
<1>2. PICK F : ChainOf(p_next, pcbFree_h, F) /\ ToSet(F) = Pcb /\ Len(F) = N
  BY <1>1, FreedChain
<1>3. F \in Seq(Pcb) /\ IsInjective(F) /\ DOMAIN F = 1 .. Len(F) /\ Len(F) \in Nat
  BY <1>2, SeqFacts DEF ChainOf
<1>4. N \in Nat /\ Len(F) = N
  BY <1>2, <1>3
<1>5. /\ p_next \in [Pcb -> Pointer] /\ p_prev \in [Pcb -> Pointer] /\ tp \in [Queue -> Pointer]
      /\ Q \in [Queue -> Seq(Pcb)]
  <2>1. ASSUME NEW p \in Pcb PROVE p_next[p] \in Pointer
    <3>1. PICK i \in 1 .. Len(F) : F[i] = p
      BY <1>2, <1>3, SeqFacts
    <3>2. i # Len(F) => F[i + 1] \in Pcb
      <4>1. i # Len(F) => i + 1 \in 1 .. Len(F)
        BY <1>4
      <4> QED  BY <1>3, <4>1, SeqFacts
    <3> QED  BY <1>2, <3>1, <3>2 DEF Pointer, ChainOf
  <2>2. p_next = [p \in Pcb |-> p_next[p]]
    <3> DEFINE array == SetToSeq(Pcb)
               link(p) == LET i == CHOOSE i \in DOMAIN array : array[i] = p
                          IN IF i = 1 THEN NULL ELSE array[i - 1]
    <3>1. p_next = [p \in Pcb |-> link(p)]
      BY <1>1 DEF Freed
    <3> HIDE DEF link
    <3> QED  BY <3>1
  <2> QED  BY <1>1, <2>1, <2>2 DEF Pointer
<1>6. \A q \in Queue : CircleOf(p_next, p_prev, tp[q], Q[q])
  <2>1. <<>> \in Seq(Pcb) /\ IsInjective(<<>>) /\ \A i \in 1 .. Len(<<>>) - 1 : FALSE
    BY DEF IsInjective
  <2> QED  BY <1>1, <2>1 DEF CircleOf
<1>7. \A q \in Queue : ToSet(Q[q]) = {}
  BY DEF ToSet
<1>8. Shape(p_next, p_prev, pcbFree_h, tp, held, F, Q)
  BY <1>1, <1>2, <1>5, <1>6, <1>7 DEF Shape
<1>9. Shaped /\ Chain = F /\ Circles = Q
  BY <1>8, ShapeNow
<1>10. F \in Lists!SetToSeqs(Pcb)
  <2>1. F \in [1 .. N -> Pcb] /\ \A i, j \in 1 .. N : i # j => F[i] # F[j]
    BY <1>3, <1>4, SeqFacts DEF IsInjective
  <2>2. Lists!Cardinality(Pcb) = N
    BY DEF Lists!Cardinality, Cardinality, N
  <2> QED  BY <2>1, <2>2 DEF Lists!SetToSeqs
<1> QED  BY <1>1, <1>9, <1>10 DEF Lists!Init, Circles

\* Every step keeps the shape, or loses a tail; and is a step of PcbLists.
LEMMA ShapeStep ==
    ASSUME ShapeInv, [Next]_vars
    PROVE  ShapeInv' /\ [fault' = "dangling" \/ Lists!Next]_(Lists!lists)
<1>1. CASE UNCHANGED vars
  <2>1. Chain' = Chain /\ Circles' = Circles
    BY <1>1, CircleIsRing DEF Circles, vars
  <2>2. Shaped' <=> Shaped
    BY <1>1, <2>1 DEF Shaped, vars
  <2> QED  BY <1>1, <2>1, <2>2 DEF ShapeInv, Lists!lists, Circles, vars
<1>2. CASE fault = "none" /\ Operation
  <2>0. Shaped
    BY <1>2 DEF ShapeInv
  <2>1. CASE allocPcb
    BY <2>0, <2>1, AllocStep DEF ShapeInv, Lists!Next
  <2>2. CASE \E p \in Pcb : freePcb(p)
    BY <2>0, <2>2, FreeStep DEF ShapeInv, Lists!Next
  <2>3. ASSUME NEW q \in Queue, removeProcQ(q)
        PROVE  ShapeInv' /\ Lists!Next
    BY <2>0, <2>3, RemoveStep DEF ShapeInv, Lists!Next
  <2>4. ASSUME NEW q \in Queue, NEW p \in Pcb, insertProcQ(q, p)
        PROVE  ShapeInv' /\ Lists!Next
    BY <2>0, <2>4, InsertStep DEF ShapeInv, Lists!Next
  <2>5. ASSUME NEW q \in Queue, NEW p \in Pcb, outProcQ(q, p)
        PROVE  ShapeInv' /\ [fault' = "dangling" \/ Lists!Next]_(Lists!lists)
    BY <2>0, <2>5, OutStep DEF ShapeInv, Lists!Next
  <2> QED  BY <1>2, <2>1, <2>2, <2>3, <2>4, <2>5 DEF Operation
<1> QED  BY <1>1, <1>2 DEF Next

\* The inductive invariant: the pointers have the shape of circles and a stack
\* that share no pcb, until outProcQ takes the tail of several.
THEOREM ShapeKept == Spec => []ShapeInv
<1>1. Init => ShapeInv
  BY InitStep DEF ShapeInv
<1>2. ShapeInv /\ [Next]_vars => ShapeInv'
  BY ShapeStep
<1> QED  BY <1>1, <1>2, PTL DEF Spec

\* The circles close in both directions, the free list is a chain without a pcb
\* twice, and every pcb is in exactly one place, whatever is inserted and removed
\* (insertProcQ, removeProcQ, outProcQ, allocPcb, freePcb of phase1/pcb.c).
THEOREM PointersMakeQueues == Spec => []WellFormed
<1>1. ShapeInv => WellFormed
  <2> SUFFICES ASSUME Shaped PROVE WellFormed
    BY DEF ShapeInv, WellFormed
  <2> DEFINE F == Chain
             Q == Circles
  <2>1. Shape(p_next, p_prev, pcbFree_h, tp, held, F, Q)
    BY DEF Shaped
  <2>2. \A q \in Queue : Circle(q) = Q[q]
    BY DEF Circles
  <2> HIDE DEF F, Q
  <2>3. /\ IsInjective(F) /\ ToSet(F) \subseteq Pcb /\ held \subseteq Pcb
        /\ \A q \in Queue : /\ ToSet(Q[q]) \subseteq Pcb
                            /\ tp[q] # NULL => Q[q] # <<>>
        /\ \A q \in Queue : \A p \in ToSet(Q[q]) : p_next[p] \in ToSet(Q[q]) /\ p_prev[p_next[p]] = p
    BY <2>1, ShapeFacts
  <2>4. /\ ToSet(F) \cap held = {}
        /\ \A q \in Queue : ToSet(Q[q]) \cap (ToSet(F) \cup held) = {}
        /\ \A q, r \in Queue : q # r => ToSet(Q[q]) \cap ToSet(Q[r]) = {}
        /\ \A p \in Pcb : p \in ToSet(F) \/ p \in held \/ \E q \in Queue : p \in ToSet(Q[q])
    BY <2>1 DEF Shape
  <2>5. \A q \in Queue : ~emptyProcQ(q) =>
            /\ Circle(q) # <<>>
            /\ \A p \in ToSet(Circle(q)) : p_next[p] # NULL /\ p_prev[p_next[p]] = p
    BY <2>2, <2>3, PcbAssumption DEF emptyProcQ
  <2>6. Pcb = ToSet(F) \cup held \cup UNION {ToSet(Circle(q)) : q \in Queue}
    BY <2>2, <2>3, <2>4
  <2> QED  BY <2>2, <2>3, <2>4, <2>5, <2>6 DEF WellFormed, F
<1> QED  BY <1>1, ShapeKept, PTL

\* What the search of isInQ and the unlinking of outProcQ do to the pointers is
\* what PcbQueue, which the nucleus is modelled with, says of the sequence.
THEOREM PointersMeanQueues == Spec => []OutcomePredicted
<1>1. \A s, p : Sequences_!OutProcQ(s, p) = OutProcQ(s, p)
  BY DEF Sequences_!OutProcQ, OutProcQ, Sequences_!ToSet, ToSet, Sequences_!Last, Last
<1>2. ShapeInv => OutcomePredicted
  BY <1>1, OutcomeRead DEF ShapeInv, OutcomePredicted
<1> QED  BY <1>2, ShapeKept, PTL

\* Every operation on the pointers is an operation on the stack and the queues
\* the comments of phase1/pcb.c promise, until a queue loses its tail.
THEOREM PointersImplementLists == Spec => ListsKept
<1>1. Init => Lists!Init
  BY InitStep
<1>2. ShapeInv /\ [Next]_vars => [fault' = "dangling" \/ Lists!Next]_(Lists!lists)
  BY ShapeStep
<1> QED  BY <1>1, <1>2, ShapeKept, PTL DEF Spec, ListsKept
=============================================================================
