--------------------------- MODULE PcbQueueProofs ---------------------------
(***************************************************************************)
(* What the queue operations of PcbQueue do to the length of a queue, to   *)
(* the set of pcbs in it, and to the absence of duplicates.                *)
(***************************************************************************)
EXTENDS PcbQueue, SequenceTheorems, TLAPS

\* The pcbs of a queue are pcbs, and only the empty queue has none.
LEMMA QueueElements ==
    ASSUME NEW S, NEW q \in Seq(S)
    PROVE  /\ ToSet(q) \subseteq S
           /\ q = <<>> <=> ToSet(q) = {}
           /\ q = <<>> <=> Len(q) = 0
           /\ \A p : p \in ToSet(q) <=> \E i \in 1 .. Len(q) : q[i] = p
<1>1. DOMAIN q = 1 .. Len(q) /\ Len(q) \in Nat
  BY LenProperties
<1>2. \A i \in 1 .. Len(q) : q[i] \in S
  BY ElementOfSeq
<1>3. q = <<>> => Len(q) = 0
  BY EmptySeq
<1>4. q # <<>> => Len(q) \in Nat \ {0}
  BY EmptySeq
<1>5. q # <<>> => 1 \in 1 .. Len(q)
  BY <1>1, <1>4
<1>6. \A p : p \in ToSet(q) <=> \E i \in 1 .. Len(q) : q[i] = p
  BY <1>1 DEF ToSet
<1>7. ToSet(q) \subseteq S
  BY <1>2, <1>6
<1>8. q # <<>> => q[1] \in ToSet(q)
  BY <1>5, <1>6
<1>9. Len(q) = 0 => ToSet(q) = {}
  BY <1>6
<1> QED  BY <1>3, <1>4, <1>6, <1>7, <1>8, <1>9

\* insertProcQ adds exactly the new pcb.
LEMMA InsertQueue ==
    ASSUME NEW S, NEW q \in Seq(S), NEW p \in S
    PROVE  /\ InsertProcQ(q, p) \in Seq(S)
           /\ Len(InsertProcQ(q, p)) = Len(q) + 1
           /\ ToSet(InsertProcQ(q, p)) = ToSet(q) \cup {p}
           /\ IsInjective(q) /\ p \notin ToSet(q) => IsInjective(InsertProcQ(q, p))
<1> DEFINE r == Append(q, p)
<1>1. /\ r \in Seq(S) /\ Len(r) = Len(q) + 1
      /\ \A i \in 1 .. Len(q) : r[i] = q[i]
      /\ r[Len(q) + 1] = p
  BY AppendProperties
<1>2. /\ DOMAIN q = 1 .. Len(q) /\ Len(q) \in Nat
      /\ DOMAIN r = 1 .. Len(q) + 1
  BY <1>1, LenProperties
<1>3. ToSet(r) = ToSet(q) \cup {p}
  <2>1. ASSUME NEW i \in DOMAIN r PROVE r[i] \in ToSet(q) \cup {p}
    BY <1>1, <1>2 DEF ToSet
  <2>2. ASSUME NEW i \in DOMAIN q PROVE q[i] \in ToSet(r)
    BY <1>1, <1>2 DEF ToSet
  <2>3. p \in ToSet(r)
    BY <1>1, <1>2 DEF ToSet
  <2> QED  BY <2>1, <2>2, <2>3 DEF ToSet
<1>4. IsInjective(q) /\ p \notin ToSet(q) => IsInjective(r)
  BY <1>1, <1>2 DEF IsInjective, ToSet
<1> QED  BY <1>1, <1>3, <1>4 DEF InsertProcQ

\* removeProcQ takes exactly the head.
LEMMA RemoveQueue ==
    ASSUME NEW S, NEW q \in Seq(S), q # <<>>
    PROVE  /\ Head(q) \in S /\ Head(q) \in ToSet(q)
           /\ Tail(q) \in Seq(S) /\ Len(Tail(q)) = Len(q) - 1
           /\ ToSet(Tail(q)) \subseteq ToSet(q)
           /\ ToSet(q) = {Head(q)} \cup ToSet(Tail(q))
           /\ IsInjective(q) => /\ IsInjective(Tail(q))
                                /\ ToSet(Tail(q)) = ToSet(q) \ {Head(q)}
<1> DEFINE r == Tail(q)
<1>1. /\ r \in Seq(S) /\ Len(r) = Len(q) - 1
      /\ \A i \in 1 .. Len(r) : r[i] = q[i + 1]
      /\ Head(q) \in S
  BY HeadTailProperties
<1>2. Len(q) \in Nat \ {0} /\ DOMAIN q = 1 .. Len(q)
  BY EmptySeq, LenProperties
<1>3. DOMAIN r = 1 .. Len(q) - 1
  BY <1>1, LenProperties
<1>4. Head(q) = q[1]
  OBVIOUS
<1>5. ToSet(q) = {q[1]} \cup ToSet(r)
  <2>1. ASSUME NEW i \in DOMAIN q PROVE q[i] \in {q[1]} \cup ToSet(r)
    <3>1. CASE i = 1
      BY <3>1
    <3>2. CASE i # 1
      <4>1. i - 1 \in DOMAIN r /\ r[i - 1] = q[i]
        BY <3>2, <1>1, <1>2, <1>3
      <4> QED  BY <4>1 DEF ToSet
    <3> QED  BY <3>1, <3>2
  <2>2. ASSUME NEW i \in DOMAIN r PROVE r[i] \in ToSet(q)
    BY <1>1, <1>2, <1>3 DEF ToSet
  <2>3. q[1] \in ToSet(q)
    BY <1>2 DEF ToSet
  <2> QED  BY <2>1, <2>2, <2>3 DEF ToSet
<1>6. ASSUME IsInjective(q)
      PROVE  IsInjective(r) /\ q[1] \notin ToSet(r)
  <2>1. IsInjective(r)
    BY <1>1, <1>2, <1>3, <1>6 DEF IsInjective
  <2>2. ASSUME NEW i \in DOMAIN r PROVE r[i] # q[1]
    BY <1>1, <1>2, <1>3, <1>6 DEF IsInjective
  <2> QED  BY <2>1, <2>2 DEF ToSet
<1> QED  BY <1>1, <1>4, <1>5, <1>6

\* The queue without its k-th pcb, pcb by pcb.
LEMMA RemoveAtQueue ==
    ASSUME NEW S, NEW q \in Seq(S), NEW k \in 1 .. Len(q)
    PROVE  /\ RemoveAt(q, k) \in Seq(S) /\ Len(RemoveAt(q, k)) = Len(q) - 1
           /\ \A i \in 1 .. Len(q) - 1 : RemoveAt(q, k)[i] = IF i < k THEN q[i] ELSE q[i + 1]
<1> DEFINE r == SubSeq(q, 1, k - 1)
           t == SubSeq(q, k + 1, Len(q))
           w == r \o t
<1>1. Len(q) \in Nat /\ \A i \in 1 .. Len(q) : q[i] \in S
  BY LenProperties, ElementOfSeq
<1>2. k \in 1 .. Len(q)
  OBVIOUS
<1>3. /\ r \in Seq(S) /\ Len(r) = k - 1
      /\ \A i \in 1 .. k - 1 : r[i] = q[i]
  <2>1. k - 1 \in Int /\ \A i \in 1 .. k - 1 : q[i] \in S
    BY <1>1, <1>2
  <2>2. /\ r \in Seq(S) /\ Len(r) = IF 1 <= k - 1 THEN (k - 1) - 1 + 1 ELSE 0
        /\ \A i \in 1 .. (k - 1) - 1 + 1 : r[i] = q[1 + i - 1]
    BY <2>1, SubSeqProperties
  <2> QED  BY <2>2, <1>2
<1>4. /\ t \in Seq(S) /\ Len(t) = Len(q) - k
      /\ \A i \in 1 .. Len(q) - k : t[i] = q[k + i]
  <2>1. k + 1 \in Int /\ Len(q) \in Int /\ \A i \in k + 1 .. Len(q) : q[i] \in S
    BY <1>1, <1>2
  <2>2. /\ t \in Seq(S) /\ Len(t) = IF k + 1 <= Len(q) THEN Len(q) - (k + 1) + 1 ELSE 0
        /\ \A i \in 1 .. Len(q) - (k + 1) + 1 : t[i] = q[(k + 1) + i - 1]
    BY <2>1, SubSeqProperties
  <2> QED  BY <2>2, <1>1, <1>2
<1>5. /\ w \in Seq(S) /\ Len(w) = Len(r) + Len(t)
      /\ \A i \in 1 .. Len(r) + Len(t) : w[i] = IF i <= Len(r) THEN r[i] ELSE t[i - Len(r)]
  BY <1>3, <1>4, ConcatProperties
<1>6. w = RemoveAt(q, k)
  BY DEF RemoveAt
<1> HIDE DEF r, t, w
<1>7. Len(w) = Len(q) - 1
  BY <1>1, <1>2, <1>3, <1>4, <1>5
<1>8. ASSUME NEW i \in 1 .. Len(q) - 1 PROVE w[i] = IF i < k THEN q[i] ELSE q[i + 1]
  <2>1. i \in 1 .. Len(r) + Len(t) /\ w[i] = IF i <= k - 1 THEN r[i] ELSE t[i - (k - 1)]
    BY <1>1, <1>2, <1>3, <1>4, <1>5
  <2>2. CASE i < k
    BY <2>1, <2>2, <1>2, <1>3
  <2>3. CASE i >= k
    <3>1. i - (k - 1) \in 1 .. Len(q) - k
      BY <2>3, <1>1, <1>2
    <3>2. t[i - (k - 1)] = q[k + (i - (k - 1))]
      BY <3>1, <1>4
    <3>3. w[i] = q[i + 1]
      BY <2>1, <2>3, <3>2, <1>1, <1>2
    <3> QED  BY <2>3, <3>3, <1>1, <1>2
  <2> QED  BY <2>2, <2>3, <1>1, <1>2
<1> QED  BY <1>5, <1>6, <1>7, <1>8

\* Unlinking a pcb takes exactly it.
LEMMA WithoutQueue ==
    ASSUME NEW S, NEW q \in Seq(S), NEW p \in ToSet(q)
    PROVE  /\ Without(q, p) \in Seq(S)
           /\ Len(Without(q, p)) = Len(q) - 1
           /\ ToSet(Without(q, p)) \subseteq ToSet(q)
           /\ IsInjective(q) => /\ IsInjective(Without(q, p))
                                /\ ToSet(Without(q, p)) = ToSet(q) \ {p}
<1> DEFINE k == CHOOSE i \in DOMAIN q : q[i] = p
           w == RemoveAt(q, k)
<1>1. DOMAIN q = 1 .. Len(q) /\ Len(q) \in Nat
  BY LenProperties
<1>2. k \in 1 .. Len(q) /\ q[k] = p
  BY <1>1 DEF ToSet
<1> HIDE DEF k
<1>3. /\ w \in Seq(S) /\ Len(w) = Len(q) - 1
      /\ \A i \in 1 .. Len(q) - 1 : w[i] = IF i < k THEN q[i] ELSE q[i + 1]
  BY <1>2, RemoveAtQueue
<1> HIDE DEF w
<1>4. /\ DOMAIN w = 1 .. Len(q) - 1 /\ Len(w) = Len(q) - 1
      /\ \A i \in 1 .. Len(q) - 1 : w[i] = IF i < k THEN q[i] ELSE q[i + 1]
  BY <1>3, LenProperties
<1>5. ToSet(w) \subseteq ToSet(q)
  <2>1. ASSUME NEW i \in 1 .. Len(q) - 1 PROVE w[i] \in ToSet(q)
    <3>1. i \in 1 .. Len(q) /\ i + 1 \in 1 .. Len(q)
      BY <1>1
    <3>2. q[i] \in ToSet(q) /\ q[i + 1] \in ToSet(q)
      BY <3>1, <1>1 DEF ToSet
    <3> QED  BY <3>2, <1>4
  <2> QED  BY <2>1, <1>4 DEF ToSet
<1>6. ASSUME IsInjective(q)
      PROVE  IsInjective(w) /\ ToSet(w) = ToSet(q) \ {p}
  <2>1. IsInjective(w)
    <3>1. \A m, n \in 1 .. Len(q) : q[m] = q[n] => m = n
      BY <1>1, <1>6 DEF IsInjective
    <3>2. ASSUME NEW i \in 1 .. Len(q) - 1, NEW j \in 1 .. Len(q) - 1, w[i] = w[j]
          PROVE  i = j
      <4> DEFINE origin(x) == IF x < k THEN x ELSE x + 1
      <4>1. origin(i) \in 1 .. Len(q) /\ origin(j) \in 1 .. Len(q)
        BY <1>1, <1>2
      <4>2. w[i] = q[origin(i)] /\ w[j] = q[origin(j)]
        BY <1>4
      <4>3. origin(i) = origin(j)
        BY <3>1, <3>2, <4>1, <4>2
      <4> QED  BY <4>3, <1>1, <1>2
    <3> QED  BY <3>2, <1>4 DEF IsInjective
  <2>2. ASSUME NEW i \in DOMAIN w PROVE w[i] # p
    <3>1. \A j \in 1 .. Len(q) : q[j] = q[k] => j = k
      BY <1>1, <1>2, <1>6 DEF IsInjective
    <3>2. CASE i < k
      BY <3>1, <3>2, <1>1, <1>2, <1>4
    <3>3. CASE i >= k
      <4>1. i + 1 \in 1 .. Len(q) /\ i + 1 # k /\ w[i] = q[i + 1]
        BY <3>3, <1>1, <1>2, <1>4
      <4> QED  BY <4>1, <3>1, <1>2
    <3> QED  BY <3>2, <3>3, <1>1, <1>2, <1>4
  <2>3. ASSUME NEW i \in DOMAIN q, q[i] # p PROVE q[i] \in ToSet(w)
    <3>1. CASE i < k
      <4>1. i \in DOMAIN w /\ w[i] = q[i]
        BY <3>1, <1>1, <1>2, <1>4
      <4> QED  BY <4>1 DEF ToSet
    <3>2. CASE i > k
      <4>1. i - 1 \in DOMAIN w /\ w[i - 1] = q[i]
        BY <3>2, <1>1, <1>2, <1>4
      <4> QED  BY <4>1 DEF ToSet
    <3> QED  BY <3>1, <3>2, <2>3, <1>1, <1>2
  <2> QED  BY <1>5, <2>1, <2>2, <2>3 DEF ToSet
<1>7. Without(q, p) = w
  BY DEF Without, k, w
<1> QED  BY <1>3, <1>4, <1>5, <1>6, <1>7

\* Two queues put together hold what both held.
LEMMA ConcatQueues ==
    ASSUME NEW S, NEW q \in Seq(S), NEW r \in Seq(S)
    PROVE  /\ q \o r \in Seq(S)
           /\ ToSet(q \o r) = ToSet(q) \cup ToSet(r)
           /\ IsInjective(q) /\ IsInjective(r) /\ ToSet(q) \cap ToSet(r) = {}
                => IsInjective(q \o r)
<1> DEFINE w == q \o r
<1>1. /\ w \in Seq(S) /\ Len(w) = Len(q) + Len(r)
      /\ \A i \in 1 .. Len(q) + Len(r) : w[i] = IF i <= Len(q) THEN q[i] ELSE r[i - Len(q)]
  BY ConcatProperties
<1>2. /\ DOMAIN q = 1 .. Len(q) /\ DOMAIN r = 1 .. Len(r)
      /\ Len(q) \in Nat /\ Len(r) \in Nat
      /\ DOMAIN w = 1 .. Len(q) + Len(r)
  BY <1>1, LenProperties
<1> HIDE DEF w
<1>3. ASSUME NEW i \in DOMAIN w
      PROVE  \/ i \in DOMAIN q /\ w[i] = q[i]
             \/ i - Len(q) \in DOMAIN r /\ w[i] = r[i - Len(q)]
  BY <1>1, <1>2
<1>4. ASSUME NEW i \in DOMAIN q PROVE q[i] \in ToSet(w)
  BY <1>1, <1>2 DEF ToSet
<1>5. ASSUME NEW i \in DOMAIN r PROVE r[i] \in ToSet(w)
  <2>1. i + Len(q) \in DOMAIN w /\ w[i + Len(q)] = r[i]
    BY <1>1, <1>2
  <2> QED  BY <2>1 DEF ToSet
<1>6. ToSet(w) = ToSet(q) \cup ToSet(r)
  BY <1>3, <1>4, <1>5 DEF ToSet
<1>7. ASSUME IsInjective(q), IsInjective(r), ToSet(q) \cap ToSet(r) = {},
             NEW i \in DOMAIN w, NEW j \in DOMAIN w, w[i] = w[j]
      PROVE  i = j
  <2>1. \A a \in DOMAIN q, b \in DOMAIN r : q[a] # r[b]
    BY <1>7 DEF ToSet
  <2> QED  BY <1>1, <1>2, <1>3, <1>7, <2>1 DEF IsInjective
<1> QED  BY <1>1, <1>6, <1>7 DEF w, IsInjective

\* insertChild puts the new child first.
LEMMA PushChild ==
    ASSUME NEW S, NEW q \in Seq(S), NEW p \in S
    PROVE  /\ <<p>> \o q \in Seq(S)
           /\ ToSet(<<p>> \o q) = {p} \cup ToSet(q)
           /\ IsInjective(q) /\ p \notin ToSet(q) => IsInjective(<<p>> \o q)
<1>1. /\ <<p>> \in Seq(S) /\ ToSet(<<p>>) = {p} /\ IsInjective(<<p>>)
  BY DEF ToSet, IsInjective
<1>2. /\ <<p>> \o q \in Seq(S)
      /\ ToSet(<<p>> \o q) = ToSet(<<p>>) \cup ToSet(q)
      /\ IsInjective(<<p>>) /\ IsInjective(q) /\ ToSet(<<p>>) \cap ToSet(q) = {}
           => IsInjective(<<p>> \o q)
  BY <1>1, ConcatQueues
<1> QED  BY <1>1, <1>2

\* outProcQ unlinks only a pcb that is in the queue, and reports a pcb absent
\* only if it is.
LEMMA OutProcQOutcome ==
    ASSUME NEW S, NEW q \in Seq(S), NEW p
    PROVE  /\ OutProcQ(q, p) = "removed" => p \in ToSet(q)
           /\ OutProcQ(q, p) = "absent" => p \notin ToSet(q)
           /\ OutProcQ(q, p) \in {"removed", "absent", "trap", "hang", "dangling"}
<1>1. CASE q = <<>>
  <2>1. OutProcQ(q, p) = "trap"
    BY <1>1 DEF OutProcQ
  <2> QED  BY <2>1
<1>2. CASE q # <<>> /\ p \notin ToSet(q)
  <2>1. OutProcQ(q, p) = IF Len(q) = 1 THEN "absent" ELSE "hang"
    BY <1>2 DEF OutProcQ
  <2> QED  BY <2>1, <1>2
<1>3. CASE p \in ToSet(q)
  <2>1. q # <<>> /\ Len(q) \in Nat /\ Len(q) # 0
    BY <1>3, QueueElements, LenProperties
  <2>2. OutProcQ(q, p) \in {"removed", "dangling"}
    BY <1>3, <2>1 DEF OutProcQ
  <2> QED  BY <1>3, <2>2
<1> QED  BY <1>1, <1>2, <1>3
=============================================================================
