----------------------------- MODULE AslProofs -----------------------------
(***************************************************************************)
(* TLAPS proofs that the active semaphore list of Asl stays sorted and     *)
(* keeps a descriptor for every process, and that to its callers it is     *)
(* the queues of PcbLists, for any number of pcbs and semaphores.          *)
(***************************************************************************)
EXTENDS Asl, ProcQueueProofs

(***************************************************************************)
(* What ProcQueueProofs shows of chains of pcbs, for those of descriptors. *)
(***************************************************************************)
Nodes == INSTANCE ProcQueueProofs WITH Pcb <- Node

LEMMA SameOperators ==
    /\ \A s : Nodes!ToSet(s) = ToSet(s)
    /\ \A f : Nodes!IsInjective(f) <=> IsInjective(f)
    /\ \A s, i : Nodes!RemoveAt(s, i) = RemoveAt(s, i)
    /\ \A S : Nodes!IsFiniteSet(S) <=> IsFiniteSet(S)
    /\ \A S : Nodes!Cardinality(S) = Cardinality(S)
<1>1. \A s : Nodes!ToSet(s) = ToSet(s)
  BY DEF Nodes!ToSet, ToSet
<1>2. \A f : Nodes!IsInjective(f) <=> IsInjective(f)
  BY DEF Nodes!IsInjective, IsInjective
<1>3. \A s, i : Nodes!RemoveAt(s, i) = RemoveAt(s, i)
  BY DEF Nodes!RemoveAt, RemoveAt
<1>4. \A S : Nodes!IsFiniteSet(S) <=> IsFiniteSet(S)
  BY DEF Nodes!IsFiniteSet, IsFiniteSet
<1>5. \A S : Nodes!Cardinality(S) = Cardinality(S)
  BY DEF Nodes!Cardinality, Cardinality
<1> QED  BY <1>1, <1>2, <1>3, <1>4, <1>5

\* The two dummies are no descriptors of a semaphore.
LEMMA NodeFacts ==
    /\ IsFiniteSet(Node) /\ Nodes!IsFiniteSet(Node) /\ NULL \notin Node
    /\ Cardinality(Node) = Cardinality(Semd) + 2 /\ Cardinality(Semd) \in Nat
    /\ ASL_h \in Node /\ end \in Node /\ ASL_h # end
    /\ \A d \in Node : d \in Semd <=> d # ASL_h /\ d # end
<1>1. IsFiniteSet(Semd) /\ ASL_h \notin Semd /\ end \notin Semd /\ NULL \notin Node
  BY SemdAssumption
<1>2. ASL_h # end
  BY DEF ASL_h, end
<1> DEFINE D == Semd \cup {ASL_h}
<1>3. IsFiniteSet(D) /\ Cardinality(D) = Cardinality(Semd) + 1
  BY <1>1, FS_AddElement
<1>4. end \notin D /\ Node = D \cup {end}
  BY <1>1, <1>2 DEF Node
<1> HIDE DEF D
<1>5. IsFiniteSet(Node) /\ Cardinality(Node) = Cardinality(D) + 1
  BY <1>3, <1>4, FS_AddElement
<1>6. Cardinality(Semd) \in Nat
  BY <1>1, FS_CardinalityType
<1>7. Cardinality(Node) = Cardinality(Semd) + 2
  BY <1>3, <1>5, <1>6
<1> QED  BY <1>1, <1>2, <1>5, <1>6, <1>7, SameOperators DEF Node

\* The links nx from h go through the descriptors of s and end.
NodeChain(nx, h, s) ==
    /\ s \in Seq(Node) /\ IsInjective(s)
    /\ h = IF s = <<>> THEN NULL ELSE s[1]
    /\ \A i \in 1 .. Len(s) : nx[s[i]] = IF i = Len(s) THEN NULL ELSE s[i + 1]

LEMMA NodeChainIs == \A nx, h, s : NodeChain(nx, h, s) <=> Nodes!ChainOf(nx, h, s)
  BY SameOperators DEF NodeChain, Nodes!ChainOf

LEMMA NodeSeq ==
    ASSUME NEW s \in Seq(Node)
    PROVE  /\ Len(s) \in Nat /\ DOMAIN s = 1 .. Len(s) /\ ToSet(s) \subseteq Node
           /\ s = <<>> <=> Len(s) = 0
           /\ \A i \in 1 .. Len(s) : s[i] \in Node /\ s[i] \in ToSet(s)
           /\ \A d : d \in ToSet(s) <=> \E i \in 1 .. Len(s) : s[i] = d
  BY QueueElements, LenProperties, ElementOfSeq

LEMMA NodesRead ==
    ASSUME NEW nx, NEW h, NEW s, NodeChain(nx, h, s)
    PROVE  Semds!LinkedFrom(nx, h) = s
<1>1. Nodes!LinkedFrom(nx, h) = s
  BY Nodes!StackRead, NodeChainIs, NodeFacts
<1>2. Semds!Behind(nx, h) = Nodes!Behind(nx, h)
  BY SameOperators DEF Semds!Behind, Nodes!Behind, Semds!Cardinality, Cardinality
<1>3. \A S : Semds!Cardinality(S) = Nodes!Cardinality(S)
  BY DEF Semds!Cardinality, Nodes!Cardinality
<1>4. Semds!LinkedFrom(nx, h) = Nodes!LinkedFrom(nx, h)
  BY <1>2, <1>3 DEF Semds!LinkedFrom, Nodes!LinkedFrom
<1> QED  BY <1>1, <1>4

LEMMA NodesDown ==
    ASSUME NEW nx, NEW h, NEW s, NodeChain(nx, h, s)
    PROVE  LET f == Semds!Behind(nx, h) IN
           /\ Len(s) <= Cardinality(Semd) + 2
           /\ \A n \in 0 .. Cardinality(Semd) : f[n] = IF n < Len(s) THEN s[n + 1] ELSE NULL
<1>1. Nodes!ChainOf(nx, h, s) /\ s \in Seq(Node) /\ Nodes!IsInjective(s)
  BY NodeChainIs, SameOperators DEF NodeChain
<1>2. \A n \in 0 .. Nodes!Cardinality(Node) :
          Nodes!Behind(nx, h)[n] = IF n < Len(s) THEN s[n + 1] ELSE NULL
  BY <1>1, Nodes!DownChain, NodeFacts
<1>3. Len(s) <= Nodes!Cardinality(Node)
  BY <1>1, Nodes!NoLonger, NodeFacts
<1>4. Nodes!Cardinality(Node) = Cardinality(Semd) + 2 /\ Cardinality(Semd) \in Nat
  BY NodeFacts, SameOperators
<1>5. \A n \in 0 .. Cardinality(Semd) : n \in 0 .. Cardinality(Semd) + 2
  BY <1>4
<1>6. Semds!Behind(nx, h) = Nodes!Behind(nx, h)
  BY SameOperators DEF Semds!Behind, Nodes!Behind, Semds!Cardinality, Cardinality
<1> QED  BY <1>2, <1>3, <1>4, <1>5, <1>6

LEMMA NodesPush ==
    ASSUME NEW nx, NEW nx2, NEW h, NEW s, NodeChain(nx, h, s), NEW d \in Node \ ToSet(s),
           nx2[d] = h, \A r \in ToSet(s) : nx2[r] = nx[r]
    PROVE  NodeChain(nx2, d, <<d>> \o s)
<1>1. Nodes!ChainOf(nx, h, s) /\ d \in Node \ Nodes!ToSet(s) /\ \A r \in Nodes!ToSet(s) : nx2[r] = nx[r]
  BY NodeChainIs, SameOperators
<1>2. Nodes!ChainOf(nx2, d, <<d>> \o s)
  BY <1>1, Nodes!ChainPush, NodeFacts
<1> QED  BY <1>2, NodeChainIs

LEMMA NodesPop ==
    ASSUME NEW nx, NEW nx2, NEW h, NEW s, NodeChain(nx, h, s), s # <<>>,
           \A r \in ToSet(s) \ {h} : nx2[r] = nx[r]
    PROVE  h = Head(s) /\ NodeChain(nx2, nx[h], Tail(s))
<1>1. Nodes!ChainOf(nx, h, s) /\ \A r \in Nodes!ToSet(s) \ {h} : nx2[r] = nx[r]
  BY NodeChainIs, SameOperators
<1>2. h = Head(s) /\ Nodes!ChainOf(nx2, nx[h], Tail(s))
  BY <1>1, Nodes!ChainPop, NodeFacts
<1> QED  BY <1>2, NodeChainIs

LEMMA NodesUnlink ==
    ASSUME NEW nx, NEW nx2, NEW h, NEW s, NodeChain(nx, h, s), NEW k \in 2 .. Len(s),
           Skips(nx, nx2, s, k)
    PROVE  NodeChain(nx2, h, RemoveAt(s, k))
<1>1. Nodes!ChainOf(nx, h, s) /\ Nodes!Skips(nx, nx2, s, k)
  BY NodeChainIs, SameOperators DEF Skips, Nodes!Skips
<1>2. Nodes!ChainOf(nx2, h, Nodes!RemoveAt(s, k))
  BY <1>1, Nodes!ChainUnlink, NodeFacts
<1> QED  BY <1>2, NodeChainIs, SameOperators

LEMMA NodesWithout ==
    ASSUME NEW s \in Seq(Node), IsInjective(s), NEW k \in 1 .. Len(s)
    PROVE  ToSet(RemoveAt(s, k)) = ToSet(s) \ {s[k]}
<1>1. Nodes!IsInjective(s)
  BY SameOperators
<1>2. Nodes!ToSet(Nodes!RemoveAt(s, k)) = Nodes!ToSet(s) \ {s[k]}
  BY <1>1, Nodes!RemoveAtSet, NodeFacts
<1> QED  BY <1>2, SameOperators

LEMMA NodesFreed ==
    ASSUME NEW nx, \A d \in Semd : nx[d] = Semds!Freed(Semd)[d]
    PROVE  \E F : NodeChain(nx, Semds!LastFreed(Semd), F) /\ ToSet(F) = Semd
<1>1. Semds!SetToSeq(Semd) = Nodes!SetToSeq(Semd)
  BY DEF Semds!SetToSeq, Nodes!SetToSeq, Semds!Cardinality, Nodes!Cardinality,
         Semds!IsInjective, Nodes!IsInjective
<1>2. Semds!Freed(Semd) = Nodes!Freed(Semd) /\ Semds!LastFreed(Semd) = Nodes!LastFreed(Semd)
  BY <1>1 DEF Semds!Freed, Nodes!Freed, Semds!LastFreed, Nodes!LastFreed, Semds!Last, Nodes!Last
<1>3. Semd \in SUBSET Node /\ \A d \in Semd : nx[d] = Nodes!Freed(Semd)[d]
  BY <1>2 DEF Node
<1>4. \E F : Nodes!ChainOf(nx, Nodes!LastFreed(Semd), F) /\ Nodes!ToSet(F) = Semd
  BY <1>3, Nodes!FreedChain, NodeFacts
<1> QED  BY <1>2, <1>4, NodeChainIs, SameOperators

\* Which nodes go on to nodes.
LEMMA NodeLinks ==
    ASSUME NEW nx, NEW h, NEW s, NodeChain(nx, h, s), NEW i \in 1 .. Len(s) - 1
    PROVE  /\ i \in 1 .. Len(s) /\ i + 1 \in 1 .. Len(s)
           /\ nx[s[i]] = s[i + 1] /\ s[i] # s[i + 1]
<1>1. s \in Seq(Node) /\ Len(s) \in Nat /\ DOMAIN s = 1 .. Len(s) /\ IsInjective(s)
  BY NodeSeq DEF NodeChain
<1>2. i \in 1 .. Len(s) /\ i + 1 \in 1 .. Len(s) /\ i # Len(s) /\ i # i + 1
  <2>1. Len(s) \in Nat
    BY <1>1
  <2> QED  BY <2>1
<1>3. nx[s[i]] = s[i + 1]
  BY <1>2 DEF NodeChain
<1>4. s[i] # s[i + 1]
  BY <1>1, <1>2 DEF IsInjective
<1> QED  BY <1>2, <1>3, <1>4

\* d is put behind the k-th of s.
Inserted(s, k, d) ==
    [i \in 1 .. Len(s) + 1 |-> IF i <= k THEN s[i] ELSE IF i = k + 1 THEN d ELSE s[i - 1]]

IsInserted(r, s, k, d) ==
    /\ r \in Seq(Node) /\ Len(r) = Len(s) + 1 /\ ToSet(r) = ToSet(s) \cup {d}
    /\ \A i \in 1 .. Len(s) + 1 :
           r[i] = IF i <= k THEN s[i] ELSE IF i = k + 1 THEN d ELSE s[i - 1]

LEMMA InsertedIs ==
    ASSUME NEW s \in Seq(Node), NEW k \in 1 .. Len(s), NEW d \in Node
    PROVE  IsInserted(Inserted(s, k, d), s, k, d)
<1> DEFINE r == Inserted(s, k, d)
<1>1. Len(s) \in Nat /\ \A i \in 1 .. Len(s) : s[i] \in Node
  BY NodeSeq
<1>2. \A i \in 1 .. Len(s) + 1 :
          r[i] = IF i <= k THEN s[i] ELSE IF i = k + 1 THEN d ELSE s[i - 1]
  BY DEF Inserted
<1>3. \A i \in 1 .. Len(s) + 1 : /\ i <= k => i \in 1 .. Len(s)
                                 /\ ~(i <= k) /\ i # k + 1 => i - 1 \in 1 .. Len(s)
  BY <1>1
<1>4. r \in [1 .. Len(s) + 1 -> Node]
  <2>1. \A i \in 1 .. Len(s) + 1 : r[i] \in Node
    BY <1>1, <1>2, <1>3
  <2> QED  BY <2>1 DEF Inserted
<1> HIDE DEF r
<1>5. r \in Seq(Node) /\ Len(r) = Len(s) + 1
  BY <1>1, <1>4
<1>6. \A e : e \in ToSet(r) <=> \E i \in 1 .. Len(s) + 1 : r[i] = e
  BY <1>5, NodeSeq
<1>7. \A e : e \in ToSet(s) <=> \E i \in 1 .. Len(s) : s[i] = e
  BY NodeSeq
<1>8. ASSUME NEW e \in ToSet(r) PROVE e \in ToSet(s) \cup {d}
  <2>1. PICK i \in 1 .. Len(s) + 1 : r[i] = e
    BY <1>6
  <2> QED  BY <2>1, <1>2, <1>3, <1>7
<1>9. ASSUME NEW e \in ToSet(s) PROVE e \in ToSet(r)
  <2>1. PICK i \in 1 .. Len(s) : s[i] = e
    BY <1>7
  <2>2. CASE i <= k
    <3>1. i \in 1 .. Len(s) + 1
      BY <1>1
    <3> QED  BY <2>1, <2>2, <3>1, <1>2, <1>6
  <2>3. CASE ~(i <= k)
    <3>1. i + 1 \in 1 .. Len(s) + 1 /\ ~(i + 1 <= k) /\ i + 1 # k + 1 /\ i + 1 - 1 = i
      BY <1>1, <2>3
    <3>2. r[i + 1] = s[i]
      BY <3>1, <1>2
    <3> QED  BY <2>1, <3>1, <3>2, <1>6
  <2> QED  BY <2>2, <2>3
<1>10. d \in ToSet(r)
  <2>1. k + 1 \in 1 .. Len(s) + 1 /\ ~(k + 1 <= k)
    BY <1>1
  <2> QED  BY <2>1, <1>2, <1>6
<1>11. IsInserted(r, s, k, d)
  <2>1. ToSet(r) = ToSet(s) \cup {d}
    BY <1>8, <1>9, <1>10
  <2> QED  BY <1>2, <1>5, <2>1 DEF IsInserted
<1> QED  BY <1>11 DEF r

\* The chain goes through d behind its k-th.
Threads(nx, nx2, s, k, d) ==
    /\ nx2[s[k]] = d /\ nx2[d] = nx[s[k]]
    /\ \A r \in ToSet(s) \ {s[k]} : nx2[r] = nx[r]

LEMMA NodesInsert ==
    ASSUME NEW nx, NEW nx2, NEW h, NEW s, NodeChain(nx, h, s), NEW k \in 1 .. Len(s) - 1,
           NEW d \in Node \ ToSet(s), Threads(nx, nx2, s, k, d)
    PROVE  NodeChain(nx2, h, Inserted(s, k, d))
<1> DEFINE w == Inserted(s, k, d)
<1>0. nx2[s[k]] = d /\ nx2[d] = nx[s[k]] /\ \A r \in ToSet(s) \ {s[k]} : nx2[r] = nx[r]
  BY DEF Threads
<1>1. /\ s \in Seq(Node) /\ Len(s) \in Nat /\ DOMAIN s = 1 .. Len(s) /\ IsInjective(s)
      /\ \A i \in 1 .. Len(s) : s[i] \in ToSet(s)
      /\ h = IF s = <<>> THEN NULL ELSE s[1]
      /\ (s = <<>> <=> Len(s) = 0)
      /\ \A i \in 1 .. Len(s) : nx[s[i]] = IF i = Len(s) THEN NULL ELSE s[i + 1]
  BY NodeSeq DEF NodeChain
<1>2. Len(s) \in Nat /\ k \in 1 .. Len(s) - 1
  BY <1>1
<1>3. k \in 1 .. Len(s)
  BY <1>2
<1>4. /\ w \in Seq(Node) /\ Len(w) = Len(s) + 1
      /\ \A i \in 1 .. Len(s) + 1 :
             w[i] = IF i <= k THEN s[i] ELSE IF i = k + 1 THEN d ELSE s[i - 1]
  <2>1. s \in Seq(Node) /\ d \in Node
    BY <1>1
  <2>2. IsInserted(w, s, k, d)
    BY <1>3, <2>1, InsertedIs
  <2> QED  BY <2>2 DEF IsInserted
<1> HIDE DEF w
<1>5. \A i, j \in 1 .. Len(s) : s[i] = s[j] => i = j
  BY <1>1 DEF IsInjective
<1>6. DOMAIN w = 1 .. Len(s) + 1 /\ (w = <<>> <=> Len(w) = 0) /\ w # <<>>
  BY <1>2, <1>4, NodeSeq
<1>7. \A i \in 1 .. Len(s) : s[i] # d
  BY <1>1
<1>8. IsInjective(w)
  <2>1. ASSUME NEW i \in 1 .. Len(s) + 1, NEW j \in 1 .. Len(s) + 1, w[i] = w[j] PROVE i = j
    <3> DEFINE origin(x) == IF x <= k THEN x ELSE x - 1
    <3>1. /\ i # k + 1 => origin(i) \in 1 .. Len(s)
          /\ j # k + 1 => origin(j) \in 1 .. Len(s)
      BY <1>2
    <3>2. /\ w[i] = IF i = k + 1 THEN d ELSE s[origin(i)]
          /\ w[j] = IF j = k + 1 THEN d ELSE s[origin(j)]
      <4>1. ~(k + 1 <= k)
        BY <1>2
      <4> QED  BY <1>4, <4>1
    <3> HIDE DEF origin
    <3>3. i = k + 1 <=> j = k + 1
      BY <2>1, <3>1, <3>2, <1>7
    <3>4. i # k + 1 => origin(i) = origin(j)
      BY <2>1, <3>1, <3>2, <3>3, <1>5
    <3> QED  BY <3>3, <3>4, <1>2 DEF origin
  <2> QED  BY <1>6, <2>1 DEF IsInjective
<1>9. h = w[1]
  <2>1. 1 \in 1 .. Len(s) + 1 /\ 1 <= k /\ Len(s) # 0
    BY <1>2
  <2> QED  BY <1>1, <1>4, <2>1
<1>10. ASSUME NEW i \in 1 .. Len(s) + 1
       PROVE  nx2[w[i]] = IF i = Len(s) + 1 THEN NULL ELSE w[i + 1]
  <2>1. CASE i < k
    <3>1. i \in 1 .. Len(s) /\ i + 1 \in 1 .. Len(s) + 1 /\ i <= k /\ i + 1 <= k /\ i # Len(s) /\ i # Len(s) + 1 /\ i # k
      BY <1>2, <2>1
    <3>2. w[i] = s[i] /\ w[i + 1] = s[i + 1]
      BY <1>4, <3>1
    <3>3. s[i] \in ToSet(s) \ {s[k]}
      BY <1>1, <1>3, <1>5, <3>1
    <3> QED  BY <1>0, <1>1, <3>1, <3>2, <3>3
  <2>2. CASE i = k
    <3>1. k <= k /\ k # Len(s) + 1 /\ k + 1 \in 1 .. Len(s) + 1 /\ ~(k + 1 <= k)
      BY <1>2
    <3>2. w[i] = s[k] /\ w[i + 1] = d
      BY <1>4, <2>2, <3>1
    <3> QED  BY <1>0, <2>2, <3>1, <3>2
  <2>3. CASE i = k + 1
    <3>1. /\ ~(k + 1 <= k) /\ k # Len(s) /\ k + 1 # Len(s) + 1 /\ k + 1 + 1 \in 1 .. Len(s) + 1
          /\ ~(k + 1 + 1 <= k) /\ k + 1 + 1 # k + 1 /\ k + 1 + 1 - 1 = k + 1
      BY <1>2
    <3>2. w[i] = d /\ w[i + 1] = s[k + 1]
      BY <1>4, <2>3, <3>1
    <3> QED  BY <1>0, <1>1, <1>3, <2>3, <3>1, <3>2
  <2>4. CASE i > k + 1
    <3>1. /\ i - 1 \in 1 .. Len(s) /\ ~(i <= k) /\ i # k + 1 /\ i - 1 # k
          /\ i - 1 = Len(s) <=> i = Len(s) + 1
          /\ i # Len(s) + 1 => i + 1 \in 1 .. Len(s) + 1
          /\ ~(i + 1 <= k) /\ i + 1 # k + 1 /\ i + 1 - 1 = i /\ i - 1 + 1 = i
      BY <1>2, <2>4
    <3>2. w[i] = s[i - 1] /\ (i # Len(s) + 1 => w[i + 1] = s[i])
      BY <1>4, <3>1
    <3>3. s[i - 1] \in ToSet(s) \ {s[k]}
      BY <1>1, <1>3, <1>5, <3>1
    <3>4. nx[s[i - 1]] = IF i - 1 = Len(s) THEN NULL ELSE s[i]
      BY <1>1, <3>1
    <3> QED  BY <1>0, <3>1, <3>2, <3>3, <3>4
  <2> QED  BY <2>1, <2>2, <2>3, <2>4, <1>2
<1>11. NodeChain(nx2, h, w)
  BY <1>4, <1>6, <1>8, <1>9, <1>10 DEF NodeChain
<1> QED  BY <1>11 DEF w

-----------------------------------------------------------------------------
(***************************************************************************)
(* The sorted list and the free descriptors.                               *)
(***************************************************************************)
\* The nodes of A are in the list, sorted from dummy to dummy, and those of F are
\* free.
ListIs(nx, sa, h, A, F) ==
    /\ nx \in [Node -> Node \cup {NULL}] /\ sa \in [Node -> Nat]
    /\ NodeChain(nx, ASL_h, A) /\ NodeChain(nx, h, F)
    /\ A[Len(A)] = end
    /\ ToSet(A) \cap ToSet(F) = {} /\ ToSet(A) \cup ToSet(F) = Node
    /\ sa[ASL_h] = 0 /\ sa[end] = MAXINT
    /\ \A i, j \in 1 .. Len(A) : i < j => sa[A[i]] < sa[A[j]]

LEMMA ListFacts ==
    ASSUME NEW nx, NEW sa, NEW h, NEW A, NEW F, ListIs(nx, sa, h, A, F)
    PROVE  /\ A \in Seq(Node) /\ Len(A) \in Nat /\ Len(A) >= 2 /\ A[1] = ASL_h
           /\ ASL_h \in ToSet(A) /\ end \in ToSet(A)
           /\ IsInjective(A) /\ IsInjective(F) /\ F \in Seq(Node) /\ ToSet(F) \subseteq Semd
           /\ h = NULL <=> F = <<>>
           /\ h # NULL => h = Head(F) /\ h \in ToSet(F) /\ h \in Semd
           /\ h \in Node \cup {NULL}
           /\ MAXINT \in Nat \ {0}
<1>1. /\ A \in Seq(Node) /\ IsInjective(A) /\ F \in Seq(Node) /\ IsInjective(F)
      /\ ASL_h = IF A = <<>> THEN NULL ELSE A[1]
      /\ h = IF F = <<>> THEN NULL ELSE F[1]
  BY DEF ListIs, NodeChain
<1>2. A # <<>> /\ A[1] = ASL_h
  BY <1>1, NodeFacts
<1>3. Len(A) \in Nat /\ Len(A) # 0
  BY <1>1, <1>2, NodeSeq
<1>4. A[Len(A)] = end /\ ASL_h # end
  BY NodeFacts DEF ListIs
<1>5. Len(A) >= 2
  <2>1. Len(A) # 1
    BY <1>2, <1>4
  <2>2. \A n \in Nat : n # 0 /\ n # 1 => n >= 2
    OBVIOUS
  <2> QED  BY <1>3, <2>1, <2>2
<1>6. ASL_h \in ToSet(A) /\ end \in ToSet(A)
  <2>1. 1 \in 1 .. Len(A) /\ Len(A) \in 1 .. Len(A)
    BY <1>3
  <2> QED  BY <1>1, <1>2, <1>4, <2>1, NodeSeq
<1>7. ToSet(F) \subseteq Semd
  <2>1. ToSet(F) \subseteq Node /\ ASL_h \notin ToSet(F) /\ end \notin ToSet(F)
    BY <1>1, <1>6, NodeSeq DEF ListIs
  <2> QED  BY <2>1, NodeFacts
<1>8. F # <<>> => F[1] \in ToSet(F) /\ F[1] = Head(F) /\ F[1] \in Node
  <2>1. ASSUME F # <<>> PROVE 1 \in 1 .. Len(F)
    <3>1. Len(F) \in Nat /\ Len(F) # 0
      BY <1>1, <2>1, NodeSeq
    <3> QED  BY <3>1
  <2> QED  BY <1>1, <2>1, NodeSeq
<1>9. MAXINT \in Nat \ {0}
  BY SemAddAssumption
<1> QED  BY <1>1, <1>2, <1>3, <1>5, <1>6, <1>7, <1>8, <1>9, NodeFacts

\* No two nodes of the list have the same semaphore.
LEMMA OneDescriptor ==
    ASSUME NEW nx, NEW sa, NEW h, NEW A, NEW F, ListIs(nx, sa, h, A, F),
           NEW d \in ToSet(A), NEW e \in ToSet(A), sa[d] = sa[e]
    PROVE  d = e
<1>1. A \in Seq(Node) /\ Len(A) \in Nat /\ sa \in [Node -> Nat]
  BY ListFacts DEF ListIs
<1>2. PICK i \in 1 .. Len(A), j \in 1 .. Len(A) : A[i] = d /\ A[j] = e
  BY <1>1, NodeSeq
<1>3. sa[d] \in Nat /\ sa[e] \in Nat
  BY <1>1, NodeSeq
<1>4. ~(i < j) /\ ~(j < i)
  BY <1>2, <1>3 DEF ListIs
<1>5. i = j
  BY <1>1, <1>4
<1> QED  BY <1>2, <1>5

\* The search, read off the pointers.
Parent(nx, sa, a) ==
    LET f == Semds!Behind(nx, ASL_h)
        passes(d) == nx[nx[d]] # NULL /\ sa[nx[d]] < a
    IN f[CHOOSE n \in 0 .. Cardinality(Semd) : ~passes(f[n]) /\ \A m \in 0 .. n - 1 : passes(f[m])]

LEMMA ParentIs ==
    ASSUME NEW a
    PROVE  findParent(a) = Parent(s_next, s_semAdd, a) /\ findParent(a)' = Parent(s_next', s_semAdd', a)
  BY DEF findParent, Parent, Passes

\* It ends at the last node whose semaphore comes before a.
LEMMA Search ==
    ASSUME NEW nx, NEW sa, NEW h, NEW A, NEW F, ListIs(nx, sa, h, A, F), NEW a \in 1 .. MAXINT - 1
    PROVE  \E k \in 1 .. Len(A) - 1 :
               /\ Parent(nx, sa, a) = A[k] /\ nx[Parent(nx, sa, a)] = A[k + 1]
               /\ sa[A[k]] < a /\ a <= sa[A[k + 1]]
<1> DEFINE f == Semds!Behind(nx, ASL_h)
           Goes(d) == nx[nx[d]] # NULL /\ sa[nx[d]] < a
           N == Cardinality(Semd)
           G(n) == Goes(f[n])
           c == CHOOSE n \in 0 .. N : ~G(n) /\ \A m \in 0 .. n - 1 : G(m)
<1>1. Parent(nx, sa, a) = f[c]
  BY DEF Parent
<1>2. /\ A \in Seq(Node) /\ Len(A) \in Nat /\ Len(A) >= 2 /\ A[1] = ASL_h
      /\ A[Len(A)] = end /\ sa[end] = MAXINT /\ sa[ASL_h] = 0 /\ MAXINT \in Nat
      /\ NodeChain(nx, ASL_h, A) /\ sa \in [Node -> Nat]
  BY ListFacts DEF ListIs
<1>3. N \in Nat /\ Len(A) <= N + 2
  BY <1>2, NodesDown, NodeFacts
<1>4. \A n \in 0 .. N : f[n] = IF n < Len(A) THEN A[n + 1] ELSE NULL
  BY <1>2, NodesDown
<1> HIDE DEF f
<1>5. ASSUME NEW n \in 0 .. Len(A) - 2
      PROVE  /\ n \in 0 .. N /\ n + 1 \in 1 .. Len(A) - 1 /\ f[n] = A[n + 1] /\ nx[f[n]] = A[n + 2]
             /\ G(n) <=> n # Len(A) - 2 /\ sa[A[n + 2]] < a
  <2>1. n \in 0 .. N /\ n < Len(A) /\ n + 1 \in 1 .. Len(A) - 1 /\ n + 1 + 1 = n + 2 /\ n + 2 \in 1 .. Len(A)
        /\ (n + 2 = Len(A) <=> n = Len(A) - 2)
    BY <1>2, <1>3
  <2>2. f[n] = A[n + 1]
    BY <1>4, <2>1
  <2>3. nx[A[n + 1]] = A[n + 1 + 1]
    BY <1>2, <2>1, NodeLinks
  <2>4. nx[A[n + 2]] = NULL <=> n + 2 = Len(A)
    <3>1. nx[A[n + 2]] = IF n + 2 = Len(A) THEN NULL ELSE A[n + 2 + 1]
      BY <1>2, <2>1 DEF NodeChain
    <3>2. n + 2 # Len(A) => n + 2 + 1 \in 1 .. Len(A)
      BY <1>2, <2>1
    <3>3. n + 2 # Len(A) => A[n + 2 + 1] # NULL
      BY <1>2, <3>2, NodeSeq, NodeFacts
    <3> QED  BY <3>1, <3>3
  <2> QED  BY <2>1, <2>2, <2>3, <2>4
<1> HIDE DEF G
<1> DEFINE T == {n \in 0 .. N : ~G(n)}
<1>6. Len(A) - 2 \in 0 .. Len(A) - 2
  BY <1>2
<1>7. Len(A) - 2 \in T
  BY <1>5, <1>6
<1>8. T \subseteq Nat
  OBVIOUS
<1>9. PICK n \in T : \A m \in T : n <= m
  BY <1>7, <1>8, Least
<1>10. n \in 0 .. N /\ ~G(n) /\ \A m \in 0 .. n - 1 : G(m)
  <2>1. \A m \in 0 .. n - 1 : m \in 0 .. N /\ ~(n <= m)
    BY <1>3, <1>9
  <2> QED  BY <1>9, <2>1
<1>11. c \in 0 .. N /\ ~G(c) /\ \A m \in 0 .. c - 1 : G(m)
  BY <1>10
<1> HIDE DEF c, T
<1>12. c \in 0 .. Len(A) - 2
  <2>1. c \in 0 .. N /\ Len(A) \in Nat /\ Len(A) >= 2 /\ N \in Nat
    BY <1>2, <1>3, <1>11
  <2>2. ~G(Len(A) - 2)
    BY <1>5, <1>6
  <2>3. ~(Len(A) - 2 \in 0 .. c - 1)
    BY <1>11, <2>2
  <2> QED  BY <2>1, <2>3
<1>13. /\ c + 1 \in 1 .. Len(A) - 1 /\ f[c] = A[c + 1] /\ nx[f[c]] = A[c + 2]
       /\ ~(c # Len(A) - 2 /\ sa[A[c + 2]] < a)
  BY <1>5, <1>11, <1>12
<1>14. /\ c \in 0 .. N /\ c + 1 + 1 = c + 2 /\ (c = Len(A) - 2 <=> c + 2 = Len(A))
       /\ c + 1 \in 1 .. Len(A) /\ c + 2 \in 1 .. Len(A)
       /\ c # 0 => c - 1 \in 0 .. c - 1 /\ c - 1 \in 0 .. Len(A) - 2 /\ c - 1 + 2 = c + 1
  <2>1. Len(A) \in Nat /\ Len(A) >= 2
    BY <1>2
  <2> QED  BY <1>3, <1>12, <2>1
<1>15. sa[A[c + 1]] \in Nat /\ sa[A[c + 2]] \in Nat /\ a \in Nat /\ 0 < a /\ a <= MAXINT
  BY <1>2, <1>14, NodeSeq
<1>16. a <= sa[A[c + 2]]
  <2>1. CASE c = Len(A) - 2
    BY <1>2, <1>14, <1>15, <2>1
  <2>2. CASE c # Len(A) - 2
    BY <1>13, <1>15, <2>2
  <2> QED  BY <2>1, <2>2
<1>17. sa[A[c + 1]] < a
  <2>1. CASE c = 0
    BY <1>2, <1>15, <2>1
  <2>2. CASE c # 0
    <3>1. c - 1 \in 0 .. c - 1 /\ c - 1 \in 0 .. Len(A) - 2 /\ c - 1 + 2 = c + 1
      BY <1>14, <2>2
    <3>2. G(c - 1)
      BY <1>11, <3>1
    <3> QED  BY <1>5, <3>1, <3>2
  <2> QED  BY <2>1, <2>2
<1>18. Parent(nx, sa, a) = A[c + 1] /\ nx[Parent(nx, sa, a)] = A[c + 1 + 1]
  BY <1>1, <1>13, <1>14
<1> QED  BY <1>13, <1>14, <1>16, <1>17, <1>18

\* Active and Free, read off the pointers, are the nodes of A and F.
Listed == ListIs(s_next, s_semAdd, semdFree_h, Active, Free)

LEMMA ListRead ==
    ASSUME NEW nx, NEW sa, NEW h, NEW A, NEW F, ListIs(nx, sa, h, A, F)
    PROVE  Semds!LinkedFrom(nx, ASL_h) = A /\ Semds!LinkedFrom(nx, h) = F
  BY NodesRead DEF ListIs

LEMMA ListNow ==
    ASSUME NEW A, NEW F, ListIs(s_next, s_semAdd, semdFree_h, A, F)
    PROVE  Listed /\ Active = A /\ Free = F
<1>1. Active = A /\ Free = F
  BY ListRead DEF Active, Free
<1> QED  BY <1>1 DEF Listed

LEMMA ListNext ==
    ASSUME NEW A, NEW F, ListIs(s_next', s_semAdd', semdFree_h', A, F)
    PROVE  Listed' /\ Active' = A /\ Free' = F
<1>1. Semds!LinkedFrom(s_next', ASL_h) = A /\ Semds!LinkedFrom(s_next', semdFree_h') = F
  BY ListRead
<1>2. Active' = A /\ Free' = F
  BY <1>1 DEF Active, Free
<1> QED  BY <1>2 DEF Listed

\* The free descriptor on top goes between two nodes.
Joins(nx, nx2, sa, sa2, h, A, k, a) ==
    /\ nx2 = [nx EXCEPT ![h] = nx[A[k]], ![A[k]] = h]
    /\ sa2 = [sa EXCEPT ![h] = a]
    /\ a \in Nat /\ sa[A[k]] < a /\ a < sa[A[k + 1]]

LEMMA ListInsert ==
    ASSUME NEW nx, NEW sa, NEW h, NEW A, NEW F, ListIs(nx, sa, h, A, F), h # NULL,
           NEW k \in 1 .. Len(A) - 1, NEW nx2, NEW sa2, NEW a, Joins(nx, nx2, sa, sa2, h, A, k, a)
    PROVE  \E A2 : ListIs(nx2, sa2, nx[h], A2, Tail(F)) /\ ToSet(A2) = ToSet(A) \cup {h}
<1> DEFINE w == Inserted(A, k, h)
<1>0. /\ nx2 = [nx EXCEPT ![h] = nx[A[k]], ![A[k]] = h]
      /\ sa2 = [sa EXCEPT ![h] = a]
      /\ a \in Nat /\ sa[A[k]] < a /\ a < sa[A[k + 1]]
  BY DEF Joins
<1>1. /\ A \in Seq(Node) /\ Len(A) \in Nat /\ Len(A) >= 2
      /\ IsInjective(A) /\ F \in Seq(Node) /\ IsInjective(F) /\ F # <<>>
      /\ h = Head(F) /\ h \in ToSet(F) /\ h \in Semd /\ h \in Node /\ h # end /\ h # ASL_h
      /\ ASL_h \in ToSet(A) /\ end \in ToSet(A)
  BY ListFacts, NodeFacts
<1>2. /\ nx \in [Node -> Node \cup {NULL}] /\ sa \in [Node -> Nat]
      /\ NodeChain(nx, ASL_h, A) /\ NodeChain(nx, h, F) /\ A[Len(A)] = end
      /\ ToSet(A) \cap ToSet(F) = {} /\ ToSet(A) \cup ToSet(F) = Node
      /\ sa[ASL_h] = 0 /\ sa[end] = MAXINT
      /\ \A i, j \in 1 .. Len(A) : i < j => sa[A[i]] < sa[A[j]]
  BY DEF ListIs
<1>3. /\ k \in 1 .. Len(A) /\ k + 1 \in 1 .. Len(A) /\ A[k] \in ToSet(A) /\ A[k] \in Node
      /\ nx[A[k]] \in Node /\ h \notin ToSet(A) /\ A[k] # h /\ A[k] \notin ToSet(F)
  <2>1. k \in 1 .. Len(A) /\ k + 1 \in 1 .. Len(A) /\ nx[A[k]] = A[k + 1]
    BY <1>2, NodeLinks
  <2>2. A[k] \in ToSet(A) /\ A[k] \in Node /\ A[k + 1] \in Node
    BY <1>1, <2>1, NodeSeq
  <2> QED  BY <1>1, <1>2, <2>1, <2>2
<1>4. /\ nx2 \in [Node -> Node \cup {NULL}] /\ nx2[A[k]] = h /\ nx2[h] = nx[A[k]]
      /\ \A r \in Node \ {h, A[k]} : nx2[r] = nx[r]
      /\ sa2 \in [Node -> Nat] /\ sa2[h] = a /\ \A r \in Node \ {h} : sa2[r] = sa[r]
  BY <1>0, <1>1, <1>2, <1>3
<1>5. ToSet(A) \subseteq Node /\ ToSet(F) \subseteq Node
  BY <1>1, NodeSeq
<1>6. NodeChain(nx2, ASL_h, w)
  <2>1. h \in Node \ ToSet(A) /\ \A r \in ToSet(A) \ {A[k]} : nx2[r] = nx[r]
    BY <1>1, <1>3, <1>4, <1>5
  <2>2. Threads(nx, nx2, A, k, h)
    BY <1>4, <2>1 DEF Threads
  <2> QED  BY <1>2, <2>1, <2>2, NodesInsert
<1>7. NodeChain(nx2, nx[h], Tail(F))
  <2>1. \A r \in ToSet(F) \ {h} : nx2[r] = nx[r]
    BY <1>3, <1>4, <1>5
  <2> QED  BY <1>1, <1>2, <2>1, NodesPop
<1>8. ToSet(Tail(F)) = ToSet(F) \ {h}
  BY <1>1, RemoveQueue
<1>9. /\ w \in Seq(Node) /\ Len(w) = Len(A) + 1 /\ ToSet(w) = ToSet(A) \cup {h}
      /\ \A i \in 1 .. Len(A) + 1 :
             w[i] = IF i <= k THEN A[i] ELSE IF i = k + 1 THEN h ELSE A[i - 1]
  <2>1. A \in Seq(Node) /\ h \in Node /\ k \in 1 .. Len(A)
    BY <1>1, <1>3
  <2>2. IsInserted(w, A, k, h)
    BY <2>1, InsertedIs
  <2> QED  BY <2>2 DEF IsInserted
<1> HIDE DEF w
<1>10. w[Len(w)] = end
  <2>1. /\ Len(A) + 1 \in 1 .. Len(A) + 1 /\ ~(Len(A) + 1 <= k) /\ Len(A) + 1 # k + 1
        /\ Len(A) + 1 - 1 = Len(A)
    BY <1>1
  <2> QED  BY <1>2, <1>9, <2>1
<1>11. ASSUME NEW i \in 1 .. Len(A) + 1
       PROVE  /\ i <= k => /\ w[i] = A[i] /\ i \in 1 .. Len(A) /\ sa2[w[i]] = sa[A[i]]
                           /\ sa[A[i]] <= sa[A[k]]
              /\ i = k + 1 => sa2[w[i]] = a
              /\ ~(i <= k + 1) => /\ w[i] = A[i - 1] /\ i - 1 \in 1 .. Len(A)
                                  /\ sa2[w[i]] = sa[A[i - 1]]
                                  /\ sa[A[k + 1]] <= sa[A[i - 1]]
              /\ sa2[w[i]] \in Nat
  <2>0. \A j \in 1 .. Len(A) : A[j] \in Node \ {h} /\ sa[A[j]] \in Nat
    BY <1>1, <1>2, <1>3, NodeSeq
  <2>1. ASSUME i <= k
        PROVE  w[i] = A[i] /\ i \in 1 .. Len(A) /\ sa2[w[i]] = sa[A[i]] /\ sa[A[i]] <= sa[A[k]]
    <3>1. i \in 1 .. Len(A) /\ (i = k \/ i < k)
      BY <1>1, <2>1
    <3>2. w[i] = A[i]
      BY <1>9, <2>1
    <3>3. sa2[w[i]] = sa[A[i]]
      BY <1>4, <2>0, <3>1, <3>2
    <3>4. i < k => sa[A[i]] < sa[A[k]]
      BY <1>2, <1>3, <3>1
    <3> QED  BY <1>3, <2>0, <3>1, <3>2, <3>3, <3>4
  <2>2. i = k + 1 => sa2[w[i]] = a
    <3>1. ~(k + 1 <= k)
      BY <1>1
    <3> QED  BY <1>4, <1>9, <3>1
  <2>3. ASSUME ~(i <= k + 1)
        PROVE  w[i] = A[i - 1] /\ i - 1 \in 1 .. Len(A) /\ sa2[w[i]] = sa[A[i - 1]] /\ sa[A[k + 1]] <= sa[A[i - 1]]
    <3>1. i - 1 \in 1 .. Len(A) /\ (i - 1 = k + 1 \/ k + 1 < i - 1) /\ ~(i <= k) /\ i # k + 1
      BY <1>1, <2>3
    <3>2. w[i] = A[i - 1]
      BY <1>9, <3>1
    <3>3. sa2[w[i]] = sa[A[i - 1]]
      BY <1>4, <2>0, <3>1, <3>2
    <3>4. k + 1 < i - 1 => sa[A[k + 1]] < sa[A[i - 1]]
      BY <1>2, <1>3, <3>1
    <3> QED  BY <1>3, <2>0, <3>1, <3>2, <3>3, <3>4
  <2>4. i <= k \/ i = k + 1 \/ ~(i <= k + 1)
    BY <1>1
  <2> QED  BY <1>0, <2>0, <2>1, <2>2, <2>3, <2>4
<1>12. ASSUME NEW i \in 1 .. Len(A) + 1, NEW j \in 1 .. Len(A) + 1, i < j
       PROVE  sa2[w[i]] < sa2[w[j]]
  <2>0. /\ sa2[w[i]] \in Nat /\ sa2[w[j]] \in Nat /\ sa[A[k]] \in Nat /\ sa[A[k + 1]] \in Nat
    <3>1. A[k] \in Node /\ A[k + 1] \in Node
      BY <1>1, <1>3, NodeSeq
    <3>2. sa2[w[i]] \in Nat /\ sa2[w[j]] \in Nat
      BY <1>11
    <3> QED  BY <1>2, <3>1, <3>2
  <2>1. CASE j <= k
    <3>1. i <= k
      BY <1>1, <1>12, <2>1
    <3> QED  BY <1>2, <1>11, <1>12, <2>1, <3>1
  <2>2. CASE j = k + 1
    <3>1. i <= k
      BY <1>1, <1>12, <2>2
    <3>2. sa2[w[i]] <= sa[A[k]] /\ sa2[w[j]] = a
      BY <1>11, <2>2, <3>1
    <3> QED  BY <1>0, <2>0, <3>2
  <2>3. CASE ~(j <= k + 1)
    <3>0. sa[A[k + 1]] <= sa2[w[j]]
      BY <1>11, <2>3
    <3>1. CASE i <= k
      <4>1. sa2[w[i]] <= sa[A[k]]
        BY <1>11, <3>1
      <4> QED  BY <1>0, <2>0, <3>0, <4>1
    <3>2. CASE i = k + 1
      <4>1. sa2[w[i]] = a
        BY <1>11, <3>2
      <4> QED  BY <1>0, <2>0, <3>0, <4>1
    <3>3. CASE ~(i <= k + 1)
      <4>1. i - 1 < j - 1
        BY <1>1, <1>12
      <4>2. /\ i - 1 \in 1 .. Len(A) /\ j - 1 \in 1 .. Len(A)
            /\ sa2[w[i]] = sa[A[i - 1]] /\ sa2[w[j]] = sa[A[j - 1]]
        BY <1>11, <2>3, <3>3
      <4>3. sa[A[i - 1]] < sa[A[j - 1]]
        BY <1>2, <4>1, <4>2
      <4> QED  BY <4>2, <4>3
    <3>4. i <= k \/ i = k + 1 \/ ~(i <= k + 1)
      BY <1>1
    <3> QED  BY <3>1, <3>2, <3>3, <3>4
  <2>4. j <= k \/ j = k + 1 \/ ~(j <= k + 1)
    BY <1>1
  <2> QED  BY <2>1, <2>2, <2>3, <2>4
<1>13. ToSet(w) \cap ToSet(Tail(F)) = {} /\ ToSet(w) \cup ToSet(Tail(F)) = Node
  <2>1. /\ h \in ToSet(F) /\ ToSet(A) \cap ToSet(F) = {} /\ ToSet(A) \cup ToSet(F) = Node
        /\ ToSet(w) = ToSet(A) \cup {h} /\ ToSet(Tail(F)) = ToSet(F) \ {h}
    BY <1>1, <1>2, <1>8, <1>9
  <2> QED  BY <2>1
<1>14. sa2[ASL_h] = 0 /\ sa2[end] = MAXINT
  BY <1>1, <1>2, <1>4, NodeFacts
<1>15. ListIs(nx2, sa2, nx[h], w, Tail(F))
  BY <1>4, <1>6, <1>7, <1>9, <1>10, <1>12, <1>13, <1>14 DEF ListIs
<1> QED  BY <1>9, <1>15

\* The node behind the k-th goes to the top of the free descriptors.
Leaves(nx, nx2, h, A, k) ==
    /\ A[k + 1] \in Semd
    /\ nx2 = [nx EXCEPT ![A[k]] = nx[A[k + 1]], ![A[k + 1]] = h]

LEMMA ListDelete ==
    ASSUME NEW nx, NEW sa, NEW h, NEW A, NEW F, ListIs(nx, sa, h, A, F),
           NEW k \in 1 .. Len(A) - 1, NEW nx2, Leaves(nx, nx2, h, A, k)
    PROVE  \E A2, F2 : ListIs(nx2, sa, A[k + 1], A2, F2) /\ ToSet(A2) = ToSet(A) \ {A[k + 1]}
<1> DEFINE d == A[k + 1]
           w == RemoveAt(A, k + 1)
           v == <<d>> \o F
<1>0. A[k + 1] \in Semd /\ nx2 = [nx EXCEPT ![A[k]] = nx[A[k + 1]], ![A[k + 1]] = h]
  BY DEF Leaves
<1>1. /\ A \in Seq(Node) /\ Len(A) \in Nat /\ Len(A) >= 2
      /\ F \in Seq(Node) /\ h \in Node \cup {NULL}
      /\ ASL_h \in ToSet(A) /\ end \in ToSet(A)
  BY ListFacts
<1>2. /\ nx \in [Node -> Node \cup {NULL}] /\ sa \in [Node -> Nat]
      /\ NodeChain(nx, ASL_h, A) /\ NodeChain(nx, h, F) /\ A[Len(A)] = end
      /\ ToSet(A) \cap ToSet(F) = {} /\ ToSet(A) \cup ToSet(F) = Node
      /\ sa[ASL_h] = 0 /\ sa[end] = MAXINT
      /\ \A i, j \in 1 .. Len(A) : i < j => sa[A[i]] < sa[A[j]]
  BY DEF ListIs
<1>3. /\ k \in 1 .. Len(A) /\ k + 1 \in 1 .. Len(A) /\ A[k] # d
      /\ A[k] \in ToSet(A) /\ A[k] \in Node /\ d \in ToSet(A) /\ d \in Node
      /\ d \notin ToSet(F) /\ A[k] \notin ToSet(F)
  <2>1. k \in 1 .. Len(A) /\ k + 1 \in 1 .. Len(A) /\ A[k] # A[k + 1]
    BY <1>2, NodeLinks
  <2>2. A[k] \in ToSet(A) /\ A[k] \in Node /\ A[k + 1] \in ToSet(A) /\ A[k + 1] \in Node
    BY <1>1, <2>1, NodeSeq
  <2> QED  BY <1>2, <2>1, <2>2
<1>4. d \in Semd /\ d # end /\ d # ASL_h
  BY <1>0, <1>3, NodeFacts
<1>5. nx[d] \in Node \cup {NULL}
  BY <1>2, <1>3
<1> HIDE DEF d
<1>6. /\ nx2 \in [Node -> Node \cup {NULL}] /\ nx2[A[k]] = nx[d] /\ nx2[d] = h
      /\ \A r \in Node \ {d, A[k]} : nx2[r] = nx[r]
  BY <1>0, <1>1, <1>2, <1>3, <1>5 DEF d
<1>7. ToSet(A) \subseteq Node /\ ToSet(F) \subseteq Node
  BY <1>1, NodeSeq
<1>8. k + 1 \in 2 .. Len(A) /\ k + 1 - 1 = k
  <2>1. Len(A) \in Nat
    BY <1>1
  <2> QED  BY <2>1
<1>9. NodeChain(nx2, ASL_h, w) /\ ToSet(w) = ToSet(A) \ {d}
  <2>1. PICK m : m = k + 1
    OBVIOUS
  <2>2. m \in 2 .. Len(A) /\ m - 1 = k /\ d = A[m] /\ w = RemoveAt(A, m)
    BY <1>8, <2>1 DEF d
  <2>3. nx2[A[m - 1]] = nx[A[m]]
    BY <1>6, <2>2
  <2>4. \A r \in ToSet(A) \ {A[m - 1], A[m]} : nx2[r] = nx[r]
    BY <1>6, <1>7, <2>2
  <2>5. Skips(nx, nx2, A, m)
    BY <2>3, <2>4 DEF Skips
  <2>6. NodeChain(nx2, ASL_h, RemoveAt(A, m)) /\ ToSet(RemoveAt(A, m)) = ToSet(A) \ {A[m]}
    <3>1. NodeChain(nx, ASL_h, A) /\ m \in 2 .. Len(A)
      BY <1>2, <2>2
    <3>2. NodeChain(nx2, ASL_h, RemoveAt(A, m))
      BY <2>5, <3>1, NodesUnlink
    <3>3. ToSet(RemoveAt(A, m)) = ToSet(A) \ {A[m]}
      <4>1. A \in Seq(Node) /\ IsInjective(A) /\ Len(A) \in Nat
        BY ListFacts
      <4>2. m \in 1 .. Len(A)
        BY <3>1, <4>1
      <4> QED  BY <4>1, <4>2, NodesWithout
    <3> QED  BY <3>2, <3>3
  <2> QED  BY <2>2, <2>6
<1>10. NodeChain(nx2, d, v)
  <2>1. d \in Node \ ToSet(F) /\ \A r \in ToSet(F) : nx2[r] = nx[r]
    BY <1>3, <1>6, <1>7
  <2> QED  BY <1>2, <1>6, <2>1, NodesPush
<1>11. ToSet(v) = {d} \cup ToSet(F)
  BY <1>1, <1>3, PushChild
<1>12. /\ Len(w) = Len(A) - 1
       /\ \A i \in 1 .. Len(A) - 1 : w[i] = IF i < k + 1 THEN A[i] ELSE A[i + 1]
  <2>1. A \in Seq(Node) /\ k + 1 \in 1 .. Len(A)
    BY <1>1, <1>3
  <2> QED  BY <2>1, RemoveAtQueue
<1> HIDE DEF w, v
<1>13. w[Len(w)] = end
  <2>1. k + 1 # Len(A)
    BY <1>2, <1>4 DEF d
  <2>2. Len(A) \in Nat /\ Len(A) >= 2
    BY <1>1
  <2>3. Len(A) - 1 \in 1 .. Len(A) - 1 /\ ~(Len(A) - 1 < k + 1) /\ Len(A) - 1 + 1 = Len(A)
    BY <2>1, <2>2
  <2> QED  BY <1>2, <1>12, <2>3
<1>14. ASSUME NEW i \in 1 .. Len(w), NEW j \in 1 .. Len(w), i < j PROVE sa[w[i]] < sa[w[j]]
  <2> DEFINE origin(x) == IF x < k + 1 THEN x ELSE x + 1
  <2>1. Len(A) \in Nat /\ i \in 1 .. Len(A) - 1 /\ j \in 1 .. Len(A) - 1
    BY <1>1, <1>12
  <2>2. origin(i) \in 1 .. Len(A) /\ origin(j) \in 1 .. Len(A) /\ origin(i) < origin(j)
    BY <1>14, <2>1
  <2>3. w[i] = A[origin(i)] /\ w[j] = A[origin(j)]
    BY <1>12, <2>1
  <2> QED  BY <1>2, <2>2, <2>3
<1>15. ToSet(w) \cap ToSet(v) = {} /\ ToSet(w) \cup ToSet(v) = Node
  BY <1>2, <1>3, <1>9, <1>11
<1>16. ListIs(nx2, sa, d, w, v)
  BY <1>2, <1>6, <1>9, <1>10, <1>13, <1>14, <1>15 DEF ListIs
<1> QED  BY <1>9, <1>16 DEF d

\* initASL: only the dummies are in the list.
LEMMA ListInit == ASSUME AslInit PROVE Listed /\ ToSet(Active) = {ASL_h, end}
<1> DEFINE A == <<ASL_h, end>>
<1>1. /\ ASL_h \in Node /\ end \in Node /\ ASL_h # end /\ NULL \notin Node
      /\ \A d \in Semd : d \in Node /\ d # ASL_h /\ d # end
  BY NodeFacts DEF Node
<1>2. /\ s_next = [d \in Node |-> CASE d = ASL_h -> end
                                    [] d = end -> NULL
                                    [] OTHER -> Semds!Freed(Semd)[d]]
      /\ semdFree_h = Semds!LastFreed(Semd)
      /\ s_semAdd = [d \in Node |-> IF d = end THEN MAXINT ELSE 0]
  BY DEF AslInit
<1>3. s_next[ASL_h] = end /\ s_next[end] = NULL /\ \A d \in Semd : s_next[d] = Semds!Freed(Semd)[d]
  BY <1>1, <1>2
<1>4. PICK F : NodeChain(s_next, semdFree_h, F) /\ ToSet(F) = Semd
  BY <1>2, <1>3, NodesFreed
<1>5. A \in Seq(Node) /\ Len(A) = 2 /\ A[1] = ASL_h /\ A[2] = end /\ DOMAIN A = 1 .. 2
  BY <1>1
<1> HIDE DEF A
<1>6. IsInjective(A)
  BY <1>1, <1>5 DEF IsInjective
<1>6a. (A = <<>> <=> Len(A) = 0) /\ \A d : d \in ToSet(A) <=> \E i \in 1 .. Len(A) : A[i] = d
  BY <1>5, NodeSeq
<1>7. ToSet(A) = {ASL_h, end}
  <2>1. \A i : i \in 1 .. 2 <=> i = 1 \/ i = 2
    OBVIOUS
  <2>2. \A d : d \in ToSet(A) <=> d = ASL_h \/ d = end
    BY <1>5, <1>6a, <2>1, Zenon
  <2> QED  BY <2>2
<1>8. NodeChain(s_next, ASL_h, A)
  <2>1. A # <<>>
    BY <1>5, <1>6a
  <2> QED  BY <1>3, <1>5, <1>6, <2>1 DEF NodeChain
<1>9. s_next \in [Node -> Node \cup {NULL}]
  <2>1. ASSUME NEW d \in Node PROVE s_next[d] \in Node \cup {NULL}
    <3>1. CASE d \in Semd
      <4>1. F \in Seq(Node) /\ Len(F) \in Nat
        BY <1>4, NodeSeq DEF NodeChain
      <4>2. PICK i \in 1 .. Len(F) : F[i] = d
        BY <1>4, <3>1, <4>1, NodeSeq
      <4>3. i # Len(F) => F[i + 1] \in Node
        <5>1. i # Len(F) => i + 1 \in 1 .. Len(F)
          BY <4>1
        <5> QED  BY <4>1, <5>1, NodeSeq
      <4> QED  BY <1>4, <4>2, <4>3 DEF NodeChain
    <3>2. CASE d \notin Semd
      BY <1>1, <1>3, <3>2, NodeFacts
    <3> QED  BY <3>1, <3>2
  <2> DEFINE link(d) == CASE d = ASL_h -> end [] d = end -> NULL [] OTHER -> Semds!Freed(Semd)[d]
  <2>2. s_next = [d \in Node |-> link(d)]
    BY <1>2
  <2> HIDE DEF link
  <2>3. s_next = [d \in Node |-> s_next[d]]
    BY <2>2
  <2> QED  BY <2>1, <2>3
<1>10. MAXINT \in Nat \ {0}
  BY SemAddAssumption
<1>11. s_semAdd \in [Node -> Nat] /\ s_semAdd[ASL_h] = 0 /\ s_semAdd[end] = MAXINT
  BY <1>1, <1>2, <1>10
<1>12. \A i, j \in 1 .. Len(A) : i < j => s_semAdd[A[i]] < s_semAdd[A[j]]
  BY <1>5, <1>10, <1>11
<1>13. ToSet(A) \cap ToSet(F) = {} /\ ToSet(A) \cup ToSet(F) = Node
  BY <1>1, <1>4, <1>7 DEF Node
<1>14. ListIs(s_next, s_semAdd, semdFree_h, A, F)
  BY <1>4, <1>5, <1>8, <1>9, <1>11, <1>12, <1>13 DEF ListIs
<1>15. Listed /\ Active = A
  BY <1>14, ListNow
<1> QED  BY <1>7, <1>15

\* Sorted says the same of the sequences.
LEMMA ListedIsSorted == ASSUME Listed PROVE Sorted
<1> DEFINE A == Active
           F == Free
<1>1. ListIs(s_next, s_semAdd, semdFree_h, A, F)
  BY DEF Listed
<1> HIDE DEF A, F
<1>2. /\ A \in Seq(Node) /\ Len(A) \in Nat /\ Len(A) >= 2 /\ A[1] = ASL_h
      /\ IsInjective(A) /\ IsInjective(F) /\ F \in Seq(Node)
  BY <1>1, ListFacts
<1>3. Head(A) = ASL_h /\ Last(A) = end
  BY <1>1, <1>2 DEF ListIs, Last
<1>4. \A i \in 1 .. Len(A) - 1 : i \in 1 .. Len(A) /\ i + 1 \in 1 .. Len(A) /\ i < i + 1
  BY <1>2
<1>5. \A i \in 1 .. Len(A) - 1 : s_semAdd[A[i]] < s_semAdd[A[i + 1]]
  BY <1>1, <1>4 DEF ListIs
<1>6. ToSet(A) \cap ToSet(F) = {} /\ ToSet(A) \cup ToSet(F) = Node
  BY <1>1 DEF ListIs
<1>7. IsInjective(A \o F) /\ ToSet(A \o F) = Node
  <2>1. A \in Seq(Node) /\ F \in Seq(Node) /\ IsInjective(A) /\ IsInjective(F)
    BY <1>2
  <2>2. ToSet(A \o F) = ToSet(A) \cup ToSet(F)
    BY <2>1, ConcatQueues
  <2>3. ToSet(A) \cap ToSet(F) = {} => IsInjective(A \o F)
    BY <2>1, ConcatQueues
  <2> QED  BY <1>6, <2>2, <2>3
<1> QED  BY <1>3, <1>5, <1>7 DEF Sorted, A, F

-----------------------------------------------------------------------------
(***************************************************************************)
(* What the search finds, and the queue of a semaphore.                    *)
(***************************************************************************)
LEMMA SemAddFacts == ASSUME NEW a \in SemAdd PROVE a \in 1 .. MAXINT - 1 /\ a \in Nat /\ MAXINT \in Nat
  BY SemAddAssumption

LEMMA ActiveRead ==
    ASSUME Listed, NEW a \in SemAdd
    PROVE  \E k \in 1 .. Len(Active) - 1 :
               /\ findParent(a) = Active[k] /\ Child(a) = Active[k + 1]
               /\ s_semAdd[Active[k]] < a
               /\ IsActive(a) => Child(a) \in Semd /\ Child(a) \in ToSet(Active)
               /\ ~IsActive(a) => /\ a < s_semAdd[Active[k + 1]]
                                  /\ \A d \in ToSet(Active) : s_semAdd[d] # a
<1> DEFINE A == Active
<1>1. ListIs(s_next, s_semAdd, semdFree_h, A, Free)
  BY DEF Listed
<1> HIDE DEF A
<1>2. a \in 1 .. MAXINT - 1 /\ a \in Nat /\ MAXINT \in Nat /\ a # 0 /\ a # MAXINT
  BY SemAddFacts
<1>3. PICK k \in 1 .. Len(A) - 1 :
          /\ findParent(a) = A[k] /\ s_next[findParent(a)] = A[k + 1]
          /\ s_semAdd[A[k]] < a /\ a <= s_semAdd[A[k + 1]]
  <2>1. findParent(a) = Parent(s_next, s_semAdd, a)
    BY ParentIs
  <2> QED  BY <1>1, <1>2, <2>1, Search
<1>4. /\ A \in Seq(Node) /\ Len(A) \in Nat /\ s_semAdd \in [Node -> Nat]
      /\ s_semAdd[ASL_h] = 0 /\ s_semAdd[end] = MAXINT
      /\ \A i, j \in 1 .. Len(A) : i < j => s_semAdd[A[i]] < s_semAdd[A[j]]
  BY <1>1, ListFacts DEF ListIs
<1>5. k \in 1 .. Len(A) /\ k + 1 \in 1 .. Len(A)
  BY <1>4
<1>6. Child(a) = A[k + 1] /\ (IsActive(a) <=> s_semAdd[A[k + 1]] = a)
  BY <1>3 DEF Child, IsActive
<1>7. A[k + 1] \in ToSet(A) /\ A[k + 1] \in Node
  BY <1>4, <1>5, NodeSeq
<1>8. ASSUME IsActive(a) PROVE Child(a) \in Semd
  <2>1. A[k + 1] # ASL_h /\ A[k + 1] # end
    BY <1>2, <1>4, <1>6, <1>8
  <2> QED  BY <1>6, <1>7, <2>1, NodeFacts
<1>9. ASSUME ~IsActive(a) PROVE a < s_semAdd[A[k + 1]] /\ \A d \in ToSet(A) : s_semAdd[d] # a
  <2>1. s_semAdd[A[k + 1]] \in Nat /\ s_semAdd[A[k]] \in Nat
    BY <1>4, <1>5, NodeSeq
  <2>2. a < s_semAdd[A[k + 1]]
    BY <1>2, <1>3, <1>6, <1>9, <2>1
  <2>3. ASSUME NEW d \in ToSet(A) PROVE s_semAdd[d] # a
    <3>1. PICK j \in 1 .. Len(A) : A[j] = d
      BY <1>4, NodeSeq
    <3>2. s_semAdd[d] \in Nat
      BY <1>4, <3>1, NodeSeq
    <3>3. j < k \/ j = k \/ j = k + 1 \/ k + 1 < j
      BY <1>4, <1>5
    <3>4. CASE j < k
      <4>1. s_semAdd[d] < s_semAdd[A[k]]
        BY <1>4, <1>5, <3>1, <3>4
      <4> QED  BY <1>2, <1>3, <2>1, <3>2, <4>1
    <3>5. CASE j = k
      BY <1>2, <1>3, <2>1, <3>1, <3>5
    <3>6. CASE j = k + 1
      BY <1>2, <2>1, <2>2, <3>1, <3>6
    <3>7. CASE k + 1 < j
      <4>1. s_semAdd[A[k + 1]] < s_semAdd[d]
        BY <1>4, <1>5, <3>1, <3>7
      <4> QED  BY <1>2, <2>1, <2>2, <3>2, <4>1
    <3> QED  BY <3>3, <3>4, <3>5, <3>6, <3>7
  <2> QED  BY <2>2, <2>3
<1> QED  BY <1>3, <1>6, <1>7, <1>8, <1>9 DEF A

\* WaitingFor, read off the pointers.
WaitIn(nx, sa, pn, tps, a) ==
    LET d == nx[Parent(nx, sa, a)] IN IF sa[d] = a THEN Ring(pn, tps[d]) ELSE <<>>

LEMMA WaitingIs ==
    ASSUME NEW a
    PROVE  /\ WaitingFor(a) = WaitIn(s_next, s_semAdd, p_next, tp, a)
           /\ WaitingFor(a)' = WaitIn(s_next', s_semAdd', p_next', tp', a)
<1>1. Child(a) = s_next[Parent(s_next, s_semAdd, a)] /\ Child(a)' = s_next'[Parent(s_next', s_semAdd', a)]
  BY ParentIs DEF Child
<1>2. \A d : Circle(d) = Ring(p_next, tp[d])
  BY DEF Circle, Ring, emptyProcQ
<1>3. \A d : Circle(d)' = Ring(p_next', tp'[d])
  BY DEF Circle, Ring, emptyProcQ
<1>4. WaitingFor(a) = WaitIn(s_next, s_semAdd, p_next, tp, a)
  BY <1>1, <1>2 DEF WaitingFor, WaitIn
<1>5. WaitingFor(a)' = WaitIn(s_next', s_semAdd', p_next', tp', a)
  BY <1>1, <1>3 DEF WaitingFor, WaitIn
<1> QED  BY <1>4, <1>5

LEMMA WaitingRead ==
    ASSUME NEW nx, NEW sa, NEW h, NEW A, NEW F, ListIs(nx, sa, h, A, F), NEW a \in SemAdd,
           NEW pn, NEW tps, NEW Q, Q = [q \in Queue |-> Ring(pn, tps[q])]
    PROVE  /\ \A d \in ToSet(A) : sa[d] = a => d \in Semd /\ WaitIn(nx, sa, pn, tps, a) = Q[d]
           /\ (\A d \in ToSet(A) : sa[d] # a) => WaitIn(nx, sa, pn, tps, a) = <<>>
<1>1. a \in 1 .. MAXINT - 1 /\ a # 0 /\ a # MAXINT
  BY SemAddFacts
<1>2. PICK k \in 1 .. Len(A) - 1 :
          /\ Parent(nx, sa, a) = A[k] /\ nx[Parent(nx, sa, a)] = A[k + 1]
          /\ sa[A[k]] < a /\ a <= sa[A[k + 1]]
  BY <1>1, Search
<1>3. /\ A \in Seq(Node) /\ Len(A) \in Nat /\ sa \in [Node -> Nat]
      /\ sa[ASL_h] = 0 /\ sa[end] = MAXINT
      /\ \A i, j \in 1 .. Len(A) : i < j => sa[A[i]] < sa[A[j]]
  BY ListFacts DEF ListIs
<1>4. k \in 1 .. Len(A) /\ k + 1 \in 1 .. Len(A)
  BY <1>3
<1>5. A[k + 1] \in ToSet(A) /\ sa[A[k]] \in Nat /\ sa[A[k + 1]] \in Nat
  BY <1>3, <1>4, NodeSeq
<1>6. ASSUME NEW d \in ToSet(A), sa[d] = a PROVE d \in Semd /\ WaitIn(nx, sa, pn, tps, a) = Q[d]
  <2>1. d \in Semd
    <3>1. d \in Node /\ d # ASL_h /\ d # end
      BY <1>1, <1>3, <1>6, NodeSeq
    <3> QED  BY <3>1, NodeFacts
  <2>2. PICK j \in 1 .. Len(A) : A[j] = d
    BY <1>3, NodeSeq
  <2>3. ~(j < k) /\ j # k
    <3>1. j < k => sa[d] < sa[A[k]]
      BY <1>3, <1>4, <2>2
    <3>2. j = k => sa[d] = sa[A[k]]
      BY <2>2
    <3> QED  BY <1>1, <1>2, <1>5, <1>6, <3>1, <3>2
  <2>4. ~(k + 1 < j)
    <3>1. k + 1 < j => sa[A[k + 1]] < sa[d]
      BY <1>3, <1>4, <2>2
    <3> QED  BY <1>1, <1>2, <1>5, <1>6, <3>1
  <2>5. j = k + 1
    BY <1>3, <1>4, <2>3, <2>4
  <2>6. WaitIn(nx, sa, pn, tps, a) = Ring(pn, tps[d])
    BY <1>2, <1>6, <2>2, <2>5 DEF WaitIn
  <2> QED  BY <2>1, <2>6 DEF Semd
<1>7. ASSUME \A d \in ToSet(A) : sa[d] # a PROVE WaitIn(nx, sa, pn, tps, a) = <<>>
  BY <1>2, <1>5, <1>7 DEF WaitIn
<1> QED  BY <1>6, <1>7

Waiting == [a \in SemAdd |-> WaitingFor(a)]

LEMMA WaitingNow ==
    ASSUME Listed, NEW a \in SemAdd
    PROVE  /\ \A d \in ToSet(Active) : s_semAdd[d] = a => d \in Semd /\ WaitingFor(a) = Circles[d]
           /\ (\A d \in ToSet(Active) : s_semAdd[d] # a) => WaitingFor(a) = <<>>
<1>1. Circles = [q \in Queue |-> Ring(p_next, tp[q])]
  BY CircleIsRing DEF Circles
<1>2. ListIs(s_next, s_semAdd, semdFree_h, Active, Free)
  BY DEF Listed
<1>3. WaitingFor(a) = WaitIn(s_next, s_semAdd, p_next, tp, a)
  BY WaitingIs
<1> QED  BY <1>1, <1>2, <1>3, WaitingRead

LEMMA WaitingNext ==
    ASSUME NEW A, NEW F, ListIs(s_next', s_semAdd', semdFree_h', A, F), NEW a \in SemAdd
    PROVE  /\ \A d \in ToSet(A) : s_semAdd'[d] = a => d \in Semd /\ WaitingFor(a)' = Circles'[d]
           /\ (\A d \in ToSet(A) : s_semAdd'[d] # a) => WaitingFor(a)' = <<>>
<1>1. Circles' = [q \in Queue |-> Ring(p_next', tp'[q])]
  BY CircleIsRing DEF Circles
<1>2. WaitingFor(a)' = WaitIn(s_next', s_semAdd', p_next', tp', a)
  BY WaitingIs
<1> QED  BY <1>1, <1>2, WaitingRead

-----------------------------------------------------------------------------
(***************************************************************************)
(* The inductive invariant.                                                *)
(***************************************************************************)
\* The descriptors of A are those with a process in their queue in Q, and the
\* process knows the semaphore.
WaitsIs(A, sa, pa, Q) ==
    /\ \A d \in Semd : d \in ToSet(A) <=> Q[d] # <<>>
    /\ \A d \in Semd : \A p \in ToSet(Q[d]) : pa[p] = sa[d]
Waits == WaitsIs(Active, s_semAdd, p_semAdd, Circles)

AslInv ==
    /\ Listed
    /\ p_semAdd \in [Pcb -> SemAdd \cup {NULL}]
    /\ fault # "dangling" => Shaped /\ Waits

\* The queue of one semaphore changes to r, and its descriptor d is in the list
\* while r is not empty.
OneChanges(a, d, r, A) ==
    /\ Circles' = [Circles EXCEPT ![d] = r]
    /\ s_semAdd'[d] = a /\ \A e \in Node \ {d} : s_semAdd'[e] = s_semAdd[e]
    /\ \A e \in Node \ {d} : e \in ToSet(A) <=> e \in ToSet(Active)
    /\ d \in ToSet(A) <=> r # <<>>
    /\ d \in ToSet(Active) => s_semAdd[d] = a
    /\ \A e \in ToSet(Active) \ {d} : s_semAdd[e] # a
    /\ \A p \in ToSet(r) : p_semAdd'[p] = a
    /\ \A e \in Semd \ {d} : \A p \in ToSet(Circles[e]) : p_semAdd'[p] = p_semAdd[p]

LEMMA OneSemaphore ==
    ASSUME Listed, Waits, NEW a \in SemAdd, NEW d \in Semd, NEW r, NEW A, NEW F,
           ListIs(s_next', s_semAdd', semdFree_h', A, F), OneChanges(a, d, r, A)
    PROVE  /\ Listed' /\ Waits'
           /\ Waiting' = [Waiting EXCEPT ![a] = r] /\ Waiting[a] = Circles[d]
<1>1. Listed' /\ Active' = A
  BY ListNext
<1>2. ToSet(A) \subseteq Node /\ ToSet(Active) \subseteq Node
  BY ListFacts, NodeSeq DEF Listed
<1>3. \A e \in Semd : e \in Node /\ e \in Queue
  BY DEF Semd, Node
<1>4. Circles'[d] = r /\ \A e \in Semd \ {d} : Circles'[e] = Circles[e]
  <2>1. Circles = [q \in Queue |-> Circle(q)]
    BY DEF Circles
  <2> QED  BY <1>3, <2>1 DEF OneChanges
<1>5. Waits'
  <2>1. ASSUME NEW e \in Semd
        PROVE  /\ e \in ToSet(A) <=> Circles'[e] # <<>>
               /\ \A p \in ToSet(Circles'[e]) : p_semAdd'[p] = s_semAdd'[e]
    <3>1. CASE e = d
      BY <1>4, <3>1 DEF OneChanges
    <3>2. CASE e # d
      BY <1>3, <1>4, <3>2 DEF OneChanges, Waits, WaitsIs
    <3> QED  BY <3>1, <3>2
  <2>2. WaitsIs(A, s_semAdd', p_semAdd', Circles')
    BY <2>1 DEF WaitsIs
  <2> QED  BY <1>1, <2>2 DEF Waits
<1>6. \A b \in SemAdd : /\ \A e \in ToSet(A) : s_semAdd'[e] = b => e \in Semd /\ WaitingFor(b)' = Circles'[e]
                        /\ (\A e \in ToSet(A) : s_semAdd'[e] # b) => WaitingFor(b)' = <<>>
  BY WaitingNext
<1>7. \A b \in SemAdd : /\ \A e \in ToSet(Active) : s_semAdd[e] = b => e \in Semd /\ WaitingFor(b) = Circles[e]
                        /\ (\A e \in ToSet(Active) : s_semAdd[e] # b) => WaitingFor(b) = <<>>
  BY WaitingNow
<1>8. WaitingFor(a)' = r
  <2>1. CASE r # <<>>
    BY <1>4, <1>6, <2>1 DEF OneChanges
  <2>2. CASE r = <<>>
    <3>1. \A e \in ToSet(A) : e # d /\ e \in Node
      BY <1>2, <2>2 DEF OneChanges
    <3>2. \A e \in ToSet(A) : s_semAdd'[e] # a
      BY <3>1 DEF OneChanges
    <3> QED  BY <1>6, <2>2, <3>2
  <2> QED  BY <2>1, <2>2
<1>9. WaitingFor(a) = Circles[d]
  <2>1. CASE d \in ToSet(Active)
    BY <1>7, <2>1 DEF OneChanges
  <2>2. CASE d \notin ToSet(Active)
    <3>1. \A e \in ToSet(Active) : s_semAdd[e] # a
      BY <2>2 DEF OneChanges
    <3>2. Circles[d] = <<>>
      BY <2>2 DEF Waits, WaitsIs
    <3> QED  BY <1>7, <3>1, <3>2
  <2> QED  BY <2>1, <2>2
<1>10. ASSUME NEW b \in SemAdd, b # a PROVE WaitingFor(b)' = WaitingFor(b)
  <2>1. CASE \E e \in ToSet(Active) : s_semAdd[e] = b
    <3>1. PICK e \in ToSet(Active) : s_semAdd[e] = b
      BY <2>1
    <3>2. e # d /\ e \in Node
      BY <1>2, <1>10, <3>1 DEF OneChanges
    <3>3. e \in ToSet(A) /\ s_semAdd'[e] = b
      BY <3>1, <3>2 DEF OneChanges
    <3>4. e \in Semd /\ WaitingFor(b) = Circles[e] /\ WaitingFor(b)' = Circles'[e]
      BY <1>6, <1>7, <3>1, <3>3
    <3> QED  BY <1>4, <3>2, <3>4
  <2>2. CASE \A e \in ToSet(Active) : s_semAdd[e] # b
    <3>1. ASSUME NEW e \in ToSet(A) PROVE s_semAdd'[e] # b
      <4>1. CASE e = d
        BY <1>10, <4>1 DEF OneChanges
      <4>2. CASE e # d
        <5>1. e \in ToSet(Active) /\ s_semAdd'[e] = s_semAdd[e]
          BY <1>2, <4>2 DEF OneChanges
        <5> QED  BY <2>2, <5>1
      <4> QED  BY <4>1, <4>2
    <3> QED  BY <1>6, <1>7, <2>2, <3>1
  <2> QED  BY <2>1, <2>2
<1>11. Waiting' = [b \in SemAdd |-> WaitingFor(b)'] /\ Waiting = [b \in SemAdd |-> WaitingFor(b)]
  BY DEF Waiting
<1>12. Waiting' = [Waiting EXCEPT ![a] = r]
  BY <1>8, <1>10, <1>11
<1> QED  BY <1>1, <1>5, <1>9, <1>11, <1>12

\* The list and the queues of the semaphores stay.
LEMMA SameSemaphores ==
    ASSUME Listed, Waits, UNCHANGED asl, Circles' = Circles,
           \A d \in Semd : \A p \in ToSet(Circles[d]) : p_semAdd'[p] = p_semAdd[p]
    PROVE  Listed' /\ Waits' /\ Waiting' = Waiting
<1>1. ListIs(s_next', s_semAdd', semdFree_h', Active, Free) /\ s_semAdd' = s_semAdd
  BY DEF Listed, asl
<1>2. Listed' /\ Active' = Active
  BY <1>1, ListNext
<1>3. WaitsIs(Active, s_semAdd', p_semAdd', Circles')
  BY <1>1 DEF Waits, WaitsIs
<1>4. Waits'
  BY <1>2, <1>3 DEF Waits
<1>5. ASSUME NEW a \in SemAdd PROVE WaitingFor(a)' = WaitingFor(a)
  <2>1. /\ \A d \in ToSet(Active) : s_semAdd'[d] = a => d \in Semd /\ WaitingFor(a)' = Circles'[d]
        /\ (\A d \in ToSet(Active) : s_semAdd'[d] # a) => WaitingFor(a)' = <<>>
    BY <1>1, WaitingNext
  <2>2. /\ \A d \in ToSet(Active) : s_semAdd[d] = a => d \in Semd /\ WaitingFor(a) = Circles[d]
        /\ (\A d \in ToSet(Active) : s_semAdd[d] # a) => WaitingFor(a) = <<>>
    BY WaitingNow
  <2> QED  BY <1>1, <2>1, <2>2
<1>6. Waiting' = Waiting
  BY <1>5 DEF Waiting
<1> QED  BY <1>2, <1>4, <1>6

-----------------------------------------------------------------------------
(***************************************************************************)
(* The steps.                                                              *)
(***************************************************************************)
\* Every pcb is in one place, so the address of one that is moved is that of no
\* waiting process.
LEMMA PlaceFacts ==
    ASSUME Shaped
    PROVE  /\ held \subseteq Pcb
           /\ pcbFree_h # NULL => pcbFree_h \in ToSet(Chain)
           /\ \A d \in Semd : /\ Circles[d] \in Seq(Pcb) /\ Circles[d] = Circle(d)
                              /\ ToSet(Circles[d]) \subseteq Pcb
                              /\ Circles[d] = <<>> <=> ToSet(Circles[d]) = {}
                              /\ tp[d] = NULL <=> Circles[d] = <<>>
                              /\ ToSet(Circles[d]) \cap (ToSet(Chain) \cup held) = {}
           /\ \A d, e \in Semd : d # e => ToSet(Circles[d]) \cap ToSet(Circles[e]) = {}
<1> DEFINE F == Chain
           Q == Circles
<1>1. Shape(p_next, p_prev, pcbFree_h, tp, held, F, Q) /\ \A q \in Queue : Q[q] = Circle(q)
  BY DEF Shaped, Circles
<1> HIDE DEF F, Q
<1>2. /\ held \subseteq Pcb /\ (pcbFree_h # NULL => pcbFree_h \in ToSet(F))
      /\ \A q \in Queue : Q[q] \in Seq(Pcb) /\ ToSet(Q[q]) \subseteq Pcb /\ (tp[q] = NULL <=> Q[q] = <<>>)
  BY <1>1, ShapeFacts
<1>3. \A q \in Queue : Q[q] = <<>> <=> ToSet(Q[q]) = {}
  BY <1>2, QueueElements
<1>4. /\ \A q \in Queue : ToSet(Q[q]) \cap (ToSet(F) \cup held) = {}
      /\ \A q, r \in Queue : q # r => ToSet(Q[q]) \cap ToSet(Q[r]) = {}
  BY <1>1 DEF Shape
<1> QED  BY <1>1, <1>2, <1>3, <1>4 DEF F, Q, Semd

LEMMA AslAllocStep ==
    ASSUME AslInv, Shaped, Waits, AslAllocPcb PROVE AslInv' /\ Queues!allocPcb
<1>1. Shaped' /\ Lists!allocPcb
  BY AllocStep DEF AslAllocPcb
<1>2. Circles' = Circles
  BY <1>1 DEF Lists!allocPcb, Circles
<1>3. pcbFree_h \in ToSet(Chain) /\ p_semAdd' = [p_semAdd EXCEPT ![pcbFree_h] = NULL] /\ UNCHANGED asl
  BY PlaceFacts DEF AslAllocPcb, allocPcb
<1>4. p_semAdd \in [Pcb -> SemAdd \cup {NULL}]
  BY DEF AslInv
<1>5. \A d \in Semd : \A p \in ToSet(Circles[d]) : p \in Pcb /\ p # pcbFree_h
  BY <1>3, PlaceFacts
<1>6. Listed' /\ Waits' /\ Waiting' = Waiting
  <2>1. \A d \in Semd : \A p \in ToSet(Circles[d]) : p_semAdd'[p] = p_semAdd[p]
    BY <1>3, <1>4, <1>5
  <2> QED  BY <1>2, <1>3, <2>1, SameSemaphores DEF AslInv
<1>7. p_semAdd' \in [Pcb -> SemAdd \cup {NULL}]
  BY <1>3, <1>4
<1>8. Queues!allocPcb
  BY <1>1, <1>6 DEF Queues!allocPcb, Lists!allocPcb, Waiting
<1> QED  BY <1>1, <1>6, <1>7, <1>8 DEF AslInv

LEMMA AslFreeStep ==
    ASSUME AslInv, Shaped, Waits, NEW p \in Pcb, AslFreePcb(p) PROVE AslInv' /\ Queues!freePcb(p)
<1>1. Shaped' /\ Lists!freePcb(p) /\ UNCHANGED <<asl, p_semAdd>>
  BY FreeStep DEF AslFreePcb
<1>2. Circles' = Circles
  BY <1>1 DEF Lists!freePcb, Circles
<1>3. Listed' /\ Waits' /\ Waiting' = Waiting
  BY <1>1, <1>2, SameSemaphores DEF AslInv
<1>4. Queues!freePcb(p)
  BY <1>1, <1>3 DEF Queues!freePcb, Lists!freePcb, Waiting
<1> QED  BY <1>1, <1>3, <1>4 DEF AslInv

\* insertBlocked, d being the descriptor, in the list or taken from the free ones.
LEMMA JoinQueue ==
    ASSUME AslInv, Shaped, Waits, NEW a \in SemAdd, NEW p \in Pcb, NEW d \in Semd,
           insertProcQ(d, p), p_semAdd' = [p_semAdd EXCEPT ![p] = a],
           NEW A, NEW F, ListIs(s_next', s_semAdd', semdFree_h', A, F),
           ToSet(A) = ToSet(Active) \cup {d}, s_semAdd' = [s_semAdd EXCEPT ![d] = a],
           d \in ToSet(Active) => s_semAdd[d] = a,
           \A e \in ToSet(Active) \ {d} : s_semAdd[e] # a
    PROVE  AslInv' /\ Queues!insertProcQ(a, p)
<1>1. Shaped' /\ Lists!insertProcQ(d, p) /\ fault' = fault
  BY InsertStep DEF Semd
<1> DEFINE r == Append(Circles[d], p)
<1>2. p \in held /\ held' = held \ {p} /\ Circles' = [Circles EXCEPT ![d] = r] /\ Chain' = Chain
  BY <1>1 DEF Lists!insertProcQ, Circles
<1>3. p_semAdd \in [Pcb -> SemAdd \cup {NULL}] /\ Listed
  BY DEF AslInv
<1>4. s_semAdd \in [Node -> Nat]
  BY <1>3 DEF Listed, ListIs
<1>5. d \in Node
  BY DEF Node
<1>6. Circles[d] \in Seq(Pcb) /\ \A e \in Semd : ToSet(Circles[e]) \subseteq Pcb /\ p \notin ToSet(Circles[e])
  BY <1>2, PlaceFacts
<1>7. ToSet(r) = ToSet(Circles[d]) \cup {p} /\ r # <<>>
  BY <1>6, InsertQueue, AppendProperties DEF InsertProcQ
<1> HIDE DEF r
<1>8. \A q \in ToSet(r) : p_semAdd'[q] = a
  <2>1. \A q \in ToSet(Circles[d]) : q \in Pcb /\ q # p
    BY <1>6
  <2>2. \A q \in ToSet(Circles[d]) : p_semAdd[q] = a
    <3>1. ASSUME NEW q \in ToSet(Circles[d]) PROVE p_semAdd[q] = a
      <4>1. Circles[d] # <<>>
        BY PlaceFacts
      <4>2. d \in ToSet(Active)
        BY <4>1 DEF Waits, WaitsIs
      <4>3. p_semAdd[q] = s_semAdd[d]
        BY DEF Waits, WaitsIs
      <4> QED  BY <4>2, <4>3
    <3> QED  BY <3>1
  <2> QED  BY <1>3, <1>7, <2>1, <2>2
<1>9. \A e \in Semd \ {d} : \A q \in ToSet(Circles[e]) : p_semAdd'[q] = p_semAdd[q]
  BY <1>3, <1>6
<1>10. s_semAdd'[d] = a /\ \A e \in Node \ {d} : s_semAdd'[e] = s_semAdd[e]
  BY <1>4, <1>5
<1>11. OneChanges(a, d, r, A)
  BY <1>2, <1>7, <1>8, <1>9, <1>10 DEF OneChanges
<1>12. Listed' /\ Waits' /\ Waiting' = [Waiting EXCEPT ![a] = r] /\ Waiting[a] = Circles[d]
  BY <1>3, <1>11, OneSemaphore
<1>13. p_semAdd' \in [Pcb -> SemAdd \cup {NULL}]
  BY <1>3
<1>14. Queues!insertProcQ(a, p)
  BY <1>2, <1>12 DEF Queues!insertProcQ, Waiting, r
<1> QED  BY <1>1, <1>12, <1>13, <1>14 DEF AslInv

LEMMA InsertBlockedStep ==
    ASSUME AslInv, Shaped, Waits, NEW a \in SemAdd, NEW p \in Pcb, insertBlocked(a, p)
    PROVE  AslInv' /\ Queues!insertProcQ(a, p)
<1>1. PICK k \in 1 .. Len(Active) - 1 :
          /\ findParent(a) = Active[k] /\ Child(a) = Active[k + 1]
          /\ s_semAdd[Active[k]] < a
          /\ IsActive(a) => Child(a) \in Semd /\ Child(a) \in ToSet(Active)
          /\ ~IsActive(a) => /\ a < s_semAdd[Active[k + 1]]
                             /\ \A d \in ToSet(Active) : s_semAdd[d] # a
  BY ActiveRead DEF AslInv
<1>2. ListIs(s_next, s_semAdd, semdFree_h, Active, Free)
  BY DEF AslInv, Listed
<1>3. s_semAdd \in [Node -> Nat] /\ a \in Nat
  BY <1>2, SemAddFacts DEF ListIs
<1>4. CASE IsActive(a)
  <2> DEFINE d == Child(a)
  <2>1. /\ d \in Semd /\ d \in ToSet(Active) /\ s_semAdd[d] = a
        /\ insertProcQ(d, p) /\ UNCHANGED asl /\ p_semAdd' = [p_semAdd EXCEPT ![p] = a]
    BY <1>1, <1>4 DEF insertBlocked, IsActive
  <2> HIDE DEF d
  <2>2. ListIs(s_next', s_semAdd', semdFree_h', Active, Free)
    BY <1>2, <2>1 DEF asl
  <2>3. s_semAdd' = [s_semAdd EXCEPT ![d] = a]
    BY <1>3, <2>1 DEF asl
  <2>4. ToSet(Active) = ToSet(Active) \cup {d}
    BY <2>1
  <2>5. \A e \in ToSet(Active) \ {d} : s_semAdd[e] # a
    BY <1>2, <2>1, OneDescriptor
  <2> QED  BY <2>1, <2>2, <2>3, <2>4, <2>5, JoinQueue
<1>5. CASE ~IsActive(a)
  <2> DEFINE d == semdFree_h
  <2>1. /\ d # NULL /\ insertProcQ(d, p) /\ p_semAdd' = [p_semAdd EXCEPT ![p] = a]
        /\ semdFree_h' = s_next[d]
        /\ s_next' = [s_next EXCEPT ![d] = s_next[Active[k]], ![Active[k]] = d]
        /\ s_semAdd' = [s_semAdd EXCEPT ![d] = a]
    BY <1>1, <1>5 DEF insertBlocked, NoDescriptor, Activate
  <2>2. d \in Semd /\ d \notin ToSet(Active)
    BY <1>2, <2>1, ListFacts DEF ListIs
  <2>3. PICK A : /\ ListIs(s_next', s_semAdd', semdFree_h', A, Tail(Free))
                 /\ ToSet(A) = ToSet(Active) \cup {d}
    <3>1. s_semAdd[Active[k]] < a /\ a < s_semAdd[Active[k + 1]] /\ a \in Nat
      BY <1>1, <1>3, <1>5
    <3>2. PICK nx2, sa2 : nx2 = s_next' /\ sa2 = s_semAdd'
      OBVIOUS
    <3> HIDE DEF d
    <3>3. Joins(s_next, nx2, s_semAdd, sa2, d, Active, k, a)
      BY <2>1, <3>1, <3>2 DEF Joins
    <3>4. ListIs(s_next, s_semAdd, d, Active, Free) /\ d # NULL
      BY <1>2, <2>1 DEF d
    <3>5. \E A : ListIs(nx2, sa2, s_next[d], A, Tail(Free)) /\ ToSet(A) = ToSet(Active) \cup {d}
      BY <3>3, <3>4, ListInsert
    <3> QED  BY <2>1, <3>2, <3>5
  <2>4. \A e \in ToSet(Active) \ {d} : s_semAdd[e] # a
    BY <1>1, <1>5
  <2> HIDE DEF d
  <2> QED  BY <2>1, <2>2, <2>3, <2>4, JoinQueue
<1> QED  BY <1>4, <1>5

\* Only the empty queue has no tail.
LEMMA TailFacts ==
    ASSUME NEW nx, NEW pv, NEW h, NEW tps, NEW hd, NEW F, NEW Q, Shape(nx, pv, h, tps, hd, F, Q)
    PROVE  \A q \in Queue : tps[q] = NULL <=> Q[q] = <<>>
  BY ShapeFacts

\* What roHelper does to the list when the queue has changed.
Helps(a) ==
    /\ IsActive(a)
    /\ IF s_procQ'[Child(a)] = NULL
       THEN Deactivate(a) /\ UNCHANGED s_semAdd
       ELSE UNCHANGED asl
    /\ UNCHANGED p_semAdd

LEMMA HelpedList ==
    ASSUME Listed, NEW a \in SemAdd, Helps(a)
    PROVE  /\ Child(a) \in Semd /\ Child(a) \in ToSet(Active)
           /\ s_semAdd[Child(a)] = a /\ s_semAdd' = s_semAdd
           /\ \E A, F : /\ ListIs(s_next', s_semAdd', semdFree_h', A, F)
                        /\ ToSet(A) = IF tp'[Child(a)] = NULL THEN ToSet(Active) \ {Child(a)}
                                      ELSE ToSet(Active)
<1> DEFINE d == Child(a)
<1>1. IsActive(a) /\ s_semAdd[d] = a
  BY DEF Helps, IsActive
<1>2. PICK k \in 1 .. Len(Active) - 1 :
          /\ findParent(a) = Active[k] /\ d = Active[k + 1]
          /\ d \in Semd /\ d \in ToSet(Active)
  BY <1>1, ActiveRead
<1>3. ListIs(s_next, s_semAdd, semdFree_h, Active, Free)
  BY DEF Listed
<1>4. CASE tp'[d] = NULL
  <2>1. /\ s_next' = [s_next EXCEPT ![findParent(a)] = s_next[d], ![d] = semdFree_h]
        /\ semdFree_h' = d /\ s_semAdd' = s_semAdd
    BY <1>4 DEF Helps, Deactivate, s_procQ
  <2>2. PICK nx2 : nx2 = s_next'
    OBVIOUS
  <2>3. Leaves(s_next, nx2, semdFree_h, Active, k)
    BY <1>2, <2>1, <2>2 DEF Leaves
  <2>4. \E A, F : ListIs(nx2, s_semAdd, Active[k + 1], A, F) /\ ToSet(A) = ToSet(Active) \ {Active[k + 1]}
    BY <1>3, <2>3, ListDelete
  <2> QED  BY <1>1, <1>2, <1>4, <2>1, <2>2, <2>4
<1>5. CASE tp'[d] # NULL
  <2>1. s_next' = s_next /\ s_semAdd' = s_semAdd /\ semdFree_h' = semdFree_h
    BY <1>5 DEF Helps, asl, s_procQ
  <2> QED  BY <1>1, <1>2, <1>3, <1>5, <2>1
<1> QED  BY <1>4, <1>5

LEMMA LeaveQueue ==
    ASSUME AslInv, Waits, Shaped', NEW a \in SemAdd, Helps(a), NEW r,
           Circles' = [Circles EXCEPT ![Child(a)] = r], ToSet(r) \subseteq ToSet(Circles[Child(a)])
    PROVE  AslInv' /\ Waiting' = [Waiting EXCEPT ![a] = r] /\ Waiting[a] = Circles[Child(a)]
<1> DEFINE d == Child(a)
<1>1. /\ d \in Semd /\ d \in ToSet(Active) /\ s_semAdd[d] = a /\ s_semAdd' = s_semAdd
      /\ p_semAdd' = p_semAdd /\ Listed
  BY HelpedList DEF AslInv, Helps
<1>2. PICK A, F : /\ ListIs(s_next', s_semAdd', semdFree_h', A, F)
                  /\ ToSet(A) = IF tp'[d] = NULL THEN ToSet(Active) \ {d} ELSE ToSet(Active)
  BY HelpedList DEF AslInv
<1>3. Circles' = [Circles EXCEPT ![d] = r] /\ ToSet(r) \subseteq ToSet(Circles[d])
  OBVIOUS
<1> HIDE DEF d
<1>4. tp'[d] = NULL <=> r = <<>>
  <2>1. Shape(p_next', p_prev', pcbFree_h', tp', held', Chain', Circles')
    BY DEF Shaped
  <2>2. \A q \in Queue : tp'[q] = NULL <=> Circles'[q] = <<>>
    <3>1. PICK tps, Q : tps = tp' /\ Q = Circles'
      OBVIOUS
    <3>2. Shape(p_next', p_prev', pcbFree_h', tps, held', Chain', Q)
      BY <2>1, <3>1
    <3>3. \A q \in Queue : tps[q] = NULL <=> Q[q] = <<>>
      BY <3>2, TailFacts
    <3> QED  BY <3>1, <3>3
  <2>3. d \in Queue /\ Circles = [q \in Queue |-> Circle(q)]
    BY <1>1 DEF Semd, Circles
  <2> QED  BY <1>3, <2>2, <2>3
<1>5. \A e \in ToSet(Active) \ {d} : s_semAdd[e] # a
  <2>1. ListIs(s_next, s_semAdd, semdFree_h, Active, Free)
    BY <1>1 DEF Listed
  <2> QED  BY <1>1, <2>1, OneDescriptor
<1>6. \A p \in ToSet(r) : p_semAdd'[p] = a
  BY <1>1, <1>3 DEF Waits, WaitsIs
<1>7. OneChanges(a, d, r, A)
  BY <1>1, <1>2, <1>3, <1>4, <1>5, <1>6 DEF OneChanges
<1>8. Listed' /\ Waits' /\ Waiting' = [Waiting EXCEPT ![a] = r] /\ Waiting[a] = Circles[d]
  BY <1>1, <1>2, <1>7, OneSemaphore
<1> QED  BY <1>1, <1>8 DEF AslInv, d

LEMMA RemoveBlockedStep ==
    ASSUME AslInv, Shaped, Waits, NEW a \in SemAdd, removeBlocked(a)
    PROVE  AslInv' /\ Queues!removeProcQ(a)
<1> DEFINE d == Child(a)
<1>1. Helps(a) /\ removeProcQ(d)
  BY DEF removeBlocked, roHelper, Helps
<1>2. d \in Semd
  BY <1>1, HelpedList DEF AslInv
<1>3. Shaped' /\ Lists!removeProcQ(d)
  BY <1>1, <1>2, RemoveStep DEF Semd
<1>4. /\ Circles[d] # <<>> /\ Circles' = [Circles EXCEPT ![d] = Tail(Circles[d])]
      /\ held' = held \cup {Head(Circles[d])} /\ Chain' = Chain
  BY <1>3 DEF Lists!removeProcQ, Circles
<1>5. ToSet(Tail(Circles[d])) \subseteq ToSet(Circles[d])
  <2>1. Circles[d] \in Seq(Pcb)
    BY <1>2, PlaceFacts
  <2> QED  BY <1>4, <2>1, RemoveQueue
<1>6. /\ AslInv' /\ Waiting' = [Waiting EXCEPT ![a] = Tail(Circles[d])]
      /\ Waiting[a] = Circles[d]
  BY <1>1, <1>3, <1>4, <1>5, LeaveQueue
<1> HIDE DEF d
<1>7. Queues!removeProcQ(a)
  BY <1>4, <1>6 DEF Queues!removeProcQ, Waiting
<1> QED  BY <1>6, <1>7

LEMMA SameQueueRemoveAt == \A s, i : Queues!RemoveAt(s, i) = RemoveAt(s, i)
  BY DEF Queues!RemoveAt, RemoveAt

LEMMA OutBlockedStep ==
    ASSUME AslInv, Shaped, Waits, NEW p \in Pcb, outBlocked(p)
    PROVE  /\ AslInv'
           /\ \/ fault' = "dangling"
              \/ \E a \in SemAdd : Queues!outProcQ(a, p)
              \/ UNCHANGED Queues!lists
<1> DEFINE a == p_semAdd[p]
           d == Child(a)
<1>1. a \in SemAdd /\ Helps(a) /\ outProcQ(d, p)
  <2>1. a # NULL /\ p_semAdd \in [Pcb -> SemAdd \cup {NULL}]
    BY DEF outBlocked, AslInv
  <2> QED  BY <2>1 DEF outBlocked, roHelper, Helps
<1> HIDE DEF a
<1>2. d \in Semd
  BY <1>1, HelpedList DEF AslInv
<1>3. \/ fault' = "dangling"
      \/ Shaped' /\ (Lists!outProcQ(d, p) \/ UNCHANGED Lists!lists)
  BY <1>1, <1>2, OutStep DEF Semd
<1>4. CASE fault' = "dangling"
  <2>1. PICK A, F : ListIs(s_next', s_semAdd', semdFree_h', A, F)
    BY <1>1, HelpedList DEF AslInv
  <2>2. Listed'
    BY <2>1, ListNext
  <2> QED  BY <1>1, <1>4, <2>2 DEF AslInv, Helps
<1>5. ASSUME Shaped', UNCHANGED Lists!lists PROVE AslInv' /\ UNCHANGED Queues!lists
  <2>1. Circles' = Circles /\ Chain' = Chain /\ held' = held
    BY <1>5 DEF Lists!lists, Circles
  <2>2. Circles' = [Circles EXCEPT ![d] = Circles[d]]
    <3>1. Circles = [q \in Queue |-> Circle(q)]
      BY DEF Circles
    <3> QED  BY <2>1, <3>1
  <2>3. AslInv' /\ Waiting' = [Waiting EXCEPT ![a] = Circles[d]] /\ Waiting[a] = Circles[d]
    BY <1>1, <1>5, <2>2, LeaveQueue
  <2> HIDE DEF d
  <2>4. Waiting' = Waiting
    BY <2>3 DEF Waiting
  <2> QED  BY <2>1, <2>3, <2>4 DEF Queues!lists, Waiting
<1>6. ASSUME Shaped', Lists!outProcQ(d, p) PROVE AslInv' /\ Queues!outProcQ(a, p)
  <2>1. PICK i \in DOMAIN Circles[d] :
            Circles[d][i] = p /\ Circles' = [Circles EXCEPT ![d] = RemoveAt(Circles[d], i)]
    BY <1>6, SameRemoveAt DEF Lists!outProcQ, Circles
  <2>2. held' = held \cup {p} /\ Chain' = Chain
    BY <1>6 DEF Lists!outProcQ
  <2>3. ToSet(RemoveAt(Circles[d], i)) \subseteq ToSet(Circles[d])
    <3>1. Circles[d] \in Seq(Pcb)
      BY <1>2, PlaceFacts
    <3>2. i \in 1 .. Len(Circles[d])
      BY <2>1, <3>1, SeqFacts
    <3> DEFINE s == Circles[d]
               r == RemoveAt(s, i)
    <3>3. /\ r \in Seq(Pcb) /\ Len(r) = Len(s) - 1
          /\ \A j \in 1 .. Len(s) - 1 : r[j] = IF j < i THEN s[j] ELSE s[j + 1]
      BY <3>1, <3>2, RemoveAtQueue
    <3>4. Len(s) \in Nat /\ \A j \in 1 .. Len(s) : s[j] \in ToSet(s)
      BY <3>1, SeqFacts
    <3> HIDE DEF s, r
    <3>5. \A j \in 1 .. Len(s) - 1 : j \in 1 .. Len(s) /\ j + 1 \in 1 .. Len(s)
      BY <3>4
    <3>6. \A j \in 1 .. Len(r) : r[j] \in ToSet(s)
      BY <3>3, <3>4, <3>5
    <3>7. ToSet(r) \subseteq ToSet(s)
      BY <3>3, <3>6, SeqFacts
    <3> QED  BY <3>7 DEF s, r
  <2>4. /\ AslInv' /\ Waiting' = [Waiting EXCEPT ![a] = RemoveAt(Circles[d], i)]
        /\ Waiting[a] = Circles[d]
    BY <1>1, <1>6, <2>1, <2>3, LeaveQueue
  <2> HIDE DEF d
  <2>5. Queues!outProcQ(a, p)
    BY <2>1, <2>2, <2>4, SameQueueRemoveAt DEF Queues!outProcQ, Waiting
  <2> QED  BY <2>4, <2>5
<1> QED  BY <1>1, <1>3, <1>4, <1>5, <1>6

-----------------------------------------------------------------------------
(***************************************************************************)
(* The theorems.                                                           *)
(***************************************************************************)
LEMMA AslInitStep == ASSUME AslInit PROVE AslInv /\ Queues!Init
<1>1. Shaped /\ Lists!Init
  BY InitStep DEF AslInit
<1>2. Listed /\ ToSet(Active) = {ASL_h, end}
  BY ListInit
<1>3. Chain \in Lists!SetToSeqs(Pcb) /\ held = {} /\ \A d \in Semd : Circles[d] = <<>>
  <2>1. [q \in Queue |-> Circle(q)] = [q \in Queue |-> <<>>]
    BY <1>1 DEF Lists!Init
  <2> QED  BY <1>1, <2>1 DEF Lists!Init, Circles, Semd
<1>4. Waits
  <2>1. \A d \in Semd : d \notin ToSet(Active)
    BY <1>2, NodeFacts DEF Node
  <2>2. \A d \in Semd : ToSet(Circles[d]) = {}
    BY <1>3 DEF ToSet
  <2> QED  BY <1>3, <2>1, <2>2 DEF Waits, WaitsIs
<1>5. ASSUME NEW a \in SemAdd PROVE WaitingFor(a) = <<>>
  <2>1. s_semAdd[ASL_h] = 0 /\ s_semAdd[end] = MAXINT
    BY <1>2 DEF Listed, ListIs
  <2>2. a # 0 /\ a # MAXINT
    BY SemAddFacts
  <2> QED  BY <1>2, <2>1, <2>2, WaitingNow
<1>6. Queues!SetToSeqs(Pcb) = Lists!SetToSeqs(Pcb)
  BY DEF Queues!SetToSeqs, Lists!SetToSeqs, Queues!Cardinality, Lists!Cardinality
<1>7. Queues!Init
  BY <1>3, <1>5, <1>6 DEF Queues!Init
<1>8. p_semAdd \in [Pcb -> SemAdd \cup {NULL}]
  BY DEF AslInit
<1> QED  BY <1>1, <1>2, <1>4, <1>7, <1>8 DEF AslInv

LEMMA AslStutters ==
    ASSUME AslInv, UNCHANGED aslVars PROVE AslInv' /\ UNCHANGED Queues!lists
<1>1. /\ UNCHANGED asl /\ p_semAdd' = p_semAdd /\ fault' = fault
      /\ p_next' = p_next /\ p_prev' = p_prev /\ tp' = tp /\ pcbFree_h' = pcbFree_h /\ held' = held
  BY DEF aslVars, vars
<1>2. Chain' = Chain /\ Circles' = Circles
  BY <1>1, CircleIsRing DEF Circles
<1>3. Listed'
  <2>1. ListIs(s_next', s_semAdd', semdFree_h', Active, Free)
    BY <1>1 DEF AslInv, Listed, asl
  <2> QED  BY <2>1, ListNext
<1>4. ASSUME Shaped, Waits PROVE Shaped' /\ Waits'
  <2>1. Shaped'
    BY <1>1, <1>2, <1>4 DEF Shaped
  <2>2. Waits'
    BY <1>1, <1>2, <1>4, SameSemaphores DEF AslInv
  <2> QED  BY <2>1, <2>2
<1>5. \A a \in SemAdd : WaitingFor(a)' = WaitingFor(a)
  <2> TAKE a \in SemAdd
  <2>1. WaitingFor(a)' = WaitIn(s_next', s_semAdd', p_next', tp', a)
    BY WaitingIs
  <2>2. WaitingFor(a) = WaitIn(s_next, s_semAdd, p_next, tp, a)
    BY WaitingIs
  <2> QED  BY <1>1, <2>1, <2>2 DEF asl
<1>6. AslInv'
  BY <1>1, <1>3, <1>4 DEF AslInv
<1> QED  BY <1>1, <1>2, <1>5, <1>6 DEF Queues!lists

LEMMA AslStep ==
    ASSUME AslInv, [AslNext]_aslVars
    PROVE  AslInv' /\ [fault' = "dangling" \/ Queues!Next]_(Queues!lists)
<1>1. CASE UNCHANGED aslVars
  BY <1>1, AslStutters
<1>2. CASE fault = "none" /\ AslNext
  <2>1. Shaped /\ Waits
    BY <1>2 DEF AslInv
  <2>2. CASE AslAllocPcb
    BY <2>1, <2>2, AslAllocStep DEF Queues!Next
  <2>3. ASSUME NEW p \in Pcb, AslFreePcb(p) PROVE AslInv' /\ Queues!Next
    BY <2>1, <2>3, AslFreeStep DEF Queues!Next
  <2>4. ASSUME NEW p \in Pcb, outBlocked(p)
        PROVE  AslInv' /\ [fault' = "dangling" \/ Queues!Next]_(Queues!lists)
    BY <2>1, <2>4, OutBlockedStep DEF Queues!Next
  <2>5. ASSUME NEW a \in SemAdd, removeBlocked(a) PROVE AslInv' /\ Queues!Next
    BY <2>1, <2>5, RemoveBlockedStep DEF Queues!Next
  <2>6. ASSUME NEW a \in SemAdd, NEW p \in Pcb, insertBlocked(a, p) PROVE AslInv' /\ Queues!Next
    BY <2>1, <2>6, InsertBlockedStep DEF Queues!Next
  <2> QED  BY <1>1, <1>2, <2>2, <2>3, <2>4, <2>5, <2>6 DEF AslNext
<1>3. CASE fault # "none" /\ AslNext
  BY <1>1, <1>3 DEF AslNext
<1> QED  BY <1>1, <1>2, <1>3

\* The inductive invariant: the list is sorted and shares no descriptor with the
\* free ones, and, until outProcQ takes the tail of several, exactly the
\* descriptors with a waiting process are in it.
THEOREM AslInvKept == AslSpec => []AslInv
<1>1. AslInit => AslInv
  BY AslInitStep
<1>2. AslInv /\ [AslNext]_aslVars => AslInv'
  BY AslStep
<1> QED  BY <1>1, <1>2, PTL DEF AslSpec

\* The list stays sorted between its dummies, every descriptor is in it or free,
\* and a descriptor is in it exactly while a process waits in its queue and knows
\* its semaphore (insertBlocked, removeBlocked, outBlocked of phase1/asl.c).
THEOREM ListIsSound == AslSpec => []ListSound
<1>1. AslInv => ListSound
  <2> SUFFICES ASSUME AslInv PROVE ListSound
    OBVIOUS
  <2>1. Sorted
    BY ListedIsSorted DEF AslInv
  <2>2. \A d \in Semd : Circles[d] = Circle(d)
    BY DEF Circles, Semd
  <2>3. fault # "dangling" =>
            /\ \A d \in Semd : d \in ToSet(Active) <=> Circle(d) # <<>>
            /\ \A d \in Semd : \A p \in ToSet(Circle(d)) : p_semAdd[p] = s_semAdd[d]
    BY <2>2 DEF AslInv, Waits, WaitsIs
  <2> QED  BY <2>1, <2>3 DEF ListSound
<1> QED  BY <1>1, AslInvKept, PTL

\* While a pcb is neither free nor waiting some descriptor has no queue, because
\* there are as many descriptors as pcbs: insertBlocked of phase1/asl.c never
\* answers that it has run out of them, so sys4, sys7 and sys8 never PANIC.
THEOREM DescriptorIsLeft == AslSpec => []DescriptorLeft
<1>1. AslInv => DescriptorLeft
  <2> SUFFICES ASSUME AslInv, fault = "none", NEW p \in held, NEW a \in SemAdd, NoDescriptor(a)
               PROVE  FALSE
    BY DEF DescriptorLeft
  <2>1. Listed /\ Shaped /\ Waits
    BY DEF AslInv
  <2>2. ToSet(Active) = Node
    <3>1. ListIs(s_next, s_semAdd, semdFree_h, Active, Free) /\ semdFree_h = NULL
      BY <2>1 DEF Listed, NoDescriptor
    <3>2. Free = <<>>
      BY <3>1, ListFacts
    <3>3. ToSet(Free) = {}
      BY <3>2 DEF ToSet
    <3> QED  BY <3>1, <3>3 DEF ListIs
  <2> DEFINE g == [d \in Semd |-> Head(Circles[d])]
  <2>3. ASSUME NEW d \in Semd PROVE g[d] \in ToSet(Circles[d]) /\ g[d] \in Pcb
    <3>1. Circles[d] # <<>> /\ Circles[d] \in Seq(Pcb)
      BY <2>1, <2>2, PlaceFacts DEF Waits, WaitsIs, Node
    <3> QED  BY <3>1, RemoveQueue
  <2> HIDE DEF g
  <2>4. g \in Injection(Semd, Pcb)
    <3>1. \A d, e \in Semd : d # e => ToSet(Circles[d]) \cap ToSet(Circles[e]) = {}
      BY <2>1, PlaceFacts
    <3>2. \A d, e \in Semd : g[d] = g[e] => d = e
      BY <2>3, <3>1
    <3>3. g \in [Semd -> Pcb]
      BY <2>3 DEF g
    <3> QED  BY <3>2, <3>3 DEF Injection, IsInjective
  <2>5. g \in Surjection(Semd, Pcb)
    BY <2>4, FS_Injection, PcbAssumption, SemdAssumption
  <2>6. p \in Pcb /\ \A d \in Semd : p \notin ToSet(Circles[d])
    BY <2>1, PlaceFacts
  <2>7. PICK d \in Semd : g[d] = p
    BY <2>5, <2>6 DEF Surjection
  <2> QED  BY <2>3, <2>6, <2>7
<1> QED  BY <1>1, AslInvKept, PTL

\* To its callers the list is one queue for every semaphore address: insertBlocked,
\* removeBlocked and outBlocked do to the queue of the semaphore what the comments
\* of phase1/pcb.c promise, until a queue loses its tail.
THEOREM AslImplementsQueues == AslSpec => QueuesKept
<1>1. AslInit => Queues!Init
  BY AslInitStep
<1>2. AslInv /\ [AslNext]_aslVars => [fault' = "dangling" \/ Queues!Next]_(Queues!lists)
  BY AslStep
<1> QED  BY <1>1, <1>2, AslInvKept, PTL DEF AslSpec, QueuesKept
=============================================================================
