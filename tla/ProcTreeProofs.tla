--------------------------- MODULE ProcTreeProofs ---------------------------
(***************************************************************************)
(* TLAPS proofs that insertChild, removeChild and outChild keep the links  *)
(* of the process trees consistent, and implement the lists of children of *)
(* Forest, for any number of pcbs.                                         *)
(***************************************************************************)
EXTENDS ProcTree, ProcQueueProofs

\* TypeOK and LinksSound together are inductive: consistent links are all the
\* three operations need to know of the tree.
IInv == TypeOK /\ LinksSound

\* A new first child.
LEMMA InsertKeeps ==
    ASSUME IInv, NEW prnt \in Pcb, NEW p \in Pcb, insertChild(prnt, p) PROVE IInv'
<1> DEFINE c == p_child[prnt]
<1>1. /\ TypeOK /\ RightSound /\ LeftSound /\ ChildSound /\ c \in Pointer
      /\ p_prnt[p] = NULL /\ p_child[p] = NULL /\ p # prnt
  BY DEF IInv, LinksSound, TypeOK, insertChild, emptyParent, emptyChild
<1>2. /\ p_leftSib[p] = NULL /\ p_rightSib[p] = NULL
      /\ c # NULL => p_prnt[c] = prnt /\ p_leftSib[c] = NULL /\ c # p
  BY <1>1, PcbAssumption DEF ChildSound, TypeOK, Pointer
<1>3. TypeOK'
  BY <1>1 DEF TypeOK, insertChild, Pointer
<1>4. \A q \in Pcb :
        /\ p_prnt'[q] = IF q = p THEN prnt ELSE p_prnt[q]
        /\ p_rightSib'[q] = IF q = p THEN c ELSE p_rightSib[q]
        /\ p_leftSib'[q] = IF q = p THEN NULL ELSE IF q = c THEN p ELSE p_leftSib[q]
        /\ p_child'[q] = IF q = prnt THEN p ELSE p_child[q]
  BY <1>1 DEF insertChild, TypeOK
<1>5. RightSound'
  BY <1>1, <1>2, <1>3, <1>4, PcbAssumption DEF RightSound, LeftSound, ChildSound, TypeOK, Pointer
<1>6. LeftSound'
  BY <1>1, <1>2, <1>3, <1>4, PcbAssumption DEF RightSound, LeftSound, ChildSound, TypeOK, Pointer
<1>7. ChildSound'
  BY <1>1, <1>2, <1>3, <1>4, PcbAssumption DEF RightSound, LeftSound, ChildSound, TypeOK, Pointer
<1> QED  BY <1>3, <1>5, <1>6, <1>7 DEF IInv, LinksSound

\* The first child goes.
LEMMA RemoveKeeps ==
    ASSUME IInv, NEW p \in Pcb, removeChild(p) PROVE IInv'
<1> DEFINE c == p_child[p]
           r == p_rightSib[c]
<1>1. /\ TypeOK /\ RightSound /\ LeftSound /\ ChildSound
      /\ c \in Pcb /\ r \in Pointer
  BY DEF IInv, LinksSound, TypeOK, removeChild, emptyChild, Pointer
<1>2. /\ p_prnt[c] = p /\ p_leftSib[c] = NULL
      /\ r # NULL => p_prnt[r] = p /\ p_leftSib[r] = c /\ r # c
  BY <1>1, PcbAssumption DEF RightSound, ChildSound, TypeOK, Pointer
<1>3. TypeOK'
  BY <1>1 DEF TypeOK, removeChild, CleanedUp, Pointer
<1>4. \A q \in Pcb :
        /\ p_prnt'[q] = IF q = c THEN NULL ELSE p_prnt[q]
        /\ p_rightSib'[q] = IF q = c THEN NULL ELSE p_rightSib[q]
        /\ p_leftSib'[q] = IF q = c \/ q = r THEN NULL ELSE p_leftSib[q]
        /\ p_child'[q] = IF q = p THEN r ELSE p_child[q]
  BY <1>1 DEF removeChild, CleanedUp, TypeOK
<1>5. RightSound'
  BY <1>1, <1>2, <1>3, <1>4, PcbAssumption DEF RightSound, LeftSound, ChildSound, TypeOK, Pointer
<1>6. LeftSound'
  BY <1>1, <1>2, <1>3, <1>4, PcbAssumption DEF RightSound, LeftSound, ChildSound, TypeOK, Pointer
<1>7. ChildSound'
  BY <1>1, <1>2, <1>3, <1>4, PcbAssumption DEF RightSound, LeftSound, ChildSound, TypeOK, Pointer
<1> QED  BY <1>3, <1>5, <1>6, <1>7 DEF IInv, LinksSound

\* A child with a left sibling goes, last or not.
LEMMA OutKeeps ==
    ASSUME IInv, NEW p \in Pcb, p_prnt[p] # NULL, OutLast(p) \/ OutMiddle(p),
           p_prnt' = CleanedUp(p_prnt, p), UNCHANGED p_child
    PROVE  IInv'
<1> DEFINE l == p_leftSib[p]
           r == p_rightSib[p]
<1>1. /\ TypeOK /\ RightSound /\ LeftSound /\ ChildSound
      /\ l \in Pcb /\ r \in Pointer
  BY DEF IInv, LinksSound, TypeOK, OutLast, OutMiddle, Pointer
<1>2. /\ p_rightSib[l] = p /\ p_prnt[l] = p_prnt[p]
      /\ r # NULL => p_leftSib[r] = p /\ p_prnt[r] = p_prnt[p]
  BY <1>1, PcbAssumption DEF RightSound, LeftSound, TypeOK, Pointer
<1>3. \A q \in Pcb :
        /\ p_prnt'[q] = IF q = p THEN NULL ELSE p_prnt[q]
        /\ p_rightSib'[q] = IF q = p THEN NULL ELSE IF q = l THEN r ELSE p_rightSib[q]
        /\ p_leftSib'[q] = IF q = p THEN NULL ELSE IF q = r THEN l ELSE p_leftSib[q]
        /\ p_child'[q] = p_child[q]
  <2>1. CASE OutLast(p)
    BY <1>1, <2>1, PcbAssumption DEF OutLast, CleanedUp, TypeOK
  <2>2. CASE OutMiddle(p)
    BY <1>1, <2>2 DEF OutMiddle, CleanedUp, TypeOK
  <2> QED  BY <2>1, <2>2
<1>4. TypeOK'
  BY <1>1 DEF TypeOK, OutLast, OutMiddle, CleanedUp, Pointer
<1>5. RightSound'
  BY <1>1, <1>2, <1>3, <1>4, PcbAssumption DEF RightSound, LeftSound, ChildSound, TypeOK, Pointer
<1>6. LeftSound'
  BY <1>1, <1>2, <1>3, <1>4, PcbAssumption DEF RightSound, LeftSound, ChildSound, TypeOK, Pointer
<1>7. ChildSound'
  BY <1>1, <1>2, <1>3, <1>4, PcbAssumption DEF RightSound, LeftSound, ChildSound, TypeOK, Pointer
<1> QED  BY <1>4, <1>5, <1>6, <1>7 DEF IInv, LinksSound

\* TypeOK and LinksSound stay together.
LEMMA LinksStay == IInv /\ [TreeNext]_treeVars => IInv'
<1> SUFFICES ASSUME IInv, [TreeNext]_treeVars PROVE IInv'
  OBVIOUS
<1>1. ASSUME NEW p \in Pcb, removeChild(p) PROVE IInv'
  BY <1>1, RemoveKeeps
<1>2. ASSUME NEW p \in Pcb, outChild(p) PROVE IInv'
  <2>1. CASE p_leftSib[p] = NULL /\ removeChild(p_prnt[p])
    <3>1. p_prnt[p] \in Pcb
      BY <1>2 DEF outChild, emptyParent, IInv, TypeOK, Pointer
    <3> QED  BY <2>1, <3>1, RemoveKeeps
  <2>2. CASE /\ OutLast(p) \/ OutMiddle(p)
             /\ p_prnt' = CleanedUp(p_prnt, p) /\ UNCHANGED p_child
    BY <1>2, <2>2, OutKeeps DEF outChild, emptyParent
  <2> QED  BY <1>2, <2>1, <2>2 DEF outChild
<1>3. ASSUME NEW p \in Pcb, NEW prnt \in Pcb, insertChild(prnt, p) PROVE IInv'
  BY <1>3, InsertKeeps
<1>4. CASE UNCHANGED treeVars
  BY <1>4 DEF treeVars, IInv, TypeOK, LinksSound, RightSound, LeftSound, ChildSound
<1> QED  BY <1>1, <1>2, <1>3, <1>4 DEF TreeNext

\* The links of the process trees are consistent after every sequence of calls,
\* however many pcbs there are: a pcb can be taken out wherever it is.
THEOREM LinksAreSound == TreeSpec => []LinksSound
<1>1. TreeInit => IInv
  BY DEF TreeInit, IInv, TypeOK, LinksSound, RightSound, LeftSound, ChildSound, Nowhere, Pointer
<1>2. IInv /\ [TreeNext]_treeVars => IInv'
  BY LinksStay
<1>3. IInv => LinksSound
  BY DEF IInv
<1> QED  BY <1>1, <1>2, <1>3, PTL DEF TreeSpec

-----------------------------------------------------------------------------
(***************************************************************************)
(* The children as sequences.  ChainOf and the lemmas on it are those of   *)
(* the free list.                                                          *)
(***************************************************************************)

\* The children of p are the sequence K[p], and they are those with parent p.
Grown(pr, ch, rs, K) ==
    /\ K \in [Pcb -> Seq(Pcb)]
    /\ \A p \in Pcb : ChainOf(rs, ch[p], K[p])
    /\ \A p, c \in Pcb : c \in ToSet(K[p]) <=> pr[c] = p

Kids == [p \in Pcb |-> Children(p)]
KidsInv == Grown(p_prnt, p_child, p_rightSib, Kids)

\* The right links lead through the sequence they make.
LEMMA GrownRead ==
    ASSUME NEW pr, NEW ch, NEW rs, NEW K, Grown(pr, ch, rs, K)
    PROVE  K = [p \in Pcb |-> IF ch[p] = NULL THEN <<>> ELSE LinkedFrom(rs, ch[p])]
<1>1. \A p \in Pcb : LinkedFrom(rs, ch[p]) = K[p]
  BY StackRead DEF Grown
<1>2. ASSUME NEW p \in Pcb, ch[p] = NULL PROVE K[p] = <<>>
  <2>1. ChainOf(rs, NULL, K[p]) /\ K[p] \in Seq(Pcb)
    BY <1>2 DEF Grown
  <2>2. K[p] # <<>> => K[p][1] \in Pcb
    BY <2>1, RemoveQueue
  <2> QED  BY <2>1, <2>2, PcbAssumption DEF ChainOf
<1> QED  BY <1>1, <1>2 DEF Grown

LEMMA GrownNext ==
    ASSUME NEW K, Grown(p_prnt', p_child', p_rightSib', K) PROVE KidsInv' /\ Kids' = K
<1>1. K = [p \in Pcb |-> IF p_child'[p] = NULL THEN <<>> ELSE LinkedFrom(p_rightSib', p_child'[p])]
  BY GrownRead
<1>2. Kids' = K
  BY <1>1 DEF Kids, Children, emptyChild
<1> QED  BY <1>2 DEF KidsInv

LEMMA GrownFacts ==
    ASSUME KidsInv, NEW q \in Pcb
    PROVE  /\ Kids[q] \in Seq(Pcb) /\ IsInjective(Kids[q]) /\ ToSet(Kids[q]) \subseteq Pcb
           /\ ChainOf(p_rightSib, p_child[q], Kids[q])
           /\ p_child[q] = NULL <=> Kids[q] = <<>>
           /\ p_child[q] # NULL => Kids[q] # <<>> /\ p_child[q] = Head(Kids[q])
           /\ \A c \in Pcb : c \in ToSet(Kids[q]) <=> p_prnt[c] = q
<1> DEFINE s == Kids[q]
<1>1. s \in Seq(Pcb) /\ ChainOf(p_rightSib, p_child[q], s) /\ \A c \in Pcb : c \in ToSet(s) <=> p_prnt[c] = q
  BY DEF KidsInv, Grown
<1> HIDE DEF s
<1>2. IsInjective(s) /\ p_child[q] = IF s = <<>> THEN NULL ELSE s[1]
  BY <1>1 DEF ChainOf
<1>3. ToSet(s) \subseteq Pcb
  BY <1>1, QueueElements
<1>4. s # <<>> => s[1] = Head(s) /\ Head(s) \in Pcb
  BY <1>1, RemoveQueue
<1> QED  BY <1>1, <1>2, <1>3, <1>4, PcbAssumption DEF s

LEMMA SameOperators ==
    /\ \A s : Trees!ToSet(s) = ToSet(s)
    /\ \A s, i : Trees!RemoveAt(s, i) = RemoveAt(s, i)
  BY DEF Trees!ToSet, ToSet, Trees!RemoveAt, RemoveAt

LEMMA InsertGrows ==
    ASSUME IInv, KidsInv, NEW prnt \in Pcb, NEW p \in Pcb, insertChild(prnt, p)
    PROVE  KidsInv' /\ Trees!insertChild(prnt, p)
<1> DEFINE K == Kids
           R == [K EXCEPT ![prnt] = <<p>> \o @]
<1>1. /\ p_prnt[p] = NULL /\ p_rightSib \in [Pcb -> Pointer] /\ p_prnt \in [Pcb -> Pointer]
      /\ p_child \in [Pcb -> Pointer] /\ p_child[prnt] \in Pointer
  BY DEF IInv, TypeOK, insertChild, emptyParent
<1>2. /\ \A q \in Pcb : p_prnt'[q] = IF q = p THEN prnt ELSE p_prnt[q]
      /\ \A q \in Pcb : p_rightSib'[q] = IF q = p THEN p_child[prnt] ELSE p_rightSib[q]
      /\ \A q \in Pcb : p_child'[q] = IF q = prnt THEN p ELSE p_child[q]
  BY <1>1 DEF insertChild
<1>3. \A q \in Pcb : /\ K[q] \in Seq(Pcb) /\ ToSet(K[q]) \subseteq Pcb
                     /\ ChainOf(p_rightSib, p_child[q], K[q])
                     /\ \A c \in Pcb : c \in ToSet(K[q]) <=> p_prnt[c] = q
  BY GrownFacts
<1>4. \A q \in Pcb : p \notin ToSet(K[q])
  BY <1>1, <1>3, PcbAssumption
<1>5. K \in [Pcb -> Seq(Pcb)]
  BY DEF KidsInv, Grown
<1> HIDE DEF K
<1>6. \A q \in Pcb : ToSet(<<p>> \o K[q]) = {p} \cup ToSet(K[q]) /\ <<p>> \o K[q] \in Seq(Pcb)
  BY <1>3, PushChild
<1>7. R \in [Pcb -> Seq(Pcb)] /\ R[prnt] = <<p>> \o K[prnt] /\ \A q \in Pcb \ {prnt} : R[q] = K[q]
  BY <1>5, <1>6
<1> HIDE DEF R
<1>8. ASSUME NEW q \in Pcb
      PROVE  /\ ChainOf(p_rightSib', p_child'[q], R[q])
             /\ \A c \in Pcb : c \in ToSet(R[q]) <=> p_prnt'[c] = q
  <2>1. \A r \in ToSet(K[q]) : p_rightSib'[r] = p_rightSib[r]
    BY <1>2, <1>3, <1>4
  <2>2. CASE q = prnt
    <3>1. ChainOf(p_rightSib', p, <<p>> \o K[q])
      <4>1. ChainOf(p_rightSib, p_child[q], K[q]) /\ p_rightSib'[p] = p_child[q] /\ p \in Pcb \ ToSet(K[q])
        BY <1>2, <1>3, <1>4, <2>2
      <4> QED  BY <2>1, <4>1, ChainPush
    <3>2. \A c \in Pcb : c \in ToSet(R[q]) <=> p_prnt'[c] = q
      <4> TAKE c \in Pcb
      <4>1. c \in ToSet(R[q]) <=> c = p \/ c \in ToSet(K[q])
        BY <1>6, <1>7, <2>2
      <4>2. c \in ToSet(K[q]) <=> p_prnt[c] = q
        BY <1>3
      <4>3. p_prnt'[c] = IF c = p THEN q ELSE p_prnt[c]
        BY <1>2, <2>2
      <4> QED  BY <4>1, <4>2, <4>3
    <3> QED  BY <1>2, <1>7, <2>2, <3>1, <3>2
  <2>3. CASE q # prnt
    <3>1. ChainOf(p_rightSib', p_child[q], K[q])
      BY <1>3, <2>1, ChainStays
    <3>2. \A c \in Pcb : c \in ToSet(R[q]) <=> p_prnt'[c] = q
      <4> TAKE c \in Pcb
      <4>1. c \in ToSet(R[q]) <=> c \in ToSet(K[q])
        BY <1>7, <2>3
      <4>2. (c \in ToSet(K[q]) <=> p_prnt[c] = q) /\ p \notin ToSet(K[q])
        BY <1>3, <1>4
      <4>3. p_prnt'[c] = IF c = p THEN prnt ELSE p_prnt[c]
        BY <1>2
      <4> QED  BY <2>3, <4>1, <4>2, <4>3
    <3> QED  BY <1>2, <1>7, <2>3, <3>1, <3>2
  <2> QED  BY <2>2, <2>3
<1>9. Grown(p_prnt', p_child', p_rightSib', R)
  BY <1>7, <1>8 DEF Grown
<1>10. KidsInv' /\ Kids' = [Kids EXCEPT ![prnt] = <<p>> \o @]
  BY <1>9, GrownNext DEF R, K
<1>11. \A q \in Pcb : p \notin ToSet(Kids[q])
  BY <1>4 DEF K
<1> QED
  BY <1>10, <1>11, SameOperators DEF Trees!insertChild, Trees!IsRoot, Trees!IsChildOf, Kids

\* The pcb c leaves the children of q, of whom r are left.
Leaves(q, c, r) ==
    /\ ChainOf(p_rightSib', p_child'[q], r) /\ ToSet(r) = ToSet(Kids[q]) \ {c}
    /\ \A x \in Pcb : p_prnt'[x] = IF x = c THEN NULL ELSE p_prnt[x]
    /\ \A x \in Pcb \ {q} : p_child'[x] = p_child[x]
    /\ \A x \in Pcb \ ToSet(Kids[q]) : p_rightSib'[x] = p_rightSib[x]

LEMMA LeaveStep ==
    ASSUME KidsInv, NEW q \in Pcb, NEW c \in Pcb, p_prnt[c] = q, NEW r, Leaves(q, c, r)
    PROVE  KidsInv' /\ Kids' = [Kids EXCEPT ![q] = r]
<1> DEFINE K == Kids
           R == [K EXCEPT ![q] = r]
<1>1. \A x \in Pcb : /\ K[x] \in Seq(Pcb) /\ ToSet(K[x]) \subseteq Pcb
                     /\ ChainOf(p_rightSib, p_child[x], K[x])
                     /\ \A e \in Pcb : e \in ToSet(K[x]) <=> p_prnt[e] = x
  BY GrownFacts
<1>2. K \in [Pcb -> Seq(Pcb)]
  BY DEF KidsInv, Grown
<1>3. /\ ChainOf(p_rightSib', p_child'[q], r) /\ ToSet(r) = ToSet(K[q]) \ {c}
      /\ \A x \in Pcb : p_prnt'[x] = IF x = c THEN NULL ELSE p_prnt[x]
      /\ \A x \in Pcb \ {q} : p_child'[x] = p_child[x]
      /\ \A x \in Pcb \ ToSet(K[q]) : p_rightSib'[x] = p_rightSib[x]
      /\ r \in Seq(Pcb)
  BY DEF Leaves, ChainOf
<1> HIDE DEF K
<1>4. R \in [Pcb -> Seq(Pcb)] /\ R[q] = r /\ \A x \in Pcb \ {q} : R[x] = K[x]
  BY <1>2, <1>3
<1> HIDE DEF R
<1>5. ASSUME NEW x \in Pcb
      PROVE  /\ ChainOf(p_rightSib', p_child'[x], R[x])
             /\ \A e \in Pcb : e \in ToSet(R[x]) <=> p_prnt'[e] = x
  <2>1. CASE x = q
    <3>1. \A e \in Pcb : e \in ToSet(r) <=> e # c /\ p_prnt[e] = q
      BY <1>1, <1>3
    <3>2. \A e \in Pcb : e \in ToSet(R[x]) <=> p_prnt'[e] = x
      <4> TAKE e \in Pcb
      <4>1. e \in ToSet(R[x]) <=> e # c /\ p_prnt[e] = q
        BY <1>4, <2>1, <3>1
      <4>2. p_prnt'[e] = (IF e = c THEN NULL ELSE p_prnt[e]) /\ NULL # q
        BY <1>3, PcbAssumption
      <4> QED  BY <2>1, <4>1, <4>2
    <3> QED  BY <1>3, <1>4, <2>1, <3>2
  <2>2. CASE x # q
    <3>1. \A e \in ToSet(K[x]) : e \in Pcb \ ToSet(K[q])
      BY <1>1, <2>2
    <3>2. ChainOf(p_rightSib', p_child[x], K[x])
      BY <1>1, <1>3, <3>1, ChainStays
    <3>3. \A e \in Pcb : e \in ToSet(K[x]) <=> p_prnt'[e] = x
      BY <1>1, <1>3, <2>2, PcbAssumption
    <3> QED  BY <1>3, <1>4, <2>2, <3>2, <3>3
  <2> QED  BY <2>1, <2>2
<1>6. Grown(p_prnt', p_child', p_rightSib', R)
  BY <1>4, <1>5 DEF Grown
<1> QED  BY <1>6, GrownNext DEF R, K

LEMMA RemoveGrows ==
    ASSUME IInv, KidsInv, NEW q \in Pcb, removeChild(q) PROVE KidsInv' /\ Trees!removeChild(q)
<1> DEFINE c == p_child[q]
           s == Kids[q]
<1>1. /\ c # NULL /\ p_child' = [p_child EXCEPT ![q] = p_rightSib[c]]
      /\ p_rightSib' = [p_rightSib EXCEPT ![c] = NULL] /\ p_prnt' = [p_prnt EXCEPT ![c] = NULL]
  BY DEF removeChild, emptyChild, CleanedUp
<1>2. /\ p_prnt \in [Pcb -> Pointer] /\ p_child \in [Pcb -> Pointer] /\ p_rightSib \in [Pcb -> Pointer]
  BY DEF IInv, TypeOK
<1>3. /\ s \in Seq(Pcb) /\ IsInjective(s) /\ ToSet(s) \subseteq Pcb /\ ChainOf(p_rightSib, c, s)
      /\ s # <<>> /\ c = Head(s) /\ \A e \in Pcb : e \in ToSet(s) <=> p_prnt[e] = q
  BY <1>1, GrownFacts
<1> HIDE DEF s
<1>4. /\ ToSet(Tail(s)) = ToSet(s) \ {c} /\ c \in ToSet(s) /\ c \in Pcb
  BY <1>3, RemoveQueue
<1>5. /\ p_child'[q] = p_rightSib[c] /\ \A x \in Pcb \ {q} : p_child'[x] = p_child[x]
      /\ \A x \in Pcb \ {c} : p_rightSib'[x] = p_rightSib[x]
      /\ \A x \in Pcb : p_prnt'[x] = IF x = c THEN NULL ELSE p_prnt[x]
  BY <1>1, <1>2, <1>4
<1>6. ChainOf(p_rightSib', p_child'[q], Tail(s))
  <2>1. \A r \in ToSet(s) \ {c} : p_rightSib'[r] = p_rightSib[r]
    BY <1>3, <1>5
  <2> QED  BY <1>3, <1>5, <2>1, ChainPop
<1>7. Leaves(q, c, Tail(s)) /\ p_prnt[c] = q
  BY <1>3, <1>4, <1>5, <1>6 DEF Leaves, s
<1>8. KidsInv' /\ Kids' = [Kids EXCEPT ![q] = Tail(@)]
  BY <1>4, <1>7, LeaveStep DEF s
<1> QED  BY <1>3, <1>8 DEF Trees!removeChild, s, Kids

LEMMA OutGrows ==
    ASSUME IInv, KidsInv, NEW p \in Pcb, outChild(p) PROVE KidsInv' /\ Trees!Next
<1> DEFINE q == p_prnt[p]
           s == Kids[q]
           l == p_leftSib[p]
<1>1. /\ p_prnt \in [Pcb -> Pointer] /\ p_leftSib \in [Pcb -> Pointer] /\ p_rightSib \in [Pcb -> Pointer]
      /\ LeftSound /\ RightSound /\ ChildSound
  BY DEF IInv, TypeOK, LinksSound
<1>2. q # NULL /\ q \in Pcb
  BY <1>1 DEF outChild, emptyParent, Pointer
<1>3. CASE l = NULL
  <2>1. removeChild(q)
    BY <1>3 DEF outChild, OutLast, OutMiddle
  <2> QED  BY <1>2, <2>1, RemoveGrows DEF Trees!Next
<1>4. CASE l # NULL
  <2>1. /\ l \in Pcb /\ p_rightSib[l] = p /\ p_prnt[l] = q /\ p_child[q] # p
    <3>1. l \in Pcb /\ p_rightSib[l] = p /\ p_prnt[l] = q
      BY <1>1, <1>4 DEF LeftSound, Pointer
    <3>2. p_child[q] # p
      BY <1>1, <1>2, <1>4 DEF ChildSound
    <3> QED  BY <3>1, <3>2
  <2>2. /\ p_rightSib' = [p_rightSib EXCEPT ![l] = p_rightSib[p], ![p] = NULL]
        /\ p_prnt' = [p_prnt EXCEPT ![p] = NULL] /\ p_child' = p_child
    BY <1>1, <1>4 DEF outChild, OutLast, OutMiddle, CleanedUp
  <2> HIDE DEF l
  <2>3. /\ s \in Seq(Pcb) /\ IsInjective(s) /\ ToSet(s) \subseteq Pcb
        /\ ChainOf(p_rightSib, p_child[q], s)
        /\ \A e \in Pcb : e \in ToSet(s) <=> p_prnt[e] = q
    BY <1>2, GrownFacts
  <2> HIDE DEF s, q
  <2>4. p \in ToSet(s) /\ l \in ToSet(s)
    BY <2>1, <2>3 DEF q
  <2>5. PICK j \in 1 .. Len(s) : s[j] = l
    BY <2>3, <2>4, SeqFacts
  <2>6. Len(s) \in Nat
    BY <2>3, SeqFacts
  <2>7. j + 1 \in 2 .. Len(s) /\ s[j + 1] = p
    <3>1. p_rightSib[s[j]] = IF j = Len(s) THEN NULL ELSE s[j + 1]
      BY <2>3, <2>5 DEF ChainOf
    <3>2. j # Len(s) /\ s[j + 1] = p
      BY <2>1, <2>5, <3>1, PcbAssumption
    <3>3. j + 1 \in 2 .. Len(s)
      BY <2>5, <2>6, <3>2
    <3> QED  BY <3>2, <3>3
  <2>8. PICK k \in 2 .. Len(s) : s[k] = p /\ s[k - 1] = l /\ k \in 1 .. Len(s)
    <3>1. j + 1 - 1 = j /\ j + 1 \in 1 .. Len(s)
      BY <2>5, <2>6, <2>7
    <3> QED  BY <2>5, <2>7, <3>1
  <2>9. l # p
    <3>1. k \in DOMAIN s /\ k - 1 \in DOMAIN s /\ k # k - 1
      BY <2>6, <2>8, <2>3, SeqFacts
    <3> QED  BY <2>3, <2>8, <3>1 DEF IsInjective
  <2>10. /\ p_rightSib'[l] = p_rightSib[p] /\ \A x \in Pcb \ {l, p} : p_rightSib'[x] = p_rightSib[x]
        /\ \A x \in Pcb : p_prnt'[x] = IF x = p THEN NULL ELSE p_prnt[x]
    BY <1>1, <2>1, <2>2, <2>9
  <2>11. ChainOf(p_rightSib', p_child[q], RemoveAt(s, k))
    <3>1. Skips(p_rightSib, p_rightSib', s, k)
      BY <2>3, <2>8, <2>10 DEF Skips
    <3> QED  BY <2>3, <2>8, <3>1, ChainUnlink
  <2>12. ToSet(RemoveAt(s, k)) = ToSet(s) \ {p}
    BY <2>3, <2>4, <2>8, RemoveAtSet
  <2>13. Leaves(q, p, RemoveAt(s, k))
    BY <2>2, <2>3, <2>4, <2>10, <2>11, <2>12 DEF Leaves, s
  <2>14. KidsInv' /\ Kids' = [Kids EXCEPT ![q] = RemoveAt(@, k)]
    <3>1. KidsInv' /\ Kids' = [Kids EXCEPT ![q] = RemoveAt(s, k)]
      BY <1>2, <2>13, LeaveStep DEF q
    <3> QED  BY <3>1 DEF s
  <2>15. k \in DOMAIN Kids[q] /\ Kids[q][k] = p
    BY <2>3, <2>8, SeqFacts DEF s
  <2>16. Trees!outChild(p)
    BY <1>2, <2>14, <2>15, SameOperators DEF Trees!outChild, Kids
  <2> QED  BY <2>14, <2>16 DEF Trees!Next
<1> QED  BY <1>3, <1>4

\* At first nobody has children.
LEMMA NoChildren == TreeInit => KidsInv /\ Trees!Init
<1> SUFFICES ASSUME TreeInit PROVE KidsInv /\ Trees!Init
  OBVIOUS
<1> DEFINE K == [p \in Pcb |-> <<>>]
<1>1. /\ <<>> \in Seq(Pcb) /\ IsInjective(<<>>) /\ ToSet(<<>>) = {} /\ Len(<<>>) = 0
  BY DEF IsInjective, ToSet
<1>2. \A p \in Pcb : ChainOf(p_rightSib, p_child[p], <<>>)
  BY <1>1 DEF ChainOf, TreeInit, Nowhere
<1>3. Grown(p_prnt, p_child, p_rightSib, K)
  BY <1>1, <1>2, PcbAssumption DEF Grown, TreeInit, Nowhere
<1>4. K = Kids
  BY <1>3, GrownRead DEF Kids, Children, emptyChild
<1> HIDE DEF K
<1>5. KidsInv
  BY <1>3, <1>4 DEF KidsInv
<1> QED  BY <1>4, <1>5 DEF Trees!Init, K, Kids

\* The children of every pcb, as far as the right links lead, are a list into
\* which insertChild puts a pcb in front, and from which removeChild takes the
\* first and outChild the pcb it is given, whatever the number of pcbs.
THEOREM ChildrenAreLists == TreeSpec => TreesKept
<1>1. TreeInit => IInv /\ KidsInv /\ Trees!Init
  BY NoChildren DEF TreeInit, IInv, TypeOK, LinksSound, RightSound, LeftSound, ChildSound, Nowhere, Pointer
<1>2. IInv /\ KidsInv /\ [TreeNext]_treeVars => KidsInv' /\ [Trees!Next]_Kids
  <2> SUFFICES ASSUME IInv, KidsInv, [TreeNext]_treeVars PROVE KidsInv' /\ [Trees!Next]_Kids
    OBVIOUS
  <2>1. ASSUME NEW p \in Pcb, removeChild(p) PROVE KidsInv' /\ Trees!Next
    BY <2>1, RemoveGrows DEF Trees!Next
  <2>2. ASSUME NEW p \in Pcb, outChild(p) PROVE KidsInv' /\ Trees!Next
    BY <2>2, OutGrows
  <2>3. ASSUME NEW p \in Pcb, NEW prnt \in Pcb, insertChild(prnt, p) PROVE KidsInv' /\ Trees!Next
    BY <2>3, InsertGrows DEF Trees!Next
  <2>4. CASE UNCHANGED treeVars
    <3>1. Grown(p_prnt', p_child', p_rightSib', Kids)
      BY <2>4 DEF treeVars, KidsInv
    <3> QED  BY <3>1, GrownNext
  <2> QED  BY <2>1, <2>2, <2>3, <2>4 DEF TreeNext
<1>3. IInv /\ [TreeNext]_treeVars => IInv'
  BY LinksStay
<1> QED  BY <1>1, <1>2, <1>3, PTL DEF TreeSpec, TreesKept, Trees!Spec, Kids
=============================================================================
