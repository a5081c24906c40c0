--------------------------- MODULE UshNodeProofs ---------------------------
(***************************************************************************)
(* Theorems of UshNode, for every set of nodes, names and paths: the       *)
(* mounted nodes are a tree in which every path is found, and the tree     *)
(* implements the table of MountTable.                                     *)
(***************************************************************************)
EXTENDS UshNode, Induction, SequenceTheorems, FiniteSetTheorems

Pointers == Nodes \cup {NoNode}
Words    == Names \cup {"..", "."}

-----------------------------------------------------------------------------
(***************************************************************************)
(* Searches.                                                               *)
(***************************************************************************)

\* The least number is in the set and below all of it.
LEMMA MinOfSet ==
  ASSUME NEW S, S \subseteq Nat, S # {}
  PROVE  Min(S) \in S /\ \A y \in S : Min(S) <= y
  BY LeastNumber DEF Min

\* A search in a list ends at the first node with the path, if there is one.
LEMMA FirstWithFinds ==
  ASSUME NEW list \in Seq(Nodes), NEW p
  PROVE  \/ /\ \E i \in 1 .. Len(list) : FirstWith(list, p) = list[i] /\ path[list[i]] = p
            /\ FirstWith(list, p) \in Nodes
         \/ /\ \A i \in 1 .. Len(list) : path[list[i]] # p
            /\ FirstWith(list, p) = NoNode
<1> DEFINE found == {i \in 1 .. Len(list) : path[list[i]] = p}
<1>1. FirstWith(list, p) = IF found = {} THEN NoNode ELSE list[Min(found)]
  BY DEF FirstWith
<1>2. CASE found = {}
  BY <1>1, <1>2
<1>3. CASE found # {}
  <2>1. found \subseteq Nat
    OBVIOUS
  <2>2. Min(found) \in found
    <3> HIDE DEF found
    <3> QED BY <1>3, <2>1, MinOfSet
  <2>3. FirstWith(list, p) = list[Min(found)]
    BY <1>1, <1>3
  <2> DEFINE k == Min(found)
  <2>4. k \in 1 .. Len(list) /\ path[list[k]] = p /\ list[k] \in Nodes
    BY <2>2
  <2> HIDE DEF k
  <2>5. FirstWith(list, p) = list[k]
    BY <2>3 DEF k
  <2> QED BY <2>4, <2>5
<1> QED BY <1>2, <1>3

\* What ush_node_get_by_path does, level by level.
Descends(down, p) ==
  /\ down \in [0 .. Len(p) -> Pointers]
  /\ down[0] = root
  /\ \A i \in 1 .. Len(p) :
       down[i] = IF down[i - 1] = NoNode THEN NoNode
                 ELSE FirstWith(children[down[i - 1]], SubSeq(p, 1, i))

LEMMA SearchDescends ==
  ASSUME TypeOK, NEW p, Len(p) \in Nat
  PROVE  \E down : Descends(down, p) /\ GetByPath(p) = down[Len(p)]
<1> DEFINE Step(v, i) == IF v = NoNode THEN NoNode ELSE FirstWith(children[v], SubSeq(p, 1, i))
           F == [pair \in (1 .. Len(p)) \X Pointers |-> Step(pair[2], pair[1])]
           Is(g) == g = [i \in 0 .. Len(p) |-> IF i = 0 THEN root ELSE Step(g[i - 1], i)]
<1>1. F \in [(1 .. Len(p)) \X Pointers -> Pointers]
  <2> SUFFICES ASSUME NEW pair \in (1 .. Len(p)) \X Pointers PROVE Step(pair[2], pair[1]) \in Pointers
    OBVIOUS
  <2>1. CASE pair[2] = NoNode
    BY <2>1 DEF Pointers
  <2>2. CASE pair[2] # NoNode
    <3>1. children[pair[2]] \in Seq(Nodes)
      BY <2>2 DEF TypeOK, Pointers
    <3> QED BY <2>2, <3>1, FirstWithFinds DEF Pointers
  <2> QED BY <2>1, <2>2
<1>2. root \in Pointers
  BY DEF TypeOK, Pointers
<1>3. \E g : IsRecursive(g, Len(p), Pointers, root, F)
  <2> HIDE DEF F
  <2> QED BY <1>1, <1>2, IntervalRecursion
<1>4. PICK g \in [0 .. Len(p) -> Pointers] :
        g[0] = root /\ \A i \in 1 .. Len(p) : g[i] = F[<<i, g[i - 1]>>]
  <2> HIDE DEF F
  <2> QED BY <1>3 DEF IsRecursive
<1>5. ASSUME NEW i \in 1 .. Len(p) PROVE g[i] = Step(g[i - 1], i)
  <2>1. i - 1 \in 0 .. Len(p)
    OBVIOUS
  <2>2. <<i, g[i - 1]>> \in (1 .. Len(p)) \X Pointers
    BY <2>1, <1>4
  <2>3. F[<<i, g[i - 1]>>] = Step(g[i - 1], i)
    BY <2>2
  <2> HIDE DEF F, Step
  <2> QED BY <1>4, <2>3
<1>6. Is(g)
  <2>1. \A i \in 0 .. Len(p) : i # 0 => i \in 1 .. Len(p)
    OBVIOUS
  <2> HIDE DEF Step
  <2>2. \A i \in 0 .. Len(p) : g[i] = IF i = 0 THEN root ELSE Step(g[i - 1], i)
    BY <1>4, <1>5, <2>1
  <2> QED BY <1>4, <2>2
<1> DEFINE down == CHOOSE h : Is(h)
<1>7. Is(down)
  <2> HIDE DEF Is
  <2> QED BY <1>6
<1>8. GetByPath(p) = down[Len(p)]
  BY DEF GetByPath
<1>9. \A i \in 0 .. Len(p) : down[i] = g[i]
  <2> DEFINE Same == {i \in 0 .. Len(p) : down[i] = g[i]}
  <2> HIDE DEF down, Step
  <2>1. down[0] = root /\ \A i \in 1 .. Len(p) : down[i] = Step(down[i - 1], i)
    <3>1. 0 \in 0 .. Len(p) /\ \A i \in 1 .. Len(p) : i \in 0 .. Len(p) /\ i # 0
      OBVIOUS
    <3> QED BY <1>7, <3>1
  <2>2. 0 \in Same
    BY <2>1, <1>4
  <2>3. ASSUME NEW i \in 1 .. Len(p), i - 1 \in Same PROVE i \in Same
    <3>1. down[i] = g[i]
      BY <2>3, <2>1, <1>5
    <3> QED BY <3>1
  <2>4. \A i \in 0 .. Len(p) : i \in Same
    <3> HIDE DEF Same
    <3> QED BY <2>2, <2>3, IntervalInduction
  <2> QED BY <2>4
<1>10. Descends(g, p)
  BY <1>4, <1>5 DEF Descends
<1>11. GetByPath(p) = g[Len(p)]
  <2> HIDE DEF down
  <2> QED BY <1>8, <1>9
<1> QED BY <1>10, <1>11

-----------------------------------------------------------------------------
(***************************************************************************)
(* Prefixes, and lists with one node more or less.                         *)
(***************************************************************************)

LEMMA PrefixOfPath ==
  ASSUME NEW S, NEW p \in Seq(S), NEW i \in 1 .. Len(p)
  PROVE  /\ SubSeq(p, 1, i) \in Seq(S) /\ SubSeq(p, 1, i) # << >>
         /\ Front(SubSeq(p, 1, i)) = SubSeq(p, 1, i - 1)
<1>0. Len(p) \in Nat
  BY ONLY LenProperties, p \in Seq(S)
<1>1. Len(p) \in Nat /\ i \in Int /\ 1 <= i /\ i <= Len(p)
  BY <1>0
<1>2. \A j \in 1 .. i : p[j] \in S
  BY <1>1, ElementOfSeq
<1>3. SubSeq(p, 1, i) \in Seq(S) /\ Len(SubSeq(p, 1, i)) = i
  BY <1>1, <1>2, SubSeqProperties
<1>4. SubSeq(p, 1, i) # << >>
  BY <1>1, <1>3, EmptySeq
<1>5. Front(SubSeq(p, 1, i)) = SubSeq(SubSeq(p, 1, i), 1, i - 1)
  BY <1>3 DEF Front
<1>6. SubSeq(SubSeq(p, 1, i), 1, i - 1) = SubSeq(p, 1, i - 1)
  <2> DEFINE q == SubSeq(p, 1, i)
             r == SubSeq(q, 1, i - 1)
             t == SubSeq(p, 1, i - 1)
  <2>1. \A j \in 1 .. i - 1 : q[j] = p[j] /\ p[j] \in S
    <3>1. \A j \in 1 .. i - 1 + 1 : q[j] = p[1 + j - 1]
      BY <1>1, <1>2, SubSeqProperties
    <3>2. \A j \in 1 .. i - 1 : j \in 1 .. i - 1 + 1 /\ 1 + j - 1 = j /\ j \in 1 .. i
      BY <1>1
    <3> QED BY <3>1, <3>2, <1>2
  <2> HIDE DEF q
  <2>2. /\ r \in Seq(S) /\ Len(r) = (IF 1 <= i - 1 THEN i - 1 - 1 + 1 ELSE 0)
        /\ \A j \in 1 .. i - 1 - 1 + 1 : r[j] = q[1 + j - 1]
    BY <1>1, <2>1, SubSeqProperties
  <2>3. /\ t \in Seq(S) /\ Len(t) = (IF 1 <= i - 1 THEN i - 1 - 1 + 1 ELSE 0)
        /\ \A j \in 1 .. i - 1 - 1 + 1 : t[j] = p[1 + j - 1]
    BY <1>1, <2>1, SubSeqProperties
  <2> HIDE DEF r, t
  <2>4. ASSUME NEW j \in 1 .. Len(r) PROVE r[j] = t[j]
    <3>1. j \in 1 .. i - 1 - 1 + 1 /\ 1 + j - 1 = j /\ j \in 1 .. i - 1
      BY <1>1, <2>2
    <3>2. r[j] = q[j] /\ t[j] = p[j]
      BY <3>1, <2>2, <2>3
    <3> QED BY <3>1, <3>2, <2>1
  <2>5. r = t
    BY ONLY <2>2, <2>3, <2>4, SeqEqual
  <2> QED BY <2>5 DEF r, t, q
<1> QED BY <1>3, <1>4, <1>5, <1>6

\* A path that is not empty is a prefix of itself, and its front is shorter.
LEMMA WholePath ==
  ASSUME NEW S, NEW p \in Seq(S), p # << >>
  PROVE  /\ Len(p) \in Nat /\ Len(p) \in 1 .. Len(p)
         /\ SubSeq(p, 1, Len(p)) = p
         /\ Front(p) = SubSeq(p, 1, Len(p) - 1) /\ Front(p) \in Seq(S)
<1>1. Len(p) \in Nat \ {0}
  BY EmptySeq
<1>2. SubSeq(p, 1, Len(p)) = p
  BY SubSeqFull
<1>3. \A j \in 1 .. Len(p) - 1 : p[j] \in S
  BY <1>1, ElementOfSeq
<1>4. SubSeq(p, 1, Len(p) - 1) \in Seq(S)
  BY <1>1, <1>3, SubSeqProperties
<1> QED BY <1>1, <1>2, <1>4 DEF Front

LEMMA Position ==
  ASSUME NEW list \in Seq(Nodes), NEW n, n \in ToSet(list)
  PROVE  /\ PositionIn(list, n) \in 1 .. Len(list)
         /\ list[PositionIn(list, n)] = n
<1> DEFINE at == {i \in 1 .. Len(list) : list[i] = n}
<1>1. at \subseteq Nat
  OBVIOUS
<1>2. at # {}
  BY LenProperties DEF ToSet
<1>3. Min(at) \in at
  <2> HIDE DEF at
  <2> QED BY <1>1, <1>2, MinOfSet
<1> QED BY <1>3 DEF PositionIn

\* Linking in front shifts the list by one.
LEMMA LinkedFirst ==
  ASSUME NEW list \in Seq(Nodes), NEW n \in Nodes
  PROVE  LET new == <<n>> \o list
         IN  /\ new \in Seq(Nodes) /\ Len(new) = Len(list) + 1 /\ Len(list) \in Nat
             /\ new[1] = n
             /\ \A i \in 2 .. Len(new) : i - 1 \in 1 .. Len(list) /\ new[i] = list[i - 1]
             /\ ToSet(new) = ToSet(list) \cup {n}
<1> DEFINE new == <<n>> \o list
<1>1. <<n>> \in Seq(Nodes) /\ Len(<<n>>) = 1 /\ <<n>>[1] = n /\ Len(list) \in Nat
  OBVIOUS
<1>2. /\ new \in Seq(Nodes) /\ Len(new) = 1 + Len(list)
      /\ \A i \in 1 .. 1 + Len(list) : new[i] = IF i <= 1 THEN <<n>>[i] ELSE list[i - 1]
  BY ONLY <1>1, ConcatProperties, list \in Seq(Nodes)
<1> HIDE DEF new
<1>3. new[1] = n
  BY <1>1, <1>2
<1>4. \A i \in 2 .. Len(new) : i - 1 \in 1 .. Len(list) /\ new[i] = list[i - 1]
  BY <1>1, <1>2
<1>5. \A i \in 1 .. Len(list) : i + 1 \in 2 .. Len(new) /\ i + 1 \in 1 .. Len(new) /\ (i + 1) - 1 = i
  BY <1>1, <1>2
<1>6. DOMAIN new = 1 .. Len(new) /\ DOMAIN list = 1 .. Len(list) /\ 1 \in 1 .. Len(new)
  BY <1>1, <1>2, LenProperties
<1>7. ToSet(list) \cup {n} \subseteq ToSet(new)
  <2>1. ASSUME NEW m \in ToSet(list) PROVE m \in ToSet(new)
    <3>1. PICK i \in 1 .. Len(list) : list[i] = m
      BY <1>6 DEF ToSet
    <3>2. new[i + 1] = m
      BY <3>1, <1>4, <1>5
    <3> QED BY <3>2, <1>5, <1>6 DEF ToSet
  <2> QED BY <2>1, <1>3, <1>6 DEF ToSet
<1>8. ToSet(new) \subseteq ToSet(list) \cup {n}
  <2> SUFFICES ASSUME NEW m \in ToSet(new) PROVE m \in ToSet(list) \cup {n}
    OBVIOUS
  <2>1. PICK i \in 1 .. Len(new) : new[i] = m
    BY <1>6 DEF ToSet
  <2>2. CASE i = 1
    BY <2>1, <2>2, <1>3
  <2>3. CASE i # 1
    <3>1. i \in 2 .. Len(new)
      BY <2>3, <1>1, <1>2
    <3> QED BY <3>1, <2>1, <1>4, <1>6 DEF ToSet
  <2> QED BY <2>2, <2>3
<1> QED BY <1>1, <1>2, <1>3, <1>4, <1>7, <1>8 DEF new

\* Unlinking leaves the nodes before and the nodes behind.
LEMMA UnlinkedList ==
  ASSUME NEW list \in Seq(Nodes), NEW n, n \in ToSet(list)
  PROVE  LET k   == PositionIn(list, n)
             new == Unlinked(list, n)
         IN  /\ new \in Seq(Nodes) /\ Len(new) = Len(list) - 1 /\ Len(new) \in Nat
             /\ k \in 1 .. Len(list) /\ list[k] = n
             /\ \A i \in 1 .. Len(new) : new[i] = IF i < k THEN list[i] ELSE list[i + 1]
<1> DEFINE k == PositionIn(list, n)
           front == SubSeq(list, 1, k - 1)
           back  == SubSeq(list, k + 1, Len(list))
<1>1. k \in 1 .. Len(list) /\ list[k] = n
  BY Position
<1> HIDE DEF k
<1>2. Len(list) \in Nat /\ k \in Int /\ 1 <= k /\ k <= Len(list)
  BY <1>1, LenProperties
<1>3. \A i \in 1 .. Len(list) : list[i] \in Nodes
  BY ElementOfSeq
<1>4. /\ front \in Seq(Nodes) /\ Len(front) = k - 1
      /\ \A i \in 1 .. k - 1 : front[i] = list[i]
  <2>1. \A i \in 1 .. k - 1 : list[i] \in Nodes
    BY <1>2, <1>3
  <2>2. /\ front \in Seq(Nodes) /\ Len(front) = (IF 1 <= k - 1 THEN k - 1 - 1 + 1 ELSE 0)
        /\ \A i \in 1 .. k - 1 - 1 + 1 : front[i] = list[1 + i - 1]
    BY <1>2, <2>1, SubSeqProperties
  <2> HIDE DEF front
  <2> QED BY <1>2, <2>2
<1>5. /\ back \in Seq(Nodes) /\ Len(back) = Len(list) - k
      /\ \A i \in 1 .. Len(list) - k : back[i] = list[k + i]
  <2>1. \A i \in k + 1 .. Len(list) : list[i] \in Nodes
    BY <1>2, <1>3
  <2>2. /\ back \in Seq(Nodes)
        /\ Len(back) = (IF k + 1 <= Len(list) THEN Len(list) - (k + 1) + 1 ELSE 0)
        /\ \A i \in 1 .. Len(list) - (k + 1) + 1 : back[i] = list[k + 1 + i - 1]
    BY <1>2, <2>1, SubSeqProperties
  <2> HIDE DEF back
  <2> QED BY <1>2, <2>2
<1>6. Unlinked(list, n) = front \o back
  BY DEF Unlinked, RemoveAt, k
<1> HIDE DEF front, back
<1>7. /\ front \o back \in Seq(Nodes) /\ Len(front \o back) = Len(front) + Len(back)
      /\ \A i \in 1 .. Len(front) + Len(back) :
           (front \o back)[i] = IF i <= Len(front) THEN front[i] ELSE back[i - Len(front)]
  BY ONLY <1>4, <1>5, ConcatProperties
<1> DEFINE new == front \o back
<1> HIDE DEF new
<1>8. new \in Seq(Nodes) /\ Len(new) = Len(list) - 1 /\ Len(new) \in Nat
  BY <1>2, <1>4, <1>5, <1>7 DEF new
<1>9. ASSUME NEW i \in 1 .. Len(new) PROVE new[i] = IF i < k THEN list[i] ELSE list[i + 1]
  <2>1. i \in 1 .. Len(front) + Len(back)
    BY <1>2, <1>4, <1>5, <1>8
  <2>2. new[i] = IF i <= k - 1 THEN front[i] ELSE back[i - (k - 1)]
    BY <2>1, <1>4, <1>7 DEF new
  <2>3. CASE i < k
    <3>1. i <= k - 1 /\ i \in 1 .. k - 1
      BY <2>3, <1>2
    <3> QED BY <2>2, <2>3, <3>1, <1>4
  <2>4. CASE ~(i < k)
    <3>1. ~(i <= k - 1) /\ i - (k - 1) \in 1 .. Len(list) - k /\ k + (i - (k - 1)) = i + 1
      BY <2>4, <1>2, <1>8
    <3>2. new[i] = back[i - (k - 1)]
      BY <2>2, <3>1
    <3>3. back[i - (k - 1)] = list[k + (i - (k - 1))]
      BY <1>5, <3>1
    <3> QED BY <2>4, <3>1, <3>2, <3>3
  <2> QED BY <2>3, <2>4
<1> QED BY <1>1, <1>6, <1>8, <1>9 DEF new, k

-----------------------------------------------------------------------------
(***************************************************************************)
(* The nodes reached from a root, and the tree they are, said of any       *)
(* pointers: so that they can be said of the state after a step.           *)
(***************************************************************************)

\* A set that has the root and is closed below.
Covers(set, r, ch) ==
  /\ r # NoNode => r \in set
  /\ \A n \in set : ToSet(ch[n]) \subseteq set

\* The least of them.
IsReach(M, r, ch) ==
  /\ M \subseteq Nodes
  /\ Covers(M, r, ch)
  /\ \A set \in SUBSET Nodes : Covers(set, r, ch) => M \subseteq set

LEMMA MountedIsReach ==
  ASSUME TypeOK
  PROVE  IsReach(Mounted, root, children)
<1>1. Mounted = {n \in Nodes : \A set \in SUBSET Nodes : Covers(set, root, children) => n \in set}
  BY DEF Mounted, ClosedBelow, Covers
<1>2. Mounted \subseteq Nodes /\ \A set \in SUBSET Nodes : Covers(set, root, children) => Mounted \subseteq set
  BY <1>1
<1>3. root # NoNode => root \in Mounted
  BY <1>1 DEF Covers, TypeOK
<1>4. ASSUME NEW n \in Mounted, NEW m \in ToSet(children[n]) PROVE m \in Mounted
  <2>1. m \in Nodes
    <3>1. children[n] \in Seq(Nodes)
      BY <1>2 DEF TypeOK
    <3> QED BY <3>1, ElementOfSeq, LenProperties DEF ToSet
  <2>2. \A set \in SUBSET Nodes : Covers(set, root, children) => m \in set
    BY <1>2, <1>4 DEF Covers
  <2> QED BY <1>1, <2>1, <2>2
<1> QED BY <1>2, <1>3, <1>4 DEF IsReach, Covers

LEMMA MountedIsReachNext ==
  ASSUME TypeOK'
  PROVE  IsReach(Mounted', root', children')
<1>1. Mounted' = {n \in Nodes : \A set \in SUBSET Nodes : Covers(set, root', children') => n \in set}
  BY DEF Mounted, ClosedBelow, Covers
<1>2. Mounted' \subseteq Nodes /\ \A set \in SUBSET Nodes : Covers(set, root', children') => Mounted' \subseteq set
  BY <1>1
<1>3. root' # NoNode => root' \in Mounted'
  BY <1>1 DEF Covers, TypeOK
<1>4. ASSUME NEW n \in Mounted', NEW m \in ToSet(children'[n]) PROVE m \in Mounted'
  <2>1. m \in Nodes
    <3>1. children'[n] \in Seq(Nodes)
      BY <1>2 DEF TypeOK
    <3> QED BY <3>1, ElementOfSeq, LenProperties DEF ToSet
  <2>2. \A set \in SUBSET Nodes : Covers(set, root', children') => m \in set
    BY <1>2, <1>4 DEF Covers
  <2> QED BY <1>1, <2>1, <2>2
<1> QED BY <1>2, <1>3, <1>4 DEF IsReach, Covers

\* A set that covers and is below every set that does is the one.
LEMMA OneReach ==
  ASSUME NEW M, NEW r, NEW ch, IsReach(M, r, ch), NEW L, IsReach(L, r, ch)
  PROVE  M = L
  BY DEF IsReach

\* A node that is reached is the root or in the list of another.
LEMMA Origin ==
  ASSUME NEW M, NEW r, NEW ch, IsReach(M, r, ch)
  PROVE  \A n \in M : n = r \/ \E m \in M : n \in ToSet(ch[m])
<1> DEFINE L == {n \in M : n = r \/ \E m \in M : n \in ToSet(ch[m])}
<1>1. L \subseteq M /\ L \in SUBSET Nodes
  BY DEF IsReach
<1>2. Covers(L, r, ch)
  BY DEF IsReach, Covers
<1>3. M \subseteq L
  <2> HIDE DEF L
  <2> QED BY <1>1, <1>2 DEF IsReach
<1> QED BY <1>3

\* TreeShape, and the paths are paths.
IsTree(M, r, ch, pa, par) ==
  /\ r # NoNode => pa[r] = << >> /\ par[r] = NoNode
  /\ \A n \in M : \A i \in 1 .. Len(ch[n]) :
       /\ par[ch[n][i]] = n
       /\ pa[ch[n][i]] # << >> /\ Front(pa[ch[n][i]]) = pa[n]
       /\ \A j \in 1 .. Len(ch[n]) : pa[ch[n][j]] = pa[ch[n][i]] => i = j
  /\ \A n \in Nodes \ M : ch[n] = << >>
  /\ \A n \in M : pa[n] \in Paths

MountedPaths == \A n \in Mounted : path[n] \in Paths

\* The inductive invariant: the tree, and that what is mounted has a path.
TreeInv == TypeOK /\ TreeShape /\ MountedPaths

LEMMA TreeInvIsTree ==
  TreeInv <=> TypeOK /\ IsTree(Mounted, root, children, path, parent)
  BY DEF TreeInv, TreeShape, MountedPaths, IsTree

LEMMA TreeInvIsTreeNext ==
  TreeInv' <=> TypeOK' /\ IsTree(Mounted', root', children', path', parent')
  BY DEF TreeInv, TreeShape, MountedPaths, IsTree

\* What a list holds.
LEMMA Children ==
  ASSUME NEW list \in Seq(Nodes)
  PROVE  \A m : m \in ToSet(list) <=> \E i \in 1 .. Len(list) : list[i] = m
  BY LenProperties DEF ToSet

LEMMA NoChildren == ToSet(<< >>) = {}
<1> DEFINE list == << >>
<1>1. list \in Seq(Nodes) /\ 1 .. Len(list) = {}
  OBVIOUS
<1> HIDE DEF list
<1>2. \A m : m \notin ToSet(list)
  BY <1>1, Children
<1> QED BY <1>2 DEF list

-----------------------------------------------------------------------------
(***************************************************************************)
(* Every node of the tree is found at its path, and nothing elsewhere.     *)
(***************************************************************************)

LEMMA SearchFinds ==
  ASSUME TreeInv, NEW S, NEW p \in Seq(S)
  PROVE  /\ GetByPath(p) = NoNode \/ GetByPath(p) \in Mounted
         /\ \A n \in Mounted : path[n] = p <=> GetByPath(p) = n
<1> DEFINE M == Mounted
<1>0. Len(p) \in Nat
  BY ONLY LenProperties, p \in Seq(S)
<1>1. TypeOK /\ IsTree(M, root, children, path, parent) /\ IsReach(M, root, children)
  BY TreeInvIsTree, MountedIsReach
<1> HIDE DEF M
<1>2. PICK down : Descends(down, p) /\ GetByPath(p) = down[Len(p)]
  BY <1>0, <1>1, SearchDescends
<1>3. \A n \in M : n \in Nodes /\ n # NoNode /\ children[n] \in Seq(Nodes)
  BY <1>1, NodeAssumption DEF IsReach, TypeOK
<1>4. \A n \in M : n = root \/ \E m \in M : \E i \in 1 .. Len(children[m]) : children[m][i] = n
  <2>1. \A n \in M : n = root \/ \E m \in M : n \in ToSet(children[m])
    BY <1>1, Origin
  <2> QED BY <2>1, <1>3, Children
<1>5. \A n \in M : \A i \in 1 .. Len(children[n]) : children[n][i] \in M
  <2> SUFFICES ASSUME NEW n \in M, NEW i \in 1 .. Len(children[n]) PROVE children[n][i] \in M
    OBVIOUS
  <2>1. children[n][i] \in ToSet(children[n])
    BY <1>3, Children
  <2> QED BY <2>1, <1>1 DEF IsReach, Covers
<1> DEFINE Right(i, q) == /\ down[i] = NoNode \/ down[i] \in M
                          /\ \A n \in M : path[n] = q <=> down[i] = n
           Good == {i \in 0 .. Len(p) : Right(i, SubSeq(p, 1, i))}
<1>6. 0 \in Good
  <2>1. SubSeq(p, 1, 0) = << >> /\ 0 \in 0 .. Len(p)
    BY <1>0, SubSeqEmpty
  <2>2. down[0] = root
    BY <1>2 DEF Descends
  <2>3. root = NoNode \/ root \in M
    BY <1>1 DEF IsReach, Covers
  <2>4. ASSUME NEW n \in M PROVE path[n] = << >> <=> root = n
    <3>1. CASE n = root
      BY <3>1, <1>1, <1>3 DEF IsTree
    <3>2. CASE n # root
      <4>1. path[n] # << >>
        BY <3>2, <1>1, <1>4 DEF IsTree
      <4> QED BY <3>2, <4>1
    <3> QED BY <3>1, <3>2
  <2> QED BY <2>1, <2>2, <2>3, <2>4
<1>7. ASSUME NEW i \in 1 .. Len(p), i - 1 \in Good PROVE i \in Good
  <2> DEFINE q == SubSeq(p, 1, i)
             r == SubSeq(p, 1, i - 1)
             d == down[i - 1]
  <2>1. q # << >> /\ Front(q) = r
    BY PrefixOfPath
  <2>2. Right(i - 1, r)
    BY <1>7
  <2>3. down[i] = IF d = NoNode THEN NoNode ELSE FirstWith(children[d], q)
    BY <1>2 DEF Descends
  <2>4. i \in 0 .. Len(p)
    BY <1>0
  <2> HIDE DEF q, r, d
  <2>5. \A n \in M : path[n] = r <=> d = n
    BY <2>2 DEF d
  <2>6. \A n \in M : path[n] = q => d \in M /\ \E j \in 1 .. Len(children[d]) : children[d][j] = n
    <3> SUFFICES ASSUME NEW n \in M, path[n] = q
                 PROVE  d \in M /\ \E j \in 1 .. Len(children[d]) : children[d][j] = n
      OBVIOUS
    <3>1. n # root
      <4>1. root # NoNode => path[root] = << >>
        BY <1>1 DEF IsTree
      <4> QED BY <4>1, <2>1, <1>3
    <3>2. PICK m \in M : \E j \in 1 .. Len(children[m]) : children[m][j] = n
      BY <3>1, <1>4
    <3>3. path[m] = r
      BY <3>2, <2>1, <1>1 DEF IsTree
    <3>4. d = m
      BY <3>3, <2>5
    <3> QED BY <3>2, <3>4
  <2>7. CASE d = NoNode
    <3>1. down[i] = NoNode
      BY <2>3, <2>7
    <3>2. \A n \in M : path[n] # q
      BY <2>6, <2>7, <1>3
    <3>3. Right(i, q)
      BY <3>1, <3>2, <1>3
    <3> QED BY <3>3, <2>4 DEF q
  <2>8. CASE d # NoNode
    <3>1. d \in M /\ children[d] \in Seq(Nodes)
      BY <2>8, <2>2, <1>3 DEF d
    <3>2. down[i] = FirstWith(children[d], q)
      BY <2>3, <2>8
    <3>3. CASE \E j \in 1 .. Len(children[d]) : FirstWith(children[d], q) = children[d][j] /\ path[children[d][j]] = q
      <4>1. PICK j \in 1 .. Len(children[d]) : down[i] = children[d][j] /\ path[children[d][j]] = q
        BY <3>3, <3>2
      <4>2. down[i] \in M
        BY <4>1, <3>1, <1>5
      <4>3. ASSUME NEW n \in M, path[n] = q PROVE down[i] = n
        <5>1. PICK k \in 1 .. Len(children[d]) : children[d][k] = n
          BY <4>3, <2>6
        <5>2. j = k
          BY <5>1, <4>1, <4>3, <3>1, <1>1 DEF IsTree
        <5> QED BY <5>1, <5>2, <4>1
      <4>4. Right(i, q)
        BY <4>1, <4>2, <4>3
      <4> QED BY <4>4, <2>4 DEF q
    <3>4. CASE (\A j \in 1 .. Len(children[d]) : path[children[d][j]] # q) /\ FirstWith(children[d], q) = NoNode
      <4>1. \A n \in M : path[n] # q
        BY <3>4, <2>6
      <4>2. Right(i, q)
        BY <4>1, <3>4, <3>2, <1>3
      <4> QED BY <4>2, <2>4 DEF q
    <3> QED BY <3>1, <3>3, <3>4, FirstWithFinds
  <2> QED BY <2>7, <2>8
<1>8. \A i \in 0 .. Len(p) : i \in Good
  <2> HIDE DEF Good
  <2> QED BY <1>0, <1>6, <1>7, IntervalInduction
<1>9. SubSeq(p, 1, Len(p)) = p
  BY SubSeqFull
<1>10. Right(Len(p), SubSeq(p, 1, Len(p)))
  <2>1. Len(p) \in Good
    <3>1. Len(p) \in 0 .. Len(p)
      BY <1>0
    <3> HIDE DEF Good
    <3> QED BY <3>1, <1>8
  <2> QED BY <2>1
<1>11. Right(Len(p), p)
  <2> HIDE DEF Right
  <2> QED BY <1>9, <1>10
<1> QED BY <1>2, <1>11 DEF M

LEMMA PathsAreNames == \A p \in Paths : p \in Seq(Names)
<1> SUFFICES ASSUME NEW k \in 0 .. MaxDepth, NEW p \in [1 .. k -> Names]
             PROVE  p \in Seq(Names)
  BY DEF Paths
<1>1. k \in Nat
  BY NodeAssumption
<1> QED BY <1>1, SeqDef

LEMMA FindsMountedInv == TreeInv => FindsMounted
<1> SUFFICES ASSUME TreeInv, NEW p \in Paths, NEW n \in Mounted
             PROVE  path[n] = p <=> GetByPath(p) = n
  BY DEF FindsMounted
<1>1. p \in Seq(Names)
  BY PathsAreNames
<1> QED BY <1>1, SearchFinds

-----------------------------------------------------------------------------
(***************************************************************************)
(* Resolving "..", name by name.                                           *)
(***************************************************************************)

\* done[i] is what the first i names of p come to.
CollapsesTo(done, p, V) == ReadsNames(done, p, V, "..", ".")

LEMMA CollapseSteps ==
  ASSUME NEW S, NEW p \in Seq(S)
  PROVE  \E done : CollapsesTo(done, p, Seq(S)) /\ Collapse(p) = done[Len(p)]
<1>1. Collapse(p) = Reading(p, "..", ".")[Len(p)]
  BY DEF Collapse, Reading, Kept
<1>2. ReadsNames(Reading(p, "..", "."), p, Seq(S), "..", ".")
  BY ReadingReads
<1> QED BY <1>1, <1>2 DEF CollapsesTo

LEMMA CollapseType ==
  ASSUME NEW S, NEW p \in Seq(S)
  PROVE  Collapse(p) \in Seq(S)
<1>1. PICK done : CollapsesTo(done, p, Seq(S)) /\ Collapse(p) = done[Len(p)]
  BY CollapseSteps
<1>2. Len(p) \in Nat
  BY ONLY LenProperties, p \in Seq(S)
<1>3. Len(p) \in 0 .. Len(p)
  BY <1>2
<1> QED BY <1>1, <1>3 DEF CollapsesTo, ReadsNames

LEMMA AbsoluteType ==
  ASSUME TypeOK, NEW absolute \in BOOLEAN, NEW p \in Seq(Words),
         ~absolute => current # NoNode /\ path[current] # NoNode
  PROVE  AbsolutePath(absolute, p) \in Seq(Words)
<1> DEFINE q == IF absolute THEN p ELSE path[current] \o p
<1>1. q \in Seq(Words)
  <2>1. CASE absolute
    BY <2>1
  <2>2. CASE ~absolute
    <3>1. path[current] \in Paths
      BY <2>2 DEF TypeOK
    <3>2. path[current] \in Seq(Names)
      BY <3>1, PathsAreNames
    <3>3. path[current] \in Seq(Words)
      <4>1. Seq(Names) \subseteq Seq(Words)
        BY DEF Words
      <4> QED BY <3>2, <4>1
    <3> QED BY <2>2, <3>3
  <2> QED BY <2>1, <2>2
<1>2. AbsolutePath(absolute, p) = Collapse(q)
  BY DEF AbsolutePath
<1> HIDE DEF q
<1> QED BY <1>1, <1>2, CollapseType

-----------------------------------------------------------------------------
(***************************************************************************)
(* Trees with one node more, with one less, and with none.                 *)
(***************************************************************************)

\* Only what is written in the nodes of the tree matters to it.
LEMMA SameTree ==
  ASSUME NEW M, NEW r, NEW ch \in [Nodes -> Seq(Nodes)], NEW pa, NEW par, NEW pa2, NEW par2,
         r \in Pointers, IsReach(M, r, ch), IsTree(M, r, ch, pa, par),
         \A n \in M : pa2[n] = pa[n] /\ par2[n] = par[n]
  PROVE  IsTree(M, r, ch, pa2, par2)
<1>1. \A n \in M : n \in Nodes
  BY DEF IsReach
<1>2. \A n \in M : \A i \in 1 .. Len(ch[n]) : ch[n][i] \in M
  <2> SUFFICES ASSUME NEW n \in M, NEW i \in 1 .. Len(ch[n]) PROVE ch[n][i] \in M
    OBVIOUS
  <2>1. ch[n][i] \in ToSet(ch[n])
    BY <1>1, Children
  <2> QED BY <2>1 DEF IsReach, Covers
<1>3. r # NoNode => r \in M
  BY DEF IsReach, Covers
<1>4. r # NoNode => pa2[r] = << >> /\ par2[r] = NoNode
  BY <1>3 DEF IsTree
<1>5. ASSUME NEW n \in M, NEW i \in 1 .. Len(ch[n])
      PROVE  /\ par2[ch[n][i]] = n /\ pa2[ch[n][i]] # << >> /\ Front(pa2[ch[n][i]]) = pa2[n]
             /\ \A j \in 1 .. Len(ch[n]) : pa2[ch[n][j]] = pa2[ch[n][i]] => i = j
  <2>1. /\ par[ch[n][i]] = n /\ pa[ch[n][i]] # << >> /\ Front(pa[ch[n][i]]) = pa[n]
        /\ \A j \in 1 .. Len(ch[n]) : pa[ch[n][j]] = pa[ch[n][i]] => i = j
    BY DEF IsTree
  <2>2. ch[n][i] \in M /\ \A j \in 1 .. Len(ch[n]) : ch[n][j] \in M
    BY <1>2
  <2> QED BY <2>1, <2>2
<1>6. (\A n \in Nodes \ M : ch[n] = << >>) /\ \A n \in M : pa2[n] \in Paths
  BY DEF IsTree
<1> QED BY <1>4, <1>5, <1>6 DEF IsTree

LEMMA ReachBelow ==
  ASSUME NEW M, NEW r, NEW ch \in [Nodes -> Seq(Nodes)], IsReach(M, r, ch),
         NEW up \in M, NEW node \in Nodes \ M, ch[node] = << >>
  PROVE  IsReach(M \cup {node}, r, [ch EXCEPT ![up] = <<node>> \o @])
<1> DEFINE L   == M \cup {node}
           ch2 == [ch EXCEPT ![up] = <<node>> \o @]
<1>1. M \subseteq Nodes /\ up \in Nodes /\ up # node
  BY DEF IsReach
<1>2. ToSet(ch2[up]) = ToSet(ch[up]) \cup {node}
  <2>1. ch2[up] = <<node>> \o ch[up] /\ ch[up] \in Seq(Nodes)
    BY <1>1
  <2>2. ToSet(<<node>> \o ch[up]) = ToSet(ch[up]) \cup {node}
    BY <2>1, LinkedFirst
  <2> QED BY <2>1, <2>2
<1>3. \A n \in Nodes : n # up => ch2[n] = ch[n]
  BY <1>1
<1>4. ToSet(ch[node]) = {}
  BY NoChildren
<1> HIDE DEF ch2
<1>5. Covers(L, r, ch2)
  <2>1. r # NoNode => r \in L
    BY DEF IsReach, Covers
  <2>2. ASSUME NEW n \in L PROVE ToSet(ch2[n]) \subseteq L
    <3>1. CASE n = up
      BY <3>1, <1>2 DEF IsReach, Covers
    <3>2. CASE n = node
      BY <3>2, <1>1, <1>3, <1>4
    <3>3. CASE n \in M /\ n # up
      BY <3>3, <1>1, <1>3 DEF IsReach, Covers
    <3> QED BY <3>1, <3>2, <3>3
  <2> HIDE DEF L
  <2> QED BY <2>1, <2>2 DEF Covers
<1>6. ASSUME NEW set \in SUBSET Nodes, Covers(set, r, ch2) PROVE L \subseteq set
  <2>1. \A n \in set : ToSet(ch[n]) \subseteq ToSet(ch2[n])
    BY <1>2, <1>3
  <2>2. Covers(set, r, ch)
    BY <2>1, <1>6 DEF Covers
  <2>3. M \subseteq set
    BY <2>2 DEF IsReach
  <2>4. node \in set
    BY <2>3, <1>2, <1>6 DEF Covers
  <2> QED BY <2>3, <2>4
<1> QED BY <1>1, <1>5, <1>6 DEF IsReach, ch2

LEMMA TreeBelow ==
  ASSUME NEW M, NEW r \in Pointers, NEW ch \in [Nodes -> Seq(Nodes)],
         NEW pa \in [Nodes -> Paths \cup {NoNode}], NEW par \in [Nodes -> Pointers],
         IsReach(M, r, ch), IsTree(M, r, ch, pa, par),
         NEW up \in M, NEW node \in Nodes \ M, NEW p \in Paths,
         p # << >>, Front(p) = pa[up], \A n \in M : pa[n] # p
  PROVE  IsTree(M \cup {node}, r, [ch EXCEPT ![up] = <<node>> \o @],
                [pa EXCEPT ![node] = p], [par EXCEPT ![node] = up])
<1> DEFINE L    == M \cup {node}
           ch2  == [ch EXCEPT ![up] = <<node>> \o @]
           pa2  == [pa EXCEPT ![node] = p]
           par2 == [par EXCEPT ![node] = up]
<1>1. M \subseteq Nodes /\ up \in Nodes /\ up # node /\ ch[node] = << >>
  BY DEF IsReach, IsTree
<1>2. \A n \in M : pa2[n] = pa[n] /\ par2[n] = par[n]
  BY <1>1
<1>3. pa2[node] = p /\ par2[node] = up
  OBVIOUS
<1>4. IsTree(M, r, ch, pa2, par2)
  <2> HIDE DEF pa2, par2
  <2> QED BY <1>2, SameTree
<1> DEFINE old == ch[up]
<1>5. /\ ch2[up] = <<node>> \o old /\ old \in Seq(Nodes)
      /\ \A n \in Nodes : n # up => ch2[n] = ch[n]
  BY <1>1
<1>6. \A n \in M : \A i \in 1 .. Len(ch[n]) : ch[n][i] \in M
  <2> SUFFICES ASSUME NEW n \in M, NEW i \in 1 .. Len(ch[n]) PROVE ch[n][i] \in M
    OBVIOUS
  <2>1. ch[n][i] \in ToSet(ch[n])
    BY <1>1, Children
  <2> QED BY <2>1 DEF IsReach, Covers
<1> HIDE DEF pa2, par2, ch2
<1> DEFINE new == ch2[up]
<1>7. /\ new \in Seq(Nodes) /\ Len(new) = Len(old) + 1 /\ Len(old) \in Nat
      /\ new[1] = node
      /\ \A i \in 2 .. Len(new) : i - 1 \in 1 .. Len(old) /\ new[i] = old[i - 1]
  BY <1>5, LinkedFirst
<1>8. \A i \in 1 .. Len(old) : /\ par2[old[i]] = up /\ pa2[old[i]] # << >>
                               /\ Front(pa2[old[i]]) = pa2[up] /\ pa2[old[i]] # p
                               /\ \A j \in 1 .. Len(old) : pa2[old[j]] = pa2[old[i]] => i = j
  BY <1>2, <1>4, <1>6 DEF IsTree
<1>9. pa2[up] = Front(p)
  BY <1>2
<1> HIDE DEF new, old
<1>10. \A i \in 1 .. Len(new) : i = 1 \/ i \in 2 .. Len(new)
  BY <1>7
<1>11. \A i \in 1 .. Len(new) : par2[new[i]] = up /\ pa2[new[i]] # << >> /\ Front(pa2[new[i]]) = pa2[up]
  <2> SUFFICES ASSUME NEW i \in 1 .. Len(new)
               PROVE  par2[new[i]] = up /\ pa2[new[i]] # << >> /\ Front(pa2[new[i]]) = pa2[up]
    OBVIOUS
  <2>1. CASE i = 1
    BY ONLY <2>1, <1>3, <1>7, <1>9, p # << >>
  <2>2. CASE i \in 2 .. Len(new)
    <3>1. i - 1 \in 1 .. Len(old) /\ new[i] = old[i - 1]
      BY ONLY <2>2, <1>7
    <3> QED BY ONLY <3>1, <1>8
  <2> QED BY <1>10, <2>1, <2>2
<1>12. ASSUME NEW i \in 1 .. Len(new), NEW j \in 1 .. Len(new), pa2[new[j]] = pa2[new[i]] PROVE i = j
  <2>1. CASE i = 1 /\ j = 1
    BY <2>1
  <2>0. \A k \in 2 .. Len(new) : k - 1 \in 1 .. Len(old) /\ new[k] = old[k - 1] /\ pa2[new[k]] # p
    BY ONLY <1>7, <1>8
  <2>2. CASE i = 1 /\ j \in 2 .. Len(new)
    BY ONLY <2>2, <2>0, <1>12, <1>3, <1>7
  <2>3. CASE j = 1 /\ i \in 2 .. Len(new)
    BY ONLY <2>3, <2>0, <1>12, <1>3, <1>7
  <2>4. CASE i \in 2 .. Len(new) /\ j \in 2 .. Len(new)
    <3>0. pa2[old[j - 1]] = pa2[old[i - 1]] /\ i - 1 \in 1 .. Len(old) /\ j - 1 \in 1 .. Len(old)
      BY ONLY <2>4, <2>0, <1>12
    <3>1. i - 1 = j - 1
      BY ONLY <3>0, <1>8
    <3> QED BY <2>4, <3>1
  <2> QED BY <1>10, <2>1, <2>2, <2>3, <2>4
<1>13. ASSUME NEW n \in L, NEW i \in 1 .. Len(ch2[n])
       PROVE  /\ par2[ch2[n][i]] = n
              /\ pa2[ch2[n][i]] # << >> /\ Front(pa2[ch2[n][i]]) = pa2[n]
              /\ \A j \in 1 .. Len(ch2[n]) : pa2[ch2[n][j]] = pa2[ch2[n][i]] => i = j
  <2>1. CASE n = up
    BY <2>1, <1>11, <1>12 DEF new
  <2>2. CASE n = node
    <3>1. ch2[n] = << >>
      BY <2>2, <1>1, <1>5
    <3> QED BY <3>1
  <2>3. CASE n \in M /\ n # up
    <3>1. ch2[n] = ch[n]
      BY <2>3, <1>1, <1>5
    <3>2. \A k \in 1 .. Len(ch[n]) :
            /\ par2[ch[n][k]] = n
            /\ pa2[ch[n][k]] # << >> /\ Front(pa2[ch[n][k]]) = pa2[n]
            /\ \A j \in 1 .. Len(ch[n]) : pa2[ch[n][j]] = pa2[ch[n][k]] => k = j
      BY <2>3, <1>4 DEF IsTree
    <3> QED BY ONLY <3>1, <3>2, <1>13
  <2> QED BY <2>1, <2>2, <2>3
<1>14. \A n \in Nodes \ L : ch2[n] = << >>
  <2>1. \A n \in Nodes \ L : n # up /\ n \in Nodes \ M
    OBVIOUS
  <2> QED BY <2>1, <1>4, <1>5 DEF IsTree
<1>15. \A n \in L : pa2[n] \in Paths
  BY <1>3, <1>4 DEF IsTree
<1>16. r # NoNode => pa2[r] = << >> /\ par2[r] = NoNode
  BY <1>4 DEF IsTree
<1> HIDE DEF L
<1> QED BY <1>13, <1>14, <1>15, <1>16 DEF IsTree, L, ch2, pa2, par2

\* A list made of places of another, none twice.
Picks(old, new, list) ==
  /\ old \in [1 .. Len(new) -> 1 .. Len(list)]
  /\ \A i \in 1 .. Len(new) : new[i] = list[old[i]]
  /\ \A i, j \in 1 .. Len(new) : old[i] = old[j] => i = j

\* Unlinking shifts what is behind the node, and loses nothing else.
LEMMA UnlinkedNodes ==
  ASSUME NEW list \in Seq(Nodes), NEW n, n \in ToSet(list),
         \A i, j \in 1 .. Len(list) : list[i] = n /\ list[j] = n => i = j
  PROVE  LET new == Unlinked(list, n)
         IN  /\ new \in Seq(Nodes)
             /\ ToSet(new) = ToSet(list) \ {n}
             /\ \E old : Picks(old, new, list)
<1> DEFINE k   == PositionIn(list, n)
           new == Unlinked(list, n)
<1>1. /\ new \in Seq(Nodes) /\ Len(new) = Len(list) - 1 /\ Len(new) \in Nat
      /\ k \in 1 .. Len(list) /\ list[k] = n
      /\ \A i \in 1 .. Len(new) : new[i] = IF i < k THEN list[i] ELSE list[i + 1]
  BY UnlinkedList
<1> HIDE DEF k, new
<1>2. Len(list) \in Nat /\ k \in Int
  BY <1>1
<1> DEFINE old == [i \in 1 .. Len(new) |-> IF i < k THEN i ELSE i + 1]
<1>3. \A i \in 1 .. Len(new) : i \in Int /\ old[i] \in 1 .. Len(list) /\ old[i] # k /\ new[i] = list[old[i]]
  <2> SUFFICES ASSUME NEW i \in 1 .. Len(new)
               PROVE  i \in Int /\ old[i] \in 1 .. Len(list) /\ old[i] # k /\ new[i] = list[old[i]]
    OBVIOUS
  <2>1. i \in Int /\ i >= 1 /\ i + 1 <= Len(list)
    BY <1>1, <1>2
  <2>2. old[i] = IF i < k THEN i ELSE i + 1
    OBVIOUS
  <2> HIDE DEF old
  <2>3. CASE i < k
    BY <2>1, <2>2, <2>3, <1>1, <1>2
  <2>4. CASE ~(i < k)
    <3>1. old[i] = i + 1 /\ i + 1 \in 1 .. Len(list) /\ i + 1 # k
      BY <2>1, <2>2, <2>4, <1>2
    <3>2. new[i] = list[i + 1]
      BY <2>4, <1>1
    <3> QED BY <3>1, <3>2, <2>1
  <2> QED BY <2>3, <2>4
<1>4. \A i, j \in 1 .. Len(new) : old[i] = old[j] => i = j
  <2> SUFFICES ASSUME NEW i \in 1 .. Len(new), NEW j \in 1 .. Len(new), old[i] = old[j] PROVE i = j
    OBVIOUS
  <2>1. i \in Int /\ j \in Int
    BY <1>1
  <2> QED BY <2>1, <1>2
<1>5. old \in [1 .. Len(new) -> 1 .. Len(list)]
  BY <1>3
<1>6. ToSet(new) \subseteq ToSet(list) \ {n}
  <2> SUFFICES ASSUME NEW m \in ToSet(new) PROVE m \in ToSet(list) /\ m # n
    OBVIOUS
  <2>1. PICK i \in 1 .. Len(new) : new[i] = m
    BY <1>1, Children
  <2>2. old[i] \in 1 .. Len(list) /\ old[i] # k /\ m = list[old[i]]
    BY <2>1, <1>3
  <2> HIDE DEF old
  <2>3. m # n
    BY <2>2, <1>1
  <2> QED BY <2>2, <2>3, Children
<1>7. ToSet(list) \ {n} \subseteq ToSet(new)
  <2> SUFFICES ASSUME NEW m \in ToSet(list), m # n PROVE m \in ToSet(new)
    OBVIOUS
  <2>1. PICK i \in 1 .. Len(list) : list[i] = m
    BY Children
  <2>2. i # k /\ i \in Int /\ i >= 1 /\ i <= Len(list)
    BY <2>1, <1>1, <1>2
  <2>3. CASE i < k
    <3>1. i \in 1 .. Len(new) /\ new[i] = list[i]
      BY <2>2, <2>3, <1>1, <1>2
    <3> QED BY <3>1, <2>1, <1>1, Children
  <2>4. CASE ~(i < k)
    <3>1. i - 1 \in 1 .. Len(new) /\ ~(i - 1 < k) /\ (i - 1) + 1 = i
      BY <2>2, <2>4, <1>1, <1>2
    <3>2. new[i - 1] = list[i]
      BY <3>1, <1>1
    <3> QED BY <3>1, <3>2, <2>1, <1>1, Children
  <2> QED BY <2>3, <2>4
<1>8. Picks(old, new, list)
  <2> HIDE DEF old
  <2> QED BY <1>3, <1>4, <1>5 DEF Picks
<1> HIDE DEF old
<1> QED BY <1>1, <1>6, <1>7, <1>8 DEF new

LEMMA ReachUnlinked ==
  ASSUME NEW M, NEW r \in Pointers, NEW ch \in [Nodes -> Seq(Nodes)], IsReach(M, r, ch),
         NEW up \in M, NEW node \in M, node # r, ch[node] = << >>, NEW list \in Seq(Nodes),
         ToSet(list) = ToSet(ch[up]) \ {node},
         \A n \in M : node \in ToSet(ch[n]) => n = up
  PROVE  IsReach(M \ {node}, r, [ch EXCEPT ![up] = list])
<1> DEFINE L   == M \ {node}
           ch2 == [ch EXCEPT ![up] = list]
<1>1. M \subseteq Nodes /\ up \in Nodes /\ node \in Nodes
  BY DEF IsReach
<1>2. ch2[up] = list /\ \A n \in Nodes : n # up => ch2[n] = ch[n]
  BY <1>1
<1> HIDE DEF ch2
<1>3. Covers(L, r, ch2)
  <2>1. r # NoNode => r \in L
    BY DEF IsReach, Covers
  <2>2. ASSUME NEW n \in L PROVE ToSet(ch2[n]) \subseteq L
    <3>1. CASE n = up
      BY <3>1, <1>2 DEF IsReach, Covers
    <3>2. CASE n # up
      <4>1. ch2[n] = ch[n] /\ node \notin ToSet(ch[n])
        BY <3>2, <1>1, <1>2
      <4> QED BY <4>1 DEF IsReach, Covers
    <3> QED BY <3>1, <3>2
  <2> HIDE DEF L
  <2> QED BY <2>1, <2>2 DEF Covers
<1>4. ASSUME NEW set \in SUBSET Nodes, Covers(set, r, ch2) PROVE L \subseteq set
  <2> DEFINE more == set \cup {node}
  <2>1. \A n \in set : ToSet(ch[n]) \subseteq more
    <3> SUFFICES ASSUME NEW n \in set PROVE ToSet(ch[n]) \subseteq more
      OBVIOUS
    <3>1. ToSet(ch2[n]) \subseteq set
      BY <1>4 DEF Covers
    <3>2. ToSet(ch[n]) \subseteq ToSet(ch2[n]) \cup {node}
      <4>1. ToSet(list) = ToSet(ch[up]) \ {node}
        OBVIOUS
      <4>2. CASE n = up
        BY ONLY <4>1, <4>2, <1>2
      <4>3. CASE n # up
        <5>1. ch2[n] = ch[n]
          BY <4>3, <1>2
        <5> QED BY ONLY <5>1
      <4> QED BY <4>2, <4>3
    <3> QED BY <3>1, <3>2
  <2>2. ToSet(ch[node]) = {}
    BY NoChildren
  <2>3. Covers(more, r, ch)
    <3>1. r # NoNode => r \in more
      BY <1>4 DEF Covers
    <3>2. \A n \in more : ToSet(ch[n]) \subseteq more
      BY <2>1, <2>2
    <3> HIDE DEF more
    <3> QED BY ONLY <3>1, <3>2 DEF Covers
  <2>4. more \in SUBSET Nodes
    BY <1>1
  <2>5. M \subseteq more
    <3> HIDE DEF more
    <3> QED BY <2>3, <2>4 DEF IsReach
  <2> QED BY <2>5
<1> QED BY <1>1, <1>3, <1>4 DEF IsReach, ch2

LEMMA TreeUnlinked ==
  ASSUME NEW M, NEW r \in Pointers, NEW ch \in [Nodes -> Seq(Nodes)], NEW pa, NEW par,
         IsReach(M, r, ch), IsTree(M, r, ch, pa, par),
         NEW up \in M, NEW node \in M, ch[node] = << >>,  NEW list \in Seq(Nodes),
         NEW old, Picks(old, list, ch[up])
  PROVE  IsTree(M \ {node}, r, [ch EXCEPT ![up] = list], pa, par)
<1> DEFINE L   == M \ {node}
           ch2 == [ch EXCEPT ![up] = list]
           Child(n, ls, i) == /\ par[ls[i]] = n
                              /\ pa[ls[i]] # << >> /\ Front(pa[ls[i]]) = pa[n]
                              /\ \A j \in 1 .. Len(ls) : pa[ls[j]] = pa[ls[i]] => i = j
<1>1. M \subseteq Nodes /\ up \in Nodes /\ node \in Nodes
  BY DEF IsReach
<1>2. ch2[up] = list /\ \A n \in Nodes : n # up => ch2[n] = ch[n]
  BY <1>1
<1>3. \A n \in M : \A i \in 1 .. Len(ch[n]) : Child(n, ch[n], i)
  BY DEF IsTree
<1> HIDE DEF ch2
<1>4. ASSUME NEW i \in 1 .. Len(list) PROVE Child(up, list, i)
  <2>1. old[i] \in 1 .. Len(ch[up])
    BY DEF Picks
  <2>2. Child(up, ch[up], old[i])
    <3> HIDE DEF Child
    <3> QED BY <2>1, <1>3
  <2>3. list[i] = ch[up][old[i]]
    BY DEF Picks
  <2>4. ASSUME NEW j \in 1 .. Len(list), pa[list[j]] = pa[list[i]] PROVE i = j
    <3>1. old[j] \in 1 .. Len(ch[up]) /\ list[j] = ch[up][old[j]]
      BY DEF Picks
    <3>2. old[i] = old[j]
      BY <3>1, <2>2, <2>3, <2>4
    <3> QED BY <3>2 DEF Picks
  <2> QED BY <2>2, <2>3, <2>4
<1>5. ASSUME NEW n \in L, NEW i \in 1 .. Len(ch2[n]) PROVE Child(n, ch2[n], i)
  <2> HIDE DEF Child
  <2>1. CASE n = up
    BY <2>1, <1>2, <1>4
  <2>2. CASE n # up
    <3>1. ch2[n] = ch[n]
      BY <2>2, <1>1, <1>2
    <3> QED BY <3>1, <1>3
  <2> QED BY <2>1, <2>2
<1>6. \A n \in Nodes \ L : ch2[n] = << >>
  <2> SUFFICES ASSUME NEW n \in Nodes \ L PROVE ch2[n] = << >>
    OBVIOUS
  <2>1. ch[n] = << >>
    BY DEF IsTree
  <2>2. CASE n # up
    BY <2>1, <2>2, <1>2
  <2>3. CASE n = up
    <3>1. Len(ch[up]) = 0
      BY <2>1, <2>3
    <3>2. 1 .. Len(ch[up]) = {}
      BY <3>1
    <3>3. \A i \in 1 .. Len(list) : old[i] \in 1 .. Len(ch[up])
      BY DEF Picks
    <3>4. Len(list) = 0
      <4>1. Len(list) \in Nat
        BY ONLY LenProperties, list \in Seq(Nodes)
      <4>2. 1 \notin 1 .. Len(list)
        BY <3>2, <3>3
      <4> QED BY <4>1, <4>2
    <3> QED BY <2>3, <3>4, <1>2, EmptySeq
  <2> QED BY <2>2, <2>3
<1>7. \A n \in L : pa[n] \in Paths
  BY DEF IsTree
<1>8. r # NoNode => pa[r] = << >> /\ par[r] = NoNode
  BY DEF IsTree
<1>9. \A n \in L : \A i \in 1 .. Len(ch2[n]) : Child(n, ch2[n], i)
  <2> HIDE DEF Child, L
  <2> QED BY <1>5
<1> HIDE DEF L
<1> QED BY <1>6, <1>7, <1>8, <1>9 DEF IsTree, L, ch2

LEMMA NoReach ==
  ASSUME NEW ch
  PROVE  IsReach({}, NoNode, ch)
  BY DEF IsReach, Covers

LEMMA RootReach ==
  ASSUME NEW node \in Nodes, NEW ch \in [Nodes -> Seq(Nodes)], ch[node] = << >>
  PROVE  IsReach({node}, node, ch)
<1>1. ToSet(ch[node]) = {}
  BY NoChildren
<1>2. Covers({node}, node, ch)
  BY <1>1 DEF Covers
<1>3. \A set \in SUBSET Nodes : Covers(set, node, ch) => {node} \subseteq set
  BY NodeAssumption DEF Covers
<1> QED BY <1>2, <1>3 DEF IsReach

-----------------------------------------------------------------------------
(***************************************************************************)
(* The calls.                                                              *)
(***************************************************************************)

\* A path's node and the node of the path one level up.
LEMMA RootFound ==
  ASSUME TreeInv
  PROVE  /\ GetByPath(<< >>) = root
         /\ root \in Mounted \/ root = NoNode
         /\ root = NoNode => Mounted = {}
<1>1. IsReach(Mounted, root, children) /\ (root # NoNode => path[root] = << >>)
  BY MountedIsReach, TreeInvIsTree DEF IsTree
<1>2. root = NoNode => Mounted = {}
  <2>1. root = NoNode => Covers({}, root, children)
    BY DEF Covers
  <2> QED BY <2>1, <1>1 DEF IsReach
<1>3. root \in Mounted \/ root = NoNode
  BY <1>1 DEF IsReach, Covers
<1>4. << >> \in Seq(Names)
  OBVIOUS
<1>5. /\ GetByPath(<< >>) = NoNode \/ GetByPath(<< >>) \in Mounted
      /\ \A n \in Mounted : path[n] = << >> <=> GetByPath(<< >>) = n
  BY <1>4, SearchFinds
<1> QED BY <1>1, <1>2, <1>3, <1>5

LEMMA ParentFound ==
  ASSUME TreeInv, NEW S, NEW p \in Seq(S), p # << >>
  PROVE  /\ GetParentByPath(p) = NoNode \/ GetParentByPath(p) \in Mounted
         /\ \A n \in Mounted : path[n] = Front(p) <=> GetParentByPath(p) = n
         /\ GetByPath(p) # NoNode =>
              /\ GetByPath(p) \in Mounted /\ GetByPath(p) # root
              /\ GetParentByPath(p) \in Mounted
              /\ parent[GetByPath(p)] = GetParentByPath(p)
              /\ GetByPath(p) \in ToSet(children[GetParentByPath(p)])
<1> DEFINE n  == GetByPath(p)
           up == GetParentByPath(p)
<1>1. Front(p) \in Seq(S) /\ up = GetByPath(Front(p))
  BY WholePath DEF GetParentByPath
<1>2. /\ GetByPath(Front(p)) = NoNode \/ GetByPath(Front(p)) \in Mounted
      /\ \A m \in Mounted : path[m] = Front(p) <=> GetByPath(Front(p)) = m
  BY <1>1, SearchFinds
<1>3. /\ n = NoNode \/ n \in Mounted
      /\ \A m \in Mounted : path[m] = p <=> n = m
  BY SearchFinds
<1> HIDE DEF n, up
<1>4. /\ up = NoNode \/ up \in Mounted
      /\ \A m \in Mounted : path[m] = Front(p) <=> up = m
  BY <1>1, <1>2
<1>5. ASSUME n # NoNode
      PROVE  n \in Mounted /\ n # root /\ up \in Mounted /\ parent[n] = up /\ n \in ToSet(children[up])
  <2>1. n \in Mounted /\ path[n] = p
    BY <1>3, <1>5
  <2>2. IsTree(Mounted, root, children, path, parent) /\ IsReach(Mounted, root, children)
    BY MountedIsReach, TreeInvIsTree
  <2>3. n # root
    <3>1. root # NoNode => path[root] = << >>
      BY <2>2 DEF IsTree
    <3> QED BY <3>1, <2>1, <1>5
  <2>4. PICK m \in Mounted : n \in ToSet(children[m])
    BY <2>1, <2>2, <2>3, Origin
  <2>5. children[m] \in Seq(Nodes)
    BY <2>2, <2>4, TreeInvIsTree DEF TypeOK, IsReach
  <2>6. PICK i \in 1 .. Len(children[m]) : children[m][i] = n
    BY <2>4, <2>5, Children
  <2>7. parent[n] = m /\ Front(path[n]) = path[m]
    BY <2>2, <2>6 DEF IsTree
  <2>8. up = m
    BY <2>1, <2>7, <1>4
  <2> QED BY <2>1, <2>3, <2>4, <2>7, <2>8
<1> QED BY <1>4, <1>5 DEF n, up

\* A call that leaves the links, and what is written in the nodes linked.
LEMMA Unmoved ==
  ASSUME TreeInv, TypeOK', UNCHANGED <<root, children>>,
         \A n \in Mounted : path'[n] = path[n] /\ parent'[n] = parent[n]
  PROVE  Mounted' = Mounted /\ TreeInv'
<1>1. /\ IsReach(Mounted, root, children) /\ IsTree(Mounted, root, children, path, parent)
      /\ root \in Pointers /\ children \in [Nodes -> Seq(Nodes)]
  BY MountedIsReach, TreeInvIsTree DEF TypeOK, Pointers
<1>2. IsReach(Mounted', root', children')
  BY MountedIsReachNext
<1>3. Mounted' = Mounted
  <2>1. IsReach(Mounted', root, children)
    BY <1>2
  <2> QED BY <1>1, <2>1, OneReach
<1>4. IsTree(Mounted, root, children, path', parent')
  <2> DEFINE M == Mounted
  <2> HIDE DEF M
  <2>1. \A n \in M : path'[n] = path[n] /\ parent'[n] = parent[n]
    BY DEF M
  <2>2. IsReach(M, root, children) /\ IsTree(M, root, children, path, parent)
    BY <1>1 DEF M
  <2>3. IsTree(M, root, children, path', parent')
    BY <1>1, <2>1, <2>2, SameTree
  <2> QED BY <2>3 DEF M
<1>5. IsTree(Mounted', root', children', path', parent')
  BY <1>3, <1>4
<1> QED BY <1>3, <1>5, TreeInvIsTreeNext

\* A call after which other nodes are reached.
LEMMA Moved ==
  ASSUME TypeOK', NEW M, IsReach(M, root', children'),
         IsTree(M, root', children', path', parent')
  PROVE  Mounted' = M /\ TreeInv'
<1>1. Mounted' = M
  <2>1. IsReach(Mounted', root', children')
    BY MountedIsReachNext
  <2> QED BY <2>1, OneReach
<1> QED BY <1>1, TreeInvIsTreeNext

\* Mounting where a node is, or below none, writes the path and no more.
LEMMA MountRefusedStep ==
  ASSUME TreeInv, NEW node \in Nodes, NEW p \in Paths, Free(node),
         MountExists(node, p) \/ MountNowhere(node, p)
  PROVE  Mounted' = Mounted /\ TreeInv'
<1>1. /\ path' = [path EXCEPT ![node] = p]
      /\ UNCHANGED <<root, current, parent, children, commands>>
  BY DEF MountExists, MountNowhere, PathWritten
<1>2. TypeOK'
  BY <1>1 DEF TreeInv, TypeOK
<1>3. node \notin Mounted
  BY DEF Free
<1>4. Mounted \subseteq Nodes
  BY MountedIsReach DEF TreeInv, IsReach
<1>5. \A n \in Mounted : path'[n] = path[n] /\ parent'[n] = parent[n]
  BY <1>1, <1>3, <1>4 DEF TreeInv, TypeOK
<1> QED BY <1>1, <1>2, <1>5, Unmoved

LEMMA MountBelowStep ==
  ASSUME TreeInv, NEW node \in Nodes, NEW p \in Paths, Free(node), MountBelow(node, p)
  PROVE  Mounted' = Mounted \cup {node} /\ TreeInv'
<1> DEFINE up == GetParentByPath(p)
           M  == Mounted
<1>1. /\ GetByPath(p) = NoNode /\ up # NoNode
      /\ path' = [path EXCEPT ![node] = p]
      /\ children' = [children EXCEPT ![up] = <<node>> \o @]
      /\ parent' = [parent EXCEPT ![node] = up]
      /\ UNCHANGED <<root, current, commands>>
  BY DEF MountBelow, PathWritten
<1>2. p # << >> /\ p \in Seq(Names)
  BY <1>1, PathsAreNames DEF GetParentByPath
<1>3. up \in M /\ \A n \in M : path[n] = Front(p) <=> up = n
  BY <1>1, <1>2, ParentFound
<1>4. \A n \in M : path[n] # p
  <2>1. \A n \in Mounted : path[n] = p <=> GetByPath(p) = n
    BY <1>2, SearchFinds
  <2>2. Mounted \subseteq Nodes
    BY MountedIsReach DEF TreeInv, IsReach
  <2> QED BY <1>1, <2>1, <2>2, NodeAssumption
<1>5. /\ IsReach(M, root, children) /\ IsTree(M, root, children, path, parent)
      /\ root \in Pointers /\ children \in [Nodes -> Seq(Nodes)]
      /\ path \in [Nodes -> Paths \cup {NoNode}] /\ parent \in [Nodes -> Pointers]
  BY MountedIsReach, TreeInvIsTree DEF TypeOK, Pointers
<1>6. node \in Nodes \ M
  BY DEF Free
<1> HIDE DEF M, up
<1>7. up \in Nodes /\ children[node] = << >> /\ path[up] = Front(p)
  BY <1>3, <1>5, <1>6 DEF IsReach, IsTree
<1>8. IsReach(M \cup {node}, root', children')
  BY <1>1, <1>3, <1>5, <1>6, <1>7, ReachBelow
<1>9. IsTree(M \cup {node}, root', children', path', parent')
  BY <1>1, <1>2, <1>3, <1>4, <1>5, <1>6, <1>7, TreeBelow
<1>10. TypeOK'
  <2>1. <<node>> \o children[up] \in Seq(Nodes)
    <3>1. children[up] \in Seq(Nodes)
      BY <1>5, <1>7
    <3> QED BY <3>1, LinkedFirst
  <2>2. children' \in [Nodes -> Seq(Nodes)]
    BY <2>1, <1>1, <1>5
  <2>3. path' \in [Nodes -> Paths \cup {NoNode}] /\ parent' \in [Nodes -> Nodes \cup {NoNode}]
    BY <1>1, <1>5, <1>7 DEF Pointers
  <2> QED BY <1>1, <2>2, <2>3 DEF TreeInv, TypeOK
<1> QED BY <1>8, <1>9, <1>10, Moved DEF M

LEMMA MountRootStep ==
  ASSUME TreeInv, NEW node \in Nodes, NEW p \in Paths, Free(node), MountRoot(node, p)
  PROVE  Mounted = {} /\ Mounted' = {node} /\ TreeInv'
<1>1. /\ GetByPath(p) = NoNode /\ p = << >>
      /\ path' = [path EXCEPT ![node] = p]
      /\ root' = node /\ current' = node
      /\ parent' = [parent EXCEPT ![node] = NoNode]
      /\ UNCHANGED <<children, commands>>
  BY DEF MountRoot, PathWritten
<1>2. Mounted = {}
  BY <1>1, RootFound
<1>3. /\ IsTree(Mounted, root, children, path, parent)
      /\ children \in [Nodes -> Seq(Nodes)]
      /\ path \in [Nodes -> Paths \cup {NoNode}] /\ parent \in [Nodes -> Pointers]
  BY TreeInvIsTree DEF TypeOK, Pointers
<1>4. \A n \in Nodes : children[n] = << >>
  BY <1>2, <1>3 DEF IsTree
<1>5. IsReach({node}, root', children')
  BY <1>1, <1>3, <1>4, RootReach
<1>6. path'[node] = << >> /\ parent'[node] = NoNode /\ << >> \in Paths
  BY <1>1, <1>3
<1>7. IsTree({node}, root', children', path', parent')
  <2>1. \A i \in 1 .. Len(children'[node]) : FALSE
    BY <1>1, <1>4
  <2>2. \A n \in Nodes : children'[n] = << >>
    BY <1>1, <1>4
  <2> QED BY <1>1, <1>6, <2>1, <2>2 DEF IsTree
<1>8. TypeOK'
  BY <1>1, <1>3 DEF TreeInv, TypeOK, Pointers
<1> QED BY <1>2, <1>5, <1>7, <1>8, Moved

\* Unmounting by the path: the node is the root of nothing else, or a leaf.
LEMMA UnmountLeafStep ==
  ASSUME TreeInv, NEW p \in Paths, UnmountLeaf(p)
  PROVE  /\ GetByPath(p) \in Mounted /\ Mounted' = Mounted \ {GetByPath(p)}
         /\ TreeInv'
<1> DEFINE node == GetByPath(p)
           up   == GetParentByPath(p)
           M    == Mounted
<1>1. /\ node # NoNode /\ children[node] = << >>
      /\ IF up = NoNode
         THEN root' = NoNode /\ UNCHANGED children
         ELSE children' = [children EXCEPT ![up] = Unlinked(@, node)] /\ UNCHANGED root
      /\ UNCHANGED <<current, path, parent, commands>>
  BY DEF UnmountLeaf, HasChildren
<1>2. p \in Seq(Names)
  BY PathsAreNames
<1>3. node \in M
  BY <1>1, <1>2, SearchFinds
<1>4. /\ IsReach(M, root, children) /\ IsTree(M, root, children, path, parent)
      /\ root \in Pointers /\ children \in [Nodes -> Seq(Nodes)]
      /\ path \in [Nodes -> Paths \cup {NoNode}] /\ parent \in [Nodes -> Pointers]
  BY MountedIsReach, TreeInvIsTree DEF TypeOK, Pointers
<1>5. CASE p = << >>
  <2>1. node = root /\ up = NoNode
    BY <1>5, RootFound DEF GetParentByPath
  <2> HIDE DEF node, up, M
  <2>2. root' = NoNode /\ children' = children
    BY <2>1, <1>1
  <2>3. M \subseteq {node}
    <3>1. Covers({node}, root, children)
      BY <2>1, <1>1, NoChildren DEF Covers
    <3>2. {node} \in SUBSET Nodes
      BY <1>3, <1>4 DEF IsReach
    <3> QED BY <3>1, <3>2, <1>4 DEF IsReach
  <2>4. M \ {node} = {}
    BY <2>3
  <2>5. IsReach({}, root', children')
    BY <2>2, NoReach
  <2>6. IsTree({}, root', children', path', parent')
    <3>1. \A n \in Nodes : children[n] = << >>
      BY <1>1, <1>4, <2>3 DEF IsTree
    <3> QED BY <2>2, <3>1 DEF IsTree
  <2>7. TypeOK'
    BY <1>1, <2>2 DEF TreeInv, TypeOK
  <2> QED BY <1>3, <2>4, <2>5, <2>6, <2>7, Moved DEF M, node
<1>6. CASE p # << >>
  <2>1. node # root /\ up \in M /\ parent[node] = up /\ node \in ToSet(children[up])
    BY <1>1, <1>2, <1>6, ParentFound
  <2> HIDE DEF node, up, M
  <2>2. up # NoNode /\ up \in Nodes
    BY <2>1, <1>4, NodeAssumption DEF IsReach
  <2> DEFINE list == children[up]
             new  == Unlinked(list, node)
  <2>3. /\ children' = [children EXCEPT ![up] = new] /\ root' = root
        /\ path' = path /\ parent' = parent
    BY <1>1, <2>2
  <2>4. list \in Seq(Nodes)
    BY <1>4, <2>2
  <2>5. \A i, j \in 1 .. Len(list) : list[i] = node /\ list[j] = node => i = j
    BY <1>4, <2>1 DEF IsTree
  <2>6. \A n \in M : node \in ToSet(children[n]) => n = up
    <3> SUFFICES ASSUME NEW n \in M, node \in ToSet(children[n]) PROVE n = up
      OBVIOUS
    <3>1. children[n] \in Seq(Nodes)
      BY <1>4 DEF IsReach
    <3>2. PICK i \in 1 .. Len(children[n]) : children[n][i] = node
      BY <3>1, Children
    <3> QED BY <3>2, <2>1, <1>4 DEF IsTree
  <2>7. node \in ToSet(list)
    BY <2>1
  <2> HIDE DEF list
  <2>8. /\ new \in Seq(Nodes) /\ ToSet(new) = ToSet(list) \ {node}
        /\ \E old : Picks(old, new, list)
    BY <2>4, <2>5, <2>7, UnlinkedNodes
  <2> HIDE DEF new
  <2>9. IsReach(M \ {node}, root, [children EXCEPT ![up] = new])
    BY <1>1, <1>3, <1>4, <2>1, <2>6, <2>8, ReachUnlinked DEF list
  <2>10. IsTree(M \ {node}, root, [children EXCEPT ![up] = new], path, parent)
    <3>1. PICK old : Picks(old, new, list)
      BY <2>8
    <3> QED BY <3>1, <1>1, <1>3, <1>4, <2>1, <2>8, TreeUnlinked DEF list
  <2>11. TypeOK'
    <3>1. children' \in [Nodes -> Seq(Nodes)]
      BY <2>3, <2>8, <1>4
    <3> QED BY <3>1, <2>3, <1>1 DEF TreeInv, TypeOK
  <2> QED BY <1>3, <2>3, <2>9, <2>10, <2>11, Moved DEF M, node
<1> QED BY <1>5, <1>6

LEMMA DeinitStep ==
  ASSUME TreeInv, Deinit
  PROVE  Mounted' = {} /\ TreeInv'
<1>1. /\ root' = NoNode /\ current' = NoNode /\ commands' = << >>
      /\ path' = [n \in Nodes |-> IF n \in Mounted THEN NoNode ELSE path[n]]
      /\ parent' = [n \in Nodes |-> IF n \in Mounted THEN NoNode ELSE parent[n]]
      /\ children' = [n \in Nodes |-> IF n \in Mounted THEN << >> ELSE children[n]]
  BY DEF Deinit
<1>2. TypeOK /\ IsTree(Mounted, root, children, path, parent)
  BY TreeInvIsTree
<1>3. \A n \in Nodes : children'[n] = << >>
  BY <1>1, <1>2 DEF IsTree
<1>4. TypeOK'
  <2> DEFINE M == Mounted
  <2> HIDE DEF M
  <2>1. /\ path' = [n \in Nodes |-> IF n \in M THEN NoNode ELSE path[n]]
        /\ parent' = [n \in Nodes |-> IF n \in M THEN NoNode ELSE parent[n]]
        /\ children' = [n \in Nodes |-> IF n \in M THEN << >> ELSE children[n]]
    BY <1>1 DEF M
  <2>2. << >> \in Seq(Nodes)
    OBVIOUS
  <2> QED BY <1>1, <1>2, <2>1, <2>2 DEF TypeOK
<1>5. IsReach({}, root', children')
  BY <1>1, NoReach
<1>6. IsTree({}, root', children', path', parent')
  BY <1>1, <1>3 DEF IsTree
<1> QED BY <1>4, <1>5, <1>6, Moved

LEMMA SetCurrentDirStep ==
  ASSUME TreeInv, NEW absolute \in BOOLEAN, NEW p \in Seq(Words), SetCurrentDir(absolute, p)
  PROVE  Mounted' = Mounted /\ TreeInv' /\ (current' = current \/ current' \in Mounted)
<1> DEFINE q == AbsolutePath(absolute, p)
<1>1. /\ current # NoNode /\ path[current] # NoNode
      /\ current' = current \/ (GetByPath(q) # NoNode /\ current' = GetByPath(q))
      /\ UNCHANGED <<root, path, parent, children, commands>>
  BY DEF SetCurrentDir
<1>2. q \in Seq(Words)
  BY <1>1, AbsoluteType DEF TreeInv
<1> HIDE DEF q
<1>3. current' = current \/ current' \in Mounted
  BY <1>1, <1>2, SearchFinds
<1>4. Mounted \subseteq Nodes
  BY MountedIsReach DEF TreeInv, IsReach
<1>5. TypeOK'
  BY <1>1, <1>3, <1>4 DEF TreeInv, TypeOK
<1> QED BY <1>1, <1>3, <1>5, Unmoved

LEMMA CommandsStep ==
  ASSUME TreeInv, NEW node \in Nodes, CommandsAdd(node) \/ CommandsRemove(node)
  PROVE  Mounted' = Mounted /\ TreeInv'
<1>0. TypeOK /\ Mounted \subseteq Nodes
  BY MountedIsReach DEF TreeInv, IsReach
<1>1. CASE CommandsAdd(node)
  <2>1. /\ node \notin Mounted
        /\ commands' = <<node>> \o commands
        /\ path' = [path EXCEPT ![node] = NoNode]
        /\ UNCHANGED <<root, current, parent, children>>
    BY <1>1 DEF CommandsAdd, Free
  <2>2. commands' \in Seq(Nodes)
    <3>1. commands \in Seq(Nodes)
      BY <1>0 DEF TypeOK
    <3> QED BY <2>1, <3>1, LinkedFirst
  <2>3. TypeOK'
    BY <1>0, <2>1, <2>2 DEF TypeOK
  <2>4. \A n \in Mounted : path'[n] = path[n] /\ parent'[n] = parent[n]
    BY <1>0, <2>1 DEF TypeOK
  <2> QED BY <2>1, <2>3, <2>4, Unmoved
<1>2. CASE CommandsRemove(node)
  <2>1. /\ commands' = Unlinked(commands, node)
        /\ UNCHANGED <<root, current, path, parent, children>>
    BY <1>2 DEF CommandsRemove
  <2>2. commands' \in Seq(Nodes)
    <3>1. commands \in Seq(Nodes)
      BY <1>0 DEF TypeOK
    <3>2. CASE node \in ToSet(commands)
      BY <2>1, <3>1, <3>2, UnlinkedList
    <3>3. CASE node \notin ToSet(commands)
      BY <2>1, <3>1, <3>3 DEF Unlinked
    <3> QED BY <3>2, <3>3
  <2>3. TypeOK'
    BY <1>0, <2>1, <2>2 DEF TypeOK
  <2> QED BY <2>1, <2>3, Unmoved
<1> QED BY <1>1, <1>2

LEMMA InitTree == Init => TreeInv
<1> SUFFICES ASSUME Init PROVE TreeInv
  OBVIOUS
<1>1. TypeOK
  <2>1. << >> \in Seq(Nodes)
    OBVIOUS
  <2> QED BY <2>1 DEF Init, TypeOK
<1>2. IsReach({}, root, children)
  BY NoReach DEF Init
<1>3. Mounted = {}
  BY <1>1, <1>2, MountedIsReach, OneReach
<1>4. IsTree(Mounted, root, children, path, parent)
  BY <1>3 DEF IsTree, Init
<1> QED BY <1>1, <1>4, TreeInvIsTree

LEMMA NamesAreWords == \A p \in Paths : p \in Seq(Names) /\ p \in Seq(Words)
<1>1. Seq(Names) \subseteq Seq(Words)
  BY DEF Words
<1> QED BY <1>1, PathsAreNames

LEMMA TreeStep ==
  ASSUME TreeInv, [Next]_vars
  PROVE  TreeInv'
<1>1. ASSUME NEW node \in Nodes, NEW p \in Paths, Mount(node, p) PROVE TreeInv'
  <2>1. Free(node)
    BY <1>1 DEF Mount
  <2> QED BY <1>1, <2>1, MountRefusedStep, MountBelowStep, MountRootStep DEF Mount
<1>2. ASSUME NEW p \in Paths, Unmount(p) PROVE TreeInv'
  <2>1. CASE UnmountMissing(p) \/ UnmountParent(p)
    <3>1. UNCHANGED <<root, current, path, parent, children, commands>>
      BY <2>1 DEF UnmountMissing, UnmountParent
    <3>2. TypeOK'
      BY <3>1 DEF TreeInv, TypeOK
    <3> QED BY <3>1, <3>2, Unmoved
  <2>2. CASE UnmountLeaf(p)
    BY <2>2, UnmountLeafStep
  <2> QED BY <1>2, <2>1, <2>2 DEF Unmount
<1>3. ASSUME NEW p \in Paths, SetCurrentDir(TRUE, p) PROVE TreeInv'
  BY <1>3, NamesAreWords, SetCurrentDirStep
<1>4. ASSUME NEW p \in Relative, SetCurrentDir(FALSE, p) PROVE TreeInv'
  <2>1. p \in Seq(Words)
    BY NodeAssumption DEF Words
  <2> QED BY <1>4, <2>1, SetCurrentDirStep
<1>5. ASSUME NEW node \in Nodes, CommandsAdd(node) \/ CommandsRemove(node) PROVE TreeInv'
  BY <1>5, CommandsStep
<1>6. ASSUME Reset PROVE TreeInv'
  <2>1. current' = root /\ UNCHANGED <<root, path, parent, children, commands>>
    BY <1>6 DEF Reset
  <2>2. TypeOK'
    BY <2>1 DEF TreeInv, TypeOK
  <2> QED BY <2>1, <2>2, Unmoved
<1>7. ASSUME Deinit PROVE TreeInv'
  BY <1>7, DeinitStep
<1>8. ASSUME UNCHANGED vars PROVE TreeInv'
  <2>1. UNCHANGED <<root, current, path, parent, children, commands>>
    BY <1>8 DEF vars
  <2>2. TypeOK'
    BY <2>1 DEF TreeInv, TypeOK
  <2> QED BY <2>1, <2>2, Unmoved
<1> QED BY <1>1, <1>2, <1>3, <1>4, <1>5, <1>6, <1>7, <1>8 DEF Next

\* What is mounted is always a tree with paths, whatever is called.
THEOREM TreeInvariant == Spec => []TreeInv
<1>1. Init => TreeInv
  BY InitTree
<1>2. TreeInv /\ [Next]_vars => TreeInv'
  BY TreeStep
<1> QED BY <1>1, <1>2, PTL DEF Spec

THEOREM TreeShapeHolds == Spec => []TreeShape
<1>1. TreeInv => TreeShape
  BY DEF TreeInv
<1> QED BY <1>1, TreeInvariant, PTL

\* Every mounted node is found at its path, and no search ends anywhere else.
THEOREM FindsMountedHolds == Spec => []FindsMounted
  BY FindsMountedInv, TreeInvariant, PTL

-----------------------------------------------------------------------------
(***************************************************************************)
(* Files.  The names of nodes must be names and not directions: a node     *)
(* mounted at "/.." is one no path typed comes to.                         *)
(***************************************************************************)
ProperNames == Names \cap {"..", "."} = {}

\* A sequence with one more element, and back.
IsAppended(p, s, x) == Append(s, x) = p <=> s = Front(p) /\ x = Last(p)

LEMMA AppendedIs ==
  ASSUME NEW S, NEW s \in Seq(S), NEW x, NEW p \in Seq(S), p # << >>
  PROVE  IsAppended(p, s, x)
<1> DEFINE n == Len(p)
           f == Front(p)
<1>1. /\ n \in Nat /\ n >= 1 /\ n \in 1 .. n
      /\ \A i \in 1 .. n : p[i] \in S
  <2>1. Len(p) \in Nat \ {0}
    BY EmptySeq
  <2> QED BY <2>1, ElementOfSeq
<1>2. f \in Seq(S) /\ Len(f) = n - 1 /\ \A i \in 1 .. n - 1 : f[i] = p[i]
  <2>1. \A i \in 1 .. n - 1 : p[i] \in S
    BY <1>1
  <2>2. /\ SubSeq(p, 1, n - 1) \in Seq(S)
        /\ Len(SubSeq(p, 1, n - 1)) = IF 1 <= n - 1 THEN n - 1 - 1 + 1 ELSE 0
        /\ \A i \in 1 .. n - 1 - 1 + 1 : SubSeq(p, 1, n - 1)[i] = p[1 + i - 1]
    BY <1>1, <2>1, SubSeqProperties
  <2>3. f = SubSeq(p, 1, n - 1)
    BY DEF Front
  <2> HIDE DEF f, n
  <2>4. \A i \in 1 .. n - 1 : i \in 1 .. n - 1 - 1 + 1 /\ 1 + i - 1 = i
    BY <1>1
  <2> QED BY <1>1, <2>2, <2>3, <2>4
<1>3. Last(p) = p[n]
  BY DEF Last
<1>4. ASSUME x \in S
      PROVE  /\ Append(s, x) \in Seq(S) /\ Len(Append(s, x)) = Len(s) + 1 /\ Len(s) \in Nat
             /\ \A i \in 1 .. Len(s) : Append(s, x)[i] = s[i]
             /\ Append(s, x)[Len(s) + 1] = x
  BY ONLY <1>4, AppendProperties, LenProperties, s \in Seq(S)
<1>5. ASSUME s = f, x = p[n] PROVE Append(s, x) = p
  <2>1. x \in S
    BY <1>1, <1>5
  <2> DEFINE a == Append(s, x)
  <2>2. a \in Seq(S) /\ Len(a) = n /\ a[n] = p[n] /\ \A i \in 1 .. n - 1 : a[i] = f[i]
    <3> HIDE DEF n, f
    <3> QED BY <2>1, <1>1, <1>2, <1>4, <1>5
  <2> HIDE DEF a, n, f
  <2>3. \A i \in 1 .. n : i \in 1 .. n - 1 \/ i = n
    BY <1>1
  <2>4. \A i \in 1 .. n : a[i] = p[i]
    BY <1>2, <2>2, <2>3
  <2>5. Len(a) = Len(p)
    BY <2>2 DEF n
  <2>6. \A i \in 1 .. Len(a) : a[i] = p[i]
    BY <2>2, <2>4
  <2>7. a = p
    BY ONLY <2>2, <2>5, <2>6, SeqEqual, p \in Seq(S)
  <2> QED BY <2>7 DEF a
<1>6. ASSUME Append(s, x) = p PROVE s = f /\ x = p[n]
  <2>0. Len(s) \in Nat
    BY ONLY LenProperties, s \in Seq(S)
  <2>1. n = Len(s) + 1 /\ p[n] = x
    <3> DEFINE T == S \cup {x}
    <3>1. s \in Seq(T) /\ x \in T
      OBVIOUS
    <3> HIDE DEF T
    <3>2. Len(Append(s, x)) = Len(s) + 1 /\ Append(s, x)[Len(s) + 1] = x
      BY ONLY <3>1, AppendProperties
    <3> QED BY <3>2, <1>6
  <2>2. x \in S
    BY <2>1, <1>1
  <2>3. \A i \in 1 .. Len(s) : p[i] = s[i]
    BY <1>4, <1>6, <2>2
  <2> HIDE DEF n, f
  <2>4. Len(s) = Len(f) /\ \A i \in 1 .. Len(s) : s[i] = f[i]
    BY <1>1, <1>2, <2>0, <2>1, <2>3
  <2>5. s = f
    BY ONLY <2>4, <1>2, SeqEqual, s \in Seq(S)
  <2> QED BY <2>1, <2>5
<1> QED BY <1>3, <1>5, <1>6 DEF IsAppended

\* A path without ".." and "." is the path it comes to.
LEMMA CollapseNames ==
  ASSUME ProperNames, NEW p \in Seq(Names)
  PROVE  Collapse(p) = p
<1>0. Len(p) \in Nat /\ \A i \in 1 .. Len(p) : p[i] \in Names
  BY ONLY LenProperties, ElementOfSeq, p \in Seq(Names)
<1>1. PICK done : CollapsesTo(done, p, Seq(Names)) /\ Collapse(p) = done[Len(p)]
  BY CollapseSteps
<1> DEFINE Good == {i \in 0 .. Len(p) : done[i] = SubSeq(p, 1, i)}
<1>2. 0 \in Good
  <2>1. SubSeq(p, 1, 0) = << >>
    BY SubSeqEmpty
  <2> QED BY <2>1, <1>0, <1>1 DEF CollapsesTo, ReadsNames
<1>3. ASSUME NEW i \in 1 .. Len(p), i - 1 \in Good PROVE i \in Good
  <2>1. i \in Int /\ 1 <= i /\ i <= Len(p) /\ i \in 1 .. i
    BY <1>0
  <2>2. done[i] = Kept(SubSeq(p, 1, i - 1), p[i], "..", ".")
    BY <1>1, <1>3 DEF CollapsesTo, ReadsNames
  <2>3. done[i] = Append(SubSeq(p, 1, i - 1), p[i])
    <3>1. p[i] # ".." /\ p[i] # "."
      BY <1>0 DEF ProperNames
    <3> QED BY <2>2, <3>1 DEF Kept
  <2> DEFINE q == SubSeq(p, 1, i)
             s == SubSeq(p, 1, i - 1)
  <2>4. q \in Seq(Names) /\ q # << >> /\ Front(q) = s
    BY PrefixOfPath
  <2>5. s \in Seq(Names)
    BY <2>4, WholePath
  <2>6. Last(q) = p[i]
    <3>1. \A j \in 1 .. i : p[j] \in Names
      BY <1>0, <2>1
    <3>2. Len(q) = i /\ \A j \in 1 .. i - 1 + 1 : q[j] = p[1 + j - 1]
      BY <2>1, <3>1, SubSeqProperties
    <3> HIDE DEF q
    <3>3. i \in 1 .. i - 1 + 1 /\ 1 + i - 1 = i
      BY <2>1
    <3> QED BY <3>2, <3>3 DEF Last
  <2> HIDE DEF q, s
  <2>7. Append(s, p[i]) = q
    <3>1. IsAppended(q, s, p[i])
      BY ONLY <2>4, <2>5, AppendedIs
    <3> QED BY <3>1, <2>4, <2>6 DEF IsAppended
  <2>8. done[i] = q /\ i \in 0 .. Len(p)
    BY <2>3, <2>7, <1>0 DEF s
  <2> QED BY <2>8 DEF q
<1>4. \A i \in 0 .. Len(p) : i \in Good
  <2> HIDE DEF Good
  <2> QED BY <1>0, <1>2, <1>3, IntervalInduction
<1>5. Len(p) \in 0 .. Len(p) /\ SubSeq(p, 1, Len(p)) = p
  BY <1>0, SubSeqFull
<1> QED BY <1>1, <1>4, <1>5

LEMMA FirstFileNone ==
  ASSUME NEW list \in Seq(Nodes), NEW p, NEW files,
         \A i \in 1 .. Len(list) : files \cap ({list[i]} \X FilesOf[list[i]]) = {}
  PROVE  FirstFile(list, p, files) = NoFile
  BY DEF FirstFile

LEMMA FirstFileHead ==
  ASSUME NEW list \in Seq(Nodes), NEW p, NEW files, list # << >>,
         files \cap ({list[1]} \X FilesOf[list[1]]) # {}
  PROVE  FirstFile(list, p, files) = Home(list[1], Last(p))
<1> DEFINE found == {i \in 1 .. Len(list) : files \cap ({list[i]} \X FilesOf[list[i]]) # {}}
<1>0. Len(list) \in Nat \ {0}
  BY ONLY EmptySeq, list \in Seq(Nodes), list # << >>
<1>1. 1 \in found /\ found \subseteq Nat /\ \A i \in found : i >= 1
  BY <1>0
<1>2. Min(found) \in found /\ \A y \in found : Min(found) <= y
  <2> HIDE DEF found
  <2> QED BY <1>1, MinOfSet
<1>3. Min(found) = 1
  <2> DEFINE k == Min(found)
  <2> HIDE DEF found
  <2>1. k \in Nat /\ k <= 1 /\ k >= 1
    BY <1>1, <1>2
  <2> HIDE DEF k
  <2>2. k = 1
    BY ONLY <2>1
  <2> QED BY <2>2 DEF k
<1>4. FirstFile(list, p, files) = IF found = {} THEN NoFile ELSE Home(list[Min(found)], Last(p))
  BY DEF FirstFile
<1> HIDE DEF found
<1> QED BY <1>1, <1>3, <1>4

\* The list from a mounted node on begins with it, and what follows is mounted.
LEMMA FromNodeList ==
  ASSUME TreeInv, NEW n \in Mounted
  PROVE  LET list == FromNode(n)
         IN  /\ list \in Seq(Nodes) /\ list # << >> /\ list[1] = n
             /\ \A i \in 1 .. Len(list) : list[i] \in Mounted
<1>1. /\ IsReach(Mounted, root, children) /\ IsTree(Mounted, root, children, path, parent)
      /\ children \in [Nodes -> Seq(Nodes)]
  BY MountedIsReach, TreeInvIsTree DEF TypeOK
<1>2. n \in Nodes
  BY <1>1 DEF IsReach
<1>3. CASE n = root
  BY <1>2, <1>3 DEF FromNode
<1>4. CASE n # root
  <2>1. PICK m \in Mounted : n \in ToSet(children[m])
    BY <1>1, <1>4, Origin
  <2> DEFINE old == children[m]
             k   == PositionIn(old, n)
             new == SubSeq(old, k, Len(old))
  <2>2. old \in Seq(Nodes)
    BY <1>1 DEF IsReach
  <2>3. k \in 1 .. Len(old) /\ old[k] = n
    BY <2>1, <2>2, Position
  <2>4. parent[n] = m
    BY <2>3, <1>1 DEF IsTree
  <2>5. FromNode(n) = new
    BY <2>4, <1>4 DEF FromNode
  <2>6. \A i \in 1 .. Len(old) : old[i] \in Mounted /\ old[i] \in Nodes
    <3>1. \A i \in 1 .. Len(old) : old[i] \in ToSet(old)
      BY <2>2, Children
    <3>2. \A i \in 1 .. Len(old) : old[i] \in Mounted
      BY <3>1, <1>1 DEF IsReach, Covers
    <3> QED BY <3>2, <1>1 DEF IsReach
  <2> HIDE DEF old, k
  <2>7. Len(old) \in Nat /\ k \in Int /\ 1 <= k /\ k <= Len(old)
    <3>1. Len(old) \in Nat
      BY ONLY <2>2, LenProperties
    <3> QED BY <3>1, <2>3
  <2>8. /\ new \in Seq(Nodes) /\ Len(new) = (IF k <= Len(old) THEN Len(old) - k + 1 ELSE 0)
        /\ \A i \in 1 .. Len(old) - k + 1 : new[i] = old[k + i - 1]
    <3>1. \A i \in k .. Len(old) : old[i] \in Nodes
      BY <2>6, <2>7
    <3> QED BY <3>1, <2>7, SubSeqProperties
  <2> HIDE DEF new
  <2>9. Len(new) = Len(old) - k + 1 /\ Len(new) \in Nat \ {0} /\ 1 \in 1 .. Len(old) - k + 1 /\ k + 1 - 1 = k
    BY <2>7, <2>8
  <2>10. new # << >> /\ new[1] = n
    BY <2>3, <2>8, <2>9, EmptySeq
  <2>11. ASSUME NEW i \in 1 .. Len(new) PROVE new[i] \in Mounted
    <3>1. k + i - 1 \in 1 .. Len(old) /\ i \in 1 .. Len(old) - k + 1
      BY <2>7, <2>9
    <3> QED BY <3>1, <2>6, <2>8
  <2> QED BY <2>5, <2>8, <2>10, <2>11
<1> QED BY <1>3, <1>4

LEMMA FindsFileInv ==
  ASSUME TreeInv, ProperNames
  PROVE  FindsFile
<1> SUFFICES ASSUME NEW p \in Paths, p # << >>
             PROVE  LET home == GetByPath(Front(p))
                    IN  FindByName(TRUE, p) =
                          IF home # NoNode /\ Last(p) \in FilesOf[home]
                          THEN Home(home, Last(p)) ELSE NoFile
  BY DEF FindsFile
<1> DEFINE home  == GetByPath(Front(p))
           files == {file \in Nodes \X Names : /\ path[file[1]] # NoNode
                                               /\ Append(path[file[1]], file[2]) = p}
<1>1. p \in Seq(Names)
  BY PathsAreNames
<1>2. AbsolutePath(TRUE, p) = p
  BY <1>1, CollapseNames DEF AbsolutePath
<1>3. GetParentByPath(p) = home
  BY DEF GetParentByPath
<1>4. /\ home = NoNode \/ home \in Mounted
      /\ \A n \in Mounted : path[n] = Front(p) <=> home = n
  BY <1>1, <1>3, ParentFound
<1>5. FirstFile(commands, p, {}) = NoFile
  <2>1. commands \in Seq(Nodes)
    BY DEF TreeInv, TypeOK
  <2> QED BY <2>1, FirstFileNone
<1>6. FindByName(TRUE, p) = IF home = NoNode THEN NoFile ELSE FirstFile(FromNode(home), p, files)
  <2>1. {file \in Nodes \X Names : ~TRUE /\ <<file[2]>> = p} = {}
    OBVIOUS
  <2> HIDE DEF home
  <2> QED BY <1>2, <1>3, <1>5, <2>1 DEF FindByName
<1>7. CASE home = NoNode
  BY <1>6, <1>7
<1>8. CASE home # NoNode
  <2> DEFINE list == FromNode(home)
  <2>1. home \in Mounted
    BY <1>4, <1>8
  <2>2. /\ list \in Seq(Nodes) /\ list # << >> /\ list[1] = home
        /\ \A i \in 1 .. Len(list) : list[i] \in Mounted
    <3> HIDE DEF home
    <3> QED BY <2>1, FromNodeList
  <2>3. Mounted \subseteq Nodes /\ \A n \in Mounted : path[n] \in Paths /\ path[n] \in Seq(Names)
    <3>1. Mounted \subseteq Nodes
      BY MountedIsReach DEF TreeInv, IsReach
    <3> QED BY <3>1, PathsAreNames DEF TreeInv, MountedPaths
  <2>4. \A n \in Mounted : \A name \in Names :
          <<n, name>> \in files <=> n = home /\ name = Last(p)
    <3> SUFFICES ASSUME NEW n \in Mounted, NEW name \in Names
                 PROVE  <<n, name>> \in files <=> n = home /\ name = Last(p)
      OBVIOUS
    <3>1. path[n] # NoNode
      BY <2>3, NodeAssumption
    <3>2. <<n, name>> \in Nodes \X Names
      BY <2>3
    <3>3. <<n, name>> \in files <=> Append(path[n], name) = p
      BY <3>1, <3>2
    <3>4. Append(path[n], name) = p <=> path[n] = Front(p) /\ name = Last(p)
      <4> DEFINE s == path[n]
      <4>1. s \in Seq(Names)
        BY <2>3
      <4> HIDE DEF s
      <4>2. IsAppended(p, s, name)
        BY ONLY <4>1, <1>1, p # << >>, AppendedIs
      <4> QED BY <4>2 DEF s, IsAppended
    <3> QED BY <3>3, <3>4, <1>4
  <2>5. FilesOf[home] \subseteq Names
    BY <2>1, <2>3, NodeAssumption
  <2> HIDE DEF files, home, list
  <2>6. CASE Last(p) \in FilesOf[home]
    <3>1. <<home, Last(p)>> \in files
      BY <2>1, <2>4, <2>5, <2>6
    <3>2. files \cap ({list[1]} \X FilesOf[list[1]]) # {}
      BY <3>1, <2>2, <2>6
    <3>3. FirstFile(list, p, files) = Home(list[1], Last(p))
      BY <2>2, <3>2, FirstFileHead
    <3> QED BY <3>3, <2>2, <2>6, <1>6, <1>8 DEF list, home
  <2>7. CASE Last(p) \notin FilesOf[home]
    <3>1. ASSUME NEW i \in 1 .. Len(list)
          PROVE  files \cap ({list[i]} \X FilesOf[list[i]]) = {}
      <4>1. list[i] \in Mounted /\ FilesOf[list[i]] \subseteq Names
        BY <2>2, <2>3, NodeAssumption
      <4>2. ASSUME NEW name \in FilesOf[list[i]] PROVE <<list[i], name>> \notin files
        BY <4>1, <4>2, <2>4, <2>7
      <4> QED BY <4>2
    <3>2. FirstFile(list, p, files) = NoFile
      BY <2>2, <3>1, FirstFileNone
    <3> QED BY <3>2, <2>7, <1>6, <1>8 DEF list, home
  <2> QED BY <2>6, <2>7
<1> QED BY <1>7, <1>8

\* A file of a mounted node is found at its absolute path and only there.
THEOREM FindsFileHolds == ProperNames => (Spec => []FindsFile)
<1> SUFFICES ASSUME ProperNames PROVE Spec => []FindsFile
  OBVIOUS
<1>1. TreeInv => FindsFile
  BY FindsFileInv
<1> QED BY <1>1, TreeInvariant, PTL

-----------------------------------------------------------------------------
(***************************************************************************)
(* The tree implements MountTable: every call is an operation of the table *)
(* from paths to nodes, or none, and ".." and "." are resolved as the      *)
(* reference for names resolves them.                                      *)
(***************************************************************************)

\* Reading the names one by one keeps the names that survive.
LEMMA CollapseResolves ==
  ASSUME NEW S, NEW p \in Seq(S)
  PROVE  Table!Resolve(p) = Collapse(p)
<1>1. PICK done : CollapsesTo(done, p, Seq(S)) /\ Collapse(p) = done[Len(p)]
  BY CollapseSteps
<1>2. done[Len(p)] = Picked(Survivors(p, "..", "."), p)
  BY <1>1, ReadingKeepsSurvivors DEF CollapsesTo
<1>3. Table!Resolve(p) = Picked(Survivors(p, "..", "."), p)
  BY DEF Table!Resolve, Table!Resolution!Resolve, Table!Resolution!Survives,
         Table!Resolution!Ups, Table!Resolution!Ordinary, Table!Resolution!Cardinality,
         Cardinality, Picked, Survivors
<1> QED BY <1>1, <1>2, <1>3

-----------------------------------------------------------------------------
(***************************************************************************)
(* The table of the tree, step by step.                                    *)
(***************************************************************************)

\* A table that holds each node of M at its path, and nothing else.
IsTable(T, M, pa) ==
  /\ T = [q \in {pa[n] : n \in M} |-> T[q]]
  /\ \A n \in M : T[pa[n]] = n

TableInv == IsTable(MountedAt, Mounted, path)

LEMMA MountedAtIsTable == TreeInv => TableInv
<1> SUFFICES ASSUME TreeInv PROVE IsTable(MountedAt, Mounted, path)
  BY DEF TableInv
<1> DEFINE M == Mounted
           T == MountedAt
<1>1. T = [q \in {path[n] : n \in M} |-> CHOOSE n \in M : path[n] = q]
  BY DEF MountedAt
<1>2. ASSUME NEW n \in M, NEW m \in M, path[n] = path[m] PROVE n = m
  <2>1. path[n] \in Seq(Names)
    BY PathsAreNames DEF TreeInv, MountedPaths
  <2>2. \A k \in Mounted : path[k] = path[n] <=> GetByPath(path[n]) = k
    BY <2>1, SearchFinds
  <2> QED BY <2>2, <1>2
<1> HIDE DEF M, T
<1>3. \A n \in M : T[path[n]] = n
  BY <1>1, <1>2
<1>4. T = [q \in {path[n] : n \in M} |-> T[q]]
  BY <1>1
<1> QED BY <1>3, <1>4 DEF IsTable, M, T

LEMMA MountedAtIsTableNext == TreeInv' => IsTable(MountedAt', Mounted', path')
<1>1. TreeInv' => TableInv'
  BY MountedAtIsTable, PTL
<1> QED BY <1>1 DEF TableInv

LEMMA SameTable ==
  ASSUME NEW T, NEW T2, NEW M, NEW pa, NEW pa2,
         IsTable(T, M, pa), IsTable(T2, M, pa2), \A n \in M : pa2[n] = pa[n]
  PROVE  T2 = T
<1>1. {pa2[n] : n \in M} = {pa[n] : n \in M}
  OBVIOUS
<1>2. \A q \in {pa[n] : n \in M} : T2[q] = T[q]
  BY DEF IsTable
<1> QED BY <1>1, <1>2 DEF IsTable

LEMMA TableWith ==
  ASSUME NEW T, NEW T2, NEW M, NEW pa, NEW pa2, NEW node, NEW p,
         IsTable(T, M, pa), IsTable(T2, M \cup {node}, pa2),
         \A n \in M : pa2[n] = pa[n], pa2[node] = p, \A n \in M : pa[n] # p
  PROVE  T2 = [q \in DOMAIN T \cup {p} |-> IF q = p THEN node ELSE T[q]]
<1> DEFINE D == DOMAIN T \cup {p}
           F == [q \in D |-> IF q = p THEN node ELSE T[q]]
<1>1. DOMAIN T = {pa[n] : n \in M}
  BY DEF IsTable
<1>2. {pa2[n] : n \in M \cup {node}} = D
  BY <1>1
<1>3. ASSUME NEW q \in D PROVE T2[q] = F[q]
  <2>1. CASE q = p
    BY <2>1 DEF IsTable
  <2>2. CASE q # p
    <3>1. PICK n \in M : q = pa[n]
      BY <1>1, <1>3, <2>2
    <3> QED BY <3>1, <2>2 DEF IsTable
  <2> QED BY <2>1, <2>2
<1>4. T2 = [q \in D |-> T2[q]]
  BY <1>2 DEF IsTable
<1> HIDE DEF D
<1> QED BY <1>3, <1>4 DEF D

Without(T, p) == [q \in DOMAIN T \ {p} |-> T[q]]

LEMMA TableWithout ==
  ASSUME NEW T, NEW T2, NEW M, NEW pa, NEW node \in M,
         IsTable(T, M, pa), IsTable(T2, M \ {node}, pa)
  PROVE  T2 = Without(T, pa[node])
<1> DEFINE D == DOMAIN T \ {pa[node]}
<1>1. DOMAIN T = {pa[n] : n \in M}
  BY DEF IsTable
<1>2. \A n \in M : pa[n] = pa[node] => n = node
  BY DEF IsTable
<1>3. {pa[n] : n \in M \ {node}} = D
  BY <1>1, <1>2
<1>4. \A q \in D : T2[q] = T[q]
  <2> SUFFICES ASSUME NEW n \in M \ {node} PROVE T2[pa[n]] = T[pa[n]]
    BY <1>3
  <2> QED BY DEF IsTable
<1>5. T2 = [q \in D |-> T2[q]]
  BY <1>3 DEF IsTable
<1> HIDE DEF D
<1> QED BY <1>4, <1>5 DEF D, Without

\* What is found is what the table holds.
LEMMA FoundInTable ==
  ASSUME TreeInv, NEW S, NEW p \in Seq(S)
  PROVE  /\ p \in DOMAIN MountedAt <=> GetByPath(p) # NoNode
         /\ GetByPath(p) # NoNode => GetByPath(p) \in Mounted /\ path[GetByPath(p)] = p
<1>1. IsTable(MountedAt, Mounted, path)
  BY MountedAtIsTable DEF TableInv
<1>2. DOMAIN MountedAt = {path[n] : n \in Mounted}
  BY <1>1 DEF IsTable
<1>3. /\ GetByPath(p) = NoNode \/ GetByPath(p) \in Mounted
      /\ \A n \in Mounted : path[n] = p <=> GetByPath(p) = n
  BY SearchFinds
<1>4. NoNode \notin Mounted
  BY MountedIsReach, NodeAssumption DEF TreeInv, IsReach
<1> QED BY <1>2, <1>3, <1>4

LEMMA SameFront ==
  ASSUME NEW p
  PROVE  Table!Front(p) = Front(p)
  BY DEF Table!Front, Front

Here == IF current = NoNode THEN NoNode ELSE path[current]

\* Nothing changes but what is said of other nodes.
LEMMA TableSame ==
  ASSUME TreeInv, TreeInv', Mounted' = Mounted, \A n \in Mounted : path'[n] = path[n]
  PROVE  MountedAt' = MountedAt
<1>1. IsTable(MountedAt, Mounted, path)
  BY MountedAtIsTable DEF TableInv
<1>2. IsTable(MountedAt', Mounted, path')
  BY MountedAtIsTableNext
<1> DEFINE T == MountedAt
           T2 == MountedAt'
           M == Mounted
<1>3. IsTable(T, M, path) /\ IsTable(T2, M, path') /\ \A n \in M : path'[n] = path[n]
  BY <1>1, <1>2
<1> HIDE DEF T, T2, M
<1>4. T2 = T
  BY <1>3, SameTable
<1> QED BY <1>4 DEF T, T2

LEMMA HereStays ==
  ASSUME TreeInv, current' = current, NEW node, NEW v, path' = [path EXCEPT ![node] = v],
         node # current
  PROVE  Here' = Here
  BY DEF Here, TreeInv, TypeOK

LEMMA OtherPaths ==
  ASSUME TreeInv, NEW node, NEW v, path' = [path EXCEPT ![node] = v]
  PROVE  \A n \in Mounted : n # node => path'[n] = path[n]
<1>1. Mounted \subseteq Nodes
  BY MountedIsReach DEF TreeInv, IsReach
<1> QED BY <1>1 DEF TreeInv, TypeOK

-----------------------------------------------------------------------------
(***************************************************************************)
(* The calls, as operations of the table.                                  *)
(***************************************************************************)
LEMMA MountIsTable ==
  ASSUME TreeInv, NEW node \in Nodes, NEW p \in Paths, Mount(node, p)
  PROVE  Table!Mount(node, p)
<1>0. Free(node) /\ node \notin Mounted /\ node # current
  BY DEF Mount, Free
<1>1. IsTable(MountedAt, Mounted, path)
  BY MountedAtIsTable DEF TableInv
<1>2. \A q \in DOMAIN MountedAt : MountedAt[q] # node
  <2>1. \A q \in DOMAIN MountedAt : \E n \in Mounted : q = path[n]
    BY <1>1 DEF IsTable
  <2> QED BY <1>0, <1>1, <2>1 DEF IsTable
<1>3. p \in Seq(Names)
  BY PathsAreNames
<1>4. /\ p \in DOMAIN MountedAt <=> GetByPath(p) # NoNode
      /\ GetByPath(p) # NoNode => GetByPath(p) \in Mounted /\ path[GetByPath(p)] = p
  BY <1>3, FoundInTable
<1>5. p # << >> => (Front(p) \in DOMAIN MountedAt <=> GetParentByPath(p) # NoNode)
  <2> SUFFICES ASSUME p # << >> PROVE Front(p) \in DOMAIN MountedAt <=> GetParentByPath(p) # NoNode
    OBVIOUS
  <2>1. Front(p) \in Seq(Names)
    BY <1>3, WholePath
  <2> QED BY <2>1, FoundInTable DEF GetParentByPath
<1>6. ASSUME path' = [path EXCEPT ![node] = p]
      PROVE  \A n \in Mounted : path'[n] = path[n]
  BY <1>0, <1>6, OtherPaths
<1>7. CASE MountExists(node, p)
  <2>1. /\ GetByPath(p) # NoNode /\ path' = [path EXCEPT ![node] = p]
        /\ status' = "ERROR_NODE_ALREADY_MOUNTED" /\ current' = current
    BY <1>7 DEF MountExists, PathWritten
  <2>2. MountedAt' = MountedAt
    BY <1>0, <1>6, <1>7, <2>1, MountRefusedStep, TableSame
  <2>3. Here' = Here
    BY <1>0, <2>1, HereStays
  <2> QED BY <1>2, <1>4, <2>1, <2>2, <2>3 DEF Table!Mount, Here
<1>8. CASE MountNowhere(node, p)
  <2>1. /\ GetByPath(p) = NoNode /\ GetParentByPath(p) = NoNode /\ p # << >>
        /\ path' = [path EXCEPT ![node] = p]
        /\ status' = "ERROR_NODE_WITHOUT_PARENT" /\ current' = current
    BY <1>8 DEF MountNowhere, PathWritten
  <2>2. MountedAt' = MountedAt
    BY <1>0, <1>6, <1>8, <2>1, MountRefusedStep, TableSame
  <2>3. Here' = Here
    BY <1>0, <2>1, HereStays
  <2>4. Table!Front(p) \notin DOMAIN MountedAt
    BY <1>5, <2>1, SameFront
  <2> QED BY <1>2, <1>4, <2>1, <2>2, <2>3, <2>4 DEF Table!Mount, Here
<1>9. ASSUME GetByPath(p) = NoNode, path' = [path EXCEPT ![node] = p],
             Mounted' = Mounted \cup {node}, TreeInv'
      PROVE  MountedAt' = [q \in DOMAIN MountedAt \cup {p} |-> IF q = p THEN node ELSE MountedAt[q]]
  <2> DEFINE T == MountedAt
             T2 == MountedAt'
             M == Mounted
  <2>1. IsTable(T, M, path) /\ IsTable(T2, M \cup {node}, path')
    BY <1>1, <1>9, MountedAtIsTableNext
  <2>2. \A n \in M : path'[n] = path[n]
    BY <1>6, <1>9
  <2>3. \A n \in M : path[n] # p
    BY <1>1, <1>4, <1>9 DEF IsTable
  <2>4. path'[node] = p
    BY <1>9 DEF TreeInv, TypeOK
  <2> HIDE DEF T, T2, M
  <2>5. T2 = [q \in DOMAIN T \cup {p} |-> IF q = p THEN node ELSE T[q]]
    BY <2>1, <2>2, <2>3, <2>4, TableWith
  <2> QED BY <2>5 DEF T, T2
<1>10. CASE MountBelow(node, p)
  <2>1. /\ GetByPath(p) = NoNode /\ GetParentByPath(p) # NoNode
        /\ path' = [path EXCEPT ![node] = p]
        /\ status' = "OK" /\ current' = current
    BY <1>10 DEF MountBelow, PathWritten
  <2>2. p # << >>
    BY <2>1 DEF GetParentByPath
  <2>3. Mounted' = Mounted \cup {node} /\ TreeInv'
    BY <1>0, <1>10, MountBelowStep
  <2>4. Here' = Here
    BY <1>0, <2>1, HereStays
  <2>5. Table!Front(p) \in DOMAIN MountedAt
    BY <1>5, <2>1, <2>2, SameFront
  <2>6. MountedAt' = [q \in DOMAIN MountedAt \cup {p} |-> IF q = p THEN node ELSE MountedAt[q]]
    BY <1>9, <2>1, <2>3
  <2> QED BY <1>2, <1>4, <2>1, <2>2, <2>4, <2>5, <2>6 DEF Table!Mount, Here
<1>11. CASE MountRoot(node, p)
  <2>1. /\ GetByPath(p) = NoNode /\ p = << >>
        /\ path' = [path EXCEPT ![node] = p]
        /\ status' = "OK" /\ current' = node
    BY <1>11 DEF MountRoot, PathWritten
  <2>2. Mounted' = Mounted \cup {node} /\ TreeInv'
    BY <1>0, <1>11, MountRootStep
  <2>3. Here' = p
    BY <2>1, NodeAssumption DEF Here, TreeInv, TypeOK
  <2>4. MountedAt' = [q \in DOMAIN MountedAt \cup {p} |-> IF q = p THEN node ELSE MountedAt[q]]
    BY <1>9, <2>1, <2>2
  <2> QED BY <1>2, <1>4, <2>1, <2>3, <2>4 DEF Table!Mount, Here
<1> QED BY <1>7, <1>8, <1>10, <1>11 DEF Mount

LEMMA UnmountIsTable ==
  ASSUME TreeInv, NEW p \in Paths, Unmount(p)
  PROVE  Table!Unmount(p)
<1> DEFINE node == GetByPath(p)
<1>0. UNCHANGED <<current, path>> /\ Here' = Here
  BY DEF Unmount, UnmountMissing, UnmountParent, UnmountLeaf, Here
<1>1. IsTable(MountedAt, Mounted, path)
  BY MountedAtIsTable DEF TableInv
<1>2. p \in Seq(Names)
  BY PathsAreNames
<1>3. /\ p \in DOMAIN MountedAt <=> node # NoNode
      /\ node # NoNode => node \in Mounted /\ path[node] = p
  BY <1>2, FoundInTable
<1>4. /\ IsReach(Mounted, root, children) /\ IsTree(Mounted, root, children, path, parent)
      /\ children \in [Nodes -> Seq(Nodes)]
  BY MountedIsReach, TreeInvIsTree DEF TypeOK
<1> HIDE DEF node
<1>5. node # NoNode => (Table!Below(p) # {} <=> HasChildren(node))
  <2> SUFFICES ASSUME node # NoNode PROVE Table!Below(p) # {} <=> HasChildren(node)
    OBVIOUS
  <2>0. node \in Mounted /\ path[node] = p /\ node \in Nodes /\ children[node] \in Seq(Nodes)
    BY <1>3, <1>4 DEF IsReach
  <2>1. Table!Below(p) = {q \in {path[n] : n \in Mounted} : q # << >> /\ Front(q) = p}
    BY <1>1, SameFront DEF Table!Below, IsTable
  <2>2. ASSUME HasChildren(node) PROVE Table!Below(p) # {}
    <3> DEFINE c == children[node][1]
    <3>1. 1 \in 1 .. Len(children[node])
      <4>1. Len(children[node]) \in Nat \ {0}
        BY <2>0, <2>2, EmptySeq DEF HasChildren
      <4> QED BY <4>1
    <3>2. c \in ToSet(children[node])
      BY <2>0, <3>1, Children
    <3>3. c \in Mounted
      BY <2>0, <3>2, <1>4 DEF IsReach, Covers
    <3>4. path[c] # << >> /\ Front(path[c]) = p
      BY <2>0, <3>1, <1>4 DEF IsTree
    <3> QED BY <2>1, <3>3, <3>4
  <2>3. ASSUME Table!Below(p) # {} PROVE HasChildren(node)
    <3>1. PICK n \in Mounted : path[n] # << >> /\ Front(path[n]) = p
      BY <2>1, <2>3
    <3>2. n # root
      <4>1. root # NoNode => path[root] = << >>
        BY <1>4 DEF IsTree
      <4>2. n # NoNode
        BY <1>4, NodeAssumption DEF IsReach
      <4> QED BY <3>1, <4>1, <4>2
    <3>3. PICK m \in Mounted : n \in ToSet(children[m])
      BY <1>4, <3>1, <3>2, Origin
    <3>4. children[m] \in Seq(Nodes)
      BY <1>4, <3>3 DEF IsReach
    <3>5. PICK i \in 1 .. Len(children[m]) : children[m][i] = n
      BY <3>3, <3>4, Children
    <3>6. path[m] = p
      BY <3>1, <3>5, <1>4 DEF IsTree
    <3>7. m = node
      BY <2>0, <3>6, <1>1 DEF IsTable
    <3>8. children[node] # << >>
      BY <3>3, <3>7, NoChildren
    <3> QED BY <3>8 DEF HasChildren
  <2> QED BY <2>2, <2>3
<1>6. CASE UnmountMissing(p)
  <2>1. node = NoNode \/ (node # root /\ GetParentByPath(p) = NoNode)
    BY <1>6 DEF UnmountMissing, node
  <2>2. status' = "ERROR_NODE_NOT_FOUND" /\ UNCHANGED <<root, current, path, parent, children, commands>>
    BY <1>6 DEF UnmountMissing
  <2>3. node = NoNode
    <3>1. CASE p = << >>
      BY <2>1, <3>1, RootFound DEF node
    <3>2. CASE p # << >>
      <4>1. node # NoNode => GetParentByPath(p) \in Mounted
        BY <1>2, <3>2, ParentFound DEF node
      <4>2. NoNode \notin Mounted
        BY <1>4, NodeAssumption DEF IsReach
      <4> QED BY <2>1, <4>1, <4>2
    <3> QED BY <3>1, <3>2
  <2>4. TreeInv' /\ Mounted' = Mounted
    <3>1. TypeOK'
      BY <2>2 DEF TreeInv, TypeOK
    <3> QED BY <2>2, <3>1, Unmoved
  <2>5. MountedAt' = MountedAt
    BY <2>2, <2>4, TableSame
  <2> QED BY <1>0, <1>3, <2>2, <2>3, <2>5 DEF Table!Unmount, Here
<1>7. CASE UnmountParent(p)
  <2>1. node # NoNode /\ HasChildren(node)
    BY <1>7 DEF UnmountParent, node
  <2>2. status' = "ERROR_NODE_WITH_CHILDS" /\ UNCHANGED <<root, current, path, parent, children, commands>>
    BY <1>7 DEF UnmountParent
  <2>3. TreeInv' /\ Mounted' = Mounted
    <3>1. TypeOK'
      BY <2>2 DEF TreeInv, TypeOK
    <3> QED BY <2>2, <3>1, Unmoved
  <2>4. MountedAt' = MountedAt
    BY <2>2, <2>3, TableSame
  <2> QED BY <1>0, <1>3, <1>5, <2>1, <2>2, <2>4 DEF Table!Unmount, Here
<1>8. CASE UnmountLeaf(p)
  <2>1. node # NoNode /\ ~HasChildren(node) /\ status' = "OK"
    BY <1>8 DEF UnmountLeaf, node
  <2>2. Mounted' = Mounted \ {node} /\ TreeInv'
    BY <1>8, UnmountLeafStep DEF node
  <2>3. MountedAt' = [q \in DOMAIN MountedAt \ {p} |-> MountedAt[q]]
    <3> DEFINE T == MountedAt
               T2 == MountedAt'
               M == Mounted
    <3>1. IsTable(T, M, path) /\ IsTable(T2, M \ {node}, path)
      BY <1>0, <1>1, <2>2, MountedAtIsTableNext
    <3>2. node \in M /\ path[node] = p
      BY <1>3, <2>1
    <3> HIDE DEF T, T2, M
    <3>3. T2 = Without(T, path[node])
      BY <3>1, <3>2, TableWithout
    <3> QED BY <3>2, <3>3 DEF T, T2, Without
  <2> QED BY <1>0, <1>3, <1>5, <2>1, <2>3 DEF Table!Unmount, Here
<1> QED BY <1>6, <1>7, <1>8 DEF Unmount

LEMMA CdIsTable ==
  ASSUME TreeInv, NEW absolute \in BOOLEAN, NEW p \in Seq(Words), SetCurrentDir(absolute, p)
  PROVE  Table!ChangeDir(Table!Resolve(IF absolute THEN p ELSE path[current] \o p))
<1> DEFINE typed == IF absolute THEN p ELSE path[current] \o p
           q     == AbsolutePath(absolute, p)
           node  == GetByPath(q)
<1>1. /\ current # NoNode /\ path[current] # NoNode
      /\ IF node # NoNode
         THEN current' = node /\ status' = "OK"
         ELSE status' = "ERROR_NODE_NOT_FOUND" /\ UNCHANGED current
      /\ UNCHANGED <<root, path, parent, children, commands>>
  BY DEF SetCurrentDir
<1>2. q \in Seq(Words)
  BY <1>1, AbsoluteType DEF TreeInv
<1>3. typed \in Seq(Words)
  <2>1. path[current] \in Seq(Words)
    <3>1. path[current] \in Paths
      BY <1>1 DEF TreeInv, TypeOK
    <3> QED BY <3>1, NamesAreWords
  <2> QED BY <2>1
<1>4. Table!Resolve(typed) = q
  <2>1. q = Collapse(typed)
    BY DEF AbsolutePath
  <2> HIDE DEF typed, q
  <2> QED BY <1>3, <2>1, CollapseResolves
<1>5. /\ q \in DOMAIN MountedAt <=> node # NoNode
      /\ node # NoNode => node \in Mounted /\ path[node] = q
  <2> HIDE DEF q
  <2> QED BY <1>2, FoundInTable
<1>6. Mounted' = Mounted /\ TreeInv'
  BY SetCurrentDirStep
<1>7. MountedAt' = MountedAt
  BY <1>1, <1>6, TableSame
<1> HIDE DEF typed, q, node
<1>8. Here # NoNode
  BY <1>1 DEF Here
<1>9. node # NoNode => Here' = q
  BY <1>1, <1>5 DEF Here
<1>10. node = NoNode => Here' = Here
  BY <1>1 DEF Here
<1> QED BY <1>1, <1>4, <1>5, <1>7, <1>8, <1>9, <1>10 DEF Table!ChangeDir, Here, typed

LEMMA ResetIsTable ==
  ASSUME TreeInv, Reset
  PROVE  Table!Restart
<1>1. current' = root /\ UNCHANGED <<root, path, parent, children, commands, status>>
  BY DEF Reset
<1>2. Mounted' = Mounted /\ TreeInv'
  <2>1. TypeOK'
    BY <1>1 DEF TreeInv, TypeOK
  <2> QED BY <1>1, <2>1, Unmoved
<1>3. MountedAt' = MountedAt
  BY <1>1, <1>2, TableSame
<1>4. << >> \in Seq(Names) /\ GetByPath(<< >>) = root
  BY RootFound
<1>5. << >> \in DOMAIN MountedAt <=> root # NoNode
  BY <1>4, FoundInTable
<1>6. root # NoNode => path[root] = << >>
  BY TreeInvIsTree DEF IsTree
<1>7. Here' = IF root # NoNode THEN << >> ELSE NoNode
  BY <1>1, <1>6 DEF Here
<1> QED BY <1>1, <1>3, <1>5, <1>7 DEF Table!Restart, Here

LEMMA CommandsIsTable ==
  ASSUME TreeInv, NEW node \in Nodes, CommandsAdd(node) \/ CommandsRemove(node)
  PROVE  UNCHANGED Table!tableVars
<1>1. Mounted' = Mounted /\ TreeInv'
  BY CommandsStep
<1>2. status' = status
  BY DEF CommandsAdd, CommandsRemove
<1>3. CASE CommandsAdd(node)
  <2>1. /\ node \notin Mounted /\ node # current /\ current' = current
        /\ path' = [path EXCEPT ![node] = NoNode]
    BY <1>3 DEF CommandsAdd, Free
  <2>2. \A n \in Mounted : path'[n] = path[n]
    BY <2>1, OtherPaths
  <2>3. MountedAt' = MountedAt /\ Here' = Here
    BY <1>1, <2>1, <2>2, TableSame, HereStays
  <2> QED BY <1>2, <2>3 DEF Table!tableVars, Here
<1>4. CASE CommandsRemove(node)
  <2>1. UNCHANGED <<current, path>>
    BY <1>4 DEF CommandsRemove
  <2>2. MountedAt' = MountedAt
    BY <1>1, <2>1, TableSame
  <2> QED BY <1>2, <2>1, <2>2 DEF Table!tableVars
<1> QED BY <1>3, <1>4

LEMMA EmptyTable ==
  ASSUME NEW T, NEW pa, IsTable(T, {}, pa)
  PROVE  T = << >>
<1>1. DOMAIN T = {} /\ T = [q \in {} |-> T[q]]
  BY DEF IsTable
<1>2. << >> = [q \in {} |-> T[q]]
  OBVIOUS
<1> QED BY <1>1, <1>2

LEMMA DeinitIsTable ==
  ASSUME TreeInv, Deinit
  PROVE  Table!Clear
<1>1. Mounted' = {} /\ TreeInv'
  BY DeinitStep
<1>2. MountedAt' = << >>
  BY <1>1, MountedAtIsTableNext, EmptyTable
<1> QED BY <1>2 DEF Table!Clear, Deinit

\* The tree implements the table: every step of it is a step of the table.
THEOREM ImplementsMountTable == Spec => RefinesMountTable
<1>1. Init => Table!Init
  <2> SUFFICES ASSUME Init PROVE Table!Init
    OBVIOUS
  <2>1. TreeInv /\ TypeOK
    BY InitTree DEF TreeInv
  <2>2. Mounted = {}
    <3>1. IsReach({}, root, children)
      BY NoReach DEF Init
    <3> QED BY <2>1, <3>1, MountedIsReach, OneReach
  <2>3. IsTable(MountedAt, {}, path)
    BY <2>1, <2>2, MountedAtIsTable DEF TableInv
  <2>4. MountedAt = << >>
    BY <2>3, EmptyTable
  <2> QED BY <2>4 DEF Init, Table!Init
<1>2. TreeInv /\ [Next]_vars => [Table!Next]_(Table!tableVars)
  <2> SUFFICES ASSUME TreeInv, [Next]_vars PROVE [Table!Next]_(Table!tableVars)
    OBVIOUS
  <2>1. ASSUME NEW node \in Nodes, NEW p \in Paths, Mount(node, p) PROVE Table!Next
    <3>1. Table!Mount(node, p)
      BY <2>1, MountIsTable
    <3> QED BY <3>1 DEF Table!Next
  <2>2. ASSUME NEW p \in Paths, Unmount(p) PROVE Table!Next
    <3>1. Table!Unmount(p)
      BY <2>2, UnmountIsTable
    <3> QED BY <3>1 DEF Table!Next
  <2>3. ASSUME NEW p \in Paths, SetCurrentDir(TRUE, p) PROVE Table!Next
    <3>1. Table!ChangeDir(Table!Resolve(p))
      BY <2>3, NamesAreWords, CdIsTable
    <3> QED BY <3>1 DEF Table!Next
  <2>4. ASSUME NEW p \in Relative, SetCurrentDir(FALSE, p) PROVE Table!Next
    <3>1. p \in Seq(Words)
      BY NodeAssumption DEF Words
    <3>2. Table!ChangeDir(Table!Resolve(path[current] \o p))
      BY <3>1, <2>4, CdIsTable
    <3>3. current # NoNode
      BY <2>4 DEF SetCurrentDir
    <3> QED BY <3>2, <3>3 DEF Table!Next
  <2>5. ASSUME NEW node \in Nodes, CommandsAdd(node) \/ CommandsRemove(node)
        PROVE  UNCHANGED Table!tableVars
    BY <2>5, CommandsIsTable
  <2>6. ASSUME Reset PROVE Table!Next
    BY <2>6, ResetIsTable DEF Table!Next
  <2>7. ASSUME Deinit PROVE Table!Next
    BY <2>7, DeinitIsTable DEF Table!Next
  <2>8. ASSUME UNCHANGED vars PROVE UNCHANGED Table!tableVars
    <3>1. Mounted' = Mounted /\ TreeInv'
      <4>1. UNCHANGED <<root, current, path, parent, children, commands>>
        BY <2>8 DEF vars
      <4>2. TypeOK'
        BY <4>1 DEF TreeInv, TypeOK
      <4> QED BY <4>1, <4>2, Unmoved
    <3>2. MountedAt' = MountedAt
      BY <3>1, <2>8, TableSame DEF vars
    <3> QED BY <3>2, <2>8 DEF Table!tableVars, vars
  <2> QED BY <2>1, <2>2, <2>3, <2>4, <2>5, <2>6, <2>7, <2>8 DEF Next
<1> QED BY <1>1, <1>2, TreeInvariant, PTL DEF Spec, RefinesMountTable, Table!Spec

\* A relative path asked for is resolved against the current node's path.
THEOREM CdResolvesHolds == Spec => CdResolves
<1>1. TreeInv /\ [Next]_vars =>
        [\A p \in Relative :
           SetCurrentDir(FALSE, p) => Table!ChangeDir(Table!Resolve(path[current] \o p))]_vars
  <2> SUFFICES ASSUME TreeInv, NEW p \in Relative, SetCurrentDir(FALSE, p)
               PROVE  Table!ChangeDir(Table!Resolve(path[current] \o p))
    OBVIOUS
  <2>1. p \in Seq(Words)
    BY NodeAssumption DEF Words
  <2> QED BY <2>1, CdIsTable
<1> QED BY <1>1, TreeInvariant, PTL DEF Spec, CdResolves

=============================================================================
