--------------------------- MODULE SkipListProofs ---------------------------
(***************************************************************************)
(* The skip list is well formed at every moment and searches beside an     *)
(* insertion answer exactly, for any number of keys, levels and readers.   *)
(***************************************************************************)
EXTENDS SkipList, TLAPS

TypeOK ==
    /\ next \in [Nodes -> [Level -> 0..(N + 1)]]
    /\ max_height \in 1..kMaxHeight
    /\ doing \in [Threads -> {"idle", "ge", "lt", "link"}]
    /\ key \in [Threads -> 1..(N + 1)]
    /\ x \in [Threads -> Nodes]
    /\ level \in [Threads -> Level]
    /\ node \in [Readers -> 1..(N + 1)]
    /\ prev \in [Level -> Nodes]
    /\ height \in 1..kMaxHeight
    /\ linked \in [Level -> SUBSET Keys]

(* A level holds only nodes of every level below it. *)
AllNested == \A l, m \in Level : l <= m => linked[m] \subseteq linked[l]

(* Levels above max_height_ are empty. *)
HighLevelsEmpty == \A l \in Level : l >= max_height => linked[l] = {}

(* A walk stands at a node of its level, before the key it looks for. *)
WalkOK ==
    \A t \in Threads : Walking(t) =>
        /\ x[t] \in linked[level[t]] \cup {Head}
        /\ x[t] < key[t]
        /\ level[t] < max_height

(* The node p is the place on level l after which the new key belongs. *)
Place(l, p) ==
    /\ p \in linked[l] \cup {Head}
    /\ p < key[Writer]
    /\ next[p][l] >= key[Writer]

(* What Insert knows: the places on the levels it has left or still has to *)
(* link, and how far the new key is linked.                                *)
InsertOK ==
    /\ doing[Writer] \notin {"idle"} => key[Writer] \in Keys
    /\ doing[Writer] # "lt"
    /\ doing[Writer] = "ge" =>
         /\ key[Writer] \notin linked[0]
         /\ \A l \in Level : level[Writer] < l /\ l < max_height => Place(l, prev[l])
    /\ doing[Writer] = "link" =>
         /\ level[Writer] < height /\ height <= max_height
         /\ \A l \in Level : (key[Writer] \in linked[l]) <=> (l < level[Writer])
         /\ \A l \in Level : level[Writer] <= l /\ l < height => Place(l, prev[l])

(* Readers only read, and their iterators stand in the list. *)
ReadersOK ==
    \A r \in Readers : doing[r] # "link" /\ node[r] \in linked[0] \cup {NULL}

IInv == TypeOK /\ LevelsNested /\ AllNested /\ HighLevelsEmpty /\ WalkOK /\ InsertOK /\ ReadersOK

-----------------------------------------------------------------------------
(* The empty list is well formed. *)
LEMMA InitIInv == Init => IInv
  <1> SUFFICES ASSUME Init PROVE IInv
    OBVIOUS
  <1> USE ListAssumption DEF Init, Nodes, Keys, Level, Threads, Head, NULL
  <1>1. TypeOK
    BY DEF TypeOK
  <1>2. LevelsNested /\ AllNested
    BY DEF LevelsNested, AllNested, IsNext
  <1>3. HighLevelsEmpty /\ WalkOK /\ InsertOK /\ ReadersOK
    BY DEF HighLevelsEmpty, WalkOK, InsertOK, ReadersOK, Walking
  <1> QED
    BY <1>1, <1>2, <1>3 DEF IInv

(* The node a walk looks at next is a node of its level, or NULL. *)
LEMMA FollowingOK ==
  ASSUME IInv, NEW t \in Threads, Walking(t)
  PROVE  /\ IsNext(linked[level[t]], x[t], Following(t))
         /\ Following(t) \in 1..(N + 1)
         /\ level[t] \in Level
  <1>1. level[t] \in Level /\ x[t] \in linked[level[t]] \cup {Head}
    BY DEF IInv, TypeOK, WalkOK
  <1>2. IsNext(linked[level[t]], x[t], next[x[t]][level[t]])
    BY <1>1 DEF IInv, LevelsNested
  <1>3. linked[level[t]] \subseteq Keys
    BY <1>1 DEF IInv, TypeOK
  <1> QED
    BY <1>1, <1>2, <1>3, ListAssumption DEF IsNext, Following, Keys, NULL

(* A walk that goes on in its list. *)
LEMMA AdvanceIInv ==
  ASSUME IInv, NEW t \in Threads, Advance(t)
  PROVE  IInv'
  <1> USE DEF Advance, KeyIsAfterNode
  <1>1. /\ IsNext(linked[level[t]], x[t], Following(t))
        /\ Following(t) \in 1..(N + 1)
        /\ level[t] \in Level
    BY FollowingOK
  <1>2. key[t] \in 1..(N + 1)
    BY DEF IInv, TypeOK
  <1>3. Following(t) \in Keys /\ Following(t) \in linked[level[t]]
    BY <1>1, <1>2, ListAssumption DEF IsNext, NULL, Keys
  <1>4. TypeOK'
    BY <1>3 DEF IInv, TypeOK, Nodes, Keys
  <1>5. LevelsNested' /\ AllNested' /\ HighLevelsEmpty'
    BY DEF IInv, LevelsNested, AllNested, HighLevelsEmpty
  <1>6. WalkOK'
    BY <1>3 DEF IInv, TypeOK, WalkOK, Walking
  <1>7. InsertOK'
    BY DEF IInv, InsertOK, Place
  <1>8. ReadersOK'
    BY DEF IInv, ReadersOK
  <1> QED
    BY <1>4, <1>5, <1>6, <1>7, <1>8 DEF IInv

(* A walk that goes down a level. *)
LEMMA DescendIInv ==
  ASSUME IInv, NEW t \in Threads, Descend(t)
  PROVE  IInv'
  <1> USE DEF Descend, KeyIsAfterNode
  <1>1. /\ IsNext(linked[level[t]], x[t], Following(t))
        /\ Following(t) \in 1..(N + 1)
        /\ level[t] \in Level /\ level[t] - 1 \in Level
    BY FollowingOK, ListAssumption DEF Level
  <1>2. key[t] \in 1..(N + 1) /\ x[t] \in Nodes
    BY DEF IInv, TypeOK
  <1>3. linked[level[t]] \subseteq linked[level[t] - 1]
    BY <1>1 DEF IInv, LevelsNested
  <1>4. TypeOK'
    BY <1>1, <1>2 DEF IInv, TypeOK
  <1>5. LevelsNested' /\ AllNested' /\ HighLevelsEmpty'
    BY DEF IInv, LevelsNested, AllNested, HighLevelsEmpty
  <1>6. WalkOK'
    <2> SUFFICES ASSUME NEW u \in Threads, Walking(u)'
                 PROVE  /\ x[u] \in linked[level'[u]] \cup {Head}
                        /\ x[u] < key[u] /\ level'[u] < max_height
      BY DEF WalkOK
    <2>1. Walking(u) /\ x[u] \in linked[level[u]] \cup {Head} /\ x[u] < key[u] /\ level[u] < max_height
      BY DEF IInv, WalkOK, Walking
    <2>2. CASE u = t
      <3>1. level'[u] = level[t] - 1
        BY <2>2 DEF IInv, TypeOK
      <3> QED
        BY <1>1, <1>3, <2>1, <2>2, <3>1 DEF IInv, TypeOK, Level
    <2>3. CASE u # t
      BY <2>1, <2>3 DEF IInv, TypeOK
    <2> QED
      BY <2>2, <2>3
  <1>7. InsertOK'
    <2>1. CASE t # Writer
      BY <2>1 DEF IInv, InsertOK, Place, TypeOK, Threads
    <2>2. CASE t = Writer
      <3>1. doing[Writer] = "ge"
        BY <2>2 DEF IInv, InsertOK, Walking
      <3>2. Place(level[t], x[t])
        BY <1>1, <1>2, <2>2 DEF Place, IInv, WalkOK, Following
      <3>3. ASSUME NEW l \in Level, level[t] - 1 < l, l < max_height
            PROVE  Place(l, prev'[l])
        <4>1. CASE l = level[t]
          BY <1>1, <2>2, <3>2, <4>1 DEF IInv, TypeOK
        <4>2. CASE l # level[t]
          <5>1. level[t] < l
            BY <1>1, <3>3, <4>2 DEF Level
          <5>2. Place(l, prev[l])
            BY <2>2, <3>1, <3>3, <5>1 DEF IInv, InsertOK
          <5> QED
            BY <2>2, <4>2, <5>2 DEF IInv, TypeOK
        <4> QED
          BY <4>1, <4>2
      <3> QED
        BY <1>1, <2>2, <3>1, <3>3 DEF IInv, InsertOK, Place, TypeOK, Threads
    <2> QED
      BY <2>1, <2>2
  <1>8. ReadersOK'
    BY DEF IInv, ReadersOK
  <1> QED
    BY <1>4, <1>5, <1>6, <1>7, <1>8 DEF IInv

(* A reader starts a search. *)
LEMMA StartSearchIInv ==
  ASSUME IInv, NEW r \in Readers, StartSearch(r)
  PROVE  IInv'
  <1> USE DEF StartSearch, StartWalk
  <1>0. r \in Threads /\ r # Writer
    BY ListAssumption DEF Threads
  <1>1. PICK top \in 0..(max_height - 1), k \in 1..(N + 1), what \in {"ge", "lt"} :
            StartWalk(r, what, k, top)
    <2>1. node[r] \in 1..(N + 1) /\ NULL \in 1..(N + 1) /\ Keys \subseteq 1..(N + 1)
      BY ListAssumption DEF IInv, TypeOK, Keys, NULL
    <2> QED
      BY <2>1
  <1>2. top \in Level /\ top < max_height
    BY ListAssumption DEF IInv, TypeOK, Level
  <1>4. TypeOK'
    <2>1. Head \in Nodes
      BY ListAssumption DEF Nodes, Head
    <2> QED
      BY <1>0, <1>1, <1>2, <2>1 DEF IInv, TypeOK
  <1>5. LevelsNested' /\ AllNested' /\ HighLevelsEmpty'
    BY DEF IInv, LevelsNested, AllNested, HighLevelsEmpty
  <1>6. WalkOK'
    BY <1>0, <1>1, <1>2 DEF IInv, TypeOK, WalkOK, Walking, Head
  <1>7. InsertOK'
    BY <1>0, <1>1 DEF IInv, InsertOK, Place, TypeOK, Threads
  <1>8. ReadersOK'
    BY <1>0, <1>1 DEF IInv, ReadersOK, TypeOK
  <1> QED
    BY <1>4, <1>5, <1>6, <1>7, <1>8 DEF IInv

(* A search returns to its iterator. *)
LEMMA FinishSearchIInv ==
  ASSUME IInv, NEW r \in Readers, FinishSearch(r)
  PROVE  IInv'
  <1> USE DEF FinishSearch, Stopped
  <1>0. r \in Threads /\ r # Writer
    BY ListAssumption DEF Threads
  <1>1. /\ IsNext(linked[0], x[r], Following(r))
        /\ Following(r) \in 1..(N + 1)
        /\ x[r] \in linked[0] \cup {Head}
        /\ linked[0] \subseteq Keys
    BY <1>0, FollowingOK DEF IInv, WalkOK, TypeOK
  <1>2. node'[r] \in linked[0] \cup {NULL}
    BY <1>1 DEF IInv, TypeOK, IsNext
  <1>4. TypeOK'
    BY <1>0, <1>1, <1>2, ListAssumption DEF IInv, TypeOK, Keys, NULL
  <1>5. LevelsNested' /\ AllNested' /\ HighLevelsEmpty'
    BY DEF IInv, LevelsNested, AllNested, HighLevelsEmpty
  <1>6. WalkOK'
    BY <1>0 DEF IInv, TypeOK, WalkOK, Walking
  <1>7. InsertOK'
    BY <1>0 DEF IInv, InsertOK, Place, TypeOK, Threads
  <1>8. ReadersOK'
    BY <1>0, <1>2 DEF IInv, ReadersOK, TypeOK
  <1> QED
    BY <1>4, <1>5, <1>6, <1>7, <1>8 DEF IInv

(* SeekToFirst and Next. *)
LEMMA FollowLinkIInv ==
  ASSUME IInv, NEW r \in Readers, FollowLink(r)
  PROVE  IInv'
  <1> USE DEF FollowLink
  <1>0. 0 \in Level
    BY ListAssumption DEF Level
  <1>1. PICK n \in {Head, node[r]} \ {NULL} : node' = [node EXCEPT ![r] = next[n][0]]
    OBVIOUS
  <1>2. n \in linked[0] \cup {Head}
    BY DEF IInv, ReadersOK
  <1>3. next[n][0] \in linked[0] \cup {NULL}
    BY <1>0, <1>2 DEF IInv, LevelsNested, IsNext
  <1>4. TypeOK'
    BY <1>0, <1>1, <1>3, ListAssumption DEF IInv, TypeOK, Keys, NULL
  <1>5. LevelsNested' /\ AllNested' /\ HighLevelsEmpty' /\ WalkOK'
    BY DEF IInv, LevelsNested, AllNested, HighLevelsEmpty, WalkOK, Walking
  <1>7. InsertOK'
    BY DEF IInv, InsertOK, Place
  <1>8. ReadersOK'
    BY <1>1, <1>3 DEF IInv, ReadersOK, TypeOK
  <1> QED
    BY <1>4, <1>5, <1>7, <1>8 DEF IInv

(* An insertion starts. *)
LEMMA StartInsertIInv ==
  ASSUME IInv, NEW k \in Keys, StartInsert(k)
  PROVE  IInv'
  <1> USE DEF StartInsert, StartWalk
  <1>0. Writer \in Threads /\ Writer \notin Readers
    BY ListAssumption DEF Threads
  <1>2. max_height - 1 \in Level
    BY ListAssumption DEF IInv, TypeOK, Level
  <1>3. k \in 1..(N + 1) /\ Head \in Nodes
    BY ListAssumption DEF Keys, Nodes, Head
  <1>4. TypeOK'
    BY <1>0, <1>2, <1>3 DEF IInv, TypeOK
  <1>5. LevelsNested' /\ AllNested' /\ HighLevelsEmpty'
    BY DEF IInv, LevelsNested, AllNested, HighLevelsEmpty
  <1>6. WalkOK'
    BY <1>0, <1>2 DEF IInv, TypeOK, WalkOK, Walking, Head, Keys
  <1>7. InsertOK'
    BY <1>0, <1>2, ListAssumption DEF IInv, InsertOK, TypeOK, Level
  <1>8. ReadersOK'
    BY <1>0 DEF IInv, ReadersOK, TypeOK
  <1> QED
    BY <1>4, <1>5, <1>6, <1>7, <1>8 DEF IInv

(* The place is found; new levels are empty and start at the head. *)
LEMMA ChooseHeightIInv ==
  ASSUME IInv, NEW h \in 1..kMaxHeight, ChooseHeight(h)
  PROVE  IInv'
  <1> USE DEF ChooseHeight, Stopped, KeyIsAfterNode
  <1>0. Writer \in Threads /\ Writer \notin Readers /\ 0 \in Level
    BY ListAssumption DEF Threads, Level
  <1>1. /\ IsNext(linked[0], x[Writer], Following(Writer))
        /\ Following(Writer) \in 1..(N + 1)
        /\ x[Writer] \in linked[0] \cup {Head}
        /\ x[Writer] < key[Writer]
        /\ x[Writer] \in Nodes /\ key[Writer] \in Keys
        /\ doing[Writer] = "ge" /\ level[Writer] = 0
    BY <1>0, FollowingOK DEF IInv, WalkOK, TypeOK, InsertOK, Walking
  <1>2. /\ max_height' \in 1..kMaxHeight /\ h <= max_height' /\ max_height <= max_height'
        /\ Head \in Nodes
    BY ListAssumption DEF IInv, TypeOK, Head, Nodes
  <1>4. TypeOK'
    BY <1>0, <1>1, <1>2 DEF IInv, TypeOK
  <1>5. LevelsNested' /\ AllNested'
    BY DEF IInv, LevelsNested, AllNested
  <1>6. HighLevelsEmpty'
    BY <1>2, ListAssumption DEF IInv, HighLevelsEmpty, TypeOK, Level
  <1>7. WalkOK'
    <2> SUFFICES ASSUME NEW u \in Threads, Walking(u)'
                 PROVE  /\ x[u] \in linked[level[u]] \cup {Head}
                        /\ x[u] < key[u] /\ level[u] < max_height'
      BY DEF WalkOK
    <2>1. Walking(u)
      BY <1>0 DEF IInv, TypeOK, Walking
    <2>2. x[u] \in linked[level[u]] \cup {Head} /\ x[u] < key[u] /\ level[u] < max_height
      BY <2>1 DEF IInv, WalkOK
    <2> QED
      BY <1>2, <2>2 DEF IInv, TypeOK, Level
  <1>8. InsertOK'
    <2>1. \A l \in Level : Place(l, prev'[l])
      <3> SUFFICES ASSUME NEW l \in Level PROVE Place(l, prev'[l])
        OBVIOUS
      <3>1. CASE l >= max_height
        <4>1. linked[l] = {} /\ prev'[l] = Head
          BY <3>1 DEF IInv, HighLevelsEmpty
        <4>2. IsNext(linked[l], Head, next[Head][l])
          BY DEF IInv, LevelsNested
        <4> QED
          BY <1>1, <4>1, <4>2, ListAssumption DEF IsNext, Place, NULL, Keys, Head
      <3>2. CASE l < max_height /\ l = 0
        BY <1>1, <3>2 DEF Place, Following, Keys, Nodes, IInv, TypeOK
      <3>3. CASE l < max_height /\ l # 0
        BY <1>1, <3>3, ListAssumption DEF IInv, InsertOK, TypeOK, Level
      <3> QED
        BY <3>1, <3>2, <3>3 DEF IInv, TypeOK, Level
    <2>2. \A l \in Level : key[Writer] \notin linked[l]
      BY <1>0, <1>1, ListAssumption DEF IInv, InsertOK, AllNested, Level
    <2> QED
      BY <1>0, <1>1, <1>2, <2>1, <2>2 DEF InsertOK, Place, TypeOK, IInv, Level
  <1>9. ReadersOK'
    BY <1>0 DEF IInv, ReadersOK, TypeOK
  <1> QED
    BY <1>4, <1>5, <1>6, <1>7, <1>8, <1>9 DEF IInv

(* A node is linked on one more level. *)
LEMMA LinkLevelIInv ==
  ASSUME IInv, LinkLevel
  PROVE  IInv'
  <1> DEFINE k == key[Writer]
             l == level[Writer]
             p == prev[l]
             q == next[p][l]
  <1>1. /\ Writer \in Threads /\ Writer \notin Readers
        /\ k \in Keys /\ l \in Level /\ p \in Nodes /\ p < k /\ p # k
        /\ l < height /\ height \in 1..kMaxHeight /\ height <= max_height
        /\ p \in linked[l] \cup {Head} /\ k <= q
        /\ linked[l] \subseteq Keys
    <2>1. Writer \in Threads /\ Writer \notin Readers
      BY ListAssumption DEF Threads
    <2>2. l \in Level /\ height \in 1..kMaxHeight /\ p \in Nodes /\ linked[l] \subseteq Keys
      BY <2>1 DEF IInv, TypeOK
    <2>3. k \in Keys /\ l < height /\ height <= max_height /\ Place(l, p)
      BY <2>2 DEF IInv, InsertOK, LinkLevel, Level
    <2> QED
      BY <2>1, <2>2, <2>3 DEF Place, Keys, Nodes
  <1>2. \A m \in Level : (k \in linked[m]) <=> (m < l)
    BY DEF IInv, InsertOK, LinkLevel
  <1>3. k \in Nodes /\ q \in 0..(N + 1) /\ k \in 0..(N + 1)
    BY <1>1, ListAssumption DEF IInv, TypeOK, Keys, Nodes
  <1>4. IsNext(linked[l], p, q) /\ k < q
    <2>1. IsNext(linked[l], p, q)
      BY <1>1 DEF IInv, LevelsNested
    <2> QED
      BY <1>1, <1>2, <1>3, <2>1, ListAssumption DEF IsNext, NULL, Keys, Level
  <1>5. next' = [next EXCEPT ![k][l] = q, ![p][l] = k]
    BY DEF LinkLevel
  <1>6. linked' = [linked EXCEPT ![l] = @ \cup {k}]
    BY DEF LinkLevel
  <1>7. /\ next'[k][l] = q /\ next'[p][l] = k
        /\ \A n \in Nodes : \A m \in Level :
              (m # l \/ (n # k /\ n # p)) => next'[n][m] = next[n][m]
    BY <1>1, <1>3, <1>5 DEF IInv, TypeOK
  <1>8. linked'[l] = linked[l] \cup {k} /\ \A m \in Level : m # l => linked'[m] = linked[m]
    BY <1>1, <1>6 DEF IInv, TypeOK
  <1>9. \A m \in Level : linked[m] \subseteq linked'[m] /\ linked[m] \subseteq Nodes
    <2>1. \A m \in Level : linked[m] \subseteq Keys
      BY DEF IInv, TypeOK
    <2>2. Keys \subseteq Nodes
      BY ListAssumption DEF Keys, Nodes
    <2> QED
      BY <1>8, <2>1, <2>2
  <1>10. /\ UNCHANGED <<max_height, key, x, node, prev, height>>
         /\ level' = [level EXCEPT ![Writer] = IF l + 1 < height THEN l + 1 ELSE 0]
         /\ doing' = [doing EXCEPT ![Writer] = IF l + 1 < height THEN "link" ELSE "idle"]
         /\ doing[Writer] = "link"
    BY DEF LinkLevel
  <1> HIDE DEF k, l, p, q
  <1>11. l + 1 < height => l + 1 \in Level
    BY <1>1, ListAssumption DEF Level
  <1>12. TypeOK'
    <2>1. next' \in [Nodes -> [Level -> 0..(N + 1)]]
      BY <1>1, <1>3, <1>5 DEF IInv, TypeOK
    <2>2. linked' \in [Level -> SUBSET Keys]
      BY <1>1, <1>6 DEF IInv, TypeOK
    <2>3. level' \in [Threads -> Level] /\ doing' \in [Threads -> {"idle", "ge", "lt", "link"}]
      <3>1. 0 \in Level
        BY ListAssumption DEF Level
      <3>2. (IF l + 1 < height THEN l + 1 ELSE 0) \in Level
        BY <1>11, <3>1
      <3> QED
        BY <1>10, <3>2 DEF IInv, TypeOK
    <2> QED
      BY <1>10, <2>1, <2>2, <2>3 DEF IInv, TypeOK
  <1>13. AllNested'
    <2> SUFFICES ASSUME NEW a \in Level, NEW b \in Level, a <= b
                 PROVE  linked'[b] \subseteq linked'[a]
      BY DEF AllNested
    <2>1. linked[b] \subseteq linked[a]
      BY DEF IInv, AllNested
    <2>2. CASE b = l
      <3>1. k \in linked'[a]
        BY <1>1, <1>2, <1>8, <1>9, <2>2 DEF Level
      <3> QED
        BY <1>8, <1>9, <2>1, <2>2, <3>1
    <2>3. CASE b # l
      BY <1>8, <1>9, <2>1, <2>3
    <2> QED
      BY <2>2, <2>3
  <1>14. LevelsNested'
    <2>1. ASSUME NEW m \in Level, NEW n \in linked'[m] \cup {Head}
          PROVE  IsNext(linked'[m], n, next'[n][m])
      <3>0. n \in Nodes
        BY <1>1, <1>3, <1>8, <1>9, ListAssumption DEF Nodes, Head
      <3>1. CASE m # l
        <4>1. IsNext(linked[m], n, next[n][m])
          BY <1>8, <2>1, <3>1 DEF IInv, LevelsNested
        <4> QED
          BY <1>7, <1>8, <3>0, <3>1, <4>1 DEF IsNext, NULL
      <3>2. CASE m = l /\ n = p
        BY <1>1, <1>3, <1>4, <1>7, <1>8, <3>2 DEF IsNext, NULL, Nodes, Keys
      <3>3. CASE m = l /\ n = k
        BY <1>1, <1>3, <1>4, <1>7, <1>8, <3>3 DEF IsNext, NULL, Nodes, Keys
      <3>4. CASE m = l /\ n # p /\ n # k
        <4>1. n \in linked[l] \cup {Head}
          BY <1>8, <3>4
        <4>2. IsNext(linked[l], n, next[n][l])
          BY <1>1, <4>1 DEF IInv, LevelsNested
        <4>3. next[n][l] = next'[n][m]
          BY <1>1, <1>7, <3>0, <3>4
        <4>4. n < k => next[n][l] <= k
          <5>1. ASSUME n < k PROVE n < p
            BY <1>1, <1>3, <1>4, <3>0, <3>4, <4>1, <5>1 DEF IsNext, Nodes, Head, Keys
          <5>2. ASSUME n < p PROVE next[n][l] <= p
            BY <1>1, <3>0, <4>2, <5>2 DEF IsNext, Nodes, Head, Keys
          <5>3. next[n][l] \in 0..(N + 1)
            BY <1>1, <3>0 DEF IInv, TypeOK
          <5> QED
            BY <1>1, <1>3, <5>1, <5>2, <5>3 DEF Nodes, Keys
        <4> QED
          BY <1>8, <3>4, <4>2, <4>3, <4>4 DEF IsNext, NULL
      <3> QED
        BY <3>1, <3>2, <3>3, <3>4
    <2>2. \A m \in Level : m > 0 => linked'[m] \subseteq linked'[m - 1]
      BY <1>13, ListAssumption DEF AllNested, Level
    <2> QED
      BY <2>1, <2>2 DEF LevelsNested
  <1>15. HighLevelsEmpty'
    <2>1. \A m \in Level : m >= max_height => m # l
      BY <1>1 DEF IInv, TypeOK, Level
    <2> QED
      BY <1>8, <1>10, <2>1 DEF IInv, HighLevelsEmpty
  <1>16. WalkOK'
    <2> SUFFICES ASSUME NEW u \in Threads, Walking(u)'
                 PROVE  /\ x[u] \in linked'[level'[u]] \cup {Head}
                        /\ x[u] < key[u] /\ level'[u] < max_height
      BY <1>10 DEF WalkOK
    <2>1. u # Writer /\ Walking(u) /\ level'[u] = level[u] /\ level[u] \in Level
      BY <1>1, <1>10 DEF IInv, TypeOK, Walking
    <2>2. x[u] \in linked[level[u]] \cup {Head} /\ x[u] < key[u] /\ level[u] < max_height
      BY <2>1 DEF IInv, WalkOK
    <2> QED
      BY <1>9, <2>1, <2>2
  <1>17. InsertOK'
    <2>1. CASE ~(l + 1 < height)
      <3>1. doing'[Writer] = "idle"
        BY <1>1, <1>10, <2>1 DEF IInv, TypeOK
      <3> QED
        BY <3>1 DEF InsertOK
    <2>2. CASE l + 1 < height
      <3>1. doing'[Writer] = "link" /\ level'[Writer] = l + 1 /\ key'[Writer] = k
        BY <1>1, <1>10, <2>2 DEF IInv, TypeOK, k
      <3>2. \A m \in Level : (k \in linked'[m]) <=> (m < l + 1)
        BY <1>1, <1>2, <1>8 DEF Level
      <3>3. ASSUME NEW m \in Level, l + 1 <= m, m < height
            PROVE  Place(m, prev[m])'
        <4>1. Place(m, prev[m])
          BY <1>1, <1>10, <3>3 DEF IInv, InsertOK, Level, l
        <4>2. prev[m] \in Nodes /\ m # l
          <5>1. m # l
            BY <1>1, <3>3 DEF Level
          <5> QED
            BY <5>1 DEF IInv, TypeOK
        <4> QED
          BY <1>7, <1>9, <1>10, <4>1, <4>2 DEF Place
      <3> QED
        BY <1>1, <1>10, <2>2, <3>1, <3>2, <3>3 DEF InsertOK, k
    <2> QED
      BY <2>1, <2>2
  <1>18. ReadersOK'
    <2>1. 0 \in Level
      BY ListAssumption DEF Level
    <2>2. \A r \in Readers : r \in Threads /\ doing'[r] = doing[r]
      BY <1>1, <1>10 DEF IInv, TypeOK, Threads
    <2> QED
      BY <1>9, <1>10, <2>1, <2>2 DEF IInv, ReadersOK
  <1> QED
    BY <1>12, <1>13, <1>14, <1>15, <1>16, <1>17, <1>18 DEF IInv

(* Every step keeps the inductive invariant. *)
LEMMA NextIInv == IInv /\ [Next]_vars => IInv'
  <1> SUFFICES ASSUME IInv, [Next]_vars PROVE IInv'
    OBVIOUS
  <1>1. CASE \E t \in Threads : Advance(t) \/ Descend(t)
    BY <1>1, AdvanceIInv, DescendIInv
  <1>2. CASE \E r \in Readers : StartSearch(r) \/ FinishSearch(r) \/ FollowLink(r)
    BY <1>2, StartSearchIInv, FinishSearchIInv, FollowLinkIInv
  <1>3. CASE \E k \in Keys : StartInsert(k)
    BY <1>3, StartInsertIInv
  <1>4. CASE \E h \in 1..kMaxHeight : ChooseHeight(h)
    BY <1>4, ChooseHeightIInv
  <1>5. CASE LinkLevel
    BY <1>5, LinkLevelIInv
  <1>6. CASE UNCHANGED vars
    BY <1>6 DEF vars, IInv, TypeOK, LevelsNested, AllNested, HighLevelsEmpty, WalkOK, Walking,
                InsertOK, Place, ReadersOK
  <1> QED
    BY <1>1, <1>2, <1>3, <1>4, <1>5, <1>6 DEF Next

(* At every moment of every insertion each level is a sorted sublist of    *)
(* the one below (SkipList::Insert links a node from the bottom up).       *)
THEOREM ListWellFormed == Spec => []LevelsNested
  <1>1. Spec => []IInv
    BY InitIInv, NextIInv, PTL DEF Spec
  <1>2. IInv => LevelsNested
    BY DEF IInv
  <1> QED
    BY <1>1, <1>2, PTL

(* What a search returns to an iterator is exact at the moment it returns. *)
LEMMA AnswerStep ==
  ASSUME IInv, [Next]_vars, NEW r \in Readers
  PROVE  SearchAnswer(r)
  <1> SUFFICES ASSUME doing[r] # "idle", doing'[r] = "idle"
               PROVE  IF doing[r] = "ge" THEN IsNext(linked[0], key[r] - 1, node'[r])
                      ELSE IF node'[r] = NULL THEN \A k \in linked[0] : key[r] <= k
                      ELSE /\ node'[r] \in linked[0] /\ node'[r] < key[r]
                           /\ \A k \in linked[0] : node'[r] < k => key[r] <= k
    BY DEF SearchAnswer
  <1>0. r \in Threads /\ r # Writer /\ doing \in [Threads -> {"idle", "ge", "lt", "link"}]
    BY ListAssumption DEF Threads, IInv, TypeOK
  <1>1. FinishSearch(r)
    BY <1>0 DEF Next, vars, Advance, Descend, StartSearch, FinishSearch, FollowLink, StartInsert,
                StartWalk, ChooseHeight, LinkLevel
  <1>2. /\ Walking(r) /\ level[r] = 0 /\ ~(Following(r) < key[r])
        /\ doing[r] \in {"ge", "lt"}
    BY <1>1 DEF FinishSearch, Stopped, KeyIsAfterNode, Walking
  <1>3. /\ IsNext(linked[0], x[r], Following(r)) /\ Following(r) \in 1..(N + 1)
        /\ x[r] \in linked[0] \cup {Head} /\ x[r] < key[r]
        /\ linked[0] \subseteq Keys /\ key[r] \in 1..(N + 1) /\ x[r] \in Nodes
    BY <1>0, <1>2, FollowingOK DEF IInv, WalkOK, TypeOK
  <1>4. node'[r] = IF doing[r] = "ge" THEN Following(r) ELSE IF x[r] = Head THEN NULL ELSE x[r]
    BY <1>1 DEF FinishSearch, IInv, TypeOK
  <1>5. CASE doing[r] = "ge"
    BY <1>2, <1>3, <1>4, <1>5 DEF IsNext, Keys, Nodes, NULL
  <1>6. CASE doing[r] # "ge" /\ x[r] = Head
    BY <1>2, <1>3, <1>4, <1>6, ListAssumption DEF IsNext, Keys, NULL, Head
  <1>7. CASE doing[r] # "ge" /\ x[r] # Head
    BY <1>2, <1>3, <1>4, <1>7, ListAssumption DEF IsNext, Keys, Nodes, NULL
  <1> QED
    BY <1>5, <1>6, <1>7

(* Searches beside a running insertion answer exactly: no key that is in   *)
(* the list when the search returns is missed, none is invented            *)
(* (FindGreaterOrEqual, FindLessThan, FindLast without a lock).            *)
THEOREM SearchesAreExact == Spec => SearchesExact
  <1>1. Spec => []IInv
    BY InitIInv, NextIInv, PTL DEF Spec
  <1>2. IInv /\ [Next]_vars => [\A r \in Readers : SearchAnswer(r)]_vars
    BY AnswerStep
  <1> QED
    BY <1>1, <1>2, PTL DEF Spec, SearchesExact
=============================================================================
