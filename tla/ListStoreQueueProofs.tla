------------------------ MODULE ListStoreQueueProofs ------------------------
(***************************************************************************)
(* While no write or read fails and no object is evicted under a command,  *)
(* the records of a LIST are consistent and implement the bounded queue,   *)
(* for every number of threads and every value of the constants.           *)
(***************************************************************************)
EXTENDS ListStoreProofs

(* The values at the ids s in the records f. *)
ValuesOf(s, f) == [i \in 1..Len(s) |-> f[s[i]]]

LEMMA ValuesOfType ==
    ASSUME NEW s \in Seq(Ids), NEW f, \A k \in IdsOf(s) : f[k] \in Data
    PROVE  /\ ValuesOf(s, f) \in Seq(Data)
           /\ Len(ValuesOf(s, f)) = Len(s)
           /\ \A i \in 1..Len(s) : ValuesOf(s, f)[i] = f[s[i]]
  <1>1. \A i \in 1..Len(s) : f[s[i]] \in Data
    BY DEF IdsOf
  <1>2. Len(s) \in Nat
    OBVIOUS
  <1>3. QED
    BY <1>1, <1>2 DEF ValuesOf

(* Two sequences of values with the same length and elements are equal. *)
LEMMA SeqEqual ==
    ASSUME NEW p \in Seq(Data), NEW q \in Seq(Data), Len(p) = Len(q),
           \A i \in 1..Len(p) : p[i] = q[i]
    PROVE  p = q
  OBVIOUS

LEMMA ValuesOfTail ==
    ASSUME NEW s \in Seq(Ids), s # <<>>, NEW f, NEW g,
           \A k \in IdsOf(s) : f[k] \in Data,
           \A k \in IdsOf(Tail(s)) : g[k] = f[k]
    PROVE  ValuesOf(Tail(s), g) = Tail(ValuesOf(s, f))
  <1> DEFINE r == Tail(s)
             q == ValuesOf(s, f)
  <1>1. /\ r \in Seq(Ids) /\ Len(r) = Len(s) - 1 /\ Len(s) \in Nat
        /\ \A i \in 1..Len(r) : r[i] = s[i + 1] /\ i + 1 \in 1..Len(s)
    <2>1. r \in Seq(Ids) /\ Len(r) = Len(s) - 1 /\ Len(s) \in Nat
      OBVIOUS
    <2>2. \A i \in 1..Len(r) : r[i] = s[i + 1]
      OBVIOUS
    <2> HIDE DEF r
    <2>3. \A i \in 1..Len(r) : i + 1 \in 1..Len(s)
      BY <2>1
    <2>4. QED
      BY <2>1, <2>2, <2>3
  <1>a. \A k \in IdsOf(r) : g[k] = f[k]
    OBVIOUS
  <1> HIDE DEF r
  <1>2. IdsOf(r) \subseteq IdsOf(s)
    <2> SUFFICES ASSUME NEW i \in 1..Len(r) PROVE r[i] \in IdsOf(s)
      BY DEF IdsOf
    <2>1. r[i] = s[i + 1] /\ i + 1 \in 1..Len(s)
      BY <1>1
    <2>2. QED
      BY <2>1 DEF IdsOf
  <1>3. q \in Seq(Data) /\ Len(q) = Len(s) /\ \A i \in 1..Len(s) : q[i] = f[s[i]]
    BY ValuesOfType
  <1>4. /\ ValuesOf(r, g) \in Seq(Data) /\ Len(ValuesOf(r, g)) = Len(r)
        /\ \A i \in 1..Len(r) : ValuesOf(r, g)[i] = g[r[i]]
    <2>1. \A k \in IdsOf(r) : g[k] \in Data
      BY <1>a, <1>2
    <2>2. QED
      BY <1>1, <2>1, ValuesOfType
  <1> HIDE DEF q
  <1>5. Len(q) > 0 /\ q # <<>>
    BY <1>1, <1>3
  <1>6. Tail(q) \in Seq(Data) /\ Len(Tail(q)) = Len(r) /\ \A i \in 1..Len(r) : Tail(q)[i] = q[i + 1]
    BY <1>1, <1>3, <1>5
  <1>7. ASSUME NEW i \in 1..Len(r) PROVE ValuesOf(r, g)[i] = Tail(q)[i]
    <2>1. r[i] \in IdsOf(r) /\ r[i] = s[i + 1] /\ i + 1 \in 1..Len(s)
      BY <1>1 DEF IdsOf
    <2>2. QED
      BY <1>a, <2>1, <1>3, <1>4, <1>6
  <1>8. ValuesOf(r, g) = Tail(q)
    BY <1>4, <1>6, <1>7, SeqEqual, SMTT(30)
  <1>9. QED
    BY <1>8 DEF q, r

LEMMA ValuesOfAppend ==
    ASSUME NEW s \in Seq(Ids), NEW k \in Ids, NEW f, NEW g, NEW v \in Data,
           \A i \in IdsOf(s) : f[i] \in Data /\ g[i] = f[i],
           g[k] = v
    PROVE  ValuesOf(Append(s, k), g) = Append(ValuesOf(s, f), v)
  <1> DEFINE r == Append(s, k)
             q == ValuesOf(s, f)
  <1>1. /\ r \in Seq(Ids) /\ Len(r) = Len(s) + 1 /\ r[Len(s) + 1] = k
        /\ \A i \in 1..Len(s) : r[i] = s[i]
    OBVIOUS
  <1>2. \A i \in 1..Len(s) : r[i] \in IdsOf(s)
    BY <1>1 DEF IdsOf
  <1>3. IdsOf(r) \subseteq IdsOf(s) \cup {k}
    BY <1>1, <1>2 DEF IdsOf
  <1>4. q \in Seq(Data) /\ Len(q) = Len(s) /\ \A i \in 1..Len(s) : q[i] = f[s[i]]
    BY ValuesOfType
  <1>5. \A i \in IdsOf(r) : g[i] \in Data
    BY <1>3
  <1> HIDE DEF q, r
  <1>6. /\ ValuesOf(r, g) \in Seq(Data) /\ Len(ValuesOf(r, g)) = Len(r)
        /\ \A i \in 1..Len(r) : ValuesOf(r, g)[i] = g[r[i]]
    BY <1>1, <1>5, ValuesOfType
  <1>7. /\ Append(q, v) \in Seq(Data) /\ Len(Append(q, v)) = Len(r)
        /\ Append(q, v)[Len(s) + 1] = v /\ \A i \in 1..Len(s) : Append(q, v)[i] = q[i]
    BY <1>1, <1>4
  <1>8. \A i \in 1..Len(s) : ValuesOf(r, g)[i] = Append(q, v)[i]
    BY <1>1, <1>2, <1>4, <1>6, <1>7
  <1>9. ValuesOf(r, g)[Len(s) + 1] = v
    BY <1>1, <1>6
  <1>10. \A i \in 1..Len(r) : ValuesOf(r, g)[i] = Append(q, v)[i]
    BY <1>1, <1>7, <1>8, <1>9
  <1>11. ValuesOf(r, g) = Append(q, v)
    BY <1>6, <1>7, <1>10, SeqEqual, SMTT(30)
  <1>12. QED
    BY <1>11 DEF q, r

-----------------------------------------------------------------------------
(* The inductive invariant: all commands use the registered object, which    *)
(* is as constructed until it is loaded and agrees with the disk after that. *)

OneObject == \A t \in Threads : held[t] # None => held[t] = cur

ReadyIsLoaded == \A t \in Threads : pc[t] = "ready" => cur \in loaded

FreshIsEmpty == (cur # None /\ cur \notin loaded) => list[cur] = <<>>

QInv ==
    /\ HeaderListsItems
    /\ CacheMatchesStore
    /\ OneObject
    /\ ReadyIsLoaded
    /\ FreshIsEmpty

LEMMA QInvInit == Init => QInv
  <1> SUFFICES ASSUME Init PROVE QInv
    OBVIOUS
  <1>1. HeaderListsItems
    BY DEF Init, HeaderListsItems, IdsOf
  <1>2. CacheMatchesStore /\ OneObject /\ ReadyIsLoaded /\ FreshIsEmpty
    BY DEF Init, CacheMatchesStore, OneObject, ReadyIsLoaded, FreshIsEmpty
  <1>3. QED
    BY <1>1, <1>2 DEF QInv

(* Where a command stands when its body begins. *)
LEMMA AtBody ==
    ASSUME IInv, QInv, NEW t \in Threads, pc[t] = "ready"
    PROVE  /\ held[t] = cur /\ cur \in Objects /\ cur \in loaded
           /\ list[held[t]] = dbList
           /\ dbList \in Seq(Ids) /\ IdsOf(dbList) = DOMAIN items
           /\ \A k \in IdsOf(dbList) : items[k] \in Data
  <1>1. held[t] \in Objects /\ held[t] # None
    BY HeldObject, Constants DEF IInv
  <1>2. held[t] = cur /\ cur \in loaded
    BY <1>1 DEF QInv, OneObject, ReadyIsLoaded
  <1>3. QED
    BY <1>1, <1>2 DEF QInv, CacheMatchesStore, HeaderListsItems, IInv, DiskOK

(* A body that leaves the same ids s in its object and on disk. *)
LEMMA BodyStep ==
    ASSUME IInv, QInv, NEW t \in Threads, pc[t] = "ready", NEW s,
           list' = [list EXCEPT ![held[t]] = s], dbList' = s, IdsOf(s) = DOMAIN items',
           Return(t), UNCHANGED <<cur, loaded>>
    PROVE  QInv'
  <1>1. held[t] = cur /\ cur \in Objects /\ cur \in loaded
    BY AtBody
  <1>2. list'[cur] = s
    BY <1>1 DEF IInv, MemoryOK
  <1>3. \A u \in Threads : held'[u] \in {held[u], None}
    BY DEF Return, IInv, ThreadsOK
  <1>4. HeaderListsItems' /\ CacheMatchesStore' /\ FreshIsEmpty'
    BY <1>1, <1>2 DEF HeaderListsItems, CacheMatchesStore, FreshIsEmpty, IdsOf
  <1>5. OneObject'
    BY <1>3 DEF QInv, OneObject
  <1>6. ReadyIsLoaded'
    BY <1>1 DEF ReadyIsLoaded
  <1>7. QED
    BY <1>4, <1>5, <1>6 DEF QInv

LEMMA WriteSucceeds ==
    ASSUME Faults = {}, NEW type, NEW s, NEW e, NEW dels, NEW puts,
           Write(type, s, e, dels, puts)
    PROVE  dbList' = s /\ items' = Batch(dels, puts)
  BY DEF Write, WriteMayFail

LEMMA BatchIs ==
    ASSUME NEW dels, NEW puts, items' = Batch(dels, puts)
    PROVE  /\ DOMAIN items' = (DOMAIN items \ dels) \cup DOMAIN puts
           /\ \A k \in DOMAIN puts : items'[k] = puts[k]
           /\ \A k \in DOMAIN items \ dels : k \notin DOMAIN puts => items'[k] = items[k]
  BY DEF Batch

LEMMA QueueIs == queue = ValuesOf(dbList, items)
  BY DEF queue, ValuesOf

LEMMA PushQueue ==
    ASSUME Faults = {}, IInv, QInv, NEW t \in Threads, push(t)
    PROVE  QInv' /\ \E v \in Data : Queue!Push(v)
  <1> DEFINE s == Trim(dbList)
             k == list_get_keyId(s)
             dels == IdsOf(dbList) \ IdsOf(s)
  <1>1. pc[t] = "ready"
    BY DEF push
  <1>2. list[held[t]] = dbList /\ dbList \in Seq(Ids) /\ IdsOf(dbList) = DOMAIN items
    BY <1>1, AtBody
  <1>3. PICK v \in Data : Write("list", Append(s, k), expiry[held[t]], dels, [i \in {k} |-> v])
    BY <1>2 DEF push
  <1>4. /\ list' = [list EXCEPT ![held[t]] = Append(s, k)]
        /\ Return(t) /\ UNCHANGED <<cur, loaded>>
    BY <1>2 DEF push
  <1>5. s \in Seq(Ids) /\ Cyclic(s) /\ Len(s) + 1 < U16
    BY <1>2, TrimType, CyclicTrim DEF IInv, AllCyclic, Cyclic
  <1>6. k \in Ids /\ Append(s, k) \in Seq(Ids) /\ Cyclic(Append(s, k))
    BY <1>5, KeyIdType, CyclicAppend
  <1>7. IdsOf(s) \subseteq IdsOf(dbList)
    BY <1>2, Constants DEF Trim, IdsOf
  <1>8. k \notin IdsOf(s)
    <2> SUFFICES ASSUME NEW i \in 1..Len(s), s[i] = k PROVE FALSE
      BY DEF IdsOf
    <2> HIDE DEF s, k
    <2>1. /\ i \in 1..Len(Append(s, k)) /\ Len(s) + 1 \in 1..Len(Append(s, k)) /\ i # Len(s) + 1
          /\ Append(s, k)[i] = s[i] /\ Append(s, k)[Len(s) + 1] = k
      BY <1>5, <1>6
    <2>2. QED
      BY <1>6, <2>1, CyclicDistinct
  <1>9. Trim(dbList) = s /\ (Len(dbList) >= ListMaxCount => s = Tail(dbList) /\ dbList # <<>>)
                        /\ (~(Len(dbList) >= ListMaxCount) => s = dbList)
    BY <1>2, Constants DEF Trim
  <1> HIDE DEF s, k
  <1>10. dbList' = Append(s, k) /\ items' = Batch(dels, [i \in {k} |-> v])
    BY <1>3, WriteSucceeds
  <1>11. IdsOf(Append(s, k)) = IdsOf(s) \cup {k}
    BY <1>5, <1>6 DEF IdsOf
  <1>b. /\ DOMAIN items' = (DOMAIN items \ dels) \cup {k}
        /\ items'[k] = v
        /\ \A i \in DOMAIN items \ dels : i # k => items'[i] = items[i]
    <2> DEFINE puts == [i \in {k} |-> v]
    <2>1. DOMAIN puts = {k} /\ puts[k] = v
      OBVIOUS
    <2>2. items' = Batch(dels, puts)
      BY <1>10
    <2> HIDE DEF puts, dels
    <2>3. /\ DOMAIN items' = (DOMAIN items \ dels) \cup DOMAIN puts
          /\ \A i \in DOMAIN puts : items'[i] = puts[i]
          /\ \A i \in DOMAIN items \ dels : i \notin DOMAIN puts => items'[i] = items[i]
      BY <2>2, BatchIs, Zenon
    <2>4. QED
      BY <2>1, <2>3
  <1>12. DOMAIN items' = IdsOf(Append(s, k))
    BY <1>2, <1>7, <1>b, <1>11
  <1>13. QInv'
    BY <1>1, <1>4, <1>10, <1>12, BodyStep
  <1>14. \A i \in IdsOf(s) : items'[i] = items[i] /\ items[i] \in Data
    <2>1. \A i \in IdsOf(s) : items[i] \in Data
      BY <1>1, <1>7, AtBody
    <2>2. QED
      BY <1>2, <1>7, <1>8, <1>b, <2>1
  <1>15. items'[k] = v
    BY <1>b
  <1>16. ValuesOf(s, items) = Queue!Room(queue)
    <2>1. queue = ValuesOf(dbList, items) /\ Len(queue) = Len(dbList)
      BY <1>1, <1>2, QueueIs, AtBody, ValuesOfType
    <2>2. CASE Len(dbList) >= ListMaxCount
      <3>1. ValuesOf(Tail(dbList), items) = Tail(ValuesOf(dbList, items))
        BY <1>1, <1>2, <1>9, <2>2, AtBody, ValuesOfTail
      <3>2. QED
        BY <1>9, <2>1, <2>2, <3>1 DEF Queue!Room
    <2>3. CASE ~(Len(dbList) >= ListMaxCount)
      BY <1>9, <2>1, <2>3 DEF Queue!Room
    <2>4. QED
      BY <2>2, <2>3
  <1>17. queue' = ValuesOf(Append(s, k), items')
    BY <1>10 DEF queue, ValuesOf
  <1>18. queue' = Append(Queue!Room(queue), v)
    BY <1>5, <1>6, <1>14, <1>15, <1>16, <1>17, ValuesOfAppend
  <1>19. QED
    BY <1>13, <1>18 DEF Queue!Push

LEMMA PopQueue ==
    ASSUME Faults = {}, IInv, QInv, NEW t \in Threads, pop(t)
    PROVE  QInv' /\ (Queue!Pop \/ UNCHANGED queue)
  <1> DEFINE s == dbList
  <1>1. pc[t] = "ready" /\ Return(t) /\ UNCHANGED <<cur, loaded>>
    BY DEF pop
  <1>2. list[held[t]] = s /\ s \in Seq(Ids) /\ IdsOf(s) = DOMAIN items
    BY <1>1, AtBody
  <1>3. CASE s = <<>>
    <2>1. UNCHANGED <<list, disk>>
      BY <1>2, <1>3 DEF pop
    <2>2. list' = [list EXCEPT ![held[t]] = s] /\ dbList' = s /\ items' = items
      BY <1>1, <1>2, <2>1, HeldList DEF disk
    <2>3. QInv'
      BY <1>1, <1>2, <2>2, BodyStep
    <2>4. queue' = queue
      BY <2>2 DEF queue
    <2>5. QED
      BY <2>3, <2>4
  <1>4. CASE s # <<>>
    <2>1. s[1] \in DOMAIN items /\ Cyclic(s)
      BY <1>2, <1>4 DEF IdsOf, IInv, AllCyclic
    <2>2. /\ list' = [list EXCEPT ![held[t]] = Tail(s)]
          /\ Write("list", Tail(s), expiry[held[t]], {s[1]}, NoItems)
      BY <1>2, <1>4, <2>1 DEF pop, Popped
    <2>3. dbList' = Tail(s) /\ items' = Batch({s[1]}, NoItems)
      BY <2>2, WriteSucceeds
    <2>4. DOMAIN items' = DOMAIN items \ {s[1]} /\ \A k \in DOMAIN items \ {s[1]} : items'[k] = items[k]
      <3> DEFINE gone == {s[1]}
      <3>1. items' = Batch(gone, NoItems)
        BY <2>3
      <3> HIDE DEF gone
      <3>2. /\ DOMAIN items' = (DOMAIN items \ gone) \cup DOMAIN NoItems
            /\ \A k \in DOMAIN items \ gone : k \notin DOMAIN NoItems => items'[k] = items[k]
        BY <3>1, BatchIs, Zenon
      <3>3. QED
        BY <3>2, NoItemsType DEF gone
    <2>5. IdsOf(Tail(s)) = IdsOf(s) \ {s[1]}
      <3>1. /\ Len(Tail(s)) = Len(s) - 1 /\ 1 \in 1..Len(s)
            /\ \A i \in 1..Len(Tail(s)) : Tail(s)[i] = s[i + 1] /\ i + 1 \in 1..Len(s) /\ i + 1 # 1
        BY <1>2, <1>4
      <3>2. \A i \in 1..Len(Tail(s)) : Tail(s)[i] \in IdsOf(s) /\ Tail(s)[i] # s[1]
        BY <1>2, <2>1, <3>1, CyclicDistinct DEF IdsOf
      <3>3. \A i \in 1..Len(s) : i = 1 \/ (i - 1 \in 1..Len(Tail(s)) /\ Tail(s)[i - 1] = s[i])
        BY <1>2, <1>4, <3>1
      <3>4. QED
        BY <3>2, <3>3 DEF IdsOf
    <2>6. QInv'
      BY <1>1, <1>2, <2>2, <2>3, <2>4, <2>5, BodyStep
    <2>7. queue' = ValuesOf(Tail(s), items') /\ queue = ValuesOf(s, items)
      BY <2>3 DEF queue, ValuesOf
    <2>8. queue' = Tail(queue)
      <3>1. \A k \in IdsOf(Tail(s)) : items'[k] = items[k]
        BY <1>2, <2>4, <2>5
      <3>2. \A k \in IdsOf(s) : items[k] \in Data
        BY <1>1, AtBody
      <3>3. QED
        BY <1>2, <1>4, <2>7, <3>1, <3>2, ValuesOfTail
    <2>9. queue # <<>>
      <3>1. Len(queue) = Len(s)
        BY <1>1, <1>2, <2>7, AtBody, ValuesOfType
      <3>2. QED
        BY <1>2, <1>4, <3>1
    <2>10. QED
      BY <2>6, <2>8, <2>9 DEF Queue!Pop
  <1>5. QED
    BY <1>3, <1>4

LEMMA UpdateQueue ==
    ASSUME Faults = {}, IInv, QInv, NEW t \in Threads, update(t)
    PROVE  QInv' /\ \E vs \in Updates : Queue!Update(vs)
  <1> DEFINE puts(vs) == [k \in IdsOf(Renumbered(vs)) |->
                            vs[CHOOSE i \in 1..Len(vs) : Renumbered(vs)[i] = k]]
  <1>1. pc[t] = "ready" /\ Return(t) /\ UNCHANGED <<cur, loaded>>
    BY DEF update
  <1>2. list[held[t]] = dbList /\ IdsOf(dbList) = DOMAIN items
    BY <1>1, AtBody
  <1>3. PICK vs \in Updates :
          /\ list' = [list EXCEPT ![held[t]] = Renumbered(vs)]
          /\ Write("list", Renumbered(vs), expiry[held[t]], IdsOf(dbList), puts(vs))
    BY <1>2 DEF update
  <1> DEFINE s == Renumbered(vs)
  <1>4. s \in Seq(Ids) /\ Len(s) = Len(vs) /\ \A i \in 1..Len(vs) : s[i] = i
    BY RenumberedIs
  <1>5. vs \in Seq(Data)
    BY Constants
  <1>6. DOMAIN puts(vs) = IdsOf(s)
    OBVIOUS
  <1>7. ASSUME NEW i \in 1..Len(vs) PROVE s[i] \in IdsOf(s) /\ puts(vs)[s[i]] = vs[i]
    <2>1. s[i] \in IdsOf(s) /\ s[i] = i
      BY <1>4 DEF IdsOf
    <2>2. \A j \in 1..Len(vs) : s[j] = i <=> j = i
      BY <1>4
    <2>3. (CHOOSE j \in 1..Len(vs) : s[j] = i) = i
      BY <2>2
    <2>4. puts(vs)[s[i]] = vs[CHOOSE j \in 1..Len(vs) : s[j] = s[i]]
      BY <2>1
    <2>5. QED
      BY <2>1, <2>3, <2>4
  <1> HIDE DEF puts, s
  <1>8. dbList' = s /\ items' = Batch(IdsOf(dbList), puts(vs))
    BY <1>3, WriteSucceeds DEF s
  <1>9. DOMAIN items' = IdsOf(s) /\ \A k \in IdsOf(s) : items'[k] = puts(vs)[k]
    <2>1. /\ DOMAIN items' = (DOMAIN items \ IdsOf(dbList)) \cup DOMAIN puts(vs)
          /\ \A k \in DOMAIN puts(vs) : items'[k] = puts(vs)[k]
      BY <1>8, BatchIs, Zenon
    <2>2. QED
      BY <1>2, <1>6, <2>1
  <1>10. QInv'
    BY <1>1, <1>3, <1>8, <1>9, BodyStep DEF s
  <1>11. queue' = [i \in 1..Len(vs) |-> vs[i]]
    <2>1. queue' = [i \in 1..Len(s) |-> items'[s[i]]]
      BY <1>8 DEF queue
    <2>2. \A i \in 1..Len(vs) : items'[s[i]] = vs[i]
      BY <1>7, <1>9
    <2>3. QED
      BY <1>4, <2>1, <2>2
  <1>12. queue' = vs
    BY <1>5, <1>11
  <1>13. QED
    BY <1>10, <1>12 DEF Queue!Update

LEMMA ExpireQueue ==
    ASSUME Faults = {}, IInv, QInv, NEW t \in Threads, expire(t)
    PROVE  QInv' /\ UNCHANGED queue
  <1>1. pc[t] = "ready" /\ Return(t) /\ UNCHANGED <<cur, list, loaded>>
    BY DEF expire
  <1>2. list[held[t]] = dbList /\ IdsOf(dbList) = DOMAIN items /\ dbList \in Seq(Ids)
    BY <1>1, AtBody
  <1>3. PICK e : Write("list", dbList, e, {}, NoItems)
    BY <1>2 DEF expire
  <1>4. dbList' = dbList /\ items' = Batch({}, NoItems)
    BY <1>3, WriteSucceeds
  <1>5. DOMAIN items' = DOMAIN items /\ \A k \in DOMAIN items : items'[k] = items[k]
    <2>1. /\ DOMAIN items' = (DOMAIN items \ {}) \cup DOMAIN NoItems
          /\ \A k \in DOMAIN items \ {} : k \notin DOMAIN NoItems => items'[k] = items[k]
      BY <1>4, BatchIs, Zenon
    <2>2. QED
      BY <2>1, NoItemsType
  <1>6. list' = [list EXCEPT ![held[t]] = dbList]
    BY <1>1, <1>2, HeldList
  <1>7. QInv'
    BY <1>1, <1>2, <1>4, <1>5, <1>6, BodyStep
  <1>8. \A i \in 1..Len(dbList) : items'[dbList[i]] = items[dbList[i]]
    BY <1>2, <1>5 DEF IdsOf
  <1>9. queue' = queue
    BY <1>4, <1>8 DEF queue
  <1>10. QED
    BY <1>7, <1>9

LEMMA RemoveQueue ==
    ASSUME Faults = {}, IInv, QInv, NEW t \in Threads, remove(t)
    PROVE  QInv' /\ Queue!Delete
  <1>1. /\ pc[t] = "ready" /\ Return(t) /\ UNCHANGED <<cur, loaded>>
        /\ list' = [list EXCEPT ![held[t]] = <<>>]
    BY DEF remove
  <1>2. IdsOf(list[held[t]]) = DOMAIN items
    BY <1>1, AtBody
  <1>3. Write("absent", <<>>, 0, DOMAIN items, NoItems)
    BY <1>2 DEF remove
  <1>4. dbList' = <<>> /\ items' = Batch(DOMAIN items, NoItems)
    BY <1>3, WriteSucceeds
  <1>5. DOMAIN items' = {}
    <2>1. DOMAIN items' = (DOMAIN items \ DOMAIN items) \cup DOMAIN NoItems
      BY <1>4, BatchIs, Zenon
    <2>2. QED
      BY <2>1, NoItemsType
  <1>6. IdsOf(<<>>) = {}
    BY DEF IdsOf
  <1>7. QInv'
    BY <1>1, <1>4, <1>5, <1>6, BodyStep
  <1>8. queue' = <<>>
    BY <1>4 DEF queue
  <1>9. QED
    BY <1>7, <1>8 DEF Queue!Delete

-----------------------------------------------------------------------------
(* The steps that leave the records alone. *)

LEMMA FindQueue ==
    ASSUME IInv, QInv, NEW t \in Threads, find_is_create(t)
    PROVE  QInv' /\ UNCHANGED queue
  <1>1. PICK o \in Objects :
          /\ \/ o = cur /\ UNCHANGED memory
             \/ cur = None /\ Construct(o)
          /\ cur' = o
          /\ held' = [held EXCEPT ![t] = o]
    BY DEF find_is_create
  <1>2. pc[t] = "idle" /\ pc' = [pc EXCEPT ![t] = "found"] /\ UNCHANGED <<dbList, items>>
    BY DEF find_is_create, Goto, disk
  <1>3. HeaderListsItems' /\ UNCHANGED queue
    BY <1>2 DEF QInv, HeaderListsItems, IdsOf, queue
  <1>4. OneObject'
    BY <1>1 DEF IInv, ThreadsOK, QInv, OneObject
  <1>5. CASE o = cur /\ UNCHANGED memory
    <2>1. UNCHANGED <<cur, list, loaded>>
      BY <1>1, <1>5 DEF memory
    <2>2. CacheMatchesStore' /\ FreshIsEmpty'
      BY <1>2, <2>1 DEF QInv, CacheMatchesStore, FreshIsEmpty
    <2>3. ReadyIsLoaded'
      BY <1>2, <2>1 DEF IInv, ThreadsOK, QInv, ReadyIsLoaded
    <2>4. QED
      BY <1>3, <1>4, <2>2, <2>3 DEF QInv
  <1>6. CASE cur = None /\ Construct(o)
    <2>1. list'[o] = <<>> /\ o \notin loaded'
      BY <1>6 DEF Construct, IInv, MemoryOK
    <2>2. CacheMatchesStore' /\ FreshIsEmpty'
      BY <1>1, <2>1 DEF CacheMatchesStore, FreshIsEmpty
    <2>3. \A u \in Threads : held[u] = None /\ pc[u] # "ready"
      BY <1>6 DEF IInv, ThreadsOK, QInv, OneObject
    <2>4. ReadyIsLoaded'
      BY <1>2, <2>3 DEF IInv, ThreadsOK, ReadyIsLoaded
    <2>5. QED
      BY <1>3, <1>4, <2>2, <2>4 DEF QInv
  <1>7. QED
    BY <1>1, <1>5, <1>6

LEMMA TouchQueue ==
    ASSUME IInv, QInv, NEW t \in Threads, Touch(t)
    PROVE  QInv' /\ UNCHANGED queue
  <1>1. pc' = [pc EXCEPT ![t] = "touched"] /\ UNCHANGED <<cur, list, loaded, dbList, items, held>>
    BY DEF Touch, Goto, disk
  <1>2. HeaderListsItems' /\ UNCHANGED queue
    BY <1>1 DEF QInv, HeaderListsItems, IdsOf, queue
  <1>3. CacheMatchesStore' /\ FreshIsEmpty' /\ OneObject'
    BY <1>1 DEF QInv, CacheMatchesStore, FreshIsEmpty, OneObject
  <1>4. ReadyIsLoaded'
    BY <1>1 DEF IInv, ThreadsOK, QInv, ReadyIsLoaded
  <1>5. QED
    BY <1>2, <1>3, <1>4 DEF QInv

LEMMA InitQueue ==
    ASSUME Faults = {}, IInv, QInv, NEW t \in Threads, init(t)
    PROVE  QInv' /\ UNCHANGED queue
  <1>1. pc[t] = "touched" /\ UNCHANGED <<cur, dbList, items>>
    BY DEF init, disk
  <1>2. held[t] = cur /\ cur \in Objects /\ cur # None
    BY <1>1, HeldObject, Constants DEF IInv, QInv, OneObject
  <1>3. HeaderListsItems' /\ UNCHANGED queue
    BY <1>1 DEF QInv, HeaderListsItems, IdsOf, queue
  <1>4. CASE cur \in loaded /\ Goto(t, "ready") /\ UNCHANGED <<list, loaded, held>>
    <2>1. CacheMatchesStore' /\ FreshIsEmpty' /\ OneObject' /\ ReadyIsLoaded'
      BY <1>1, <1>4 DEF QInv, CacheMatchesStore, FreshIsEmpty, OneObject, ReadyIsLoaded
    <2>2. QED
      BY <1>3, <2>1 DEF QInv
  <1>5. CASE cur \notin loaded /\ Load(cur) /\ loaded' = loaded \cup {cur} /\ UNCHANGED held
    <2>1. list'[cur] = dbList
      <3>1. CASE list' = [list EXCEPT ![cur] = dbList]
        BY <1>2, <3>1 DEF IInv, MemoryOK
      <3>2. CASE dbList = <<>> /\ UNCHANGED list
        BY <1>2, <1>5, <3>2 DEF QInv, FreshIsEmpty
      <3>3. QED
        BY <1>5, <3>1, <3>2 DEF Load
    <2>2. CacheMatchesStore' /\ FreshIsEmpty' /\ OneObject' /\ ReadyIsLoaded'
      BY <1>1, <1>5, <2>1 DEF QInv, CacheMatchesStore, FreshIsEmpty, OneObject, ReadyIsLoaded
    <2>3. QED
      BY <1>3, <2>2 DEF QInv
  <1>6. CASE Return(t) /\ UNCHANGED <<list, loaded>>
    <2>1. CacheMatchesStore' /\ FreshIsEmpty'
      BY <1>1, <1>6 DEF QInv, CacheMatchesStore, FreshIsEmpty
    <2>2. OneObject' /\ ReadyIsLoaded'
      BY <1>1, <1>6 DEF Return, Goto, IInv, ThreadsOK, QInv, OneObject, ReadyIsLoaded
    <2>3. QED
      BY <1>3, <2>1, <2>2 DEF QInv
  <1>7. QED
    BY <1>2, <1>4, <1>5, <1>6 DEF init

LEMMA ReadQueue ==
    ASSUME IInv, QInv, NEW t \in Threads, Read(t)
    PROVE  QInv' /\ UNCHANGED queue
  <1>1. Return(t) /\ UNCHANGED <<cur, list, loaded, dbList, items>>
    BY DEF Read, memory, disk
  <1>2. HeaderListsItems' /\ UNCHANGED queue
    BY <1>1 DEF QInv, HeaderListsItems, IdsOf, queue
  <1>3. CacheMatchesStore' /\ FreshIsEmpty'
    BY <1>1 DEF QInv, CacheMatchesStore, FreshIsEmpty
  <1>4. OneObject' /\ ReadyIsLoaded'
    BY <1>1 DEF Return, Goto, IInv, ThreadsOK, QInv, OneObject, ReadyIsLoaded
  <1>5. QED
    BY <1>2, <1>3, <1>4 DEF QInv

LEMMA OtherQueue ==
    ASSUME Faults = {}, IInv, QInv, check \/ Tick \/ Restart \/ UNCHANGED vars
    PROVE  QInv' /\ UNCHANGED queue
  <1>1. UNCHANGED <<list, loaded, dbList, items>>
    BY DEF check, Tick, Restart, vars, memory, disk
  <1>2. HeaderListsItems' /\ UNCHANGED queue
    BY <1>1 DEF QInv, HeaderListsItems, IdsOf, queue
  <1>3. CASE check \/ Restart
    <2>1. cur' = None /\ None \notin loaded'
      BY <1>1, <1>3, Constants DEF check, Restart, IInv, MemoryOK
    <2>2. \A u \in Threads : held'[u] = None /\ pc'[u] # "ready"
      <3>1. CASE Restart
        BY <3>1 DEF Restart
      <3>2. CASE check
        BY <3>2 DEF check, IInv, ThreadsOK, QInv, OneObject
      <3>3. QED
        BY <1>3, <3>1, <3>2
    <2>3. QED
      BY <1>2, <2>1, <2>2 DEF QInv, CacheMatchesStore, FreshIsEmpty, OneObject, ReadyIsLoaded
  <1>4. CASE Tick \/ UNCHANGED vars
    <2>1. UNCHANGED <<cur, held, pc>>
      BY <1>4 DEF Tick, vars
    <2>2. QED
      BY <1>1, <1>2, <2>1 DEF QInv, CacheMatchesStore, FreshIsEmpty, OneObject, ReadyIsLoaded
  <1>5. QED
    BY <1>3, <1>4

(* Every step keeps the invariant and is a step of the queue, or none. *)
LEMMA QueueStep ==
    ASSUME Faults = {}, IInv, QInv, [Next]_vars
    PROVE  QInv' /\ [Queue!Next]_queue
  <1>1. ASSUME NEW t \in Threads, push(t) \/ pop(t) \/ update(t) \/ expire(t) \/ remove(t)
        PROVE  QInv' /\ [Queue!Next]_queue
    BY <1>1, PushQueue, PopQueue, UpdateQueue, ExpireQueue, RemoveQueue DEF Queue!Next
  <1>2. ASSUME NEW t \in Threads, find_is_create(t) \/ Touch(t) \/ init(t) \/ Read(t)
        PROVE  QInv' /\ UNCHANGED queue
    BY <1>2, FindQueue, TouchQueue, InitQueue, ReadQueue
  <1>3. QED
    BY <1>1, <1>2, OtherQueue DEF Next

LEMMA QInvAlways ==
    ASSUME Faults = {}
    PROVE  Spec => [](IInv /\ QInv)
  <1>1. IInv /\ QInv /\ [Next]_vars => IInv' /\ QInv'
    BY IInvNext, QueueStep
  <1>2. QED
    BY <1>1, IInvInit, QInvInit, PTL DEF Spec

(* The stored header lists exactly the stored values, and a registered       *)
(* object that is loaded agrees with it, over reloads, evictions of unused   *)
(* objects and restarts, for any number of threads.                          *)
THEOREM ListConsistent ==
    ASSUME Faults = {}
    PROVE  Spec => [](HeaderListsItems /\ CacheMatchesStore)
  <1>1. QInv => HeaderListsItems /\ CacheMatchesStore
    BY DEF QInv
  <1>2. QED
    BY <1>1, QInvAlways, PTL

(* The records of a LIST implement the bounded first-in first-out queue.     *)
THEOREM QueueImplementation ==
    ASSUME Faults = {}
    PROVE  Spec => ImplementsQueue
  <1>1. Init => Queue!Init
    BY DEF Init, Queue!Init, queue
  <1>2. IInv /\ QInv /\ [Next]_vars => [Queue!Next]_queue
    BY QueueStep
  <1>3. QED
    BY <1>1, <1>2, QInvAlways, PTL DEF Spec, Queue!Spec, ImplementsQueue
=============================================================================
