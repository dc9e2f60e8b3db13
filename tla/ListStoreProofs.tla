--------------------------- MODULE ListStoreProofs ---------------------------
(***************************************************************************)
(* Type correctness of ListStore, and that no id is in a list twice: both  *)
(* for every value of the constants, whatever faults may happen.           *)
(***************************************************************************)
EXTENDS ListStore, TLAPS

LEMMA Constants ==
    /\ None \notin Objects
    /\ ObjectEffective \in Nat
    /\ U16 \in Nat \ {0, 1} /\ U32 \in Nat \ {0, 1}
    /\ ListMaxCount \in 1..(U16 - 1)
    /\ Updates \subseteq Seq(Data)
    /\ \A s \in Updates : Len(s) < U16
    /\ ExpireArgs \subseteq 0..(U32 - 1)
  BY ConstantsAssumption

LEMMA ModRange ==
    ASSUME NEW x \in Int, NEW m \in Nat \ {0}
    PROVE  x % m \in 0..(m - 1)
  BY SMT

LEMMA ModSmall ==
    ASSUME NEW m \in Nat \ {0}, NEW x \in 0..(m - 1)
    PROVE  x % m = x
  BY SMT

LEMMA ModSelf ==
    ASSUME NEW m \in Nat \ {0}
    PROVE  m % m = 0
  BY SMT

-----------------------------------------------------------------------------
(* The sequences of ids that the commands build. *)

LEMMA TrimType ==
    ASSUME NEW s \in Seq(Ids)
    PROVE  /\ Trim(s) \in Seq(Ids)
           /\ Len(s) < U16 => Len(Trim(s)) + 1 < U16
  BY Constants DEF Trim

LEMMA KeyIdType ==
    ASSUME NEW s \in Seq(Ids)
    PROVE  list_get_keyId(s) \in Ids
  <1>1. CASE s = <<>>
    BY <1>1, Constants DEF list_get_keyId, Ids
  <1>2. CASE s # <<>>
    <2>1. s[Len(s)] \in Ids
      BY <1>2
    <2>2. s[Len(s)] + 1 \in Int
      BY <2>1, Constants DEF Ids
    <2>3. (s[Len(s)] + 1) % U16 \in Ids
      BY <2>2, Constants, ModRange DEF Ids
    <2>4. QED
      BY <1>2, <2>3 DEF list_get_keyId
  <1>3. QED
    BY <1>1, <1>2

LEMMA RenumberedIs ==
    ASSUME NEW vs \in Updates
    PROVE  /\ Renumbered(vs) \in Seq(Ids)
           /\ Len(Renumbered(vs)) = Len(vs)
           /\ \A i \in 1..Len(vs) : Renumbered(vs)[i] = i
  <1>1. vs \in Seq(Data) /\ Len(vs) \in Nat /\ Len(vs) < U16
    BY Constants
  <1>2. \A i \in 1..Len(vs) : i \in 0..(U16 - 1)
    BY <1>1, Constants
  <1>3. \A i \in 1..Len(vs) : i % U16 = i
    BY <1>2, ModSmall, Constants
  <1>4. Renumbered(vs) = [i \in 1..Len(vs) |-> i]
    BY <1>3 DEF Renumbered
  <1>5. [i \in 1..Len(vs) |-> i] \in Seq(Ids)
    BY <1>1, <1>2 DEF Ids
  <1>6. QED
    BY <1>1, <1>4, <1>5

(* Consecutive ids, counted modulo 2^16, fewer than there are. *)
At(b, i) == IF b + i - 1 < U16 THEN b + i - 1 ELSE b + i - 1 - U16

Cyclic(s) ==
    /\ Len(s) < U16
    /\ \E b \in Ids : \A i \in 1..Len(s) : s[i] = At(b, i)

LEMMA CyclicEmpty == Cyclic(<<>>)
  BY Constants DEF Cyclic, Ids

LEMMA CyclicDistinct ==
    ASSUME NEW s \in Seq(Ids), Cyclic(s), NEW i \in 1..Len(s), NEW j \in 1..Len(s), i # j
    PROVE  s[i] # s[j]
  BY Constants, SMTT(30) DEF Cyclic, Ids, At

LEMMA CyclicTail ==
    ASSUME NEW s \in Seq(Ids), Cyclic(s), s # <<>>
    PROVE  Cyclic(Tail(s))
  <1>1. PICK b \in Ids : \A i \in 1..Len(s) : s[i] = At(b, i)
    BY DEF Cyclic
  <1> DEFINE c == IF b + 1 < U16 THEN b + 1 ELSE 0
  <1>2. c \in Ids
    BY Constants DEF Ids
  <1>3. Len(Tail(s)) = Len(s) - 1 /\ \A i \in 1..Len(Tail(s)) : Tail(s)[i] = s[i + 1]
    OBVIOUS
  <1>4. ASSUME NEW i \in 1..Len(Tail(s)) PROVE At(b, i + 1) = At(c, i)
    <2>1. i \in Int /\ 1 <= i /\ i < U16 /\ b \in Int /\ 0 <= b /\ b < U16 /\ U16 \in Int
      BY <1>3, Constants DEF Ids, Cyclic
    <2>2. CASE b + 1 < U16
      <3>1. c = b + 1
        BY <2>2
      <3>2. QED
        BY <2>1, <3>1 DEF At
    <2>3. CASE ~(b + 1 < U16)
      <3>1. c = 0 /\ b = U16 - 1
        BY <2>1, <2>3
      <3>2. QED
        BY <2>1, <3>1 DEF At
    <2>4. QED
      BY <2>2, <2>3
  <1>5. ASSUME NEW i \in 1..Len(Tail(s)) PROVE Tail(s)[i] = At(c, i)
    <2>1. i + 1 \in 1..Len(s)
      BY <1>3
    <2>2. s[i + 1] = At(b, i + 1)
      BY <1>1, <2>1
    <2>3. QED
      BY <1>3, <1>4, <2>2
  <1>6. \E d \in Ids : \A i \in 1..Len(Tail(s)) : Tail(s)[i] = At(d, i)
    BY <1>2, <1>5, Zenon
  <1>7. Len(Tail(s)) < U16
    BY <1>3, Constants DEF Cyclic
  <1>8. QED
    BY <1>6, <1>7 DEF Cyclic

LEMMA CyclicTrim ==
    ASSUME NEW s \in Seq(Ids), Cyclic(s)
    PROVE  Cyclic(Trim(s))
  BY CyclicTail, Constants DEF Trim

LEMMA CyclicAppend ==
    ASSUME NEW s \in Seq(Ids), Cyclic(s), Len(s) + 1 < U16
    PROVE  Cyclic(Append(s, list_get_keyId(s)))
  <1> DEFINE k == list_get_keyId(s)
             r == Append(s, k)
  <1>0. k \in Ids
    BY KeyIdType
  <1>1. Len(r) = Len(s) + 1 /\ r[Len(s) + 1] = k /\ \A i \in 1..Len(s) : r[i] = s[i]
    BY <1>0
  <1>2. CASE s = <<>>
    <2>1. k = 1 /\ 1 \in Ids
      BY <1>2, Constants DEF list_get_keyId, Ids
    <2>2. \A i \in 1..Len(r) : r[i] = At(1, i)
      BY <1>1, <1>2, <2>1, Constants DEF At
    <2>3. QED
      BY <1>1, <2>1, <2>2 DEF Cyclic
  <1>3. CASE s # <<>>
    <2>1. PICK b \in Ids : \A i \in 1..Len(s) : s[i] = At(b, i)
      BY DEF Cyclic
    <2>2. Len(s) \in 1..Len(s) /\ s[Len(s)] = At(b, Len(s))
      BY <1>3, <2>1
    <2>3. k = At(b, Len(s) + 1)
      <3>1. k = (At(b, Len(s)) + 1) % U16
        BY <1>3, <2>2 DEF list_get_keyId
      <3>2. At(b, Len(s)) \in 0..(U16 - 1)
        <4>1. s[Len(s)] \in Ids
          BY <1>3
        <4>2. QED
          BY <2>2, <4>1 DEF Ids
      <3>3. CASE At(b, Len(s)) + 1 = U16
        <4>1. k = 0
          BY <3>1, <3>3, ModSelf, Constants
        <4>2. At(b, Len(s) + 1) = 0
          BY <3>3, <2>2, Constants DEF At, Ids
        <4>3. QED
          BY <4>1, <4>2
      <3>4. CASE At(b, Len(s)) + 1 # U16
        <4>1. At(b, Len(s)) + 1 \in 0..(U16 - 1)
          BY <3>2, <3>4, Constants
        <4>2. k = At(b, Len(s)) + 1
          BY <3>1, <4>1, ModSmall, Constants, SMTT(30)
        <4>3. At(b, Len(s) + 1) = At(b, Len(s)) + 1
          BY <4>1, <2>2, Constants DEF At, Ids
        <4>4. QED
          BY <4>2, <4>3
      <3>5. QED
        BY <3>3, <3>4
    <2>4. \A i \in 1..Len(r) : r[i] = At(b, i)
      BY <1>1, <2>1, <2>3
    <2>5. QED
      BY <1>1, <2>4 DEF Cyclic
  <1>4. QED
    BY <1>2, <1>3

LEMMA CyclicRenumbered ==
    ASSUME NEW vs \in Updates
    PROVE  Cyclic(Renumbered(vs))
  <1>1. Len(vs) \in Nat /\ Len(vs) < U16 /\ 1 \in Ids
    BY Constants DEF Ids
  <1>2. \A i \in 1..Len(vs) : At(1, i) = i
    BY <1>1, Constants DEF At
  <1>3. QED
    BY <1>1, <1>2, RenumberedIs, SMTT(30) DEF Cyclic

-----------------------------------------------------------------------------
(* Type correctness. *)

DiskOK ==
    /\ dbType \in {"absent", "list", "other"}
    /\ dbList \in Seq(Ids)
    /\ dbExpiry \in 0..(U32 - 1)
    /\ DOMAIN items \subseteq Ids
    /\ \A k \in DOMAIN items : items[k] \in Data

(* The part of the state that belongs to the threads. *)
ThreadsOK ==
    /\ pc \in [Threads -> {"idle", "found", "touched", "ready"}]
    /\ held \in [Threads -> Objects \cup {None}]
    /\ \A t \in Threads : pc[t] = "idle" <=> held[t] = None

MemoryOK ==
    /\ now \in Nat
    /\ cur \in Objects \cup {None}
    /\ list \in [Objects -> Seq(Ids)]
    /\ expiry \in [Objects -> 0..(U32 - 1)]
    /\ loaded \subseteq Objects
    /\ eff \in [Objects -> Nat]

LEMMA TypeParts == TypeOK <=> (DiskOK /\ ThreadsOK /\ MemoryOK)
  BY DEF TypeOK, DiskOK, ThreadsOK, MemoryOK

LEMMA HeldObject ==
    ASSUME ThreadsOK, NEW t \in Threads, pc[t] # "idle"
    PROVE  held[t] \in Objects
  BY DEF ThreadsOK

LEMMA ReturnType ==
    ASSUME ThreadsOK, NEW t \in Threads, Return(t)
    PROVE  ThreadsOK'
  BY DEF ThreadsOK, Return, Goto

LEMMA GotoType ==
    ASSUME ThreadsOK, NEW t \in Threads, NEW label \in {"found", "touched", "ready"},
           pc[t] # "idle", Goto(t, label), UNCHANGED held
    PROVE  ThreadsOK'
  BY DEF ThreadsOK, Goto

LEMMA WriteType ==
    ASSUME DiskOK, NEW type \in {"absent", "list"}, NEW s \in Seq(Ids), NEW e \in 0..(U32 - 1),
           NEW dels, NEW puts, DOMAIN puts \subseteq Ids,
           \A k \in DOMAIN puts : puts[k] \in Data,
           Write(type, s, e, dels, puts)
    PROVE  DiskOK'
  <1>1. CASE UNCHANGED disk
    BY <1>1 DEF DiskOK, disk
  <1>2. CASE dbType' = type /\ dbList' = s /\ dbExpiry' = e /\ items' = Batch(dels, puts)
    <2>1. DOMAIN items' \subseteq Ids /\ \A k \in DOMAIN items' : items'[k] \in Data
      BY <1>2 DEF DiskOK, Batch
    <2>2. QED
      BY <1>2, <2>1 DEF DiskOK
  <1>3. QED
    BY <1>1, <1>2 DEF Write

LEMMA NoItemsType == DOMAIN NoItems = {} /\ \A k \in DOMAIN NoItems : NoItems[k] \in Data
  BY DEF NoItems

-----------------------------------------------------------------------------
(* The inductive invariant: the types, and that every list is cyclic. *)

AllCyclic == Cyclic(dbList) /\ \A o \in Objects : Cyclic(list[o])

IInv == DiskOK /\ ThreadsOK /\ MemoryOK /\ AllCyclic

LEMMA IInvInit == Init => IInv
  <1> SUFFICES ASSUME Init PROVE IInv
    OBVIOUS
  <1>1. DiskOK /\ ThreadsOK /\ MemoryOK
    BY Constants DEF Init, DiskOK, ThreadsOK, MemoryOK
  <1>2. AllCyclic
    BY CyclicEmpty DEF Init, AllCyclic
  <1>3. QED
    BY <1>1, <1>2 DEF IInv

(* An object's list becomes s, and the stored one becomes s or stays. *)
LEMMA CyclicStep ==
    ASSUME AllCyclic, MemoryOK, NEW o \in Objects, NEW s, Cyclic(s),
           list' = [list EXCEPT ![o] = s], dbList' \in {dbList, s}
    PROVE  AllCyclic'
  <1>1. \A p \in Objects : list'[p] \in {list[p], s}
    BY DEF MemoryOK
  <1>2. QED
    BY <1>1 DEF AllCyclic

LEMMA CyclicStays ==
    ASSUME AllCyclic, UNCHANGED list, UNCHANGED dbList
    PROVE  AllCyclic'
  BY DEF AllCyclic, Cyclic, At, Ids

LEMMA FindStep ==
    ASSUME IInv, NEW t \in Threads, find_is_create(t)
    PROVE  IInv'
  <1>1. PICK o \in Objects :
          /\ \/ o = cur /\ UNCHANGED memory
             \/ cur = None /\ ~Referenced(o) /\ Construct(o)
          /\ cur' = o
          /\ held' = [held EXCEPT ![t] = o]
    BY DEF find_is_create
  <1>2. /\ pc[t] = "idle" /\ pc' = [pc EXCEPT ![t] = "found"]
        /\ UNCHANGED <<now, dbType, dbList, dbExpiry, items>>
    BY DEF find_is_create, Goto, disk
  <1>3. DiskOK'
    BY <1>2 DEF IInv, DiskOK
  <1>4. ThreadsOK'
    BY <1>1, <1>2, Constants DEF IInv, ThreadsOK
  <1>5. MemoryOK' /\ AllCyclic'
    <2>1. CASE UNCHANGED memory
      <3>1. MemoryOK'
        BY <1>1, <1>2, <2>1 DEF IInv, MemoryOK, memory
      <3>2. AllCyclic'
        BY <1>2, <2>1, CyclicStays DEF IInv, memory
      <3>3. QED
        BY <3>1, <3>2
    <2>2. CASE Construct(o)
      <3>1. MemoryOK'
        BY <1>1, <1>2, <2>2, Constants DEF IInv, MemoryOK, Construct
      <3>2. list' = [list EXCEPT ![o] = <<>>] /\ dbList' = dbList
        BY <1>2, <2>2 DEF Construct
      <3>3. AllCyclic'
        BY <3>2, CyclicStep, CyclicEmpty DEF IInv
      <3>4. QED
        BY <3>1, <3>3
    <2>3. QED
      BY <1>1, <2>1, <2>2
  <1>6. QED
    BY <1>3, <1>4, <1>5 DEF IInv

LEMMA TouchStep ==
    ASSUME IInv, NEW t \in Threads, Touch(t)
    PROVE  IInv'
  <1>1. /\ pc[t] = "found" /\ Goto(t, "touched") /\ UNCHANGED held
        /\ eff' = [eff EXCEPT ![held[t]] = now + ObjectEffective]
        /\ UNCHANGED <<now, cur, list, expiry, loaded, dbType, dbList, dbExpiry, items>>
    BY DEF Touch, disk
  <1>2. DiskOK'
    BY <1>1 DEF IInv, DiskOK
  <1>3. ThreadsOK'
    BY <1>1, GotoType DEF IInv
  <1>4. MemoryOK'
    <2>1. held[t] \in Objects
      BY <1>1, HeldObject DEF IInv
    <2>2. now + ObjectEffective \in Nat
      BY Constants DEF IInv, MemoryOK
    <2>3. eff' \in [Objects -> Nat]
      BY <1>1, <2>1, <2>2 DEF IInv, MemoryOK
    <2>4. QED
      BY <1>1, <2>3 DEF IInv, MemoryOK
  <1>5. AllCyclic'
    BY <1>1, CyclicStays DEF IInv
  <1>6. QED
    BY <1>2, <1>3, <1>4, <1>5 DEF IInv

LEMMA InitStep ==
    ASSUME IInv, NEW t \in Threads, init(t)
    PROVE  IInv'
  <1> DEFINE o == held[t]
  <1>1. pc[t] = "touched" /\ UNCHANGED <<now, cur, eff, dbType, dbList, dbExpiry, items>>
    BY DEF init, disk
  <1>2. o \in Objects
    BY <1>1, HeldObject DEF IInv
  <1>3. DiskOK'
    BY <1>1 DEF IInv, DiskOK
  <1>4. ThreadsOK'
    BY <1>1, GotoType, ReturnType DEF IInv, init
  <1>5. \/ UNCHANGED <<list, expiry>>
        \/ list' = [list EXCEPT ![o] = dbList] /\ expiry' = [expiry EXCEPT ![o] = dbExpiry]
    BY DEF init, Load
  <1>6. loaded' = loaded \/ loaded' = loaded \cup {o}
    BY DEF init
  <1>7. MemoryOK'
    BY <1>1, <1>2, <1>5, <1>6 DEF IInv, MemoryOK, DiskOK
  <1>8. AllCyclic'
    <2>1. CASE UNCHANGED list
      BY <1>1, <2>1, CyclicStays DEF IInv
    <2>2. CASE list' = [list EXCEPT ![o] = dbList]
      <3>1. Cyclic(dbList)
        BY DEF IInv, AllCyclic
      <3>2. QED
        BY <1>1, <1>2, <2>2, <3>1, CyclicStep DEF IInv
    <2>3. QED
      BY <1>5, <2>1, <2>2
  <1>9. QED
    BY <1>3, <1>4, <1>7, <1>8 DEF IInv

(* A command body that leaves s in its object, and s or nothing new on disk. *)
LEMMA CommandStep ==
    ASSUME IInv, NEW t \in Threads, pc[t] = "ready",
           NEW s \in Seq(Ids), Cyclic(s),
           list' = [list EXCEPT ![held[t]] = s],
           dbList' \in {dbList, s},
           expiry' \in [Objects -> 0..(U32 - 1)],
           DiskOK', Return(t), UNCHANGED <<now, cur, loaded, eff>>
    PROVE  IInv'
  <1>1. held[t] \in Objects
    BY HeldObject DEF IInv
  <1>2. ThreadsOK'
    BY ReturnType DEF IInv
  <1>3. MemoryOK'
    BY <1>1 DEF IInv, MemoryOK
  <1>4. AllCyclic'
    BY <1>1, CyclicStep DEF IInv
  <1>5. QED
    BY <1>2, <1>3, <1>4 DEF IInv

LEMMA HeldList ==
    ASSUME IInv, NEW t \in Threads, pc[t] = "ready"
    PROVE  /\ held[t] \in Objects
           /\ list[held[t]] \in Seq(Ids) /\ Cyclic(list[held[t]])
           /\ expiry[held[t]] \in 0..(U32 - 1)
           /\ expiry \in [Objects -> 0..(U32 - 1)]
           /\ list = [list EXCEPT ![held[t]] = list[held[t]]]
  <1>1. held[t] \in Objects
    BY HeldObject DEF IInv
  <1>2. QED
    BY <1>1 DEF IInv, MemoryOK, AllCyclic

LEMMA WriteList ==
    ASSUME NEW type, NEW s, NEW e, NEW dels, NEW puts, Write(type, s, e, dels, puts)
    PROVE  dbList' \in {dbList, s}
  BY DEF Write, disk

LEMMA PushStep ==
    ASSUME IInv, NEW t \in Threads, push(t)
    PROVE  IInv'
  <1> DEFINE o == held[t]
             s == Trim(list[o])
             k == list_get_keyId(s)
             dels == IdsOf(list[o]) \ IdsOf(s)
  <1>1. pc[t] = "ready"
    BY DEF push
  <1>2. PICK v \in Data : Write("list", Append(s, k), expiry[o], dels, [i \in {k} |-> v])
    BY DEF push
  <1>3. s \in Seq(Ids) /\ Cyclic(s) /\ Len(s) + 1 < U16
    BY <1>1, HeldList, TrimType, CyclicTrim DEF Cyclic
  <1>4. k \in Ids /\ Append(s, k) \in Seq(Ids) /\ Cyclic(Append(s, k))
    BY <1>3, KeyIdType, CyclicAppend
  <1> HIDE DEF s, k, dels
  <1>5. DiskOK'
    <2>1. DOMAIN [i \in {k} |-> v] \subseteq Ids /\ \A i \in DOMAIN [j \in {k} |-> v] : [j \in {k} |-> v][i] \in Data
      BY <1>4
    <2>2. expiry[o] \in 0..(U32 - 1) /\ DiskOK
      BY <1>1, HeldList DEF IInv
    <2>3. QED
      BY <1>2, <1>4, <2>1, <2>2, WriteType
  <1>6. dbList' \in {dbList, Append(s, k)}
    BY <1>2, WriteList
  <1>7. /\ list' = [list EXCEPT ![o] = Append(s, k)]
        /\ Return(t) /\ UNCHANGED <<now, cur, expiry, loaded, eff>>
    BY DEF push, s, k
  <1>8. QED
    BY <1>1, <1>4, <1>5, <1>6, <1>7, HeldList, CommandStep

LEMMA PopStep ==
    ASSUME IInv, NEW t \in Threads, pop(t)
    PROVE  IInv'
  <1> DEFINE o == held[t]
             s == list[o]
  <1>1. pc[t] = "ready" /\ Return(t) /\ UNCHANGED <<now, cur, expiry, loaded, eff>>
    BY DEF pop
  <1>2. s \in Seq(Ids) /\ Cyclic(s) /\ expiry[o] \in 0..(U32 - 1)
    BY <1>1, HeldList
  <1>3. CASE s = <<>> /\ UNCHANGED <<list, disk>>
    <2>1. DiskOK' /\ dbList' = dbList
      BY <1>3 DEF IInv, DiskOK, disk
    <2>2. list' = [list EXCEPT ![o] = s]
      BY <1>1, <1>3, HeldList
    <2>3. QED
      BY <1>1, <1>2, <2>1, <2>2, HeldList, CommandStep
  <1>4. CASE s # <<>> /\ ~(s = <<>> /\ UNCHANGED <<list, disk>>)
    <2>1. list' = [list EXCEPT ![o] = Tail(s)]
      BY <1>4 DEF pop
    <2>2. Tail(s) \in Seq(Ids) /\ Cyclic(Tail(s))
      BY <1>2, <1>4, CyclicTail
    <2>3. DiskOK' /\ dbList' \in {dbList, Tail(s)}
      <3>1. CASE UNCHANGED disk
        BY <3>1 DEF IInv, DiskOK, disk
      <3>2. CASE Write("list", Tail(s), expiry[o], Popped(s), NoItems)
        <4>1. dbList' \in {dbList, Tail(s)}
          BY <3>2, WriteList
        <4>2. DiskOK'
          BY <1>2, <2>2, <3>2, NoItemsType, WriteType DEF IInv
        <4>3. QED
          BY <4>1, <4>2
      <3>3. QED
        BY <1>4, <3>1, <3>2 DEF pop
    <2>4. QED
      BY <1>1, <2>1, <2>2, <2>3, HeldList, CommandStep
  <1>5. QED
    BY <1>3, <1>4 DEF pop

LEMMA UpdateStep ==
    ASSUME IInv, NEW t \in Threads, update(t)
    PROVE  IInv'
  <1> DEFINE o == held[t]
             puts(vs) == [k \in IdsOf(Renumbered(vs)) |->
                            vs[CHOOSE i \in 1..Len(vs) : Renumbered(vs)[i] = k]]
  <1>1. pc[t] = "ready" /\ Return(t) /\ UNCHANGED <<now, cur, expiry, loaded, eff>>
    BY DEF update
  <1>2. PICK vs \in Updates :
          /\ list' = [list EXCEPT ![o] = Renumbered(vs)]
          /\ Write("list", Renumbered(vs), expiry[o], IdsOf(list[o]), puts(vs))
    BY DEF update
  <1>3. Renumbered(vs) \in Seq(Ids) /\ Cyclic(Renumbered(vs))
    BY RenumberedIs, CyclicRenumbered
  <1>4. DOMAIN puts(vs) \subseteq Ids
    BY <1>3 DEF IdsOf
  <1>5. ASSUME NEW k \in DOMAIN puts(vs) PROVE puts(vs)[k] \in Data
    <2>1. \E i \in 1..Len(vs) : Renumbered(vs)[i] = k
      BY <1>5, RenumberedIs DEF IdsOf
    <2>2. (CHOOSE i \in 1..Len(vs) : Renumbered(vs)[i] = k) \in 1..Len(vs)
      BY <2>1
    <2>3. vs \in Seq(Data)
      BY Constants
    <2>4. QED
      BY <1>5, <2>2, <2>3
  <1> HIDE DEF puts
  <1>6. DiskOK'
    <2>1. expiry[o] \in 0..(U32 - 1) /\ DiskOK
      BY <1>1, HeldList DEF IInv
    <2>2. QED
      BY <1>2, <1>3, <1>4, <1>5, <2>1, WriteType
  <1>7. dbList' \in {dbList, Renumbered(vs)}
    BY <1>2, WriteList
  <1>8. QED
    BY <1>1, <1>2, <1>3, <1>6, <1>7, HeldList, CommandStep

LEMMA ExpireStep ==
    ASSUME IInv, NEW t \in Threads, expire(t)
    PROVE  IInv'
  <1> DEFINE o == held[t]
  <1>1. pc[t] = "ready" /\ Return(t) /\ UNCHANGED <<now, cur, list, loaded, eff>>
    BY DEF expire
  <1>2. PICK ms \in ExpireArgs :
          /\ expiry' = [expiry EXCEPT ![o] = (now + ms) % U32]
          /\ Write("list", list[o], (now + ms) % U32, {}, NoItems)
    BY DEF expire
  <1>3. (now + ms) % U32 \in 0..(U32 - 1)
    <2>1. now + ms \in Int
      BY Constants DEF IInv, MemoryOK
    <2>2. QED
      BY <2>1, Constants, ModRange
  <1>4. expiry' \in [Objects -> 0..(U32 - 1)]
    BY <1>1, <1>2, <1>3, HeldList
  <1>5. list[o] \in Seq(Ids) /\ Cyclic(list[o]) /\ list' = [list EXCEPT ![o] = list[o]]
    BY <1>1, HeldList
  <1>6. DiskOK'
    BY <1>2, <1>3, <1>5, NoItemsType, WriteType DEF IInv
  <1>7. dbList' \in {dbList, list[o]}
    BY <1>2, WriteList
  <1>8. QED
    BY <1>1, <1>4, <1>5, <1>6, <1>7, CommandStep

LEMMA RemoveStep ==
    ASSUME IInv, NEW t \in Threads, remove(t)
    PROVE  IInv'
  <1> DEFINE o == held[t]
  <1>1. /\ pc[t] = "ready" /\ Return(t) /\ UNCHANGED <<now, cur, expiry, loaded, eff>>
        /\ list' = [list EXCEPT ![o] = <<>>]
        /\ Write("absent", <<>>, 0, IdsOf(list[o]), NoItems)
    BY DEF remove
  <1>2. <<>> \in Seq(Ids) /\ 0 \in 0..(U32 - 1)
    BY Constants
  <1>3. DiskOK'
    BY <1>1, <1>2, NoItemsType, WriteType DEF IInv
  <1>4. dbList' \in {dbList, <<>>}
    BY <1>1, WriteList
  <1>5. QED
    BY <1>1, <1>2, <1>3, <1>4, CyclicEmpty, HeldList, CommandStep

LEMMA IInvNext == IInv /\ [Next]_vars => IInv'
  <1> SUFFICES ASSUME IInv, [Next]_vars PROVE IInv'
    OBVIOUS
  <1>1. ASSUME NEW t \in Threads, Read(t) PROVE IInv'
    <2>1. DiskOK' /\ UNCHANGED <<now, cur, list, expiry, loaded, eff, dbList>>
      BY <1>1 DEF Read, IInv, DiskOK, memory, disk
    <2>2. ThreadsOK'
      BY <1>1, ReturnType DEF Read, IInv
    <2>3. MemoryOK' /\ AllCyclic'
      BY <2>1, CyclicStays DEF IInv, MemoryOK
    <2>4. QED
      BY <2>1, <2>2, <2>3 DEF IInv
  <1>2. ASSUME check \/ Tick \/ Restart \/ UNCHANGED vars PROVE IInv'
    <2>1. UNCHANGED <<list, expiry, loaded, eff, dbType, dbList, dbExpiry, items>>
      BY <1>2 DEF check, Tick, Restart, vars, memory, disk
    <2>2. DiskOK' /\ AllCyclic'
      BY <2>1, CyclicStays DEF IInv, DiskOK
    <2>3. ThreadsOK'
      <3>1. CASE Restart
        BY <3>1 DEF Restart, ThreadsOK
      <3>2. CASE check \/ Tick \/ UNCHANGED vars
        BY <3>2 DEF check, Tick, vars, IInv, ThreadsOK
      <3>3. QED
        BY <1>2, <3>1, <3>2
    <2>4. now' \in Nat /\ cur' \in Objects \cup {None}
      BY <1>2 DEF check, Tick, Restart, vars, IInv, MemoryOK
    <2>5. MemoryOK'
      BY <2>1, <2>4 DEF IInv, MemoryOK
    <2>6. QED
      BY <2>2, <2>3, <2>5 DEF IInv
  <1>3. QED
    BY <1>1, <1>2, FindStep, TouchStep, InitStep, PushStep, PopStep, UpdateStep,
       ExpireStep, RemoveStep
       DEF Next

(* Every variable of ListStore keeps its type, whatever writes and reads     *)
(* fail and whenever an object is evicted.                                   *)
THEOREM ListTypeCorrect == Spec => []TypeOK
  <1>1. IInv => TypeOK
    BY TypeParts DEF IInv
  <1>2. QED
    BY <1>1, IInvInit, IInvNext, PTL DEF Spec

(* list_get_keyId never gives out an id that is still in the list, although  *)
(* ids start again after 16 bits and failed writes, failed reads and         *)
(* evictions leave memory and disk apart: for every list_max_count < 2^16.   *)
THEOREM IdsStayDistinct == Spec => []DistinctIds
  <1>1. IInv => DistinctIds
    BY CyclicDistinct DEF IInv, DiskOK, MemoryOK, AllCyclic, DistinctIds
  <1>2. QED
    BY <1>1, IInvInit, IInvNext, PTL DEF Spec
=============================================================================
