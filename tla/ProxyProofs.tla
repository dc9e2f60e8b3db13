----------------------------- MODULE ProxyProofs -----------------------------
(* The proxy, for any number of addresses, clients, commands and pieces:     *)
(* answers go to the clients that asked, and the storage server reads whole  *)
(* commands.                                                                 *)
EXTENDS Proxy, SequenceTheorems, TLAPS

(* ReplyReachesAsker is not inductive: the address that is recorded for a    *)
(* serial number must belong to the client that asked.                       *)
PInv ==
    /\ clients \in Nat
    /\ who \in [Slots -> Nat]
    /\ asked \in Seq(Nat \ {0})
    /\ DOMAIN serials \subseteq 0..(Len(asked) - 1)
    /\ \A n \in DOMAIN serials : serials[n] \in Slots /\ who[serials[n]] = asked[n + 1]
    /\ \A h \in heard : h.serial \in 0..(Len(asked) - 1) /\ h.client = asked[h.serial + 1]

LEMMA ProxyInit == Init => PInv
  BY DEF Init, PInv

LEMMA ProxyNext == PInv /\ [Next]_vars => PInv'
  <1> SUFFICES ASSUME PInv, [Next]_vars PROVE PInv'
    OBVIOUS
  <1> USE DEF PInv
  <1>1. CASE onWrite
    BY <1>1 DEF onWrite
  <1>2. CASE onRelease
    BY <1>2 DEF onRelease
  <1>3. CASE Answer
    BY <1>3 DEF Answer
  <1>4. CASE onData
    <2> DEFINE n == Head(answers)
    <2>1. UNCHANGED <<clients, who, asked, serials>>
      BY <1>4 DEF onData
    <2>2. CASE n \in DOMAIN serials
      <3>1. heard' = heard \cup {[client |-> who[serials[n]], serial |-> n]}
        BY <1>4, <2>2 DEF onData
      <3>2. n \in 0..(Len(asked) - 1) /\ who[serials[n]] = asked[n + 1]
        BY <2>2
      <3>3. QED
        BY <2>1, <3>1, <3>2
    <2>3. CASE n \notin DOMAIN serials
      <3>1. heard' = heard
        BY <1>4, <2>3 DEF onData
      <3>2. QED
        BY <2>1, <3>1
    <2>4. QED
      BY <2>2, <2>3
  <1>5. ASSUME NEW s \in Slots, on_accept(s) PROVE PInv'
    <2>1. \A n \in DOMAIN serials : serials[n] # s
      <3>1. \A n \in DOMAIN serials : asked[n + 1] # 0
        OBVIOUS
      <3>2. QED
        BY <1>5, <3>1 DEF on_accept
    <2>2. QED
      BY <1>5, <2>1 DEF on_accept
  <1>6. ASSUME NEW s \in Slots, execute(s) PROVE PInv'
    <2> DEFINE n == Len(asked)
    <2>1. /\ asked' = Append(asked, who[s]) /\ who[s] # 0
          /\ serials' = [m \in DOMAIN serials \cup {n} |->
                            IF m \in DOMAIN serials THEN serials[m] ELSE s]
          /\ UNCHANGED <<clients, who, heard>>
      BY <1>6 DEF execute
    <2>2. /\ asked' \in Seq(Nat \ {0}) /\ Len(asked') = n + 1 /\ asked'[n + 1] = who[s]
          /\ \A i \in 1..n : asked'[i] = asked[i]
      BY <2>1
    <2>3. DOMAIN serials' \subseteq 0..(Len(asked') - 1)
      BY <2>1, <2>2
    <2>4. ASSUME NEW m \in DOMAIN serials'
          PROVE  serials'[m] \in Slots /\ who'[serials'[m]] = asked'[m + 1]
      <3>1. CASE m \in DOMAIN serials
        BY <2>1, <2>2, <3>1
      <3>2. CASE m \notin DOMAIN serials
        BY <2>1, <2>2, <3>2
      <3>3. QED
        BY <3>1, <3>2
    <2>5. \A h \in heard' : h.serial \in 0..(Len(asked') - 1) /\ h.client = asked'[h.serial + 1]
      BY <2>1, <2>2
    <2>6. QED
      BY <2>1, <2>2, <2>3, <2>4, <2>5
  <1>7. ASSUME NEW s \in Slots, on_disconnect(s) PROVE PInv'
    BY <1>7 DEF on_disconnect
  <1>8. ASSUME NEW s \in Slots, on_release(s) PROVE PInv'
    BY <1>8 DEF on_release
  <1>9. ASSUME NEW n \in 1..MaxRequests, on_timer(n) PROVE PInv'
    BY <1>9 DEF on_timer
  <1>10. CASE UNCHANGED vars
    BY <1>10 DEF vars
  <1>11. QED
    BY <1>1, <1>2, <1>3, <1>4, <1>5, <1>6, <1>7, <1>8, <1>9, <1>10 DEF Next

(* However clients leave and others take over their addresses, an answer     *)
(* reaches the client that asked for it, or nobody (_container::unbind,      *)
(* _storage_cb::onData).                                                     *)
THEOREM AnswersReachTheirAskers == Spec => []ReplyReachesAsker
  <1>1. PInv => ReplyReachesAsker
    BY DEF PInv, ReplyReachesAsker
  <1>2. QED
    BY <1>1, ProxyInit, ProxyNext, PTL DEF Spec

-----------------------------------------------------------------------------
(* What is on the wire and what waits behind it in the ring are one stream. *)

Piece == [serial : Nat, part : {1, 2}]

At(q, r, i) == IF i <= Len(q) THEN q[i] ELSE r[i - Len(q)]

(* The stream q, r consists of whole commands. *)
Paired(q, r) ==
    \A i \in 1..(Len(q) + Len(r)) :
        IF i % 2 = 1 THEN i < Len(q) + Len(r) /\ At(q, r, i).part = 1
        ELSE At(q, r, i) = [serial |-> At(q, r, i - 1).serial, part |-> 2]

(* WholeCommands is not inductive: a connection may have taken half of a     *)
(* command, whose rest is first in the ring.                                 *)
WInv ==
    /\ wire \in Seq(Piece) /\ ring \in Seq(Piece)
    /\ zcon \in {"none", "connecting", "up"}
    /\ zcon # "up" => wire = <<>>
    /\ cut \in BOOLEAN
    /\ ~cut => Paired(wire, ring)

LEMMA Parity ==
    ASSUME NEW n \in Nat
    PROVE  /\ n % 2 \in {0, 1}
           /\ (n + 2) % 2 = n % 2
           /\ (n + 1) % 2 = 1 - (n % 2)
  OBVIOUS

LEMMA EvenLength ==
    ASSUME NEW q \in Seq(Piece), NEW r \in Seq(Piece), Paired(q, r)
    PROVE  (Len(q) + Len(r)) % 2 = 0
  <1> DEFINE n == Len(q) + Len(r)
  <1>1. n \in Nat
    OBVIOUS
  <1>2. CASE n = 0
    BY <1>2
  <1>3. CASE n # 0
    <2>1. n \in 1..n
      BY <1>1, <1>3
    <2>2. n % 2 # 1
      BY <1>1, <2>1 DEF Paired
    <2>3. QED
      BY <1>1, <2>2, Parity
  <1>4. QED
    BY <1>2, <1>3

(* doWrite moves pieces from the ring to the wire. *)
LEMMA MovePieces ==
    ASSUME NEW q \in Seq(Piece), NEW r \in Seq(Piece), NEW k \in 0..Len(r), Paired(q, r)
    PROVE  Paired(q \o SubSeq(r, 1, k), SubSeq(r, k + 1, Len(r)))
  <1> DEFINE q2 == q \o SubSeq(r, 1, k)
             r2 == SubSeq(r, k + 1, Len(r))
  <1>1. /\ SubSeq(r, 1, k) \in Seq(Piece) /\ Len(SubSeq(r, 1, k)) = k
        /\ \A i \in 1..k : SubSeq(r, 1, k)[i] = r[i]
    OBVIOUS
  <1>2. /\ r2 \in Seq(Piece) /\ Len(r2) = Len(r) - k
        /\ \A i \in 1..(Len(r) - k) : r2[i] = r[k + i]
    OBVIOUS
  <1>3. /\ q2 \in Seq(Piece) /\ Len(q2) = Len(q) + k
        /\ \A i \in 1..Len(q) : q2[i] = q[i]
        /\ \A i \in 1..k : q2[Len(q) + i] = r[i]
    BY <1>1
  <1> HIDE DEF q2, r2
  <1>4. \A i \in 1..(Len(q) + Len(r)) : At(q2, r2, i) = At(q, r, i)
    <2> TAKE i \in 1..(Len(q) + Len(r))
    <2>1. CASE i <= Len(q)
      BY <1>3, <2>1 DEF At
    <2>2. CASE i > Len(q) /\ i <= Len(q) + k
      <3>1. i - Len(q) \in 1..k /\ i = Len(q) + (i - Len(q))
        BY <2>2
      <3>2. q2[i] = r[i - Len(q)]
        BY <1>3, <3>1
      <3>3. QED
        BY <1>3, <2>2, <3>2 DEF At
    <2>3. CASE i > Len(q) + k
      <3>1. i - Len(q2) \in 1..(Len(r) - k) /\ k + (i - Len(q2)) = i - Len(q)
        BY <1>3, <2>3
      <3>2. r2[i - Len(q2)] = r[i - Len(q)]
        BY <1>2, <3>1
      <3>3. QED
        BY <1>3, <2>3, <3>2 DEF At
    <2>4. QED
      BY <2>1, <2>2, <2>3
  <1>5. Len(q2) + Len(r2) = Len(q) + Len(r)
    BY <1>2, <1>3
  <1>6. \A i \in 1..(Len(q) + Len(r)) : i % 2 # 1 => i - 1 \in 1..(Len(q) + Len(r))
    OBVIOUS
  <1>7. Paired(q2, r2)
    BY <1>4, <1>5, <1>6 DEF Paired
  <1>8. QED
    BY <1>7 DEF q2, r2

(* execute puts a whole command behind the stream. *)
LEMMA AppendCommand ==
    ASSUME NEW q \in Seq(Piece), NEW r \in Seq(Piece), NEW n \in Nat, Paired(q, r)
    PROVE  Paired(q, r \o <<[serial |-> n, part |-> 1], [serial |-> n, part |-> 2]>>)
  <1> DEFINE a == [serial |-> n, part |-> 1]
             b == [serial |-> n, part |-> 2]
             r2 == r \o <<a, b>>
             m == Len(q) + Len(r)
  <1>1. /\ a \in Piece /\ b \in Piece
        /\ a.part = 1 /\ a.serial = n
    BY DEF Piece
  <1>2. b = [serial |-> a.serial, part |-> 2]
    OBVIOUS
  <1> HIDE DEF a, b
  <1>3. /\ r2 \in Seq(Piece) /\ Len(r2) = Len(r) + 2
        /\ \A i \in 1..Len(r) : r2[i] = r[i]
        /\ r2[Len(r) + 1] = a /\ r2[Len(r) + 2] = b
    BY <1>1
  <1>4. m \in Nat /\ m % 2 = 0
    BY EvenLength
  <1> HIDE DEF r2
  <1>5. /\ \A i \in 1..m : At(q, r2, i) = At(q, r, i)
        /\ At(q, r2, m + 1) = a /\ At(q, r2, m + 2) = b
    <2>1. ASSUME NEW i \in 1..m
          PROVE  At(q, r2, i) = At(q, r, i)
      <3>1. i > Len(q) => i - Len(q) \in 1..Len(r)
        OBVIOUS
      <3>2. QED
        BY <1>3, <3>1 DEF At
    <2>2. /\ (m + 1) - Len(q) = Len(r) + 1 /\ (m + 2) - Len(q) = Len(r) + 2
          /\ ~(m + 1 <= Len(q)) /\ ~(m + 2 <= Len(q))
      OBVIOUS
    <2> HIDE DEF m
    <2>3. QED
      BY <1>3, <2>1, <2>2 DEF At
  <1>6. Len(q) + Len(r2) = m + 2
    BY <1>3
  <1>7. (m + 1) % 2 = 1 /\ (m + 2) % 2 = 0
    BY <1>4, Parity
  <1> HIDE DEF m
  <1>8. ASSUME NEW i \in 1..(m + 2)
        PROVE  IF i % 2 = 1 THEN i < m + 2 /\ At(q, r2, i).part = 1
               ELSE At(q, r2, i) = [serial |-> At(q, r2, i - 1).serial, part |-> 2]
    <2>1. CASE i \in 1..m
      <3>1. i % 2 # 1 => i - 1 \in 1..m
        BY <1>4, <2>1
      <3>2. IF i % 2 = 1 THEN i < m /\ At(q, r, i).part = 1
            ELSE At(q, r, i) = [serial |-> At(q, r, i - 1).serial, part |-> 2]
        BY <2>1 DEF Paired, m
      <3>3. QED
        BY <1>4, <1>5, <2>1, <3>1, <3>2
    <2>2. CASE i = m + 1
      BY <1>1, <1>4, <1>5, <1>7, <2>2
    <2>3. CASE i = m + 2
      <3>1. i - 1 = m + 1
        BY <1>4, <2>3
      <3>2. QED
        BY <1>2, <1>5, <1>7, <2>3, <3>1
    <2>4. QED
      BY <1>4, <2>1, <2>2, <2>3
  <1>9. Paired(q, r2)
    BY <1>6, <1>8 DEF Paired
  <1>10. QED
    BY <1>9 DEF r2, a, b

(* send may clear a ring that begins with a command: the rest of the stream  *)
(* is whole.                                                                 *)
LEMMA ClearRing ==
    ASSUME NEW q \in Seq(Piece), NEW r \in Seq(Piece), Len(r) > 0, r[1].part # 2, Paired(q, r)
    PROVE  Paired(q, <<>>)
  <1>1. Len(q) \in Nat /\ Len(r) \in Nat /\ Len(q) + 1 \in 1..(Len(q) + Len(r))
    OBVIOUS
  <1>2. At(q, r, Len(q) + 1) = r[1]
    BY DEF At
  <1>3. (Len(q) + 1) % 2 = 1
    <2> SUFFICES ASSUME (Len(q) + 1) % 2 # 1
                 PROVE  FALSE
      OBVIOUS
    <2>1. r[1] = [serial |-> At(q, r, Len(q)).serial, part |-> 2]
      BY <1>1, <1>2 DEF Paired
    <2>2. QED
      BY <2>1
  <1>4. Len(q) % 2 = 0
    BY <1>1, <1>3, Parity
  <1>5. Len(<<>>) = 0 /\ Len(q) + 0 = Len(q)
    BY <1>1
  <1>6. ASSUME NEW i \in 1..Len(q)
        PROVE  IF i % 2 = 1 THEN i < Len(q) /\ At(q, <<>>, i).part = 1
               ELSE At(q, <<>>, i) = [serial |-> At(q, <<>>, i - 1).serial, part |-> 2]
    <2>1. At(q, <<>>, i) = At(q, r, i) /\ At(q, <<>>, i - 1) = At(q, r, i - 1)
      BY <1>1 DEF At
    <2>2. i \in 1..(Len(q) + Len(r))
      BY <1>1
    <2>3. IF i % 2 = 1 THEN At(q, r, i).part = 1
          ELSE At(q, r, i) = [serial |-> At(q, r, i - 1).serial, part |-> 2]
      BY <2>2 DEF Paired
    <2>4. i % 2 = 1 => i # Len(q)
      BY <1>4
    <2>5. QED
      BY <1>1, <2>1, <2>3, <2>4
  <1>7. QED
    BY <1>5, <1>6 DEF Paired

(* Answer takes the first command off the stream. *)
LEMMA TakeCommand ==
    ASSUME NEW q \in Seq(Piece), NEW r \in Seq(Piece), Len(q) >= 2, Paired(q, r)
    PROVE  Paired(SubSeq(q, 3, Len(q)), r)
  <1> DEFINE q2 == SubSeq(q, 3, Len(q))
             m == Len(q2) + Len(r)
  <1>1. /\ q2 \in Seq(Piece) /\ Len(q2) = Len(q) - 2
        /\ \A i \in 1..(Len(q) - 2) : q2[i] = q[i + 2]
    <2>1. Len(q) \in Nat /\ 3 \in 1..(Len(q) + 1)
      OBVIOUS
    <2>2. q2 \in Seq(Piece)
      BY <2>1
    <2>3. Len(q2) = Len(q) - 2
      <3>1. \A i \in 3..Len(q) : q[i] \in Piece
        BY <2>1
      <3>2. Len(q2) = IF 3 <= Len(q) THEN Len(q) - 3 + 1 ELSE 0
        BY <2>1, <3>1, SubSeqProperties
      <3>3. \A n \in Nat : n >= 2 => \/ (3 <= n /\ n - 3 + 1 = n - 2)
                                     \/ (~(3 <= n) /\ 0 = n - 2)
        OBVIOUS
      <3>4. \/ 3 <= Len(q) /\ Len(q) - 3 + 1 = Len(q) - 2
            \/ ~(3 <= Len(q)) /\ 0 = Len(q) - 2
        BY <2>1, <3>3, Zenon
      <3> HIDE DEF q2
      <3>5. QED
        BY <3>2, <3>4, SMT
    <2>4. \A i \in 1..(Len(q) - 2) : q2[i] = q[3 + i - 1]
      BY <2>1
    <2>5. \A i \in 1..(Len(q) - 2) : 3 + i - 1 = i + 2
      BY <2>1
    <2>6. QED
      BY <2>2, <2>3, <2>4, <2>5
  <1> HIDE DEF q2
  <1>2. m \in Nat /\ Len(q) + Len(r) = m + 2
    BY <1>1
  <1>3. ASSUME NEW i \in 1..m
        PROVE  At(q2, r, i) = At(q, r, i + 2)
    <2>1. CASE i <= Len(q2)
      BY <1>1, <2>1 DEF At
    <2>2. CASE i > Len(q2)
      <3>1. i - Len(q2) = (i + 2) - Len(q) /\ ~(i + 2 <= Len(q)) /\ ~(i <= Len(q2))
        BY <1>1, <2>2
      <3>2. QED
        BY <3>1 DEF At
    <2>3. QED
      BY <1>1, <2>1, <2>2
  <1> HIDE DEF m
  <1>4. ASSUME NEW i \in 1..m
        PROVE  IF i % 2 = 1 THEN i < m /\ At(q2, r, i).part = 1
               ELSE At(q2, r, i) = [serial |-> At(q2, r, i - 1).serial, part |-> 2]
    <2>1. i + 2 \in 1..(m + 2) /\ i \in Nat
      BY <1>2
    <2>2. (i + 2) % 2 = i % 2
      BY <2>1, Parity
    <2>3. IF i % 2 = 1 THEN i + 2 < m + 2 /\ At(q, r, i + 2).part = 1
          ELSE At(q, r, i + 2) = [serial |-> At(q, r, (i + 2) - 1).serial, part |-> 2]
      BY <1>2, <2>1, <2>2 DEF Paired
    <2>4. i % 2 # 1 => i - 1 \in 1..m /\ (i - 1) + 2 = (i + 2) - 1
      BY <1>2
    <2>5. i % 2 # 1 => At(q2, r, i - 1) = At(q, r, (i + 2) - 1)
      BY <1>3, <2>4
    <2>6. QED
      BY <1>2, <1>3, <2>3, <2>5
  <1>5. Paired(q2, r)
    BY <1>4 DEF Paired, m
  <1>6. QED
    BY <1>5 DEF q2

LEMMA StreamInit == Init => WInv
  <1> SUFFICES ASSUME Init
               PROVE  WInv
    OBVIOUS
  <1>1. wire = <<>> /\ ring = <<>> /\ zcon = "none" /\ cut = FALSE
    BY DEF Init
  <1>2. <<>> \in Seq(Piece) /\ Paired(<<>>, <<>>)
    BY DEF Paired
  <1>3. QED
    BY <1>1, <1>2 DEF WInv

LEMMA StreamNext ==
    ASSUME MaxRing \in Nat
    PROVE  PInv /\ WInv /\ [Next]_vars => WInv'
  <1> SUFFICES ASSUME PInv, WInv, [Next]_vars
               PROVE  WInv'
    OBVIOUS
  <1> USE DEF WInv
  <1>1. CASE UNCHANGED vars
    BY <1>1 DEF vars, upstream, Paired, At
  <1>2. CASE onWrite
    <2>1. PICK k \in 0..Len(ring) : /\ wire' = wire \o SubSeq(ring, 1, k)
                                    /\ ring' = SubSeq(ring, k + 1, Len(ring))
      BY <1>2 DEF onWrite, doWrite
    <2>2. cut' = cut /\ zcon' = "up"
      BY <1>2 DEF onWrite
    <2>3. wire' \in Seq(Piece) /\ ring' \in Seq(Piece)
      BY <2>1
    <2>4. ~cut => Paired(wire', ring')
      BY <2>1, MovePieces
    <2>5. QED
      BY <2>2, <2>3, <2>4 DEF Paired, At
  <1>3. CASE onRelease
    BY <1>3 DEF onRelease, Paired
  <1>4. CASE Answer
    <2>1. /\ wire' = SubSeq(wire, 3, Len(wire)) /\ Len(wire) >= 2
          /\ UNCHANGED <<zcon, ring, cut>>
      BY <1>4 DEF Answer
    <2>2. wire' \in Seq(Piece) /\ (zcon' # "up" => wire' = <<>>)
      BY <2>1
    <2>3. ~cut => Paired(wire', ring)
      BY <2>1, TakeCommand
    <2>4. QED
      BY <2>1, <2>2, <2>3 DEF Paired, At
  <1>5. CASE onData
    BY <1>5 DEF onData, Paired, At
  <1>6. ASSUME NEW s \in Slots, on_accept(s) \/ on_disconnect(s) \/ on_release(s)
        PROVE  WInv'
    BY <1>6 DEF on_accept, on_disconnect, on_release, upstream, Paired, At
  <1>7. ASSUME NEW n \in 1..MaxRequests, on_timer(n)
        PROVE  WInv'
    BY <1>7 DEF on_timer, upstream, Paired, At
  <1>8. ASSUME NEW s \in Slots, execute(s)
        PROVE  WInv'
    <2> DEFINE n == Len(asked)
               command == <<[serial |-> n, part |-> 1], [serial |-> n, part |-> 2]>>
               over == Len(ring) > MaxRing
               kept == IF over THEN <<>> ELSE ring
               r == kept \o command
    <2>1. n \in Nat /\ send(command)
      BY <1>8 DEF execute, PInv
    <2>2. cut' = (cut \/ (over /\ ring[1].part = 2))
      BY <2>1 DEF send
    <2>3. command \in Seq(Piece) /\ kept \in Seq(Piece)
      BY <2>1 DEF Piece
    <2>4. cut' \in BOOLEAN
      BY <2>2
    <2>5. ~cut' => Paired(wire, kept)
      <3>1. CASE over
        <4>1. Len(ring) > 0
          BY <3>1
        <4>2. QED
          BY <2>2, <3>1, <4>1, ClearRing
      <3>2. CASE ~over
        BY <2>2, <3>2
      <3>3. QED
        BY <3>1, <3>2
    <2>6. /\ r \in Seq(Piece)
          /\ ~cut' => Paired(wire, r)
      <3>1. ~cut' => Paired(wire, kept \o command)
        <4> HIDE DEF kept
        <4>1. QED
          BY <2>1, <2>3, <2>5, AppendCommand
      <3>2. QED
        BY <2>3, <3>1
    <2>7. \/ zcon # "none" /\ doWrite(r, zcon) /\ zcon' = zcon
          \/ zcon = "none" /\ zcon' = "connecting" /\ ring' = r /\ wire' = wire
          \/ zcon = "none" /\ ring' = <<>> /\ zcon' = zcon /\ wire' = wire
      BY <2>1 DEF send
    <2> HIDE DEF r
    <2>8. CASE zcon # "none" /\ doWrite(r, zcon) /\ zcon' = zcon
      <3>1. PICK k \in 0..(IF zcon = "up" THEN Len(r) ELSE 0) :
                /\ wire' = wire \o SubSeq(r, 1, k)
                /\ ring' = SubSeq(r, k + 1, Len(r))
        BY <2>8 DEF doWrite
      <3>2. k \in 0..Len(r) /\ (zcon # "up" => k = 0)
        BY <2>6, <3>1
      <3>3. wire' \in Seq(Piece) /\ ring' \in Seq(Piece)
        BY <2>6, <3>1, <3>2
      <3>4. zcon' # "up" => wire' = <<>>
        BY <2>8, <3>1, <3>2
      <3>5. ~cut' => Paired(wire', ring')
        BY <2>6, <3>1, <3>2, MovePieces
      <3>6. QED
        BY <2>4, <2>8, <3>3, <3>4, <3>5 DEF Paired, At
    <2>9. CASE zcon = "none" /\ zcon' = "connecting" /\ ring' = r /\ wire' = wire
      BY <2>4, <2>6, <2>9 DEF Paired, At
    <2>10. CASE zcon = "none" /\ ring' = <<>> /\ zcon' = zcon /\ wire' = wire
      <3>1. <<>> \in Seq(Piece) /\ Paired(<<>>, <<>>)
        BY DEF Paired
      <3>2. QED
        BY <2>4, <2>10, <3>1 DEF Paired, At
    <2>11. QED
      BY <2>7, <2>8, <2>9, <2>10
  <1>9. QED
    BY <1>1, <1>2, <1>3, <1>4, <1>5, <1>6, <1>7, <1>8 DEF Next

(* For any number of clients, commands and pieces the storage server reads   *)
(* whole commands, unless send() cleared a ring that began inside a command: *)
(* onRelease leaves no half of a command for the next connection.            *)
THEOREM ServerReadsWholeCommands ==
    ASSUME MaxRing \in Nat
    PROVE  Spec => []WholeCommands
  <1>1. WInv => WholeCommands
    <2> SUFFICES ASSUME WInv, ~cut, NEW i \in 1..Len(wire)
                 PROVE  IF i % 2 = 1 THEN wire[i].part = 1
                        ELSE wire[i] = [serial |-> wire[i - 1].serial, part |-> 2]
      BY DEF WholeCommands
    <2>1. Len(wire) \in Nat /\ Len(ring) \in Nat /\ i \in 1..(Len(wire) + Len(ring))
      BY DEF WInv
    <2>2. At(wire, ring, i) = wire[i] /\ At(wire, ring, i - 1) = wire[i - 1]
      BY <2>1 DEF At
    <2>3. QED
      BY <2>1, <2>2 DEF WInv, Paired
  <1>2. QED
    BY <1>1, ProxyInit, ProxyNext, StreamInit, StreamNext, PTL DEF Spec
=============================================================================
