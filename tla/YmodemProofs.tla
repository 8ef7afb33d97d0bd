---------------------------- MODULE YmodemProofs ----------------------------
(***************************************************************************)
(* What holds of the transfer for a file of any size, any number of tries  *)
(* and calls, and every fault.  What the bootloader stores is a beginning  *)
(* of one transfer's file, however late its replies are, if the sequence   *)
(* numbers are more than twice what can be in flight in a direction and no *)
(* call starts before everything of the one before has arrived.  And a     *)
(* flash that returns well, and that overtook no reply, has stored the     *)
(* whole of what was read, already with two sequence numbers.              *)
(***************************************************************************)
EXTENDS Ymodem, Integers, FiniteSets, FiniteSetTheorems, FunctionTheorems,
        SequenceTheorems, TLAPS

-----------------------------------------------------------------------------
(* The order of the host's frames: the way into the bootloader, the        *)
(* header, the data, the end.                                              *)
Class(f) == CASE f.kind \in {"r", "m", "u"} -> 0
              [] f.kind = "header" -> 1
              [] f.kind = "data" -> 2
              [] OTHER -> 3

(* The number of a block; the header counts as the block before the first. *)
Number(f) == IF f.kind = "data" THEN f.block[2] ELSE 0

Entry   == {"reset", "menu", "menu_wait", "update", "c_wait"}
Opening == {"header", "header_ack", "c_data"}
Filling == {"data", "data_ack"}
Closing == {"eot", "nak_wait", "eot2", "ack_wait", "c_close", "close", "close_ack",
            "jump", "report"}
Places  == {"idle"} \cup Entry \cup Opening \cup Filling \cup Closing

(* The class of what the host sends now; what it has sent is of no higher  *)
(* one.                                                                    *)
HostClass == IF pc \in Entry THEN 0 ELSE IF pc \in Opening THEN 1
             ELSE IF pc \in Filling THEN 2 ELSE 3

(* The highest number it has sent.                                         *)
Reach == IF HostClass \in {0, 1} THEN 0 ELSE sent + 1

Bytes  == {"menu", "app", "C", "ACK", "NAK"}
Packets == {"header", "data", "close"}
Frames == {f \in [kind : Commands \cup Packets, seq : Nat, block : Seq(Nat)] :
             f.kind = "data" => f.block \in Nat \X Nat}
Modes  == {"app", "boot", "menu", "off"} \cup Upload

TypedInv ==
  /\ pc \in Places /\ mode \in Modes
  /\ sent \in Nat /\ attempt \in Nat \ {0} /\ session \in 0 .. Sessions
  /\ result \in {"none", "ok", "failed"} /\ overtaken \in BOOLEAN /\ crowded \in BOOLEAN
  /\ down \in Seq(Frames) /\ Len(down) <= Depth
  /\ up \in Seq(Bytes) /\ Len(up) <= Depth
  /\ image \in Seq(Nat \X Nat)
  /\ seq = (sent + 1) % Modulus
  /\ pc \in Entry \cup Opening => sent = 0

(* Frames in flight are of this call, and in the order in which they were  *)
(* sent.                                                                   *)
FrameInv ==
  /\ \A i \in DOMAIN down :
       /\ Class(down[i]) <= HostClass
       /\ down[i].kind \in {"header", "close"} => down[i].seq = 0
       /\ down[i].kind = "data" =>
            /\ down[i].block = <<session, Number(down[i])>>
            /\ down[i].seq = Number(down[i]) % Modulus
            /\ Number(down[i]) \in 1 .. sent + 1
  /\ \A i, j \in DOMAIN down : i < j =>
       /\ Class(down[i]) <= Class(down[j])
       /\ Class(down[i]) = 2 /\ Class(down[j]) = 2 => Number(down[i]) <= Number(down[j])

Streams(f) == Class(f) \in {1, 2}
NoStreams  == \A i \in DOMAIN down : ~Streams(down[i])

(* The bootloader was heard in this call, so what it has begun is of this  *)
(* call.                                                                   *)
Opened ==
  \/ pc \in Opening \cup Filling \cup Closing
  \/ \E i \in DOMAIN down : Class(down[i]) # 0
  \/ \E i \in DOMAIN up : up[i] = "C"

Mine == image = FileOf(session, Len(image)) /\ expect = (Len(image) + 1) % Modulus

(* The sequence numbers outnumber what can be in flight in both            *)
(* directions, or no more than one packet can be.                          *)
Wide == Modulus > 2 * Depth
Safe == Wide \/ (~overtaken /\ pc # "idle")

OwnInv ==
  Opened /\ mode \in {"data", "eot"} =>
    /\ Safe => Mine
    /\ Safe => Len(image) <= Reach
    /\ HostClass # 0
    /\ mode = "eot" => HostClass = 3 /\ NoStreams

(* What the bootloader has, nobody sends again but for the last block.     *)
AheadInv ==
  Safe /\ Opened /\ mode = "data" =>
    \A i \in DOMAIN down : Streams(down[i]) => Len(image) <= Number(down[i])

(* How far the host can run ahead on acknowledgements of what was sent     *)
(* again: no further than the channels hold.                               *)
AckAt(q) == {i \in DOMAIN q : q[i] = "ACK"}
Acks(q) == Cardinality(AckAt(q))

Streaming == HostClass \in {1, 2} \/ \E i \in DOMAIN down : Streams(down[i])

LeadInv ==
  /\ \A i \in DOMAIN down :
       Streams(down[i]) => sent + Acks(up) + i < Number(down[i]) + 2 * Depth
  /\ Safe /\ Opened /\ mode = "data" /\ Streaming => sent + Acks(up) < Len(image) + 2 * Depth
  /\ HostClass \in {0, 1} /\ up # <<>> => up[Len(up)] # "ACK"

(* As long as the call overtook no reply the host sends a packet when      *)
(* the one before it, and the answer to it, are gone.                      *)
Answer(b) == b \in {"ACK", "NAK"}

Clear == NoStreams /\ \A i \in DOMAIN up : ~Answer(up[i])

OneAtMost ==
  /\ \A i, j \in DOMAIN down : Streams(down[i]) /\ Streams(down[j]) => i = j
  /\ \A i, j \in DOMAIN up : Answer(up[i]) /\ Answer(up[j]) => i = j
  /\ \A i \in DOMAIN down, j \in DOMAIN up : ~(Streams(down[i]) /\ Answer(up[j]))

Acknowledged == \E i \in DOMAIN up : up[i] = "ACK"

Stored(n) == image = FileOf(session, n)

LockInv ==
  ~overtaken =>
    /\ pc \in Entry \cup {"header", "c_data", "data"} => Clear
    /\ pc \in {"header_ack", "data_ack"} => OneAtMost
    /\ pc = "header_ack" /\ Acknowledged => Stored(0)
    /\ pc = "c_data" => Stored(0) /\ attempt = 1
    /\ pc = "data" => Stored(sent) \/ (Stored(sent + 1) /\ attempt # 1)
    /\ pc = "data_ack" =>
         /\ IF Acknowledged THEN Stored(sent + 1) ELSE Stored(sent) \/ Stored(sent + 1)
         /\ \A i \in DOMAIN down : Streams(down[i]) => Class(down[i]) = 2 /\ Number(down[i]) = sent + 1
    /\ pc \in Closing \/ (pc = "idle" /\ result = "ok") =>
         Stored(sent) /\ NoStreams

ImageInv ==
  /\ session = 0 => pc = "idle" /\ down = <<>>
  /\ Wide => image = <<>> \/ \E s \in 1 .. session : image = FileOf(s, Len(image))

-----------------------------------------------------------------------------
(* Numbers, sequences, counting.                                           *)

LEMMA DivMod ==
  ASSUME NEW m \in Nat \ {0}, NEW a \in Nat
  PROVE  a = m * (a \div m) + (a % m) /\ a % m \in 0 .. m - 1 /\ (a \div m) \in Nat
BY SMT

LEMMA Multiples ==
  ASSUME NEW m \in Nat \ {0}, NEW p \in Nat, NEW q \in Nat, NEW r \in 0 .. m - 1, NEW s \in 0 .. m - 1,
         m * p + r = m * q + s
  PROVE  p = q /\ r = s
<1>1. ASSUME NEW d \in Int, m * d < m  PROVE d <= 0
  BY <1>1, SMT
<1>2. \A x, y \in Int : m * (x - y) = m * x - m * y
  BY SMT
<1>3. m * (p - q) < m /\ m * (q - p) < m
  BY <1>2, SMT
<1>4. p - q <= 0 /\ q - p <= 0
  BY <1>1, <1>3
<1> QED  BY <1>4, SMT

LEMMA ModUnique ==
  ASSUME NEW m \in Nat \ {0}, NEW a \in Nat, NEW b \in Nat, a <= b, b - a < m, a % m = b % m
  PROVE  a = b
<1>1. ASSUME NEW d \in Int, m * d < m  PROVE d <= 0
  BY <1>1, SMT
<1>2. \A x, y \in Int : m * (x - y) = m * x - m * y
  BY SMT
<1> DEFINE p == a \div m  q == b \div m
<1>3. p \in Nat /\ q \in Nat /\ a = m * p + (a % m) /\ b = m * q + (b % m)
  BY DivMod
<1>4. a % m \in Nat /\ b % m \in Nat
  BY DivMod
<1> HIDE DEF p, q
<1>5. b - a = m * (q - p)
  BY <1>2, <1>3, <1>4, SMT
<1>6. q - p <= 0 
  BY <1>1, <1>3, <1>5
<1>7. m * q <= m * p
  BY <1>3, <1>6, SMT
<1> QED  BY <1>3, <1>4, <1>7, SMT

LEMMA ModNext ==
  ASSUME NEW m \in Nat \ {0}, NEW a \in Nat
  PROVE  ((a % m) + 1) % m = (a + 1) % m
<1> DEFINE r == a % m  p == a \div m  q == (a + 1) \div m  s == (a + 1) % m
           u == (r + 1) \div m  v == (r + 1) % m
<1>1. p \in Nat /\ r \in 0 .. m - 1 /\ a = m * p + r
  BY DivMod
<1>0. a + 1 \in Nat
  OBVIOUS
<1>2. q \in Nat /\ s \in 0 .. m - 1 /\ a + 1 = m * q + s
  BY <1>0, DivMod
<1>3. r + 1 \in Nat
  BY <1>1
<1>4. u \in Nat /\ v \in 0 .. m - 1 /\ r + 1 = m * u + v
  BY <1>3, DivMod
<1> HIDE DEF r, p, q, s, u, v
<1>5. m * (p + u) = m * p + m * u
  BY <1>1, <1>4, SMT
<1>6. m * (p + u) + v = m * q + s
  BY <1>1, <1>2, <1>4, <1>5, SMT
<1>8. p + u \in Nat
  BY <1>1, <1>4
<1>7. v = s
  <2>1. \A P, Q \in Nat, R, S \in 0 .. m - 1 : m * P + R = m * Q + S => R = S
    BY Multiples
  <2> QED  BY <2>1, <1>2, <1>4, <1>6, <1>8, Zenon
<1> QED  BY <1>7 DEF v, s, r
LEMMA UpTo ==
  ASSUME NEW n \in Nat
  PROVE  IsFiniteSet(1 .. n) /\ Cardinality(1 .. n) = n
<1>1. 1 \in Int /\ n \in Int
  OBVIOUS
<1>2. IsFiniteSet(1 .. n) /\ Cardinality(1 .. n) = IF 1 > n THEN 0 ELSE n - 1 + 1
  BY <1>1, FS_Interval, Zenon
<1> QED  BY <1>2, SMT

LEMMA AckAtFinite ==
  ASSUME NEW S, NEW q \in Seq(S)
  PROVE  IsFiniteSet(AckAt(q)) /\ Acks(q) \in 0 .. Len(q)
<1>1. IsFiniteSet(1 .. Len(q)) /\ Cardinality(1 .. Len(q)) = Len(q)
  BY UpTo
<1>2. AckAt(q) \in SUBSET (1 .. Len(q))
  BY DEF AckAt
<1>3. IsFiniteSet(AckAt(q)) /\ Cardinality(AckAt(q)) <= Len(q)
  BY <1>1, <1>2, FS_Subset
<1> QED  BY <1>3, FS_CardinalityType DEF Acks

LEMMA AcksEmpty == Acks(<<>>) = 0
BY FS_EmptySet DEF Acks, AckAt

LEMMA AcksLess ==
  ASSUME NEW S, NEW q \in Seq(S), NEW i \in 1 .. Len(q), q[i] # "ACK"
  PROVE  Acks(q) < Len(q)
<1>1. IsFiniteSet(1 .. Len(q)) /\ Cardinality(1 .. Len(q)) = Len(q)
  BY UpTo
<1>2. AckAt(q) \in SUBSET (1 .. Len(q)) /\ AckAt(q) # 1 .. Len(q)
  BY DEF AckAt
<1>3. Cardinality(AckAt(q)) # Len(q)
  BY <1>1, <1>2, FS_Subset
<1> QED  BY <1>3, AckAtFinite DEF Acks

LEMMA AcksAppend ==
  ASSUME NEW S, NEW q \in Seq(S), NEW b \in S
  PROVE  Acks(Append(q, b)) = IF b = "ACK" THEN Acks(q) + 1 ELSE Acks(q)
<1> DEFINE r == Append(q, b)
<1>1. AckAt(r) = IF b = "ACK" THEN AckAt(q) \cup {Len(q) + 1} ELSE AckAt(q)
  BY DEF AckAt
<1>2. Len(q) + 1 \notin AckAt(q)
  BY DEF AckAt
<1>3. Cardinality(AckAt(q) \cup {Len(q) + 1}) = Cardinality(AckAt(q)) + 1
  BY <1>2, AckAtFinite, FS_AddElement
<1> QED  BY <1>1, <1>3 DEF Acks

LEMMA AcksDrop ==
  ASSUME NEW S, NEW q \in Seq(S), NEW n \in 0 .. Len(q), NEW r \in Seq(S),
         Len(r) = Len(q) - n, \A i \in 1 .. Len(r) : r[i] = q[i + n]
  PROVE  /\ Acks(r) <= Acks(q)
         /\ n = 1 => Acks(q) = IF q[1] = "ACK" THEN Acks(r) + 1 ELSE Acks(r)
<1> DEFINE T == {i \in AckAt(q) : i > n}
           f == [i \in AckAt(r) |-> i + n]
<1>1. f \in Bijection(AckAt(r), T)
  <2>1. f \in [AckAt(r) -> T]
    BY DEF AckAt
  <2>2. \A i, j \in AckAt(r) : f[i] = f[j] => i = j
    BY DEF AckAt
  <2>3. ASSUME NEW t \in T  PROVE \E i \in AckAt(r) : f[i] = t
    <3>0. t \in 1 .. Len(q) /\ t > n /\ q[t] = "ACK"
      BY DEF AckAt
    <3>1. t - n \in 1 .. Len(r) /\ (t - n) + n = t
      BY <3>0
    <3>2. r[t - n] = q[t]
      BY <3>1
    <3>3. t - n \in AckAt(r)
      BY <3>0, <3>1, <3>2 DEF AckAt
    <3> QED  BY <3>1, <3>3
  <2> HIDE DEF f, T
  <2> QED  BY <2>1, <2>2, <2>3, Fun_IsBij
<1>2. IsFiniteSet(T) /\ Cardinality(T) = Acks(r)
  BY <1>1, AckAtFinite, FS_Bijection DEF Acks, ExistsBijection
<1>3. Acks(r) <= Acks(q)
  BY <1>2, AckAtFinite, FS_Subset DEF Acks
<1>4. ASSUME n = 1  PROVE Acks(q) = IF q[1] = "ACK" THEN Acks(r) + 1 ELSE Acks(r)
  <2>1. AckAt(q) = IF q[1] = "ACK" THEN T \cup {1} ELSE T
    BY <1>4 DEF AckAt
  <2>2. Cardinality(T \cup {1}) = Cardinality(T) + 1
    <3>1. 1 \notin T
      BY <1>4
    <3> HIDE DEF T
    <3> QED  BY <3>1, <1>2, FS_AddElement
  <2> QED  BY <2>1, <2>2, <1>2 DEF Acks
<1> QED  BY <1>3, <1>4
-----------------------------------------------------------------------------
(* The tables of the host.                                                 *)

LEMMA SendsTable ==
  ASSUME pc \in DOMAIN Sends
  PROVE  \/ /\ pc \in {"reset", "menu", "update"}
            /\ Sends[pc][1] \in {"r", "m", "u"} /\ Sends[pc][2] \in Entry
         \/ /\ pc \in {"eot", "eot2", "jump"}
            /\ Sends[pc][1] \in {"EOT", "a"} /\ Sends[pc][2] \in Closing
BY DEF Sends, Entry, Closing

LEMMA AwaitsTable ==
  ASSUME pc \in DOMAIN Awaits
  PROVE  \/ pc = "menu_wait" /\ Awaits[pc] = <<"menu", "update">>
         \/ pc = "c_wait" /\ Awaits[pc] = <<"C", "header">>
         \/ pc = "c_data" /\ Awaits[pc] = <<"C", "data">>
         \/ pc \in {"nak_wait", "ack_wait", "c_close"} /\ Awaits[pc][2] \in Closing
BY DEF Awaits, Closing

LEMMA AckedTable ==
  ASSUME pc \in DOMAIN Acked
  PROVE  LET p == CHOOSE p \in DOMAIN AckPlace : AckPlace[p] = pc IN
         \/ pc = "header_ack" /\ Acked[pc] = "c_data" /\ p = "header"
         \/ pc = "data_ack" /\ Acked[pc] = "data" /\ p = "data"
         \/ pc = "close_ack" /\ Acked[pc] = "jump" /\ p = "close"
<1>1. DOMAIN AckPlace = {"header", "data", "close"}
  BY DEF AckPlace
<1>2. AckPlace["header"] = "header_ack" /\ AckPlace["data"] = "data_ack" /\ AckPlace["close"] = "close_ack"
  BY DEF AckPlace
<1>3. pc \in {"header_ack", "data_ack", "close_ack"}
  BY DEF Acked
<1>4. Acked["header_ack"] = "c_data" /\ Acked["data_ack"] = "data" /\ Acked["close_ack"] = "jump"
  BY DEF Acked
<1>5. CASE pc = "header_ack"
  BY <1>1, <1>2, <1>4, <1>5
<1>6. CASE pc = "data_ack"
  BY <1>1, <1>2, <1>4, <1>6
<1>7. CASE pc = "close_ack"
  BY <1>1, <1>2, <1>4, <1>7
<1> QED  BY <1>3, <1>5, <1>6, <1>7

LEMMA AckPlaceTable ==
  ASSUME pc \in DOMAIN AckPlace
  PROVE  \/ pc = "header" /\ AckPlace[pc] = "header_ack"
         \/ pc = "data" /\ AckPlace[pc] = "data_ack"
         \/ pc = "close" /\ AckPlace[pc] = "close_ack"
BY DEF AckPlace

-----------------------------------------------------------------------------
(* The channels.  A step loses a beginning of a channel or adds to its     *)
(* end.                                                                    *)

Dropped(r, q, n) ==
  /\ n \in 0 .. Len(q) /\ Len(r) = Len(q) - n
  /\ \A i \in 1 .. Len(r) : r[i] = q[i + n]

LEMMA TailDrops ==
  ASSUME NEW S, NEW q \in Seq(S), q # <<>>
  PROVE  Tail(q) \in Seq(S) /\ Dropped(Tail(q), q, 1) /\ Head(q) = q[1] /\ Len(q) >= 1 /\ Head(q) \in S
<1>1. Len(q) \in Nat \ {0}
  BY EmptySeq
<1> QED  BY <1>1, HeadTailProperties DEF Dropped

LEMMA SubSeqDrops ==
  ASSUME NEW S, NEW q \in Seq(S), NEW n \in 0 .. Len(q)
  PROVE  SubSeq(q, n + 1, Len(q)) \in Seq(S) /\ Dropped(SubSeq(q, n + 1, Len(q)), q, n)
<1>1. \A i \in n + 1 .. Len(q) : q[i] \in S
  OBVIOUS
<1>2. n + 1 \in Int /\ Len(q) \in Int
  OBVIOUS
<1> DEFINE r == SubSeq(q, n + 1, Len(q))
<1>3. /\ r \in Seq(S)
      /\ Len(r) = IF n + 1 <= Len(q) THEN Len(q) - (n + 1) + 1 ELSE 0
      /\ \A i \in 1 .. Len(q) - (n + 1) + 1 : r[i] = q[(n + 1) + i - 1]
  BY <1>1, <1>2, SubSeqProperties
<1> HIDE DEF r
<1>4. Len(r) = Len(q) - n
  BY <1>3
<1>5. \A i \in 1 .. Len(r) : r[i] = q[i + n]
  BY <1>3, <1>4
<1> QED  BY <1>3, <1>4, <1>5 DEF Dropped, r

LEMMA FileOfSeq ==
  ASSUME NEW s \in Nat, NEW n \in Nat
  PROVE  FileOf(s, n) \in Seq(Nat \X Nat) /\ Len(FileOf(s, n)) = n
<1>1. FileOf(s, n) \in [1 .. n -> Nat \X Nat]
  BY DEF FileOf
<1>2. FileOf(s, n) \in Seq(Nat \X Nat)
  BY <1>1
<1>3. DOMAIN FileOf(s, n) = 1 .. n
  BY DEF FileOf
<1> QED  BY <1>2, <1>3, LenProperties

LEMMA FileOfGrows ==
  ASSUME NEW s \in Nat, NEW n \in Nat
  PROVE  /\ Append(FileOf(s, n), <<s, n + 1>>) = FileOf(s, n + 1)
         /\ FileOf(s, 0) = <<>>
<1> DEFINE q == Append(FileOf(s, n), <<s, n + 1>>)
<1>0. <<s, n + 1>> \in Nat \X Nat /\ n + 1 \in Nat
  OBVIOUS
<1>1. q \in Seq(Nat \X Nat) /\ Len(q) = n + 1 /\ q[n + 1] = <<s, n + 1>>
      /\ \A i \in 1 .. n : q[i] = FileOf(s, n)[i]
  <2>1. FileOf(s, n) \in Seq(Nat \X Nat) /\ Len(FileOf(s, n)) = n
    BY FileOfSeq
  <2> QED  BY <1>0, <2>1, AppendProperties
<1>2. FileOf(s, n + 1) \in Seq(Nat \X Nat) /\ Len(FileOf(s, n + 1)) = n + 1
  BY <1>0, FileOfSeq
<1>3. ASSUME NEW i \in 1 .. n + 1  PROVE q[i] = FileOf(s, n + 1)[i]
  <2>1. FileOf(s, n + 1)[i] = <<s, i>>
    BY DEF FileOf
  <2>2. CASE i = n + 1
    BY <2>1, <2>2, <1>1
  <2>3. CASE i \in 1 .. n
    <3>1. q[i] = FileOf(s, n)[i]
      BY <2>3, <1>1
    <3>2. FileOf(s, n)[i] = <<s, i>>
      BY <2>3 DEF FileOf
    <3> QED  BY <3>1, <3>2, <2>1
  <2>4. n + 1 \in Nat /\ (i = n + 1 \/ i \in 1 .. n)
    OBVIOUS
  <2> QED  BY <2>2, <2>3, <2>4
<1>4. q = FileOf(s, n + 1)
  <2> HIDE DEF q
  <2> QED  BY <1>1, <1>2, <1>3, SeqEqual
<1>5. FileOf(s, 0) = <<>>
  <2>1. FileOf(s, 0) \in Seq(Nat \X Nat) /\ Len(FileOf(s, 0)) = 0
    BY FileOfSeq
  <2> QED  BY <2>1, EmptySeq
<1> QED  BY <1>4, <1>5

(* What a reply and a hearing do to up, and a send and a receipt to down.  *)
LEMMA ReplyOne ==
  ASSUME TypedInv, NEW x \in Bytes, Reply(<<x>>)
  PROVE  /\ up' \in Seq(Bytes) /\ Len(up') = Len(up) + 1 /\ Len(up') <= Depth
         /\ \A i \in 1 .. Len(up) : up'[i] = up[i]
         /\ up'[Len(up) + 1] = x
         /\ Acks(up') = IF x = "ACK" THEN Acks(up) + 1 ELSE Acks(up)
<1>1. up \in Seq(Bytes) /\ Len(up) + 1 <= Depth /\ up' = Append(up, x)
  BY AppendIsConcat DEF TypedInv, Reply
<1>2. /\ up' \in Seq(Bytes) /\ Len(up') = Len(up) + 1
      /\ \A i \in 1 .. Len(up) : up'[i] = up[i]
      /\ up'[Len(up) + 1] = x
  BY <1>1, AppendProperties
<1>3. Acks(up') = IF x = "ACK" THEN Acks(up) + 1 ELSE Acks(up)
  BY <1>1, AcksAppend
<1> QED  BY <1>1, <1>2, <1>3

LEMMA ReplyTwo ==
  ASSUME TypedInv, Reply(<<"ACK", "C">>)
  PROVE  /\ up' \in Seq(Bytes) /\ Len(up') = Len(up) + 2 /\ Len(up') <= Depth
         /\ \A i \in 1 .. Len(up) : up'[i] = up[i]
         /\ up'[Len(up) + 1] = "ACK" /\ up'[Len(up) + 2] = "C"
         /\ Acks(up') = Acks(up) + 1
<1> DEFINE q == Append(up, "ACK")
<1>1. up \in Seq(Bytes) /\ Len(up) + 2 <= Depth /\ up' = up \o <<"ACK", "C">>
  BY DEF TypedInv, Reply
<1>0. "ACK" \in Bytes /\ "C" \in Bytes
  BY DEF Bytes
<1>2. /\ q \in Seq(Bytes) /\ Len(q) = Len(up) + 1
      /\ \A i \in 1 .. Len(up) : q[i] = up[i]
      /\ q[Len(up) + 1] = "ACK"
  BY <1>0, <1>1, AppendProperties
<1>3. Acks(q) = Acks(up) + 1
  BY <1>0, <1>1, AcksAppend
<1>4. up' = Append(q, "C")
  BY <1>0, <1>1
<1> HIDE DEF q
<1>5. /\ up' \in Seq(Bytes) /\ Len(up') = Len(q) + 1
      /\ \A i \in 1 .. Len(q) : up'[i] = q[i]
      /\ up'[Len(q) + 1] = "C"
  BY <1>0, <1>2, <1>4, AppendProperties
<1>6. Acks(up') = Acks(q)
  BY <1>0, <1>2, <1>4, AcksAppend
<1>7. Len(up) + 1 \in 1 .. Len(q) /\ \A i \in 1 .. Len(up) : i \in 1 .. Len(q)
  BY <1>1, <1>2
<1> QED  BY <1>1, <1>2, <1>3, <1>5, <1>6, <1>7

LEMMA UpDrops ==
  ASSUME TypedInv, NEW n \in 0 .. Len(up), Dropped(up', up, n), up' \in Seq(Bytes)
  PROVE  /\ up' \in Seq(Bytes) /\ Len(up') = Len(up) - n /\ Len(up') <= Depth
         /\ \A i \in 1 .. Len(up') : up'[i] = up[i + n]
         /\ Acks(up') <= Acks(up)
         /\ n = 1 => Acks(up) = IF up[1] = "ACK" THEN Acks(up') + 1 ELSE Acks(up')
<1>1. up \in Seq(Bytes) /\ Len(up) <= Depth /\ Depth \in Nat
  BY YmodemAssumption DEF TypedInv
<1>2. Len(up') = Len(up) - n /\ \A i \in 1 .. Len(up') : up'[i] = up[i + n]
  BY DEF Dropped
<1>3. /\ Acks(up') <= Acks(up)
      /\ n = 1 => Acks(up) = IF up[1] = "ACK" THEN Acks(up') + 1 ELSE Acks(up')
  BY <1>1, <1>2, AcksDrop
<1> QED  BY <1>1, <1>2, <1>3

LEMMA UpTail ==
  ASSUME TypedInv, up # <<>>, up' = Tail(up)
  PROVE  /\ up' \in Seq(Bytes) /\ Len(up) >= 1 /\ Len(up') = Len(up) - 1 /\ Len(up') <= Depth
         /\ \A i \in 1 .. Len(up') : up'[i] = up[i + 1]
         /\ Head(up) = up[1] /\ Head(up) \in Bytes
         /\ Acks(up) = IF up[1] = "ACK" THEN Acks(up') + 1 ELSE Acks(up')
<1>1. up \in Seq(Bytes)
  BY DEF TypedInv
<1>2. up' \in Seq(Bytes) /\ Dropped(up', up, 1) /\ Head(up) = up[1] /\ Len(up) >= 1 /\ Head(up) \in Bytes
  BY <1>1, TailDrops
<1>3. 1 \in 0 .. Len(up)
  BY <1>1, <1>2
<1> QED  BY <1>2, <1>3, UpDrops

LEMMA UpClears ==
  ASSUME TypedInv, ClearRx
  PROVE  \E n \in 0 .. Len(up) :
           /\ up' \in Seq(Bytes) /\ Len(up') = Len(up) - n /\ Len(up') <= Depth
           /\ \A i \in 1 .. Len(up') : up'[i] = up[i + n]
           /\ Acks(up') <= Acks(up)
<1>1. up \in Seq(Bytes)
  BY DEF TypedInv
<1>2. PICK n \in 0 .. Len(up) : up' = SubSeq(up, n + 1, Len(up))
  BY DEF ClearRx
<1>3. up' \in Seq(Bytes) /\ Dropped(up', up, n)
  BY <1>1, <1>2, SubSeqDrops
<1> QED  BY <1>3, UpDrops

LEMMA DownTail ==
  ASSUME TypedInv, down # <<>>, down' = Tail(down)
  PROVE  /\ down' \in Seq(Frames) /\ Len(down) >= 1 /\ Len(down') = Len(down) - 1 /\ Len(down') <= Depth
         /\ \A i \in 1 .. Len(down') : down'[i] = down[i + 1]
         /\ Head(down) = down[1] /\ Head(down) \in Frames
<1>1. down \in Seq(Frames) /\ Len(down) <= Depth /\ Depth \in Nat
  BY YmodemAssumption DEF TypedInv
<1>2. down' \in Seq(Frames) /\ Dropped(down', down, 1) /\ Head(down) = down[1] /\ Len(down) >= 1
      /\ Head(down) \in Frames
  BY <1>1, TailDrops
<1> QED  BY <1>1, <1>2 DEF Dropped

LEMMA DownPut ==
  ASSUME TypedInv, NEW f \in Frames, Put(f)
  PROVE  /\ down' \in Seq(Frames) /\ Len(down') = Len(down) + 1 /\ Len(down') <= Depth
         /\ \A i \in 1 .. Len(down) : down'[i] = down[i]
         /\ down'[Len(down) + 1] = f
<1>1. down \in Seq(Frames) /\ Len(down) + 1 <= Depth /\ down' = Append(down, f)
  BY YmodemAssumption DEF TypedInv, Put
<1> QED  BY <1>1, AppendProperties

-----------------------------------------------------------------------------
(* Types.                                                                  *)

LEMMA ControlFrames ==
  ASSUME NEW k \in (Commands \cup Packets) \ {"data"}
  PROVE  Control(k) \in Frames
<1>1. <<>> \in Seq(Nat)
  OBVIOUS
<1> QED  BY <1>1 DEF Control, Frames

LEMMA ContentsFrames ==
  ASSUME TypedInv, pc \in DOMAIN AckPlace
  PROVE  /\ Contents \in Frames
         /\ pc = "data" => Contents = [kind |-> "data", seq |-> seq, block |-> <<session, sent + 1>>]
         /\ pc # "data" => Contents = Control(pc)
<1>1. CASE pc = "data"
  <2>1. seq \in Nat /\ session \in Nat /\ sent \in Nat
    BY YmodemAssumption DEF TypedInv
  <2>2. <<session, sent + 1>> \in Seq(Nat) /\ <<session, sent + 1>> \in Nat \X Nat
    BY <2>1
  <2> QED  BY <1>1, <2>1, <2>2 DEF Contents, Frames, Packets
<1>2. CASE pc # "data"
  <2>1. pc \in Packets \ {"data"}
    BY <1>2, AckPlaceTable DEF Packets
  <2> QED  BY <1>2, <2>1, ControlFrames DEF Contents
<1> QED  BY <1>1, <1>2

LEMMA TypedInit == Init => TypedInv
<1> SUFFICES ASSUME Init  PROVE TypedInv
  OBVIOUS
<1>1. seq = (sent + 1) % Modulus
  BY YmodemAssumption, SMT DEF Init
<1>2. <<>> \in Seq(Frames) /\ <<>> \in Seq(Bytes) /\ <<>> \in Seq(Nat \X Nat) /\ Len(<<>>) = 0
  BY EmptySeq
<1>3. sent = 0 /\ attempt = 1 /\ session \in 0 .. Sessions /\ pc \in Places /\ mode \in Modes
      /\ result = "none"
  BY YmodemAssumption DEF Init, Places, Modes
<1>4. overtaken \in BOOLEAN /\ crowded \in BOOLEAN
  BY DEF Init
<1> QED  BY <1>1, <1>2, <1>3, <1>4, YmodemAssumption DEF Init, TypedInv

LEMMA TypedNext == TypedInv /\ [Next]_vars => TypedInv'
<1> SUFFICES ASSUME TypedInv, [Next]_vars  PROVE TypedInv'
  OBVIOUS
<1> USE YmodemAssumption
<1>1. CASE FlashFile
  <2>1. sent' = 0 /\ attempt' = 1 /\ session' \in 0 .. Sessions /\ result' = "none"
        /\ pc' \in Places /\ UNCHANGED <<down, up, device>>
    BY <1>1 DEF FlashFile, TypedInv, Places, Entry
  <2>3. overtaken' \in BOOLEAN /\ crowded' \in BOOLEAN
    BY <1>1 DEF FlashFile, InFlight
  <2>2. seq' = (sent' + 1) % Modulus
    BY <1>1, <2>1 DEF FlashFile
  <2> QED  BY <2>1, <2>2, <2>3 DEF TypedInv, device
<1>2. CASE PowerCycle \/ PowerCycleFails
  <2>1. down' \in {down, <<>>} /\ mode' \in {mode, "boot", "off"} /\ pc' \in {"idle", "menu"}
        /\ result' \in {result, "failed"} /\ sent = 0
        /\ UNCHANGED <<sent, seq, attempt, session, overtaken, crowded, up, expect, image>>
    BY <1>2 DEF PowerCycle, PowerCycleFails, Finish, host, TypedInv, Entry
  <2>2. down' \in Seq(Frames) /\ Len(down') <= Depth
    <3>1. <<>> \in Seq(Frames) /\ Len(<<>>) = 0
      BY EmptySeq
    <3>2. Depth \in Nat /\ 0 <= Depth
      OBVIOUS
    <3>3. CASE down' = <<>>
      BY <3>1, <3>2, <3>3
    <3>4. CASE down' = down
      BY <3>4 DEF TypedInv
    <3> QED  BY <2>1, <3>3, <3>4
  <2> QED  BY <2>1, <2>2 DEF TypedInv, Places, Entry, Modes
<1>3. CASE SendByte
  <2>1. pc \in DOMAIN Sends /\ UNCHANGED <<sent, seq, attempt, session, crowded, stop, overtaken, device>>
    BY <1>3 DEF SendByte
  <2>2. pc \in Places \ {"idle"} /\ (pc \in {"reset", "menu", "update"} \/ pc \in Closing)
    BY <2>1, SendsTable DEF Places, Entry, Closing
  <2>3. up' \in Seq(Bytes) /\ Len(up') <= Depth
    <3>1. CASE up' = up
      BY <3>1 DEF TypedInv
    <3>2. CASE ClearRx
      BY <3>2, UpClears
    <3> QED  BY <1>3, <3>1, <3>2 DEF SendByte
  <2>4. CASE Put(Control(Sends[pc][1])) /\ pc' = Sends[pc][2] /\ UNCHANGED result
    <3>1. Control(Sends[pc][1]) \in Frames
      BY <2>1, SendsTable, ControlFrames DEF Commands
    <3>2. down' \in Seq(Frames) /\ Len(down') <= Depth
      BY <2>4, <3>1, DownPut
    <3>3. pc' \in Places /\ (pc' \in Entry \cup Opening => pc \in Entry)
      BY <2>1, <2>4, SendsTable DEF Places, Entry, Opening, Closing
    <3> QED  BY <2>1, <2>3, <2>4, <3>2, <3>3 DEF TypedInv, device
  <2>5. CASE UNCHANGED down /\ Finish("failed")
    BY <2>1, <2>3, <2>5 DEF TypedInv, device, Finish, Places, Entry, Opening
  <2> QED  BY <1>3, <2>4, <2>5 DEF SendByte
<1>4. CASE AwaitByte
  <2>1. pc \in DOMAIN Awaits /\ up # <<>> /\ up' = Tail(up) /\ pc' \in {pc, Awaits[pc][2]}
        /\ UNCHANGED <<sent, seq, attempt, result, session, crowded, stop, overtaken, down, device>>
    BY <1>4 DEF AwaitByte
  <2>2. up' \in Seq(Bytes) /\ Len(up') <= Depth
    BY <2>1, UpTail
  <2>3. pc' \in Places /\ (pc' \in Entry \cup Opening => pc \in Entry \cup Opening)
    BY <2>1, AwaitsTable DEF TypedInv, Places, Entry, Opening, Closing, Filling
  <2> QED  BY <2>1, <2>2, <2>3 DEF TypedInv, device
<1>5. CASE AwaitFails
  BY <1>5 DEF AwaitFails, Finish, TypedInv, device, Places, Entry, Opening
<1>6. CASE SendPacket
  <2>1. pc \in DOMAIN AckPlace
        /\ UNCHANGED <<sent, seq, attempt, session, crowded, label, stop, overtaken, up, device>>
    BY <1>6 DEF SendPacket
  <2>2. CASE Put(Contents) /\ pc' = AckPlace[pc] /\ UNCHANGED result
    <3>1. down' \in Seq(Frames) /\ Len(down') <= Depth
      BY <2>1, <2>2, ContentsFrames, DownPut
    <3>2. pc' \in Places /\ (pc' \in Entry \cup Opening => pc \in Opening)
      BY <2>1, <2>2, AckPlaceTable DEF Places, Entry, Opening, Filling, Closing
    <3> QED  BY <2>1, <2>2, <3>1, <3>2 DEF TypedInv, device
  <2>3. CASE UNCHANGED down /\ Finish("failed")
    BY <2>1, <2>3 DEF TypedInv, device, Finish, Places, Entry, Opening
  <2> QED  BY <1>6, <2>2, <2>3 DEF SendPacket
<1>7. CASE DataDone
  BY <1>7 DEF DataDone, TypedInv, host, device, Places, Entry, Opening, Closing
<1>8. CASE AckRead
  <2>1. pc \in DOMAIN Acked /\ up # <<>> /\ up' = Tail(up)
        /\ UNCHANGED <<result, session, crowded, stop, overtaken, down, device>>
    BY <1>8 DEF AckRead
  <2>2. up' \in Seq(Bytes) /\ Len(up') <= Depth
    BY <2>1, UpTail
  <2>3. CASE pc' = Acked[pc] /\ attempt' = 1
             /\ IF pc = "data_ack" THEN sent' = sent + 1 /\ seq' = (seq + 1) % Modulus
                ELSE UNCHANGED <<sent, seq>>
    <3>1. pc' \in Places /\ (pc' \in Entry \cup Opening => pc \in Opening /\ pc # "data_ack")
      BY <2>1, <2>3, AckedTable DEF Places, Entry, Opening, Filling, Closing
    <3>2. sent' \in Nat /\ attempt' \in Nat \ {0} /\ (pc' \in Entry \cup Opening => sent' = 0)
      BY <2>3, <3>1 DEF TypedInv
    <3>3. seq' = (sent' + 1) % Modulus
      <4>1. CASE pc = "data_ack"
        <5>1. seq = (sent + 1) % Modulus /\ sent + 1 \in Nat /\ Modulus \in Nat \ {0}
          BY DEF TypedInv
        <5>2. (seq + 1) % Modulus = ((sent + 1) + 1) % Modulus
          BY <5>1, ModNext
        <5> QED  BY <2>3, <4>1, <5>2
      <4> QED  BY <2>3, <4>1 DEF TypedInv
    <3> QED  BY <2>1, <2>2, <3>1, <3>2, <3>3 DEF TypedInv, device
  <2>4. CASE pc' = (CHOOSE p \in DOMAIN AckPlace : AckPlace[p] = pc)
             /\ attempt' = attempt + 1 /\ UNCHANGED <<sent, seq>>
    <3>1. pc' \in Places /\ (pc' \in Entry \cup Opening => pc \in Opening)
      BY <2>1, <2>4, AckedTable DEF Places, Entry, Opening, Filling, Closing
    <3> QED  BY <2>1, <2>2, <2>4, <3>1 DEF TypedInv, device
  <2>5. CASE UNCHANGED <<pc, attempt, sent, seq>>
    BY <2>1, <2>2, <2>5 DEF TypedInv, device
  <2> QED  BY <1>8, <2>3, <2>4, <2>5 DEF AckRead
<1>9. CASE AckTimeout
  <2>1. pc \in DOMAIN Acked /\ pc' = (CHOOSE p \in DOMAIN AckPlace : AckPlace[p] = pc)
        /\ attempt' = attempt + 1 /\ overtaken' = (overtaken \/ InFlight)
        /\ UNCHANGED <<sent, seq, result, session, crowded, label, stop, down, up, device>>
    BY <1>9 DEF AckTimeout
  <2>2. pc' \in Places /\ (pc' \in Entry \cup Opening => pc \in Opening)
    BY <2>1, AckedTable DEF Places, Entry, Opening, Filling, Closing
  <2>3. overtaken' \in BOOLEAN
    BY <2>1 DEF InFlight
  <2> QED  BY <2>1, <2>2, <2>3 DEF TypedInv, device
<1>10. CASE TriesFail
  BY <1>10 DEF TriesFail, Finish, TypedInv, device, Places, Entry, Opening
<1>11. CASE Stopped
  BY <1>11 DEF Stopped, Finish, TypedInv, device, Places, Entry, Opening
<1>12. CASE Report
  BY <1>12 DEF Report, Finish, TypedInv, device, Places, Entry, Opening
<1>13. CASE RxIdle
  <2>1. up' \in Seq(Bytes) /\ Len(up') <= Depth
    BY <1>13, UpTail DEF RxIdle
  <2> QED  BY <1>13, <2>1 DEF RxIdle, TypedInv, device
<1>14. CASE DeviceReceives
  <2>1. down # <<>> /\ down' = Tail(down) /\ UNCHANGED <<pc, host>>
    BY <1>14 DEF DeviceReceives
  <2>2. down' \in Seq(Frames) /\ Len(down') <= Depth /\ Head(down) \in Frames
    BY <2>1, DownTail
  <2> DEFINE f == Head(down)
  <2>3. CASE f.kind \in Commands
    <3>1. ReceiveByte(f.kind) /\ UNCHANGED <<expect, image>>
      BY <1>14, <2>3 DEF DeviceReceives
    <3>2. up' \in Seq(Bytes) /\ Len(up') <= Depth /\ mode' \in Modes
      <4>1. CASE mode' \in Modes /\ UNCHANGED up
        BY <4>1 DEF TypedInv
      <4>2. CASE mode' \in Modes /\ \E x \in Bytes : Reply(<<x>>)
        BY <4>2, ReplyOne
      <4>3. CASE mode' \in Modes /\ Reply(<<"ACK", "C">>)
        BY <4>3, ReplyTwo
      <4> QED  BY <3>1, <4>1, <4>2, <4>3 DEF ReceiveByte, Modes, Upload, Bytes, TypedInv
    <3> QED  BY <2>1, <2>2, <3>1, <3>2 DEF TypedInv, host
  <2>4. CASE f.kind \notin Commands
    <3>1. ReceivePacket(f)
      BY <1>14, <2>4 DEF DeviceReceives
    <3>2. up' \in Seq(Bytes) /\ Len(up') <= Depth /\ mode' \in Modes
      <4>1. CASE mode' \in Modes /\ UNCHANGED up
        BY <4>1 DEF TypedInv
      <4>2. CASE mode' \in Modes /\ \E x \in Bytes : Reply(<<x>>)
        BY <4>2, ReplyOne
      <4>3. CASE mode' \in Modes /\ Reply(<<"ACK", "C">>)
        BY <4>3, ReplyTwo
      <4> QED  BY <3>1, <4>1, <4>2, <4>3 DEF ReceivePacket, Modes, Upload, Bytes, TypedInv, device
    <3>3. image' \in Seq(Nat \X Nat)
      <4>1. CASE image' = Append(image, f.block) /\ f.kind = "data"
        <5>1. f.block \in Nat \X Nat
          BY <2>2, <4>1 DEF Frames
        <5> QED  BY <4>1, <5>1, AppendProperties DEF TypedInv
      <4>2. CASE image' \in {image, <<>>}
        BY <4>2, EmptySeq DEF TypedInv
      <4> QED  BY <3>1, <4>1, <4>2 DEF ReceivePacket, device
    <3> QED  BY <2>1, <2>2, <3>2, <3>3 DEF TypedInv, host
  <2> QED  BY <2>3, <2>4
<1>15. CASE DeviceAlone
  <2>1. up' \in Seq(Bytes) /\ Len(up') <= Depth /\ mode' \in Modes
    <3>1. CASE mode' \in Modes /\ UNCHANGED up
      BY <3>1 DEF TypedInv
    <3>2. CASE mode' \in Modes /\ \E x \in Bytes : Reply(<<x>>)
      BY <3>2, ReplyOne
    <3> QED  BY <1>15, <3>1, <3>2 DEF DeviceAlone, Modes, Upload, Bytes, TypedInv
  <2> QED  BY <1>15, <2>1 DEF DeviceAlone, TypedInv, host
<1>16. CASE Damage
  <2>1. CASE down # <<>> /\ down' = Tail(down) /\ UNCHANGED up
    BY <1>16, <2>1, DownTail DEF Damage, TypedInv, host, device
  <2>2. CASE up # <<>> /\ up' = Tail(up) /\ UNCHANGED down
    BY <1>16, <2>2, UpTail DEF Damage, TypedInv, host, device
  <2>3. CASE down # <<>> /\ down' = Tail(down) /\ Reply(<<"NAK">>)
    <3>1. "NAK" \in Bytes
      BY DEF Bytes
    <3>2. up' \in Seq(Bytes) /\ Len(up') <= Depth
      BY <2>3, <3>1, ReplyOne
    <3> QED  BY <1>16, <2>3, <3>2, DownTail DEF Damage, TypedInv, host, device
  <2> QED  BY <1>16, <2>1, <2>2, <2>3 DEF Damage
<1>17. CASE Signal
  BY <1>17 DEF Signal, TypedInv, device
<1>18. CASE UNCHANGED vars
  BY <1>18 DEF vars, TypedInv
<1> QED  BY <1>1, <1>2, <1>3, <1>4, <1>5, <1>6, <1>7, <1>8, <1>9, <1>10, <1>11, <1>12,
            <1>13, <1>14, <1>15, <1>16, <1>17, <1>18 DEF Next, Host, Expires

-----------------------------------------------------------------------------
(* The frames in flight.                                                   *)

LEMMA Classes ==
  /\ \A f : Class(f) \in 0 .. 3
  /\ pc \in Entry => HostClass = 0
  /\ pc \in Opening => HostClass = 1
  /\ pc \in Filling => HostClass = 2
  /\ pc \in Closing \cup {"idle"} => HostClass = 3
  /\ HostClass \in 0 .. 3
BY DEF Class, HostClass, Entry, Opening, Filling, Closing

LEMMA FrameShift ==
  ASSUME TypedInv, FrameInv, NEW n \in Nat, down' \in Seq(Frames), Len(down') = Len(down) - n,
         \A i \in 1 .. Len(down') : down'[i] = down[i + n],
         session' = session, sent' \in Nat, sent <= sent', HostClass <= HostClass', HostClass' \in 0 .. 3
  PROVE  FrameInv'
<1>1. \A i \in DOMAIN down' : i \in Nat /\ i + n \in DOMAIN down /\ down'[i] = down[i + n]
  <2>1. /\ DOMAIN down' = 1 .. Len(down') /\ DOMAIN down = 1 .. Len(down)
        /\ Len(down) \in Nat /\ Len(down') \in Nat
    <3>1. down \in Seq(Frames) /\ down' \in Seq(Frames)
      BY DEF TypedInv
    <3> QED  BY <3>1
  <2> QED  BY <2>1
<1>2. ASSUME NEW i \in DOMAIN down'
      PROVE  /\ Class(down'[i]) <= HostClass'
             /\ down'[i].kind \in {"header", "close"} => down'[i].seq = 0
             /\ down'[i].kind = "data" =>
                  /\ down'[i].block = <<session', Number(down'[i])>>
                  /\ down'[i].seq = Number(down'[i]) % Modulus
                  /\ Number(down'[i]) \in 1 .. sent' + 1
  <2>1. Class(down'[i]) <= HostClass' 
    <3>1. Class(down[i + n]) <= HostClass /\ Class(down[i + n]) \in 0 .. 3 /\ HostClass \in 0 .. 3
      BY <1>1, Classes DEF FrameInv
    <3> QED  BY <1>1, <3>1
  <2>2. down'[i].kind = "data" => Number(down'[i]) \in 1 .. sent + 1
    BY <1>1 DEF FrameInv
  <2>3. down'[i].kind = "data" => Number(down'[i]) \in 1 .. sent' + 1
    BY <2>2 DEF TypedInv
  <2> QED  BY <1>1, <2>1, <2>3 DEF FrameInv
<1>3. ASSUME NEW i \in DOMAIN down', NEW j \in DOMAIN down', i < j
      PROVE  /\ Class(down'[i]) <= Class(down'[j])
             /\ Class(down'[i]) = 2 /\ Class(down'[j]) = 2 => Number(down'[i]) <= Number(down'[j])
  <2>1. i + n < j + n
    BY <1>1, <1>3
  <2> QED  BY <1>1, <2>1 DEF FrameInv
<1> QED  BY <1>2, <1>3 DEF FrameInv

LEMMA FrameAdded ==
  ASSUME TypedInv, FrameInv, NEW f \in Frames,
         down' \in Seq(Frames), Len(down') = Len(down) + 1,
         \A i \in 1 .. Len(down) : down'[i] = down[i], down'[Len(down) + 1] = f,
         Class(f) = HostClass, f.kind \in {"header", "close"} => f.seq = 0,
         f.kind = "data" => f.block = <<session, sent + 1>> /\ f.seq = (sent + 1) % Modulus,
         session' = session, sent' = sent, HostClass' = HostClass
  PROVE  FrameInv'
<1>1. /\ DOMAIN down' = 1 .. Len(down) + 1 /\ DOMAIN down = 1 .. Len(down) /\ Len(down) \in Nat
      /\ \A i \in DOMAIN down' : i \in DOMAIN down \/ i = Len(down) + 1
  BY DEF TypedInv
<1>2. f.kind = "data" => Number(f) = sent + 1 /\ Number(f) \in 1 .. sent + 1
  BY DEF Number, TypedInv
<1>3. ASSUME NEW i \in DOMAIN down'
      PROVE  /\ Class(down'[i]) <= HostClass'
             /\ down'[i].kind \in {"header", "close"} => down'[i].seq = 0
             /\ down'[i].kind = "data" =>
                  /\ down'[i].block = <<session', Number(down'[i])>>
                  /\ down'[i].seq = Number(down'[i]) % Modulus
                  /\ Number(down'[i]) \in 1 .. sent' + 1
  <2>1. CASE i \in DOMAIN down
    BY <1>1, <2>1 DEF FrameInv
  <2>2. CASE i = Len(down) + 1
    <3>1. down'[i] = f /\ Class(f) <= HostClass'
      BY <2>2, Classes
    <3> QED  BY <1>2, <3>1
  <2> QED  BY <1>1, <2>1, <2>2
<1>4. ASSUME NEW i \in DOMAIN down', NEW j \in DOMAIN down', i < j
      PROVE  /\ Class(down'[i]) <= Class(down'[j])
             /\ Class(down'[i]) = 2 /\ Class(down'[j]) = 2 => Number(down'[i]) <= Number(down'[j])
  <2>1. i \in DOMAIN down
    BY <1>1, <1>4
  <2>2. CASE j \in DOMAIN down
    BY <1>1, <1>4, <2>1, <2>2 DEF FrameInv
  <2>3. CASE j = Len(down) + 1
    <3>1. down'[j] = f /\ down'[i] = down[i]
      BY <1>1, <2>1, <2>3
    <3>2. Class(down[i]) <= Class(f)
      BY <2>1 DEF FrameInv
    <3>3. Class(down[i]) = 2 => down[i].kind = "data"
      BY DEF Class
    <3>4. Class(f) = 2 => f.kind = "data"
      BY DEF Class
    <3>5. down[i].kind = "data" /\ f.kind = "data" => Number(down[i]) <= Number(f)
      BY <1>2, <2>1 DEF FrameInv, TypedInv
    <3> QED  BY <3>1, <3>2, <3>3, <3>4, <3>5
  <2> QED  BY <1>1, <2>2, <2>3
<1> QED  BY <1>3, <1>4 DEF FrameInv

-----------------------------------------------------------------------------
(* What a step does to the channels: it takes from up and leaves the rest  *)
(* (Quiet), it sends a frame, it counts a block as sent, or it is one of   *)
(* the steps of the start, the bootloader and the bus.                     *)

Shorter ==
  \E n \in 0 .. Len(up) :
    /\ Len(up') = Len(up) - n
    /\ \A i \in 1 .. Len(up') : up'[i] = up[i + n]
    /\ Acks(up') <= Acks(up)

Steady == UNCHANGED <<session, mode, expect, image>> /\ HostClass <= HostClass' /\ (Safe' => Safe)

Quiet == Shorter /\ Steady /\ UNCHANGED <<down, sent>> /\ (Opened' => Opened)

Sending(f) ==
  /\ Shorter /\ Steady /\ UNCHANGED sent /\ HostClass' = HostClass /\ (Opened' => Opened)
  /\ Len(down') = Len(down) + 1 /\ down'[Len(down) + 1] = f
  /\ \A i \in 1 .. Len(down) : down'[i] = down[i]
  /\ Class(f) = HostClass
  /\ f.kind \in {"header", "close"} => f.seq = 0
  /\ f.kind = "data" => f.block = <<session, sent + 1>> /\ f.seq = (sent + 1) % Modulus

Counting ==
  /\ Shorter /\ Steady /\ UNCHANGED down /\ Opened
  /\ HostClass = 2 /\ HostClass' = 2
  /\ sent' = sent + 1 /\ Acks(up) = Acks(up') + 1

LEMMA ShorterTail ==
  ASSUME TypedInv, up # <<>>, up' = Tail(up)
  PROVE  Shorter
<1>1. 1 \in 0 .. Len(up) /\ Acks(up') <= Acks(up)
  <2>1. up \in Seq(Bytes) /\ up' \in Seq(Bytes) /\ Len(up) >= 1
        /\ Acks(up) = IF up[1] = "ACK" THEN Acks(up') + 1 ELSE Acks(up')
    BY UpTail DEF TypedInv
  <2>3. Acks(up') \in 0 .. Len(up')
    BY <2>1, AckAtFinite, Zenon
  <2>2. Len(up) \in Nat /\ Len(up') \in Nat /\ Acks(up') \in Nat
    BY <2>1, <2>3
  <2> QED  BY <2>1, <2>2
<1> QED  BY <1>1, UpTail DEF Shorter

LEMMA ShorterSame == ASSUME TypedInv, up' = up  PROVE Shorter
<1>1. Acks(up) \in Nat /\ Len(up) \in Nat
  BY AckAtFinite DEF TypedInv
<1>2. 0 \in 0 .. Len(up) /\ Len(up') = Len(up) - 0 /\ Acks(up') <= Acks(up)
      /\ \A i \in 1 .. Len(up') : up'[i] = up[i + 0]
  BY <1>1
<1> QED  BY <1>2 DEF Shorter

LEMMA ShorterClears == ASSUME TypedInv, ClearRx  PROVE Shorter
BY UpClears DEF Shorter

LEMMA OpenedKept ==
  ASSUME TypedInv, up' \in Seq(Bytes), Shorter,
         \A i \in DOMAIN down' : Class(down'[i]) = 0 \/ \E j \in DOMAIN down : down'[i] = down[j],
         Opened \/ pc' \in Entry \cup {"idle"}
  PROVE  Opened' => Opened
<1> SUFFICES ASSUME Opened', ~Opened  PROVE FALSE
  OBVIOUS
<1>1. pc' \notin Opening \cup Filling \cup Closing
  BY DEF Entry, Opening, Filling, Closing
<1>2. PICK n \in 0 .. Len(up) : Len(up') = Len(up) - n /\ \A i \in 1 .. Len(up') : up'[i] = up[i + n]
  BY DEF Shorter
<1>3. \A i \in DOMAIN up' : i + n \in DOMAIN up /\ up'[i] = up[i + n]
  <2>1. DOMAIN up' = 1 .. Len(up') /\ DOMAIN up = 1 .. Len(up) /\ Len(up) \in Nat
    BY DEF TypedInv
  <2>2. Len(up') = Len(up) - n /\ \A i \in 1 .. Len(up') : up'[i] = up[i + n]
    BY <1>2
  <2> QED  BY <2>1, <2>2
<1>4. ~ \E i \in DOMAIN up' : up'[i] = "C"
  BY <1>3 DEF Opened
<1>5. ~ \E i \in DOMAIN down' : Class(down'[i]) # 0
  BY DEF Opened
<1> QED  BY <1>1, <1>4, <1>5 DEF Opened

LEMMA Quiets ==
  ASSUME TypedInv, TypedInv', Shorter, UNCHANGED <<down, sent, device, session>>,
         HostClass <= HostClass', Opened \/ pc' \in Entry \cup {"idle"},
         overtaken => overtaken', pc = "idle" => pc' = "idle"
  PROVE  Quiet
<1>1. Safe' => Safe
  BY DEF Safe, Wide, TypedInv
<1>2. up' \in Seq(Bytes)
  BY DEF TypedInv
<1>3. Opened' => Opened
  BY <1>2, OpenedKept
<1> QED  BY <1>1, <1>3 DEF Quiet, Steady, device

LEMMA Sendings ==
  ASSUME TypedInv, TypedInv', Shorter, NEW f \in Frames, Put(f), UNCHANGED <<sent, device, session, overtaken>>,
         HostClass' = HostClass, Opened \/ (pc' \in Entry /\ Class(f) = 0), pc # "idle",
         Class(f) = HostClass, f.kind \in {"header", "close"} => f.seq = 0,
         f.kind = "data" => f.block = <<session, sent + 1>> /\ f.seq = (sent + 1) % Modulus
  PROVE  Sending(f)
<1>1. Safe' => Safe
  BY DEF Safe, Wide, TypedInv
<1>2. up' \in Seq(Bytes)
  BY DEF TypedInv
<1>3. /\ Len(down') = Len(down) + 1 /\ down'[Len(down) + 1] = f
      /\ \A i \in 1 .. Len(down) : down'[i] = down[i]
  BY DownPut
<1>4. Opened' => Opened
  <2>1. CASE Opened
    BY <2>1
  <2>2. CASE pc' \in Entry /\ Class(f) = 0
    <3>1. \A i \in DOMAIN down' : i = Len(down) + 1 \/ i \in 1 .. Len(down)
      BY <1>3 DEF TypedInv
    <3>2. \A i \in DOMAIN down' : Class(down'[i]) = 0 \/ \E j \in DOMAIN down : down'[i] = down[j]
      <4>1. ASSUME NEW i \in DOMAIN down', i = Len(down) + 1  PROVE Class(down'[i]) = 0
        BY <1>3, <2>2, <4>1
      <4>2. ASSUME NEW i \in 1 .. Len(down)  PROVE i \in DOMAIN down /\ down'[i] = down[i]
        BY <1>3 DEF TypedInv
      <4> QED  BY <3>1, <4>1, <4>2
    <3> QED  BY <1>2, <2>2, <3>2, OpenedKept
  <2> QED  BY <2>1, <2>2
<1>5. HostClass <= HostClass'
  BY Classes
<1> QED  BY <1>1, <1>3, <1>4, <1>5 DEF Sending, Steady, device

(* Every step of the host, and every loss of a reply, is one of the three. *)
Cycled == PowerCycle \/ (PowerCycleFails /\ mode' = "off" /\ down' = <<>>)

HostStep == Host \/ RxIdle \/ Signal \/ (Damage /\ down' = down) \/ UNCHANGED vars

LEMMA HostSteps ==
  ASSUME TypedInv, TypedInv', HostStep, ~Cycled
  PROVE  Quiet \/ Counting \/ \E f \in Frames : Sending(f)
<1> USE YmodemAssumption
<1>2. CASE PowerCycleFails
  <2>1. pc = "reset" /\ pc' = "idle" /\ UNCHANGED <<sent, session, overtaken, down, up, device>>
    BY <1>2 DEF PowerCycleFails, Cycled, Finish, device
  <2>2. HostClass <= HostClass'
    BY <2>1, Classes DEF HostClass, Entry, Opening, Filling
  <2> QED  BY <2>1, <2>2, ShorterSame, Quiets DEF device
<1>3. CASE SendByte
  <2>1. pc \in DOMAIN Sends /\ UNCHANGED <<sent, seq, attempt, session, crowded, stop, overtaken, device>>
    BY <1>3 DEF SendByte
  <2>2. Shorter
    BY <1>3, ShorterSame, ShorterClears DEF SendByte
  <2>3. \/ pc \in Entry /\ HostClass = 0 /\ Sends[pc][1] \in {"r", "m", "u"} /\ Sends[pc][2] \in Entry
        \/ pc \in Closing /\ HostClass = 3 /\ Sends[pc][1] \in {"EOT", "a"} /\ Sends[pc][2] \in Closing
    BY <2>1, SendsTable, Classes DEF Entry, Closing
  <2>4. CASE Put(Control(Sends[pc][1])) /\ pc' = Sends[pc][2] /\ UNCHANGED result
    <3> DEFINE f == Control(Sends[pc][1])
    <3>1. f \in Frames
      BY <2>1, SendsTable, ControlFrames DEF Commands
    <3>2. f.kind = Sends[pc][1] /\ f.seq = 0
      BY DEF Control
    <3>3. Class(f) = HostClass /\ f.kind \notin {"header", "close", "data"}
      BY <2>3, <3>2 DEF Class
    <3>4. HostClass' = HostClass
      BY <2>3, <2>4 DEF HostClass, Entry, Closing, Opening, Filling
    <3>5. Opened \/ (pc' \in Entry /\ Class(f) = 0)
      BY <2>3, <2>4, <3>3 DEF Opened
    <3>6. Put(f) /\ pc # "idle"
      BY <2>3, <2>4 DEF Entry, Closing
    <3> HIDE DEF f
    <3>7. Sending(f)
      BY <2>1, <2>2, <3>1, <3>2, <3>3, <3>4, <3>5, <3>6, Sendings DEF device
    <3> QED  BY <3>1, <3>7
  <2>5. CASE UNCHANGED down /\ Finish("failed")
    <3>1. HostClass <= HostClass' /\ pc' = "idle"
      BY <2>5, Classes DEF Finish, HostClass, Entry, Opening, Filling
    <3> QED  BY <2>1, <2>2, <2>5, <3>1, Quiets DEF device
  <2> QED  BY <1>3, <2>4, <2>5 DEF SendByte
<1>4. CASE AwaitByte
  <2>1. /\ pc \in DOMAIN Awaits /\ up # <<>> /\ up' = Tail(up)
        /\ pc' = IF Head(up) = Awaits[pc][1] THEN Awaits[pc][2] ELSE pc
        /\ UNCHANGED <<sent, seq, attempt, result, session, crowded, stop, overtaken, down, device>>
    BY <1>4 DEF AwaitByte
  <2>2. Shorter
    BY <2>1, ShorterTail
  <2>3. HostClass <= HostClass' /\ pc # "idle"
    BY <2>1, AwaitsTable, Classes DEF HostClass, Entry, Opening, Filling, Closing
  <2>4. Opened \/ pc' \in Entry \cup {"idle"}
    <3>1. CASE pc = "c_wait" /\ Head(up) = "C"
      <4>1. 1 \in DOMAIN up /\ up[1] = "C"
        BY <2>1, <3>1, UpTail DEF TypedInv
      <4> QED  BY <4>1 DEF Opened
    <3> QED  BY <2>1, <3>1, AwaitsTable DEF Opened, Entry, Opening, Closing
  <2> QED  BY <2>1, <2>2, <2>3, <2>4, Quiets DEF device
<1>5. CASE AwaitFails
  <2>1. pc' = "idle" /\ HostClass <= HostClass' /\ pc # "idle"
    BY <1>5, Classes DEF AwaitFails, Awaits, Finish, HostClass, Entry, Opening, Filling
  <2>2. UNCHANGED <<sent, session, down, up, device>> /\ (overtaken => overtaken')
    BY <1>5 DEF AwaitFails
  <2> QED  BY <2>1, <2>2, ShorterSame, Quiets DEF device
<1>6. CASE SendPacket
  <2>1. /\ pc \in DOMAIN AckPlace
        /\ UNCHANGED <<sent, seq, attempt, session, crowded, label, stop, overtaken, up, device>>
    BY <1>6 DEF SendPacket
  <2>2. Shorter
    BY <2>1, ShorterSame
  <2>3. Opened /\ pc # "idle"
    BY <2>1, AckPlaceTable DEF Opened, Opening, Filling, Closing
  <2>4. CASE Put(Contents) /\ pc' = AckPlace[pc] /\ UNCHANGED result
    <3>1. Contents \in Frames
      BY <2>1, ContentsFrames
    <3>2. HostClass' = HostClass /\ Class(Contents) = HostClass
      BY <2>1, <2>4, AckPlaceTable, ContentsFrames
      DEF HostClass, Entry, Opening, Filling, Class, Control
    <3>3. /\ Contents.kind \in {"header", "close"} => Contents.seq = 0
          /\ Contents.kind = "data" =>
               Contents.block = <<session, sent + 1>> /\ Contents.seq = (sent + 1) % Modulus
      BY <2>1, ContentsFrames, AckPlaceTable DEF Control, TypedInv
    <3>4. Sending(Contents)
      BY <2>1, <2>2, <2>3, <2>4, <3>1, <3>2, <3>3, Sendings DEF device
    <3> QED  BY <3>1, <3>4
  <2>5. CASE UNCHANGED down /\ Finish("failed")
    <3>1. HostClass <= HostClass' /\ pc' = "idle"
      BY <2>5, Classes DEF Finish, HostClass, Entry, Opening, Filling
    <3> QED  BY <2>1, <2>2, <2>3, <2>5, <3>1, Quiets DEF device
  <2> QED  BY <1>6, <2>4, <2>5 DEF SendPacket
<1>7. CASE DataDone
  <2>1. /\ pc = "data" /\ pc' = "eot" /\ UNCHANGED <<sent, session, overtaken, down, up, device>>
        /\ HostClass <= HostClass' /\ Opened
    BY <1>7, Classes DEF DataDone, host, HostClass, Entry, Opening, Filling, Opened
  <2> QED  BY <2>1, ShorterSame, Quiets DEF device
<1>8. CASE AckRead
  <2>1. pc \in DOMAIN Acked /\ up # <<>> /\ up' = Tail(up)
        /\ UNCHANGED <<result, session, crowded, stop, overtaken, down, device>>
    BY <1>8 DEF AckRead
  <2>2. Shorter
    BY <2>1, ShorterTail
  <2>3. Opened /\ pc # "idle"
    BY <2>1, AckedTable DEF Opened, Opening, Filling, Closing
  <2>4. CASE Head(up) = "ACK" /\ pc = "data_ack" /\ pc' = "data" /\ sent' = sent + 1
    <3>1. HostClass = 2 /\ HostClass' = 2 /\ HostClass <= HostClass'
      BY <2>4 DEF HostClass, Entry, Opening, Filling
    <3>2. Acks(up) = Acks(up') + 1
      BY <2>1, <2>4, UpTail
    <3>3. Safe' => Safe
      BY <2>1, <2>3 DEF Safe, Wide
    <3> QED  BY <2>1, <2>2, <2>3, <2>4, <3>1, <3>2, <3>3 DEF Counting, Steady, device
  <2>5. CASE /\ UNCHANGED sent
             /\ \/ pc' \in {pc, CHOOSE p \in DOMAIN AckPlace : AckPlace[p] = pc}
                \/ pc # "data_ack" /\ pc' = Acked[pc]
    <3>1. HostClass <= HostClass'
      <4>1. \/ pc' = pc
            \/ <<pc, pc'>> \in {<<"header_ack", "header">>, <<"data_ack", "data">>, <<"close_ack", "close">>,
                               <<"header_ack", "c_data">>, <<"close_ack", "jump">>}
        BY <2>1, <2>5, AckedTable
      <4> QED  BY <4>1, Classes DEF HostClass, Entry, Opening, Filling
    <3> QED  BY <2>1, <2>2, <2>3, <2>5, <3>1, Quiets DEF device
  <2>6. \/ /\ Head(up) = "ACK" /\ pc' = Acked[pc]
           /\ IF pc = "data_ack" THEN sent' = sent + 1 ELSE UNCHANGED sent
        \/ UNCHANGED sent /\ pc' = CHOOSE p \in DOMAIN AckPlace : AckPlace[p] = pc
        \/ UNCHANGED <<sent, pc>>
    BY <1>8 DEF AckRead
  <2>7. \/ pc = "data_ack" /\ Acked[pc] = "data"
        \/ pc # "data_ack"
    BY <2>1, AckedTable
  <2> QED  BY <2>4, <2>5, <2>6, <2>7
<1>9. CASE AckTimeout
  <2>1. /\ pc \in DOMAIN Acked /\ pc' = CHOOSE p \in DOMAIN AckPlace : AckPlace[p] = pc
        /\ UNCHANGED <<sent, session, down, up, device>> /\ (overtaken => overtaken')
    BY <1>9 DEF AckTimeout
  <2>2. HostClass <= HostClass'
    <3>1. <<pc, pc'>> \in {<<"header_ack", "header">>, <<"data_ack", "data">>, <<"close_ack", "close">>}
      BY <2>1, AckedTable
    <3> QED  BY <3>1 DEF HostClass, Entry, Opening, Filling
  <2>3. Opened /\ pc # "idle"
    BY <2>1, AckedTable DEF Opening, Filling, Closing, Opened
  <2> QED  BY <2>1, <2>2, <2>3, ShorterSame, Quiets DEF device
<1>10. CASE TriesFail \/ Stopped \/ Report
  <2>1. pc # "idle" /\ pc' = "idle" /\ UNCHANGED <<sent, session, overtaken, down, up, device>>
    BY <1>10 DEF TriesFail, Stopped, Report, Finish, AckPlace
  <2>2. HostClass <= HostClass'
    BY <2>1, Classes DEF HostClass, Entry, Opening, Filling
  <2> QED  BY <2>1, <2>2, ShorterSame, Quiets DEF device
<1>11. CASE /\ UNCHANGED <<pc, sent, session, overtaken, down, device>>
            /\ Shorter
  <2>1. HostClass <= HostClass'
    BY <1>11, Classes DEF HostClass
  <2>2. Opened \/ pc' \in Entry \cup {"idle"}
    BY <1>11 DEF TypedInv, Places, Opened
  <2> QED  BY <1>11, <2>1, <2>2, Quiets DEF device
<1>12. CASE RxIdle
  BY <1>11, <1>12, ShorterTail DEF RxIdle
<1>13. CASE Signal \/ UNCHANGED vars
  BY <1>11, <1>13, ShorterSame DEF Signal, vars, device
<1>14. CASE Damage /\ down' = down
  <2>1. up # <<>> /\ up' = Tail(up)
    <3>1. CASE down # <<>> /\ down' = Tail(down)
      <4>1. Len(down') = Len(down) - 1 /\ Len(down) \in Nat
        BY <3>1, DownTail DEF TypedInv
      <4> QED  BY <1>14, <4>1
    <3> QED  BY <1>14, <3>1 DEF Damage
  <2> QED  BY <1>11, <1>14, <2>1, ShorterTail DEF Damage, host
<1> QED  BY <1>2, <1>3, <1>4, <1>5, <1>6, <1>7, <1>8, <1>9, <1>10, <1>12, <1>13, <1>14
         DEF HostStep, Host, Expires, Cycled

Taken == down # <<>> /\ down' = Tail(down) /\ UNCHANGED <<pc, host>>

LEMMA NextCases ==
  ASSUME [Next]_vars
  PROVE  \/ FlashFile \/ Cycled \/ (HostStep /\ ~Cycled)
         \/ DeviceReceives \/ DeviceAlone \/ (Damage /\ Taken)
<1>1. CASE Damage
  BY <1>1 DEF Damage, Taken, HostStep
<1> QED  BY <1>1 DEF Next, HostStep

LEMMA FrameInit == Init => FrameInv
BY DEF Init, FrameInv

LEMMA FrameNext == TypedInv /\ FrameInv /\ ~FlashFile /\ [Next]_vars => FrameInv'
<1> SUFFICES ASSUME TypedInv, FrameInv, ~FlashFile, [Next]_vars  PROVE FrameInv'
  OBVIOUS
<1>0. TypedInv'
  BY TypedNext
<1>2. CASE Cycled
  <2>1. down' = <<>>
    BY <1>2 DEF Cycled, PowerCycle
  <2> QED  BY <2>1 DEF FrameInv
<1>3. CASE HostStep /\ ~Cycled
  <2>1. CASE down' = down /\ session' = session /\ sent' \in Nat /\ sent <= sent' /\ HostClass <= HostClass'
    <3>1. 0 \in Nat /\ Len(down') = Len(down) - 0 /\ (\A i \in 1 .. Len(down') : down'[i] = down[i + 0])
          /\ HostClass' \in 0 .. 3
      BY <2>1 DEF TypedInv, HostClass
    <3> QED  BY <1>0, <2>1, <3>1, FrameShift DEF TypedInv
  <2>2. ASSUME NEW f \in Frames, Sending(f)  PROVE FrameInv'
    BY <1>0, <2>2, FrameAdded DEF Sending, Steady, TypedInv
  <2> QED  BY <1>0, <1>3, <2>1, <2>2, HostSteps DEF Quiet, Counting, Steady, TypedInv
<1>4. CASE DeviceReceives \/ (Damage /\ Taken)
  <2>1. Taken
    BY <1>4 DEF DeviceReceives, Taken
  <2>2. /\ HostClass <= HostClass' /\ HostClass' \in 0 .. 3
        /\ session' = session /\ sent' \in Nat /\ sent <= sent'
    BY <2>1 DEF Taken, host, HostClass, TypedInv
  <2>3. 1 \in Nat /\ Len(down') = Len(down) - 1 /\ \A i \in 1 .. Len(down') : down'[i] = down[i + 1]
    BY <2>1, DownTail DEF Taken
  <2> QED  BY <1>0, <2>2, <2>3, FrameShift DEF TypedInv
<1>5. CASE DeviceAlone
  <2>1. /\ HostClass <= HostClass' /\ HostClass' \in 0 .. 3
        /\ session' = session /\ sent' \in Nat /\ sent <= sent' /\ down' = down
    BY <1>5 DEF DeviceAlone, host, HostClass, TypedInv
  <2>2. 0 \in Nat /\ Len(down') = Len(down) - 0 /\ \A i \in 1 .. Len(down') : down'[i] = down[i + 0]
    BY <2>1 DEF TypedInv
  <2> QED  BY <1>0, <2>1, <2>2, FrameShift DEF TypedInv
<1> QED  BY <1>2, <1>3, <1>4, <1>5, NextCases

-----------------------------------------------------------------------------
(* The sequence number of a packet says which block it carries.            *)

LEMMA Streamed ==
  ASSUME TypedInv, FrameInv, NEW i \in DOMAIN down, Streams(down[i])
  PROVE  /\ Number(down[i]) \in Nat /\ Number(down[i]) <= sent + 1
         /\ down[i].seq = Number(down[i]) % Modulus
         /\ down[i].kind \in {"header", "data"} /\ Opened /\ Streaming
         /\ HostClass # 0 /\ (down[i].kind = "data" => HostClass \notin {0, 1})
<1>1. Class(down[i]) \in {1, 2} /\ down[i].kind \in {"header", "data"}
  BY DEF Streams, Class
<1>2. Opened /\ Streaming
  BY <1>1 DEF Opened, Streaming
<1>3. Class(down[i]) <= HostClass /\ (down[i].kind = "data" => Class(down[i]) = 2)
  BY DEF FrameInv, Class
<1>4. HostClass # 0 /\ (down[i].kind = "data" => HostClass \notin {0, 1})
  BY <1>1, <1>3, Classes
<1>5. CASE down[i].kind = "data"
  <2>1. Number(down[i]) \in 1 .. sent + 1 /\ down[i].seq = Number(down[i]) % Modulus
    BY <1>5 DEF FrameInv
  <2> QED  BY <1>1, <1>2, <1>4, <2>1 DEF TypedInv
<1>6. CASE down[i].kind = "header"
  <2>1. Number(down[i]) = 0 /\ down[i].seq = 0
    BY <1>6 DEF FrameInv, Number
  <2>2. 0 % Modulus = 0
    BY YmodemAssumption
  <2> QED  BY <1>1, <1>2, <1>4, <2>1, <2>2 DEF TypedInv
<1> QED  BY <1>1, <1>5, <1>6

LEMMA Matching ==
  ASSUME TypedInv, FrameInv, OwnInv, AheadInv, LeadInv, LockInv,
         Safe, mode = "data", 1 \in DOMAIN down, Streams(down[1])
  PROVE  /\ down[1].seq = expect => Number(down[1]) = Len(image) + 1
         /\ (down[1].seq + 1) % Modulus = expect => Number(down[1]) = Len(image)
<1> DEFINE b == Number(down[1])
           n == Len(image)
<1> USE YmodemAssumption
<1>1. /\ b \in Nat /\ b <= sent + 1 /\ down[1].seq = b % Modulus /\ Opened /\ Streaming
      /\ down[1].kind \in {"header", "data"} /\ (down[1].kind = "data" => HostClass \notin {0, 1})
  BY Streamed
<1>2. n \in Nat /\ expect = (n + 1) % Modulus /\ n <= b /\ n <= Reach
  BY <1>1 DEF OwnInv, NoStreams, AheadInv, Mine, TypedInv
<1>3. /\ down[1].seq = expect => b % Modulus = (n + 1) % Modulus
      /\ (down[1].seq + 1) % Modulus = expect => (b + 1) % Modulus = (n + 1) % Modulus
  BY <1>1, <1>2, ModNext
<1>4. sent \in Nat /\ Modulus \in Nat \ {0} /\ Depth \in Nat
  BY DEF TypedInv
<1>5. CASE Wide
  <2>1. b <= n + 2 * Depth
    <3>1. sent + Acks(up) < n + 2 * Depth /\ Acks(up) \in Nat
      BY <1>1, AckAtFinite DEF LeadInv, TypedInv
    <3> QED  BY <1>1, <1>2, <1>4, <3>1
  <2>2. b - n < Modulus
    BY <1>1, <1>2, <1>4, <1>5, <2>1 DEF Wide
  <2> HIDE DEF b, n
  <2>3. ASSUME (b + 1) % Modulus = (n + 1) % Modulus  PROVE b = n
    <3>1. b + 1 \in Nat /\ n + 1 \in Nat /\ n + 1 <= b + 1 /\ (b + 1) - (n + 1) < Modulus
      BY <1>1, <1>2, <1>4, <2>2
    <3>2. n + 1 = b + 1
      BY <3>1, <2>3, <1>4, ModUnique
    <3> QED  BY <1>1, <1>2, <3>2
  <2>4. ASSUME b % Modulus = (n + 1) % Modulus  PROVE b = n + 1
    <3>1. CASE b >= n + 1
      <4>1. n + 1 \in Nat /\ n + 1 <= b /\ b - (n + 1) < Modulus
        BY <1>1, <1>2, <1>4, <2>2, <3>1
      <4> QED  BY <1>1, <1>4, <2>4, <4>1, ModUnique
    <3>2. CASE b = n
      <4>1. n + 1 \in Nat /\ b <= n + 1 /\ (n + 1) - b < Modulus
        BY <1>2, <3>2
      <4> QED  BY <1>1, <1>4, <2>4, <4>1, ModUnique
    <3> QED  BY <1>1, <1>2, <3>1, <3>2
  <2>5. (down[1].seq = expect => b = n + 1) /\ ((down[1].seq + 1) % Modulus = expect => b = n)
    BY <1>3, <2>3, <2>4
  <2> QED  BY <2>5 DEF b, n
<1>6. CASE ~overtaken /\ pc # "idle"
  <2>1. pc \in {"header_ack", "data_ack"}
    <3>1. ~Clear /\ pc \notin Closing
      BY <1>6 DEF LockInv, Clear, NoStreams
    <3> QED  BY <1>6, <3>1 DEF LockInv, TypedInv, Places, Opening, Filling
  <2>2. b = n \/ b = n + 1
    <3>1. CASE pc = "header_ack"
      <4>1. HostClass = 1
        BY <3>1, Classes DEF Opening
      <4>2. down[1].kind = "header" /\ n = 0
        BY <1>1, <1>2, <4>1 DEF Reach
      <4> QED  BY <4>2 DEF Number
    <3>2. CASE pc = "data_ack"
      <4>1. b = sent + 1
        BY <1>6, <3>2 DEF LockInv
      <4>2. image = FileOf(session, sent) \/ image = FileOf(session, sent + 1)
        BY <1>6, <3>2 DEF LockInv, Stored
      <4>3. Len(FileOf(session, sent)) = sent /\ Len(FileOf(session, sent + 1)) = sent + 1
        <5>1. session \in Nat /\ sent \in Nat /\ sent + 1 \in Nat
          BY DEF TypedInv
        <5> QED  BY <5>1, FileOfSeq
      <4> QED  BY <4>1, <4>2, <4>3
    <3> QED  BY <2>1, <3>1, <3>2
  <2> HIDE DEF b, n
  <2>3. ASSUME NEW a \in Nat, a % Modulus = (a + 1) % Modulus  PROVE FALSE
    <3>1. a + 1 \in Nat /\ a <= a + 1 /\ (a + 1) - a < Modulus
      OBVIOUS
    <3>2. a = a + 1
      BY <3>1, <2>3, <1>4, ModUnique
    <3> QED  BY <3>2
  <2>4. ~(b = n /\ b % Modulus = (n + 1) % Modulus)
    BY <1>2, <2>3
  <2>5. ~(b = n + 1 /\ (b + 1) % Modulus = (n + 1) % Modulus)
    <3>1. n + 1 \in Nat
      BY <1>2
    <3> QED  BY <3>1, <2>3
  <2>6. (down[1].seq = expect => b = n + 1) /\ ((down[1].seq + 1) % Modulus = expect => b = n)
    BY <1>3, <2>2, <2>4, <2>5
  <2> QED  BY <2>6 DEF b, n
<1> QED  BY <1>5, <1>6 DEF Safe

-----------------------------------------------------------------------------
(* The image, and how far the host and the bootloader are apart.           *)

StreamInv == OwnInv /\ AheadInv /\ LeadInv

Before == TypedInv /\ FrameInv /\ StreamInv /\ LockInv /\ TypedInv' /\ FrameInv'

LEMMA StreamQuiet ==
  ASSUME Before, Quiet  PROVE StreamInv'
<1>1. /\ UNCHANGED <<session, mode, expect, image, down, sent>> /\ HostClass <= HostClass'
      /\ (Safe' => Safe) /\ (Opened' => Opened) /\ Acks(up') <= Acks(up)
  BY DEF Quiet, Shorter, Steady
<1>2. HostClass \in 0 .. 3 /\ HostClass' \in 0 .. 3 /\ sent \in Nat
      /\ Acks(up) \in Nat /\ Acks(up') \in Nat
  <2>1. up \in Seq(Bytes) /\ up' \in Seq(Bytes)
    BY DEF Before, TypedInv
  <2>2. Acks(up) \in Nat /\ Acks(up') \in Nat
    BY <2>1, AckAtFinite
  <2> QED  BY <2>2 DEF HostClass, Before, TypedInv
<1>3. OwnInv'
  <2>1. Reach <= Reach' /\ Reach \in Nat /\ Reach' \in Nat
    BY <1>1, <1>2 DEF Reach
  <2>2. Len(image) \in Nat
    BY DEF Before, TypedInv
  <2> QED  BY <1>1, <1>2, <2>1, <2>2 DEF Before, StreamInv, OwnInv, NoStreams, Mine
<1>4. AheadInv'
  BY <1>1 DEF Before, StreamInv, AheadInv
<1>5. LeadInv'
  <2>1. ASSUME NEW i \in DOMAIN down', Streams(down'[i])
        PROVE  sent' + Acks(up') + i < Number(down'[i]) + 2 * Depth
    <3>1. sent + Acks(up) + i < Number(down[i]) + 2 * Depth
      BY <1>1, <2>1 DEF Before, StreamInv, LeadInv
    <3>2. i \in Nat /\ Number(down[i]) \in Nat /\ Depth \in Nat
      BY <1>1, <2>1, Streamed, YmodemAssumption DEF Before, TypedInv
    <3> QED  BY <1>1, <1>2, <3>1, <3>2
  <2>2. ASSUME Safe', Opened', mode' = "data", Streaming'
        PROVE  sent' + Acks(up') < Len(image') + 2 * Depth
    <3>1. HostClass # 0
      BY <1>1, <2>2 DEF Before, StreamInv, OwnInv, NoStreams
    <3>2. Streaming
      BY <1>1, <1>2, <2>2, <3>1 DEF Streaming
    <3>3. sent + Acks(up) < Len(image) + 2 * Depth
      BY <1>1, <2>2, <3>2 DEF Before, StreamInv, LeadInv
    <3>4. Len(image) \in Nat /\ Depth \in Nat
      BY YmodemAssumption DEF Before, TypedInv
    <3> QED  BY <1>1, <1>2, <3>3, <3>4
  <2>3. ASSUME HostClass' \in {0, 1}, up' # <<>>
        PROVE  up'[Len(up')] # "ACK"
    <3>1. PICK n \in 0 .. Len(up) :
            Len(up') = Len(up) - n /\ \A i \in 1 .. Len(up') : up'[i] = up[i + n]
      BY DEF Quiet, Shorter
    <3>2. Len(up') \in Nat \ {0} /\ Len(up) \in Nat
      BY <2>3, EmptySeq DEF Before, TypedInv
    <3>3. up'[Len(up')] = up[Len(up)] /\ up # <<>>
      BY <3>1, <3>2
    <3> QED  BY <1>1, <1>2, <2>3, <3>3 DEF Before, StreamInv, LeadInv
  <2> QED  BY <2>1, <2>2, <2>3 DEF LeadInv
<1> QED  BY <1>3, <1>4, <1>5 DEF StreamInv

LEMMA StreamCounting ==
  ASSUME Before, Counting  PROVE StreamInv'
<1>1. /\ UNCHANGED <<session, mode, expect, image, down>> /\ HostClass = 2 /\ HostClass' = 2
      /\ (Safe' => Safe) /\ Opened /\ sent' = sent + 1 /\ Acks(up) = Acks(up') + 1
  BY DEF Counting, Steady
<1>2. sent \in Nat /\ Acks(up') \in Nat
  <2>1. up' \in Seq(Bytes)
    BY DEF Before, TypedInv
  <2> QED  BY <2>1, AckAtFinite DEF Before, TypedInv
<1>3. sent' + Acks(up') = sent + Acks(up)
  BY <1>1, <1>2
<1>4. OwnInv'
  <2>1. Reach <= Reach' /\ Reach \in Nat /\ Reach' \in Nat /\ Len(image) \in Nat
    BY <1>1, <1>2 DEF Reach, Before, TypedInv
  <2> QED  BY <1>1, <2>1 DEF Before, StreamInv, OwnInv, NoStreams, Mine
<1>5. AheadInv'
  BY <1>1 DEF Before, StreamInv, AheadInv
<1>6. Streaming
  BY <1>1 DEF Streaming
<1>7. LeadInv'
  BY <1>1, <1>3, <1>6 DEF Before, StreamInv, LeadInv
<1> QED  BY <1>4, <1>5, <1>7 DEF StreamInv

LEMMA StreamSending ==
  ASSUME Before, NEW f \in Frames, Sending(f)  PROVE StreamInv'
<1>1. /\ UNCHANGED <<session, mode, expect, image, sent>> /\ HostClass' = HostClass
      /\ (Safe' => Safe) /\ (Opened' => Opened) /\ Acks(up') <= Acks(up) /\ Class(f) = HostClass
  BY DEF Sending, Shorter, Steady
<1>2. /\ HostClass \in 0 .. 3 /\ sent \in Nat /\ Len(image) \in Nat /\ Len(down) \in Nat
      /\ Depth \in Nat
  BY YmodemAssumption DEF HostClass, Before, TypedInv
<1>3. Acks(up) \in Nat /\ Acks(up') \in Nat /\ Acks(up') <= Depth
  <2>1. up \in Seq(Bytes) /\ up' \in Seq(Bytes) /\ Len(up') <= Depth /\ Len(up') \in Nat
    BY DEF Before, TypedInv
  <2>2. Acks(up) \in Nat /\ Acks(up') \in 0 .. Len(up')
    BY <2>1, AckAtFinite
  <2> QED  BY <1>2, <2>1, <2>2
<1>4. /\ \A i \in DOMAIN down' : (i \in DOMAIN down /\ down'[i] = down[i]) \/ (i = Len(down) + 1 /\ down'[i] = f)
      /\ Len(down) + 1 <= Depth /\ DOMAIN down = 1 .. Len(down)
  <2>1. /\ DOMAIN down = 1 .. Len(down) /\ DOMAIN down' = 1 .. Len(down')
        /\ Len(down') <= Depth /\ Len(down') = Len(down) + 1
    BY DEF Before, TypedInv, Sending
  <2>2. \A i \in 1 .. Len(down) : down'[i] = down[i]
    BY DEF Sending
  <2>3. down'[Len(down) + 1] = f
    BY DEF Sending
  <2> QED  BY <1>2, <2>1, <2>2, <2>3
<1>5. OwnInv'
  <2>1. Reach' = Reach
    BY <1>1 DEF Reach
  <2>2. HostClass = 3 => ~Streams(f)
    BY <1>1 DEF Streams
  <2>3. ASSUME Opened', mode' = "eot", NEW i \in DOMAIN down'  PROVE ~Streams(down'[i])
    BY <1>1, <1>4, <2>2, <2>3 DEF Before, StreamInv, OwnInv, NoStreams
  <2> QED  BY <1>1, <2>1, <2>3 DEF Before, StreamInv, OwnInv, NoStreams, Mine
<1>6. Streams(f) => HostClass \in {1, 2} /\ Number(f) = Reach /\ Number(f) \in Nat
  <2>1. f.kind = "data" => Number(f) = sent + 1
    BY DEF Sending, Number
  <2>2. f.kind # "data" => Number(f) = 0
    BY DEF Number
  <2>3. Streams(f) => Class(f) \in {1, 2} /\ (f.kind = "data" <=> Class(f) = 2)
    BY DEF Streams, Class
  <2> QED  BY <1>1, <1>2, <2>1, <2>2, <2>3 DEF Reach
<1>7. AheadInv'
  <2>1. ASSUME Safe', Opened', mode' = "data", NEW i \in DOMAIN down', Streams(down'[i])
        PROVE  Len(image') <= Number(down'[i])
    <3>1. CASE i \in DOMAIN down /\ down'[i] = down[i]
      BY <1>1, <2>1, <3>1 DEF Before, StreamInv, AheadInv
    <3>2. CASE down'[i] = f
      BY <1>1, <1>6, <2>1, <3>2 DEF Before, StreamInv, OwnInv, NoStreams
    <3> QED  BY <1>4, <3>1, <3>2
  <2> QED  BY <2>1 DEF AheadInv
<1>8. ASSUME HostClass' \in {0, 1}, up' # <<>>
      PROVE  up'[Len(up')] # "ACK"
  <2>1. PICK n \in 0 .. Len(up) :
          Len(up') = Len(up) - n /\ \A i \in 1 .. Len(up') : up'[i] = up[i + n]
    BY DEF Sending, Shorter
  <2>2. Len(up') \in Nat \ {0} /\ Len(up) \in Nat
    BY <1>8, EmptySeq DEF Before, TypedInv
  <2>3. up'[Len(up')] = up[Len(up)] /\ up # <<>>
    BY <2>1, <2>2
  <2> QED  BY <1>1, <1>8, <2>3 DEF Before, StreamInv, LeadInv
<1>9. LeadInv'
  <2>1. ASSUME NEW i \in DOMAIN down', Streams(down'[i])
        PROVE  sent' + Acks(up') + i < Number(down'[i]) + 2 * Depth
    <3>1. CASE i \in DOMAIN down /\ down'[i] = down[i]
      <4>1. sent + Acks(up) + i < Number(down[i]) + 2 * Depth
        BY <2>1, <3>1 DEF Before, StreamInv, LeadInv
      <4>2. i \in Nat /\ Number(down[i]) \in Nat
        BY <1>4, <2>1, <3>1, Streamed DEF Before
      <4> QED  BY <1>1, <1>2, <1>3, <3>1, <4>1, <4>2
    <3>2. CASE i = Len(down) + 1 /\ down'[i] = f
      <4>1. Streams(f)
        BY <2>1, <3>2
      <4>2. CASE HostClass = 2
        <5>1. Number(f) = sent + 1
          BY <1>6, <4>1, <4>2 DEF Reach
        <5> QED  BY <1>1, <1>2, <1>3, <1>4, <3>2, <5>1
      <4>3. CASE HostClass = 1
        <5>1. Number(f) = 0
          BY <1>6, <4>1, <4>3 DEF Reach
        <5>2. sent = 0
          BY <4>3 DEF HostClass, Before, TypedInv, Opening, Entry
        <5>3. Acks(up') < Depth
          <6>1. CASE up' = <<>>
            BY <6>1, AcksEmpty, YmodemAssumption
          <6>2. CASE up' # <<>>
            <7>1. up' \in Seq(Bytes) /\ Len(up') \in 1 .. Len(up') /\ Len(up') <= Depth
              BY <6>2, EmptySeq DEF Before, TypedInv
            <7>2. up'[Len(up')] # "ACK"
              BY <1>1, <1>8, <4>3, <6>2
            <7>3. Acks(up') < Len(up')
              BY <7>1, <7>2, AcksLess
            <7> QED  BY <1>2, <1>3, <7>1, <7>3
          <6> QED  BY <6>1, <6>2
        <5> QED  BY <1>1, <1>2, <1>3, <1>4, <3>2, <5>1, <5>2, <5>3
      <4> QED  BY <1>6, <4>1, <4>2, <4>3
    <3> QED  BY <1>4, <3>1, <3>2
  <2>2. ASSUME Safe', Opened', mode' = "data", Streaming'
        PROVE  sent' + Acks(up') < Len(image') + 2 * Depth
    <3>1. Streaming
      BY <1>1, <1>4, <1>6, <2>2 DEF Streaming
    <3>2. sent + Acks(up) < Len(image) + 2 * Depth
      BY <1>1, <2>2, <3>1 DEF Before, StreamInv, LeadInv
    <3> QED  BY <1>1, <1>2, <1>3, <3>2
  <2> QED  BY <1>8, <2>1, <2>2 DEF LeadInv
<1> QED  BY <1>5, <1>7, <1>9 DEF StreamInv

LEMMA StreamCycled ==
  ASSUME Before, Cycled  PROVE StreamInv'
<1>1. down' = <<>> /\ DOMAIN down' = {} /\ mode' \in {"boot", "off"} /\ up' = up /\ HostClass = 0
  BY Classes DEF Cycled, PowerCycle, PowerCycleFails, Entry
<1> QED  BY <1>1 DEF StreamInv, OwnInv, NoStreams, AheadInv, LeadInv, Before

(* The bootloader takes a frame, and up grows by at most one ACK.          *)
TakenAnswer ==
  /\ Taken
  /\ Acks(up') <= Acks(up) + 1
  /\ HostClass \in {0, 1} /\ up' # <<>> => up' = up \/ up'[Len(up')] # "ACK"

LEMMA TakenFacts ==
  ASSUME Before, TakenAnswer
  PROVE  /\ 1 \in DOMAIN down /\ Head(down) = down[1]
         /\ UNCHANGED <<pc, session, sent, HostClass, Reach, Safe>>
         /\ \A i \in DOMAIN down' : i + 1 \in DOMAIN down /\ down'[i] = down[i + 1]
         /\ \A i \in DOMAIN down' :
              Streams(down'[i]) => sent' + Acks(up') + i < Number(down'[i]) + 2 * Depth
         /\ HostClass' \in {0, 1} /\ up' # <<>> => up'[Len(up')] # "ACK"
         /\ Streaming' => Streaming
         /\ sent \in Nat /\ Acks(up) \in Nat /\ Acks(up') \in Nat /\ Len(image) \in Nat /\ Depth \in Nat
<1>1. UNCHANGED <<pc, session, sent, overtaken>>
  BY DEF TakenAnswer, Taken, host
<1>2. UNCHANGED <<HostClass, Reach, Safe>>
  BY <1>1 DEF HostClass, Reach, Safe, Wide
<1>3. down # <<>> /\ down' = Tail(down) /\ TypedInv /\ FrameInv
  BY DEF TakenAnswer, Taken, Before
<1>4. /\ Len(down) >= 1 /\ Len(down') = Len(down) - 1 /\ Head(down) = down[1]
      /\ \A i \in 1 .. Len(down') : down'[i] = down[i + 1]
  BY <1>3, DownTail
<1>5. 1 \in DOMAIN down /\ DOMAIN down' = 1 .. Len(down')
      /\ \A i \in DOMAIN down' : i + 1 \in DOMAIN down /\ down'[i] = down[i + 1]
  <2>1. DOMAIN down' = 1 .. Len(down') /\ DOMAIN down = 1 .. Len(down) /\ Len(down) \in Nat
    BY DEF Before, TypedInv
  <2> QED  BY <1>4, <2>1
<1>6. Acks(up) \in Nat /\ Acks(up') \in Nat
  <2>1. up \in Seq(Bytes) /\ up' \in Seq(Bytes)
    BY DEF Before, TypedInv
  <2> QED  BY <2>1, AckAtFinite
<1>7. sent \in Nat /\ Len(image) \in Nat /\ Depth \in Nat /\ HostClass \in 0 .. 3
  BY YmodemAssumption, Classes DEF Before, TypedInv
<1>8. ASSUME NEW i \in DOMAIN down', Streams(down'[i])
      PROVE  sent' + Acks(up') + i < Number(down'[i]) + 2 * Depth
  <2>1. Streams(down[i + 1]) /\ i + 1 \in DOMAIN down
    BY <1>5, <1>8
  <2>2. sent + Acks(up) + (i + 1) < Number(down[i + 1]) + 2 * Depth
    BY <2>1 DEF Before, StreamInv, LeadInv
  <2>3. Number(down[i + 1]) \in Nat /\ i \in Nat
    BY <1>3, <1>5, <2>1, Streamed
  <2>4. Acks(up') <= Acks(up) + 1
    BY DEF TakenAnswer
  <2> QED  BY <1>1, <1>5, <1>6, <1>7, <2>2, <2>3, <2>4
<1>9. HostClass' \in {0, 1} /\ up' # <<>> => up'[Len(up')] # "ACK"
  BY <1>2 DEF TakenAnswer, Before, StreamInv, LeadInv
<1>10. Streaming' => Streaming
  BY <1>2, <1>5 DEF Streaming
<1> QED  BY <1>1, <1>2, <1>4, <1>5, <1>6, <1>7, <1>8, <1>9, <1>10

LEMMA StreamSame ==
  ASSUME Before, TakenAnswer, UNCHANGED device, Opened' => Opened,
         Safe /\ Opened /\ mode = "data" /\ Streaming' =>
           \/ Acks(up') = Acks(up)
           \/ sent + Acks(up) + 1 < Len(image) + 2 * Depth
  PROVE  StreamInv'
<1>1. UNCHANGED <<mode, expect, image>>
  BY DEF device
<1>2. OwnInv'
  <2>1. Mine' = Mine
    BY <1>1, TakenFacts DEF Mine
  <2>2. ASSUME Opened, mode = "eot", NEW i \in DOMAIN down'  PROVE ~Streams(down'[i])
    BY <2>2, TakenFacts DEF Before, StreamInv, OwnInv, NoStreams
  <2>3. UNCHANGED <<HostClass, Reach, Safe>>
    BY TakenFacts
  <2> QED  BY <1>1, <2>1, <2>2, <2>3 DEF Before, StreamInv, OwnInv, NoStreams
<1>3. AheadInv'
  BY <1>1, TakenFacts DEF Before, StreamInv, AheadInv
<1>4. ASSUME Safe', Opened', mode' = "data", Streaming'
      PROVE  sent' + Acks(up') < Len(image') + 2 * Depth
  <2>1. Safe /\ Opened /\ mode = "data" /\ Streaming
    BY <1>1, <1>4, TakenFacts
  <2>2. sent + Acks(up) < Len(image) + 2 * Depth
    BY <2>1 DEF Before, StreamInv, LeadInv
  <2>3. Acks(up') = Acks(up) \/ (Acks(up') <= Acks(up) + 1 /\ sent + Acks(up) + 1 < Len(image) + 2 * Depth)
    BY <1>4, <2>1 DEF TakenAnswer
  <2> QED  BY <1>1, <2>2, <2>3, TakenFacts
<1>5. LeadInv'
  BY <1>4, TakenFacts DEF LeadInv
<1> QED  BY <1>2, <1>3, <1>5 DEF StreamInv

LEMMA StreamElsewhere ==
  ASSUME Before, TakenAnswer, mode' \notin {"data", "eot"}
  PROVE  StreamInv'
<1>1. LeadInv'
  BY TakenFacts DEF LeadInv
<1> QED  BY <1>1 DEF StreamInv, OwnInv, NoStreams, AheadInv

LEMMA StreamEnds ==
  ASSUME Before, TakenAnswer, mode = "data", mode' = "eot", UNCHANGED <<expect, image>>,
         down[1].kind = "EOT"
  PROVE  StreamInv'
<1>1. Class(down[1]) = 3 /\ 1 \in DOMAIN down
  BY TakenFacts DEF Class
<1>2. Opened /\ HostClass = 3
  <2>1. Class(down[1]) <= HostClass /\ HostClass \in 0 .. 3
    BY <1>1, Classes DEF Before, FrameInv
  <2> QED  BY <1>1, <2>1 DEF Opened
<1>3. ASSUME NEW i \in DOMAIN down'  PROVE ~Streams(down'[i])
  <2>1. i + 1 \in DOMAIN down /\ down'[i] = down[i + 1]
    BY TakenFacts
  <2>3. 1 < i + 1
    <3>1. DOMAIN down' = 1 .. Len(down')
      BY DEF Before, TypedInv
    <3> QED  BY <3>1
  <2>2. Class(down[1]) <= Class(down[i + 1])
    BY <1>1, <2>1, <2>3 DEF Before, FrameInv
  <2> QED  BY <1>1, <2>1, <2>2, Classes DEF Streams
<1>4. UNCHANGED <<HostClass, Reach, Safe>> /\ Mine' = Mine
  BY TakenFacts DEF Mine
<1>5. OwnInv'
  BY <1>2, <1>3, <1>4 DEF OwnInv, NoStreams, Before, StreamInv
<1>6. LeadInv'
  BY TakenFacts DEF LeadInv
<1> QED  BY <1>5, <1>6 DEF StreamInv, AheadInv

LEMMA StreamBegins ==
  ASSUME Before, TakenAnswer, down[1].kind = "header", mode' = "data",
         expect' = 1 % Modulus, image' = <<>>
  PROVE  StreamInv'
<1>1. 1 \in DOMAIN down /\ Streams(down[1]) /\ Number(down[1]) = 0
  BY TakenFacts DEF Streams, Class, Number
<1>2. HostClass # 0 /\ TypedInv /\ FrameInv
  BY <1>1, Streamed DEF Before
<1>3. Len(image') = 0 /\ image' = FileOf(session', 0)
  <2>1. session' \in Nat
    BY DEF Before, TypedInv
  <2> QED  BY <2>1, FileOfGrows, EmptySeq
<1>4. Mine'
  BY <1>3 DEF Mine
<1>5. OwnInv'
  <2>1. Reach' \in Nat
    <3>1. sent \in Nat /\ Reach' = Reach
      BY TakenFacts
    <3> QED  BY <3>1 DEF Reach
  <2> QED  BY <1>2, <1>3, <1>4, <2>1, TakenFacts DEF OwnInv, NoStreams
<1>6. AheadInv'
  <2>1. ASSUME NEW i \in DOMAIN down', Streams(down'[i])  PROVE Number(down'[i]) \in Nat
    BY <2>1, Streamed, TakenFacts DEF Before
  <2> QED  BY <1>3, <2>1 DEF AheadInv
<1>7. sent' + Acks(up') < Len(image') + 2 * Depth
  <2>1. sent + Acks(up) + 1 < Number(down[1]) + 2 * Depth
    BY <1>1 DEF Before, StreamInv, LeadInv
  <2> QED  BY <1>1, <1>3, <2>1, TakenFacts DEF TakenAnswer
<1>8. LeadInv'
  BY <1>7, TakenFacts DEF LeadInv
<1> QED  BY <1>5, <1>6, <1>8 DEF StreamInv

LEMMA StoresMine ==
  ASSUME Before, TakenAnswer, down[1].kind = "data", mode = "data", mode' = "data",
         down[1].seq = expect,
         expect' = (expect + 1) % Modulus, image' = Append(image, down[1].block)
  PROVE  Safe => Mine' /\ Len(image') <= Reach'
<1> DEFINE n == Len(image)
<1>1. 1 \in DOMAIN down /\ Streams(down[1]) /\ Class(down[1]) = 2
  BY TakenFacts DEF Streams, Class
<1>2. Opened /\ HostClass \notin {0, 1} /\ TypedInv /\ FrameInv /\ sent \in Nat /\ n \in Nat
  <2>1. TypedInv /\ FrameInv
    BY DEF Before
  <2>2. Opened /\ HostClass \notin {0, 1}
    BY <1>1, <2>1, Streamed
  <2> QED  BY <2>1, <2>2 DEF TypedInv
<1>3. Len(image') = n + 1
  <2>1. image' \in Seq(Nat \X Nat) /\ image \in Seq(Nat \X Nat)
    BY DEF Before, TypedInv
  <2> QED  BY <2>1
<1>4. Safe => Number(down[1]) = n + 1
  BY <1>1, <1>2, Matching DEF Before, StreamInv
<1>5. down[1].block = <<session, Number(down[1])>> /\ Number(down[1]) \in 1 .. sent + 1
  BY <1>1 DEF Before, FrameInv
<1>6. ASSUME Safe  PROVE Mine' /\ Len(image') <= Reach'
  <2>1. image = FileOf(session, n) /\ expect = (n + 1) % Modulus
    BY <1>2, <1>6 DEF Before, StreamInv, OwnInv, NoStreams, Mine
  <2>2. image' = Append(FileOf(session, n), <<session, n + 1>>)
    BY <1>4, <1>5, <1>6, <2>1
  <2>3. session \in Nat /\ session' = session
    BY TakenFacts DEF Before, TypedInv
  <2>4. image' = FileOf(session', Len(image'))
    BY <1>2, <1>3, <2>2, <2>3, FileOfGrows
  <2>5. expect' = (Len(image') + 1) % Modulus
    <3>1. n + 1 \in Nat /\ Modulus \in Nat \ {0}
      BY <1>2, YmodemAssumption
    <3>2. expect' = ((n + 1) + 1) % Modulus
      BY <2>1, <3>1, ModNext
    <3> QED  BY <1>3, <3>2
  <2>6. Len(image') <= Reach'
    BY <1>2, <1>3, <1>4, <1>5, <1>6, TakenFacts DEF Reach
  <2> QED  BY <2>4, <2>5, <2>6 DEF Mine
<1> QED  BY <1>6

LEMMA StreamStores ==
  ASSUME Before, TakenAnswer, down[1].kind = "data", mode = "data", mode' = "data",
         down[1].seq = expect,
         expect' = (expect + 1) % Modulus, image' = Append(image, down[1].block)
  PROVE  StreamInv'
<1> DEFINE n == Len(image)
<1>1. 1 \in DOMAIN down /\ Streams(down[1]) /\ Class(down[1]) = 2
  BY TakenFacts DEF Streams, Class
<1>2. Opened /\ HostClass \notin {0, 1} /\ TypedInv /\ FrameInv /\ sent \in Nat /\ n \in Nat
  <2>1. TypedInv /\ FrameInv
    BY DEF Before
  <2>2. Opened /\ HostClass \notin {0, 1}
    BY <1>1, <2>1, Streamed
  <2> QED  BY <2>1, <2>2 DEF TypedInv
<1>3. Len(image') = n + 1
  <2>1. image' \in Seq(Nat \X Nat) /\ image \in Seq(Nat \X Nat)
    BY DEF Before, TypedInv
  <2> QED  BY <2>1
<1>4. Safe => Number(down[1]) = n + 1
  BY <1>1, <1>2, Matching DEF Before, StreamInv
<1>5. down[1].block = <<session, Number(down[1])>> /\ Number(down[1]) \in 1 .. sent + 1
  BY <1>1 DEF Before, FrameInv
<1>6. Safe => Mine' /\ Len(image') <= Reach'
  BY StoresMine
<1>7. OwnInv'
  BY <1>2, <1>6, TakenFacts DEF OwnInv, NoStreams
<1>8. AheadInv'
  <2>1. ASSUME Safe, NEW i \in DOMAIN down', Streams(down'[i])  PROVE Len(image') <= Number(down'[i])
    <3>1. i + 1 \in DOMAIN down /\ down'[i] = down[i + 1] /\ 1 < i + 1
      <4>1. i + 1 \in DOMAIN down /\ down'[i] = down[i + 1]
        BY TakenFacts
      <4>2. DOMAIN down' = 1 .. Len(down')
        BY DEF Before, TypedInv
      <4> QED  BY <4>1, <4>2
    <3>2. Class(down[1]) <= Class(down[i + 1])
      BY <1>1, <3>1 DEF Before, FrameInv
    <3>3. Class(down[i + 1]) = 2
      BY <1>1, <2>1, <3>1, <3>2 DEF Streams
    <3>4. Number(down[1]) <= Number(down[i + 1])
      BY <1>1, <3>1, <3>3 DEF Before, FrameInv
    <3> QED  BY <1>3, <1>4, <2>1, <3>1, <3>4
  <2> QED  BY <2>1, TakenFacts DEF AheadInv
<1>9. ASSUME Safe  PROVE sent' + Acks(up') < Len(image') + 2 * Depth
  <2>1. sent + Acks(up) + 1 < Number(down[1]) + 2 * Depth
    BY <1>1 DEF Before, StreamInv, LeadInv
  <2>2. sent' = sent /\ Acks(up') <= Acks(up) + 1 /\ Acks(up) \in Nat /\ Acks(up') \in Nat /\ Depth \in Nat
    BY TakenFacts DEF TakenAnswer
  <2>3. Number(down[1]) = n + 1
    BY <1>4, <1>9
  <2> QED  BY <1>2, <1>3, <2>1, <2>2, <2>3
<1>10. LeadInv'
  BY <1>9, TakenFacts DEF LeadInv
<1> QED  BY <1>7, <1>8, <1>10 DEF StreamInv

LEMMA Answers ==
  ASSUME Before, Taken,
         \/ up' = up
         \/ \E x \in Bytes : Reply(<<x>>) /\ (x = "ACK" => HostClass \notin {0, 1})
         \/ Reply(<<"ACK", "C">>)
  PROVE  TakenAnswer
<1>1. TypedInv /\ up \in Seq(Bytes) /\ Len(up) \in Nat /\ Acks(up) \in Nat
  <2>1. TypedInv /\ up \in Seq(Bytes)
    BY DEF Before, TypedInv
  <2> QED  BY <2>1, AckAtFinite
<1>2. CASE up' = up
  BY <1>1, <1>2 DEF TakenAnswer
<1>3. ASSUME NEW x \in Bytes, Reply(<<x>>), x = "ACK" => HostClass \notin {0, 1}
      PROVE  TakenAnswer
  <2>1. Len(up') = Len(up) + 1 /\ up'[Len(up) + 1] = x
        /\ Acks(up') = IF x = "ACK" THEN Acks(up) + 1 ELSE Acks(up)
    BY <1>1, <1>3, ReplyOne
  <2> QED  BY <1>1, <1>3, <2>1 DEF TakenAnswer
<1>4. CASE Reply(<<"ACK", "C">>)
  <2>1. Len(up') = Len(up) + 2 /\ up'[Len(up) + 2] = "C" /\ Acks(up') = Acks(up) + 1
    BY <1>1, <1>4, ReplyTwo
  <2> QED  BY <1>1, <2>1 DEF TakenAnswer
<1> QED  BY <1>2, <1>3, <1>4

LEMMA OpenedTaken ==
  ASSUME Before, Taken, \/ Opened \/ up' = up \/ \E x \in Bytes \ {"C"} : Reply(<<x>>)
  PROVE  Opened' => Opened
<1> SUFFICES ASSUME Opened', ~Opened  PROVE FALSE
  OBVIOUS
<1>1. ~ \E i \in DOMAIN up' : up'[i] = "C"
  <2>1. CASE up' = up
    BY <2>1 DEF Opened
  <2>2. ASSUME NEW x \in Bytes \ {"C"}, Reply(<<x>>)  PROVE ~ \E i \in DOMAIN up' : up'[i] = "C"
    <3>1. /\ up' \in Seq(Bytes) /\ Len(up') = Len(up) + 1 /\ up'[Len(up) + 1] = x
          /\ \A i \in 1 .. Len(up) : up'[i] = up[i]
      BY <2>2, ReplyOne DEF Before
    <3>2. \A i \in DOMAIN up' : i = Len(up) + 1 \/ i \in 1 .. Len(up)
      BY <3>1 DEF Before, TypedInv
    <3>3. \A i \in 1 .. Len(up) : up[i] # "C"
      BY DEF Opened, Before, TypedInv
    <3> QED  BY <3>1, <3>2, <3>3
  <2> QED  BY <2>1, <2>2
<1>2. ~ \E i \in DOMAIN down' : Class(down'[i]) # 0
  <2>1. /\ Len(down) >= 1 /\ Len(down') = Len(down) - 1
        /\ \A i \in 1 .. Len(down') : down'[i] = down[i + 1]
    BY DownTail DEF Before, Taken
  <2>2. \A i \in DOMAIN down' : i + 1 \in DOMAIN down /\ down'[i] = down[i + 1]
    <3>1. DOMAIN down' = 1 .. Len(down') /\ DOMAIN down = 1 .. Len(down) /\ Len(down) \in Nat
      BY DEF Before, TypedInv
    <3> QED  BY <2>1, <3>1
  <2> QED  BY <2>2 DEF Opened
<1>3. pc' = pc
  BY DEF Taken
<1> QED  BY <1>1, <1>2, <1>3 DEF Opened

(* The bootloader's end of the channel.                                    *)
LEMMA StreamByte ==
  ASSUME Before, Taken, down[1].kind \in Commands, ReceiveByte(down[1].kind), UNCHANGED <<expect, image>>
  PROVE  StreamInv'
<1>1. CASE UNCHANGED <<mode, up>>
  <2>1. TakenAnswer /\ (Opened' => Opened)
    BY <1>1, Answers, OpenedTaken
  <2> QED  BY <1>1, <2>1, StreamSame DEF device
<1>2. CASE mode' \notin {"data", "eot"}
           /\ \/ up' = up \/ Reply(<<"ACK", "C">>) \/ \E x \in {"menu", "C", "app"} : Reply(<<x>>)
  <2>1. TakenAnswer
    BY <1>2, Answers DEF Bytes
  <2> QED  BY <1>2, <2>1, StreamElsewhere
<1>3. CASE mode = "data" /\ down[1].kind = "EOT" /\ mode' = "eot" /\ Reply(<<"NAK">>)
  <2>1. "NAK" \in Bytes
    BY DEF Bytes
  <2>2. TakenAnswer
    BY <1>3, <2>1, Answers
  <2> QED  BY <1>3, <2>2, StreamEnds
<1> QED  BY <1>1, <1>2, <1>3 DEF ReceiveByte

LEMMA StreamPacket ==
  ASSUME Before, Taken, down[1] \in Frames, down[1].kind \notin Commands, ReceivePacket(down[1])
  PROVE  StreamInv'
<1> DEFINE f == down[1]
<1>0. /\ 1 \in DOMAIN down /\ TypedInv /\ FrameInv /\ f.kind \in Packets
      /\ "ACK" \in Bytes \ {"C"} /\ "NAK" \in Bytes \ {"C"} /\ "menu" \in Bytes
  <2>1. 1 \in DOMAIN down /\ TypedInv /\ FrameInv
    BY DownTail DEF Before, Taken, TypedInv
  <2> QED  BY <2>1 DEF Frames, Bytes
<1>1. Opened /\ Class(f) \in 1 .. 3 /\ HostClass \in Class(f) .. 3
  <2>1. Class(f) \in 1 .. 3
    BY <1>0 DEF Class, Packets, Commands
  <2>2. Class(f) <= HostClass /\ HostClass \in 0 .. 3
    BY <1>0, Classes DEF FrameInv
  <2> QED  BY <1>0, <2>1, <2>2 DEF Opened
<1>2. f.kind # "header" => HostClass \notin {0, 1}
  <2>1. f.kind # "header" => Class(f) # 1
    BY <1>0 DEF Class, Packets
  <2> QED  BY <1>1, <2>1
<1>3. Opened' => Opened
  BY <1>1
<1>4. CASE mode = "header" /\ f.kind = "header" /\ mode' = "data" /\ expect' = 1 % Modulus
           /\ image' = <<>> /\ Reply(<<"ACK", "C">>)
  BY <1>4, Answers, StreamBegins
<1>5. CASE mode' = "menu" /\ f.kind = "close" /\ Reply(<<"ACK">>)
  <2>1. TakenAnswer
    BY <1>0, <1>2, <1>5, Answers
  <2> QED  BY <1>5, <2>1, StreamElsewhere
<1>6. CASE mode = "data" /\ f.kind = "data" /\ f.seq = expect /\ image' = Append(image, f.block)
           /\ expect' = (expect + 1) % Modulus /\ UNCHANGED mode /\ Reply(<<"ACK">>)
  <2>1. TakenAnswer
    BY <1>0, <1>2, <1>6, Answers
  <2> QED  BY <1>6, <2>1, StreamStores
<1>7. CASE UNCHANGED device /\ Reply(<<"NAK">>)
  <2>1. TakenAnswer
    BY <1>0, <1>7, Answers
  <2>2. Acks(up') = Acks(up)
    BY <1>0, <1>7, ReplyOne
  <2> QED  BY <1>3, <1>7, <2>1, <2>2, StreamSame
<1>8. CASE mode = "data" /\ (f.seq + 1) % Modulus = expect /\ UNCHANGED device
           /\ \/ Reply(<<"ACK", "C">>) /\ f.kind = "header"
              \/ Reply(<<"ACK">>) /\ f.kind # "header"
  <2>1. TakenAnswer
    BY <1>0, <1>2, <1>8, Answers
  <2>2. ASSUME Safe, Streaming'  PROVE sent + Acks(up) + 1 < Len(image) + 2 * Depth
    <3>1. CASE Streams(f)
      <4>1. Number(f) = Len(image)
        BY <1>0, <1>8, <2>2, <3>1, Matching DEF Before, StreamInv
      <4>2. sent + Acks(up) + 1 < Number(f) + 2 * Depth
        BY <1>0, <3>1 DEF Before, StreamInv, LeadInv
      <4> QED  BY <4>1, <4>2
    <3>2. CASE ~Streams(f)
      <4>1. Class(f) = 3 /\ HostClass = 3
        BY <1>1, <3>2 DEF Streams
      <4>2. PICK i \in DOMAIN down' : Streams(down'[i])
        BY <2>1, <2>2, <4>1, TakenFacts DEF Streaming
      <4>3. i + 1 \in DOMAIN down /\ down'[i] = down[i + 1]
        BY <2>1, TakenFacts
      <4>4. 1 < i + 1
        <5>1. DOMAIN down' = 1 .. Len(down')
          BY DEF Before, TypedInv
        <5> QED  BY <5>1
      <4>5. Class(f) <= Class(down[i + 1])
        BY <1>0, <4>3, <4>4 DEF FrameInv
      <4> QED  BY <4>1, <4>2, <4>3, <4>5 DEF Streams
    <3> QED  BY <3>1, <3>2
  <2> QED  BY <1>3, <1>8, <2>1, <2>2, StreamSame
<1>9. CASE mode = "eot" /\ UNCHANGED device /\ Reply(<<"ACK">>)
  <2>1. HostClass = 3
    BY <1>1, <1>9 DEF Before, StreamInv, OwnInv, NoStreams
  <2>2. TakenAnswer
    BY <1>0, <1>9, <2>1, Answers
  <2> QED  BY <1>3, <1>9, <2>2, StreamSame
<1>10. CASE mode \notin Upload /\ UNCHANGED <<device, up>>
  <2>1. TakenAnswer
    BY <1>10, Answers
  <2> QED  BY <1>3, <1>10, <2>1, StreamSame
<1>11. CASE mode = "data" /\ f.seq # expect /\ UNCHANGED device
            /\ Reply(IF (f.seq + 1) % Modulus = expect
                       THEN IF f.kind = "header" THEN <<"ACK", "C">> ELSE <<"ACK">>
                       ELSE <<"NAK">>)
  <2>1. CASE (f.seq + 1) % Modulus = expect /\ f.kind = "header"
    BY <1>8, <1>11, <2>1
  <2>2. CASE (f.seq + 1) % Modulus = expect /\ f.kind # "header"
    BY <1>8, <1>11, <2>2
  <2>3. CASE (f.seq + 1) % Modulus # expect
    BY <1>7, <1>11, <2>3
  <2> QED  BY <2>1, <2>2, <2>3
<1>12. CASE mode = "eot" /\ UNCHANGED device
            /\ Reply(IF (f.seq + 1) % Modulus = expect THEN <<"ACK">> ELSE <<"NAK">>)
  <2>1. CASE (f.seq + 1) % Modulus = expect
    BY <1>9, <1>12, <2>1
  <2>2. CASE (f.seq + 1) % Modulus # expect
    BY <1>7, <1>12, <2>2
  <2> QED  BY <2>1, <2>2
<1>13. \/ /\ mode = "header" /\ f.kind = "header" /\ mode' = "data" /\ expect' = 1 % Modulus
          /\ image' = <<>> /\ Reply(<<"ACK", "C">>)
       \/ mode' = "menu" /\ f.kind = "close" /\ Reply(<<"ACK">>)
       \/ /\ mode = "data" /\ f.kind = "data" /\ f.seq = expect /\ image' = Append(image, f.block)
          /\ expect' = (expect + 1) % Modulus /\ UNCHANGED mode /\ Reply(<<"ACK">>)
       \/ /\ mode = "data" /\ f.seq # expect /\ UNCHANGED device
          /\ Reply(IF (f.seq + 1) % Modulus = expect
                     THEN IF f.kind = "header" THEN <<"ACK", "C">> ELSE <<"ACK">>
                     ELSE <<"NAK">>)
       \/ /\ mode = "eot" /\ UNCHANGED device
          /\ Reply(IF (f.seq + 1) % Modulus = expect THEN <<"ACK">> ELSE <<"NAK">>)
       \/ mode \notin Upload /\ UNCHANGED <<device, up>>
  BY DEF ReceivePacket
<1> QED  BY <1>4, <1>5, <1>6, <1>10, <1>11, <1>12, <1>13

LEMMA StreamAlone ==
  ASSUME Before, DeviceAlone  PROVE StreamInv'
<1>1. /\ UNCHANGED <<pc, host, down, expect, image>> /\ mode' \notin {"data", "eot"}
      /\ UNCHANGED <<HostClass, sent>>
  BY DEF DeviceAlone, Upload, HostClass, host
<1>2. /\ TypedInv /\ "C" \in Bytes /\ "menu" \in Bytes /\ "app" \in Bytes
      /\ up' = up \/ \E x \in {"C", "menu", "app"} : Reply(<<x>>)
  BY DEF Before, DeviceAlone, Bytes
<1>3. Acks(up') = Acks(up)
  BY <1>2, ReplyOne
<1>4. HostClass' \in {0, 1} /\ up' # <<>> => up'[Len(up')] # "ACK"
  <2>1. CASE up' = up
    BY <1>1, <2>1 DEF Before, StreamInv, LeadInv
  <2>2. ASSUME NEW x \in {"C", "menu", "app"}, Reply(<<x>>)  PROVE up'[Len(up')] # "ACK"
    <3>1. Len(up') = Len(up) + 1 /\ up'[Len(up) + 1] = x
      BY <1>2, <2>2, ReplyOne
    <3> QED  BY <3>1
  <2> QED  BY <1>2, <2>1, <2>2
<1>5. LeadInv'
  BY <1>1, <1>3, <1>4 DEF Before, StreamInv, LeadInv
<1> QED  BY <1>1, <1>5 DEF StreamInv, OwnInv, NoStreams, AheadInv

LEMMA StreamInit == Init => StreamInv
BY DEF Init, StreamInv, OwnInv, NoStreams, AheadInv, LeadInv

LEMMA StreamNext ==
  TypedInv /\ FrameInv /\ StreamInv /\ LockInv /\ ~FlashFile /\ [Next]_vars => StreamInv'
<1> SUFFICES ASSUME TypedInv, FrameInv, StreamInv, LockInv, ~FlashFile, [Next]_vars  PROVE StreamInv'
  OBVIOUS
<1>0. Before
  BY TypedNext, FrameNext DEF Before
<1>1. CASE Cycled
  BY <1>0, <1>1, StreamCycled
<1>2. CASE HostStep /\ ~Cycled
  BY <1>0, <1>2, HostSteps, StreamQuiet, StreamCounting, StreamSending DEF Before
<1>3. CASE DeviceReceives
  <2>1. Taken
    BY <1>3 DEF DeviceReceives, Taken
  <2>2. Head(down) = down[1] /\ Head(down) \in Frames
    BY <2>1, DownTail DEF Taken
  <2>3. CASE Head(down).kind \in Commands
    BY <1>0, <1>3, <2>1, <2>2, <2>3, StreamByte DEF DeviceReceives
  <2>4. CASE Head(down).kind \notin Commands
    BY <1>0, <1>3, <2>1, <2>2, <2>4, StreamPacket DEF DeviceReceives
  <2> QED  BY <2>3, <2>4
<1>4. CASE DeviceAlone
  BY <1>0, <1>4, StreamAlone
<1>5. CASE Damage /\ Taken
  <2>1. UNCHANGED device /\ (up' = up \/ Reply(<<"NAK">>) \/ down' = down)
    BY <1>5 DEF Damage
  <2>2. down' # down
    <3>1. Len(down') = Len(down) - 1 /\ Len(down) \in Nat
      BY <1>5, DownTail DEF Taken, TypedInv
    <3> QED  BY <3>1
  <2>3. "NAK" \in Bytes \ {"C"}
    BY DEF Bytes
  <2>4. TakenAnswer /\ (Opened' => Opened)
    BY <1>0, <1>5, <2>1, <2>2, <2>3, Answers, OpenedTaken
  <2>5. Acks(up') = Acks(up)
    BY <2>1, <2>2, <2>3, ReplyOne
  <2> QED  BY <1>0, <2>1, <2>4, <2>5, StreamSame
<1> QED  BY <1>1, <1>2, <1>3, <1>4, <1>5, NextCases

-----------------------------------------------------------------------------
(* As long as no deadline overtakes a reply, one packet is under way at a  *)
(* time.                                                                   *)

(* Channels that lose elements, and gain no answer.                        *)
KeepsDown ==
  \E m \in Nat : \A i \in DOMAIN down' : i + m \in DOMAIN down /\ down'[i] = down[i + m]
KeepsUp ==
  \E n \in Nat : \A i \in DOMAIN up' :
    Answer(up'[i]) => i + n \in DOMAIN up /\ up'[i] = up[i + n]

LEMMA ChannelsKept ==
  ASSUME TypedInv, TypedInv', KeepsDown, KeepsUp
  PROVE  /\ Clear => Clear'
         /\ OneAtMost => OneAtMost'
         /\ Acknowledged' => Acknowledged
         /\ NoStreams => NoStreams'
<1>1. PICK m \in Nat : \A i \in DOMAIN down' : i + m \in DOMAIN down /\ down'[i] = down[i + m]
  BY DEF KeepsDown
<1>2. PICK n \in Nat : \A i \in DOMAIN up' :
                         Answer(up'[i]) => i + n \in DOMAIN up /\ up'[i] = up[i + n]
  BY DEF KeepsUp
<1>3. DOMAIN up' \subseteq Nat /\ DOMAIN down' \subseteq Nat
  BY SMTT(30) DEF TypedInv
<1>4. Clear => Clear'
  BY <1>1, <1>2 DEF Clear, NoStreams
<1>5. ASSUME OneAtMost  PROVE OneAtMost'
  <2>1. ASSUME NEW i \in DOMAIN down', NEW j \in DOMAIN down', Streams(down'[i]), Streams(down'[j])
        PROVE  i = j
    <3>1. i + m = j + m
      BY <1>1, <1>5, <2>1 DEF OneAtMost
    <3> QED  BY <1>3, <3>1
  <2>2. ASSUME NEW i \in DOMAIN up', NEW j \in DOMAIN up', Answer(up'[i]), Answer(up'[j])
        PROVE  i = j
    <3>1. i + n = j + n
      BY <1>2, <1>5, <2>2 DEF OneAtMost
    <3> QED  BY <1>3, <3>1
  <2>3. ASSUME NEW i \in DOMAIN down', NEW j \in DOMAIN up', Streams(down'[i]), Answer(up'[j])
        PROVE  FALSE
    BY <1>1, <1>2, <1>5, <2>3 DEF OneAtMost
  <2> QED  BY <2>1, <2>2, <2>3 DEF OneAtMost
<1>6. Acknowledged' => Acknowledged
  BY <1>2 DEF Acknowledged, Answer
<1>7. NoStreams => NoStreams'
  BY <1>1 DEF NoStreams
<1> QED  BY <1>4, <1>5, <1>6, <1>7

LEMMA DownKept ==
  ASSUME TypedInv, TypedInv', down' = down \/ (down # <<>> /\ down' = Tail(down))
  PROVE  KeepsDown
<1>1. DOMAIN down = 1 .. Len(down) /\ DOMAIN down' = 1 .. Len(down') /\ Len(down) \in Nat
  BY DEF TypedInv
<1>2. CASE down' = down
  <2>1. \A i \in DOMAIN down' : i + 0 \in DOMAIN down /\ down'[i] = down[i + 0]
    BY <1>1, <1>2
  <2> QED  BY <2>1 DEF KeepsDown
<1>3. CASE down # <<>> /\ down' = Tail(down)
  <2>1. Len(down') = Len(down) - 1 /\ \A i \in 1 .. Len(down') : down'[i] = down[i + 1]
    BY <1>3, DownTail
  <2>2. \A i \in DOMAIN down' : i + 1 \in DOMAIN down /\ down'[i] = down[i + 1]
    BY <1>1, <2>1
  <2> QED  BY <2>2 DEF KeepsDown
<1> QED  BY <1>2, <1>3

LEMMA UpKept ==
  ASSUME TypedInv, TypedInv', Shorter \/ \E x \in Bytes : ~Answer(x) /\ Reply(<<x>>)
  PROVE  KeepsUp
<1>1. DOMAIN up = 1 .. Len(up) /\ DOMAIN up' = 1 .. Len(up') /\ Len(up) \in Nat
  BY DEF TypedInv
<1>2. CASE Shorter
  <2>1. PICK n \in 0 .. Len(up) : Len(up') = Len(up) - n /\ \A i \in 1 .. Len(up') : up'[i] = up[i + n]
    BY <1>2 DEF Shorter
  <2>2. n \in Nat /\ \A i \in DOMAIN up' : i + n \in DOMAIN up /\ up'[i] = up[i + n]
    BY <1>1, <2>1
  <2> QED  BY <2>2 DEF KeepsUp
<1>3. ASSUME NEW x \in Bytes, ~Answer(x), Reply(<<x>>)  PROVE KeepsUp
  <2>1. /\ Len(up') = Len(up) + 1 /\ up'[Len(up) + 1] = x
        /\ \A i \in 1 .. Len(up) : up'[i] = up[i]
    BY <1>3, ReplyOne
  <2>2. \A i \in DOMAIN up' : Answer(up'[i]) => i + 0 \in DOMAIN up /\ up'[i] = up[i + 0]
    BY <1>1, <1>3, <2>1
  <2> QED  BY <2>2 DEF KeepsUp
<1> QED  BY <1>2, <1>3

(* An answer to the one packet that was under way.                         *)
LEMMA OneAnswer ==
  ASSUME TypedInv, TypedInv', \A i \in DOMAIN up : ~Answer(up[i]), NoStreams',
         \/ \E x \in Bytes : Reply(<<x>>)
         \/ Reply(<<"ACK", "C">>)
  PROVE  OneAtMost'
<1>1. DOMAIN up = 1 .. Len(up) /\ DOMAIN up' = 1 .. Len(up') /\ Len(up) \in Nat
  BY DEF TypedInv
<1>2. \A i \in DOMAIN up' : Answer(up'[i]) => i = Len(up) + 1
  <2>1. CASE Reply(<<"ACK", "C">>)
    <3>1. /\ Len(up') = Len(up) + 2 /\ up'[Len(up) + 2] = "C"
          /\ \A i \in 1 .. Len(up) : up'[i] = up[i]
      BY <2>1, ReplyTwo
    <3> QED  BY <1>1, <3>1 DEF Answer
  <2>2. ASSUME NEW x \in Bytes, Reply(<<x>>)
        PROVE  \A i \in DOMAIN up' : Answer(up'[i]) => i = Len(up) + 1
    <3>1. Len(up') = Len(up) + 1 /\ \A i \in 1 .. Len(up) : up'[i] = up[i]
      BY <2>2, ReplyOne
    <3> QED  BY <1>1, <3>1
  <2> QED  BY <2>1, <2>2
<1> QED  BY <1>2 DEF OneAtMost, NoStreams

(* What LockInv asks at each place a step leads to.                        *)
LEMMA LockAt ==
  /\ pc' \in Entry \cup {"header"} /\ Clear' => LockInv'
  /\ pc' = "header_ack" /\ OneAtMost' /\ (Acknowledged' => Stored(0)') => LockInv'
  /\ pc' = "c_data" /\ Clear' /\ Stored(0)' /\ attempt' = 1 => LockInv'
  /\ pc' = "data" /\ Clear' /\ (Stored(sent)' \/ (Stored(sent + 1)' /\ attempt' # 1)) => LockInv'
  /\ pc' \in Closing \cup {"idle"} /\ Stored(sent)' /\ NoStreams' => LockInv'
  /\ pc' = "idle" /\ result' # "ok" => LockInv'
BY DEF LockInv, Entry, Closing

LEMMA LockAtDataAck ==
  ASSUME pc' = "data_ack", OneAtMost', Stored(sent + 1)' \/ (~Acknowledged' /\ Stored(sent)'),
         \A i \in DOMAIN down' : Streams(down'[i]) => Class(down'[i]) = 2 /\ Number(down'[i]) = sent' + 1
  PROVE  LockInv'
BY DEF LockInv, Entry, Closing

LEMMA LockKept ==
  ASSUME TypedInv, TypedInv', LockInv, ~overtaken, UNCHANGED <<pc, sent, session, image, attempt, result>>,
         KeepsDown, KeepsUp
  PROVE  LockInv'
<1>1. /\ Clear => Clear'
      /\ OneAtMost => OneAtMost'
      /\ Acknowledged' => Acknowledged
      /\ NoStreams => NoStreams'
  BY ChannelsKept
<1>2. \A n : Stored(n)' <=> Stored(n)
  BY DEF Stored
<1>3. CASE pc \in Entry \cup {"header"}
  <2>1. Clear
    BY <1>3 DEF LockInv
  <2> QED  BY <1>1, <1>3, <2>1 DEF LockInv, Entry, Closing, Stored
<1>4. CASE pc = "header_ack"
  <2>1. OneAtMost /\ (Acknowledged => Stored(0))
    BY <1>4 DEF LockInv
  <2> QED  BY <1>1, <1>2, <1>4, <2>1 DEF LockInv, Entry, Closing, Stored
<1>5. CASE pc = "c_data"
  <2>1. Clear /\ Stored(0) /\ attempt = 1
    BY <1>5 DEF LockInv
  <2> QED  BY <1>1, <1>5, <2>1 DEF LockInv, Entry, Closing, Stored
<1>6. CASE pc = "data"
  <2>1. Clear /\ (Stored(sent) \/ (Stored(sent + 1) /\ attempt # 1))
    BY <1>6 DEF LockInv
  <2> QED  BY <1>1, <1>6, <2>1 DEF LockInv, Entry, Closing, Stored
<1>7. CASE pc = "data_ack"
  <2>1. OneAtMost /\ (Stored(sent + 1) \/ (~Acknowledged /\ Stored(sent)))
    BY <1>7 DEF LockInv
  <2>2. \A i \in DOMAIN down : Streams(down[i]) => Class(down[i]) = 2 /\ Number(down[i]) = sent + 1
    BY <1>7 DEF LockInv
  <2>3. \A i \in DOMAIN down' : Streams(down'[i]) => Class(down'[i]) = 2 /\ Number(down'[i]) = sent + 1
    BY <2>2 DEF KeepsDown
  <2> QED  BY <1>1, <1>7, <2>1, <2>3 DEF LockInv, Entry, Closing, Stored
<1>8. CASE pc \in Closing \/ (pc = "idle" /\ result = "ok")
  <2>1. Stored(sent) /\ NoStreams
    BY <1>8 DEF LockInv
  <2> QED  BY <1>1, <1>8, <2>1 DEF LockInv, Entry, Closing, Stored
<1>9. CASE pc = "idle" /\ result # "ok"
  BY <1>9 DEF LockInv, Entry, Closing
<1> QED  BY <1>3, <1>4, <1>5, <1>6, <1>7, <1>8, <1>9 DEF TypedInv, Places, Opening, Filling

LEMMA LockInit == Init => LockInv
BY DEF Init, LockInv, Entry, Closing

(* A frame that the host sends when nothing is under way.                  *)
LEMMA SentFrame ==
  ASSUME TypedInv, TypedInv', NEW f \in Frames, Put(f)
  PROVE  /\ NoStreams /\ ~Streams(f) => NoStreams'
         /\ Clear /\ up' = up => OneAtMost' /\ ~Acknowledged'
         /\ NoStreams => \A i \in DOMAIN down' : Streams(down'[i]) => down'[i] = f
<1>1. /\ Len(down') = Len(down) + 1 /\ down'[Len(down) + 1] = f
      /\ \A i \in 1 .. Len(down) : down'[i] = down[i]
  BY DownPut
<1>2. DOMAIN down = 1 .. Len(down) /\ DOMAIN down' = 1 .. Len(down') /\ Len(down) \in Nat
  BY DEF TypedInv
<1>3. \A i \in DOMAIN down' :
        \/ i \in DOMAIN down /\ down'[i] = down[i]
        \/ i = Len(down) + 1 /\ down'[i] = f
  BY <1>1, <1>2
<1>4. NoStreams => \A i \in DOMAIN down' : Streams(down'[i]) => i = Len(down) + 1 /\ down'[i] = f
  BY <1>3 DEF NoStreams
<1>5. NoStreams /\ ~Streams(f) => NoStreams'
  BY <1>4 DEF NoStreams
<1>6. Clear /\ up' = up => OneAtMost' /\ ~Acknowledged'
  BY <1>4 DEF Clear, OneAtMost, Acknowledged, Answer
<1> QED  BY <1>4, <1>5, <1>6

LEMMA LockHost ==
  ASSUME Before, HostStep, ~overtaken'  PROVE LockInv'
<1>0. TypedInv /\ TypedInv' /\ LockInv
  BY DEF Before
<1>1. CASE PowerCycle
  <2>1. ~overtaken /\ pc \in Entry /\ pc' \in Entry /\ down' = <<>> /\ up' = up
    BY <1>1 DEF PowerCycle, host, Entry
  <2>2. Clear'
    BY <1>0, <2>1 DEF Clear, NoStreams, LockInv
  <2> QED  BY <2>1, <2>2, LockAt
<1>2. CASE pc' = "idle" /\ result' = "failed"
  BY <1>2, LockAt
<1>14. CASE PowerCycleFails
  BY <1>2, <1>14 DEF PowerCycleFails, Finish
<1>3. CASE SendByte
  <2>1. pc \in DOMAIN Sends /\ UNCHANGED <<sent, overtaken, device>>
    BY <1>3 DEF SendByte
  <2>2. Shorter
    BY <1>0, <1>3, ShorterSame, ShorterClears DEF SendByte
  <2>3. CASE Put(Control(Sends[pc][1])) /\ pc' = Sends[pc][2]
    <3> DEFINE f == Control(Sends[pc][1])
    <3>1. /\ f \in Frames /\ ~Streams(f)
          /\ (pc \in Entry /\ pc' \in Entry) \/ (pc \in Closing /\ pc' \in Closing)
      <4>1. \/ pc \in Entry /\ Sends[pc][1] \in {"r", "m", "u"} /\ Sends[pc][2] \in Entry
            \/ pc \in Closing /\ Sends[pc][1] \in {"EOT", "a"} /\ Sends[pc][2] \in Closing
        BY <2>1, SendsTable DEF Entry, Closing
      <4>2. f \in Frames
        BY <4>1, ControlFrames DEF Commands
      <4>3. ~Streams(f)
        BY <4>1 DEF Control, Streams, Class
      <4> QED  BY <2>3, <4>1, <4>2, <4>3
    <3>2. NoStreams => NoStreams'
      <4> HIDE DEF f
      <4>1. Put(f)
        BY <2>3 DEF f
      <4> QED  BY <1>0, <3>1, <4>1, SentFrame
    <3>3. CASE pc \in Entry /\ pc' \in Entry
      <4>1. Clear
        BY <1>0, <2>1, <3>3 DEF LockInv
      <4>2. Clear'
        <5>1. KeepsUp
          BY <1>0, <2>2, UpKept
        <5> QED  BY <3>2, <4>1, <5>1 DEF Clear, KeepsUp
      <4> QED  BY <3>3, <4>2, LockAt
    <3>4. CASE pc \in Closing /\ pc' \in Closing
      <4>1. Stored(sent) /\ NoStreams
        BY <1>0, <2>1, <3>4 DEF LockInv
      <4>2. Stored(sent)'
        BY <1>3, <2>1, <4>1 DEF Stored, device, SendByte
      <4> QED  BY <3>2, <3>4, <4>1, <4>2, LockAt
    <3> QED  BY <3>1, <3>3, <3>4
  <2> QED  BY <1>2, <1>3, <2>3 DEF SendByte, Finish
<1>4. CASE AwaitByte
  <2>1. /\ pc \in DOMAIN Awaits /\ up # <<>> /\ up' = Tail(up)
        /\ pc' = IF Head(up) = Awaits[pc][1] THEN Awaits[pc][2] ELSE pc
        /\ UNCHANGED <<sent, seq, attempt, result, session, crowded, stop, overtaken, down, device>>
    BY <1>4 DEF AwaitByte
  <2>2. KeepsUp /\ KeepsDown /\ ~overtaken /\ (NoStreams => NoStreams') /\ (Clear => Clear')
    BY <1>0, <2>1, ShorterTail, UpKept, DownKept, ChannelsKept
  <2>3. \A n : Stored(n)' <=> Stored(n)
    BY <2>1 DEF Stored, device
  <2>4. \/ pc \in Entry /\ pc' \in Entry \cup {"header"}
        \/ pc = "c_data" /\ pc' \in {"c_data", "data"}
        \/ pc \in Closing /\ pc' \in Closing
    BY <2>1, AwaitsTable DEF Entry, Closing
  <2>5. CASE pc \in Entry /\ pc' \in Entry \cup {"header"}
    <3>1. Clear
      BY <1>0, <2>2, <2>5 DEF LockInv
    <3> QED  BY <2>2, <2>5, <3>1, LockAt
  <2>6. CASE pc = "c_data" /\ pc' \in {"c_data", "data"}
    <3>1. Clear /\ Stored(0) /\ attempt = 1 /\ sent = 0
      BY <1>0, <2>2, <2>6 DEF LockInv, TypedInv, Opening
    <3>2. Stored(0)' /\ Stored(sent)'
      BY <2>1, <3>1 DEF Stored, device
    <3> QED  BY <2>1, <2>2, <2>6, <3>1, <3>2, LockAt
  <2>7. CASE pc \in Closing /\ pc' \in Closing
    <3>1. Stored(sent) /\ NoStreams
      BY <1>0, <2>2, <2>7 DEF LockInv
    <3>2. Stored(sent)'
      BY <2>1, <3>1 DEF Stored, device
    <3> QED  BY <2>2, <2>7, <3>1, <3>2, LockAt
  <2> QED  BY <2>4, <2>5, <2>6, <2>7
<1>5. CASE AwaitFails
  BY <1>2, <1>5 DEF AwaitFails, Finish
<1>6. CASE SendPacket
  <2>1. /\ pc \in DOMAIN AckPlace
        /\ UNCHANGED <<sent, seq, attempt, session, crowded, label, stop, overtaken, up, device>>
    BY <1>6 DEF SendPacket
  <2>2. CASE Put(Contents) /\ pc' = AckPlace[pc]
    <3>1. Contents \in Frames /\ ~overtaken
      BY <1>0, <2>1, ContentsFrames
    <3>2. /\ NoStreams /\ ~Streams(Contents) => NoStreams'
          /\ Clear => OneAtMost' /\ ~Acknowledged'
          /\ NoStreams => \A i \in DOMAIN down' : Streams(down'[i]) => down'[i] = Contents
      BY <1>0, <2>1, <2>2, <3>1, SentFrame
    <3>3. CASE pc = "header" /\ pc' = "header_ack"
      <4>1. Clear
        BY <1>0, <3>1, <3>3 DEF LockInv
      <4> QED  BY <3>2, <3>3, <4>1, LockAt
    <3>4. CASE pc = "data" /\ pc' = "data_ack"
      <4>1. Clear /\ (Stored(sent) \/ Stored(sent + 1))
        BY <1>0, <3>1, <3>4 DEF LockInv
      <4>2. Stored(sent)' \/ Stored(sent + 1)'
        BY <2>1, <4>1 DEF Stored, device
      <4>3. Class(Contents) = 2 /\ Number(Contents) = sent + 1
        BY <1>0, <2>1, <3>4, ContentsFrames DEF Class, Number
      <4>4. \A i \in DOMAIN down' :
              Streams(down'[i]) => Class(down'[i]) = 2 /\ Number(down'[i]) = sent' + 1
        BY <2>1, <3>2, <4>1, <4>3 DEF Clear
      <4> QED  BY <3>2, <3>4, <4>1, <4>2, <4>4, LockAtDataAck
    <3>5. CASE pc = "close" /\ pc' = "close_ack"
      <4>1. Stored(sent) /\ NoStreams
        BY <1>0, <3>1, <3>5 DEF LockInv, Closing
      <4>2. Stored(sent)'
        BY <2>1, <4>1 DEF Stored, device
      <4>3. ~Streams(Contents)
        BY <1>0, <2>1, <3>5, ContentsFrames DEF Control, Streams, Class
      <4> QED  BY <3>2, <3>5, <4>1, <4>2, <4>3, LockAt DEF Closing
    <3> QED  BY <2>1, <2>2, <3>3, <3>4, <3>5, AckPlaceTable
  <2> QED  BY <1>2, <1>6, <2>2 DEF SendPacket, Finish
<1>7. CASE DataDone
  <2>1. pc = "data" /\ attempt = 1 /\ pc' = "eot" /\ UNCHANGED <<sent, session, overtaken, down, image>>
    BY <1>7 DEF DataDone, host, device
  <2>2. Stored(sent) /\ NoStreams
    BY <1>0, <2>1 DEF LockInv, Clear
  <2>3. Stored(sent)' /\ NoStreams'
    BY <2>1, <2>2 DEF Stored, NoStreams
  <2> QED  BY <2>1, <2>3, LockAt DEF Closing
<1>8. CASE AckRead
  <2>1. /\ pc \in DOMAIN Acked /\ up # <<>> /\ up' = Tail(up)
        /\ UNCHANGED <<result, session, crowded, stop, overtaken, down, device>>
    BY <1>8 DEF AckRead
  <2>2. KeepsUp /\ KeepsDown /\ ~overtaken
    BY <1>0, <2>1, ShorterTail, UpKept, DownKept
  <2>3. /\ NoStreams => NoStreams'
        /\ OneAtMost => OneAtMost'
        /\ Acknowledged' => Acknowledged
    BY <1>0, <2>2, ChannelsKept
  <2>4. \A n : Stored(n)' <=> Stored(n)
    BY <2>1 DEF Stored, device
  <2>5. OneAtMost /\ Answer(Head(up)) => Clear' /\ (Head(up) = "ACK" => Acknowledged)
    <3>1. /\ Head(up) = up[1] /\ 1 \in DOMAIN up /\ DOMAIN up' = 1 .. Len(up')
          /\ \A i \in DOMAIN up' : i + 1 \in DOMAIN up /\ up'[i] = up[i + 1]
      <4>1. /\ Len(up) >= 1 /\ Len(up') = Len(up) - 1 /\ Head(up) = up[1]
            /\ \A i \in 1 .. Len(up') : up'[i] = up[i + 1]
        BY <1>0, <2>1, UpTail
      <4>2. DOMAIN up = 1 .. Len(up) /\ DOMAIN up' = 1 .. Len(up') /\ Len(up) \in Nat
        BY <1>0 DEF TypedInv
      <4> QED  BY <4>1, <4>2
    <3>2. ASSUME OneAtMost, Answer(up[1])  PROVE Clear'
      <4>1. NoStreams
        BY <3>1, <3>2 DEF OneAtMost, NoStreams
      <4>2. \A i \in DOMAIN up' : i + 1 # 1
        BY <3>1
      <4>3. \A i \in DOMAIN up' : ~Answer(up'[i])
        BY <3>1, <3>2, <4>2 DEF OneAtMost
      <4> QED  BY <2>3, <4>1, <4>3 DEF Clear
    <3> QED  BY <3>1, <3>2 DEF Acknowledged
  <2>6. CASE pc = "header_ack"
    <3>1. OneAtMost /\ (Acknowledged => Stored(0))
      BY <1>0, <2>2, <2>6 DEF LockInv
    <3>2. \/ Head(up) = "ACK" /\ pc' = "c_data" /\ attempt' = 1
          \/ Head(up) = "NAK" /\ pc' = "header"
          \/ pc' = "header_ack"
      BY <1>8, <2>1, <2>6, AckedTable DEF AckRead
    <3>3. CASE Head(up) = "ACK" /\ pc' = "c_data" /\ attempt' = 1
      BY <2>4, <2>5, <3>1, <3>3, LockAt DEF Answer
    <3>4. CASE Head(up) = "NAK" /\ pc' = "header"
      BY <2>5, <3>1, <3>4, LockAt DEF Answer
    <3>5. CASE pc' = "header_ack"
      BY <2>3, <2>4, <3>1, <3>5, LockAt
    <3> QED  BY <3>2, <3>3, <3>4, <3>5
  <2>7. CASE pc = "data_ack"
    <3>1. OneAtMost /\ (Stored(sent + 1) \/ (~Acknowledged /\ Stored(sent)))
      BY <1>0, <2>2, <2>7 DEF LockInv
    <3>2. \/ Head(up) = "ACK" /\ pc' = "data" /\ attempt' = 1 /\ sent' = sent + 1
          \/ Head(up) = "NAK" /\ pc' = "data" /\ attempt' = attempt + 1 /\ sent' = sent
          \/ pc' = "data_ack" /\ sent' = sent
      BY <1>8, <2>1, <2>7, AckedTable DEF AckRead
    <3>3. CASE Head(up) = "ACK" /\ pc' = "data" /\ attempt' = 1 /\ sent' = sent + 1
      <4>1. Clear' /\ Stored(sent + 1)
        BY <2>5, <3>1, <3>3 DEF Answer
      <4>2. Stored(sent)'
        BY <2>1, <3>3, <4>1 DEF Stored, device
      <4> QED  BY <3>3, <4>1, <4>2, LockAt
    <3>4. CASE Head(up) = "NAK" /\ pc' = "data" /\ attempt' = attempt + 1 /\ sent' = sent
      <4>1. Clear'
        BY <2>5, <3>1, <3>4 DEF Answer
      <4>2. Stored(sent)' \/ Stored(sent + 1)'
        BY <2>1, <3>1, <3>4 DEF Stored, device
      <4>3. attempt' # 1
        BY <1>0, <3>4 DEF TypedInv
      <4> QED  BY <3>4, <4>1, <4>2, <4>3, LockAt
    <3>5. CASE pc' = "data_ack" /\ sent' = sent
      <4>1. Stored(sent + 1)' \/ (~Acknowledged' /\ Stored(sent)')
        BY <2>1, <2>3, <3>1, <3>5 DEF Stored, device
      <4>2. \A i \in DOMAIN down' :
              Streams(down'[i]) => Class(down'[i]) = 2 /\ Number(down'[i]) = sent' + 1
        BY <1>0, <2>1, <2>2, <2>7, <3>5 DEF LockInv
      <4> QED  BY <2>3, <3>1, <3>5, <4>1, <4>2, LockAtDataAck
    <3> QED  BY <3>2, <3>3, <3>4, <3>5
  <2>8. CASE pc = "close_ack"
    <3>1. Stored(sent) /\ NoStreams
      BY <1>0, <2>2, <2>8 DEF LockInv, Closing
    <3>2. pc' \in {"jump", "close", "close_ack"} /\ sent' = sent
      BY <1>8, <2>1, <2>8, AckedTable DEF AckRead
    <3>3. Stored(sent)'
      BY <2>1, <3>1, <3>2 DEF Stored, device
    <3> QED  BY <2>3, <3>1, <3>2, <3>3, LockAt DEF Closing
  <2> QED  BY <2>1, <2>6, <2>7, <2>8, AckedTable
<1>9. CASE AckTimeout
  <2>1. /\ pc \in DOMAIN Acked /\ pc' = CHOOSE p \in DOMAIN AckPlace : AckPlace[p] = pc
        /\ attempt' = attempt + 1 /\ overtaken' = (overtaken \/ InFlight)
        /\ UNCHANGED <<sent, seq, result, session, crowded, label, stop, down, up, device>>
    BY <1>9 DEF AckTimeout
  <2>2. ~overtaken /\ down' = <<>> /\ up' = <<>> /\ down = <<>> /\ up = <<>>
    BY <2>1 DEF InFlight
  <2>3. Clear' /\ NoStreams' /\ ~Acknowledged
    BY <2>2 DEF Clear, NoStreams, Acknowledged
  <2>4. attempt' # 1 /\ \A n : Stored(n)' <=> Stored(n)
    BY <1>0, <2>1 DEF TypedInv, Stored, device
  <2>5. \/ pc = "header_ack" /\ pc' = "header"
        \/ pc = "data_ack" /\ pc' = "data"
        \/ pc = "close_ack" /\ pc' = "close"
    BY <2>1, AckedTable
  <2>6. CASE pc = "header_ack" /\ pc' = "header"
    BY <2>3, <2>6, LockAt
  <2>7. CASE pc = "data_ack" /\ pc' = "data"
    <3>1. Stored(sent) \/ Stored(sent + 1)
      BY <1>0, <2>2, <2>7 DEF LockInv
    <3>2. Stored(sent)' \/ Stored(sent + 1)'
      BY <2>1, <3>1 DEF Stored, device
    <3> QED  BY <2>3, <2>4, <2>7, <3>2, LockAt
  <2>8. CASE pc = "close_ack" /\ pc' = "close"
    <3>1. Stored(sent)
      BY <1>0, <2>2, <2>8 DEF LockInv, Closing
    <3>2. Stored(sent)'
      BY <2>1, <3>1 DEF Stored, device
    <3> QED  BY <2>3, <2>8, <3>2, LockAt DEF Closing
  <2> QED  BY <2>5, <2>6, <2>7, <2>8
<1>10. CASE TriesFail \/ Stopped
  BY <1>2, <1>10 DEF TriesFail, Stopped, Finish
<1>11. CASE Report
  <2>1. pc = "report" /\ pc' = "idle" /\ UNCHANGED <<sent, session, overtaken, down, image>>
    BY <1>11 DEF Report, Finish, device
  <2>2. Stored(sent) /\ NoStreams
    BY <1>0, <2>1 DEF LockInv, Closing
  <2>3. Stored(sent)' /\ NoStreams'
    BY <2>1, <2>2 DEF Stored, NoStreams
  <2> QED  BY <2>1, <2>3, LockAt
<1>12. CASE RxIdle \/ Signal \/ (Damage /\ down' = down) \/ UNCHANGED vars
  <2>1. UNCHANGED <<pc, sent, session, image, attempt, result, overtaken, down>>
    BY <1>12 DEF RxIdle, Signal, Damage, vars, host, device
  <2>2. down' # Tail(down) \/ down = <<>>
    <3>1. ASSUME down # <<>>, down' = Tail(down)  PROVE FALSE
      <4>1. Len(down') = Len(down) - 1 /\ Len(down) \in Nat
        BY <1>0, <3>1, DownTail DEF TypedInv
      <4> QED  BY <2>1, <4>1
    <3> QED  BY <3>1
  <2>3. up' = up \/ (up # <<>> /\ up' = Tail(up))
    BY <1>12, <2>2 DEF RxIdle, Signal, Damage, vars
  <2>4. KeepsUp /\ KeepsDown
    BY <1>0, <2>1, <2>3, ShorterSame, ShorterTail, UpKept, DownKept
  <2> QED  BY <1>0, <2>1, <2>4, LockKept
<1> QED  BY <1>1, <1>3, <1>4, <1>5, <1>6, <1>7, <1>8, <1>9, <1>10, <1>11, <1>12, <1>14
         DEF HostStep, Host, Expires

LEMMA TakenKeeps ==
  ASSUME Before, Taken
  PROVE  /\ KeepsDown /\ TypedInv /\ FrameInv /\ TypedInv' /\ LockInv
         /\ 1 \in DOMAIN down /\ Head(down) = down[1] /\ down[1] \in Frames
         /\ UNCHANGED <<pc, sent, session, attempt, result, overtaken, HostClass>>
         /\ OneAtMost /\ Streams(down[1]) => NoStreams' /\ \A i \in DOMAIN up : ~Answer(up[i])
<1>1. TypedInv /\ FrameInv /\ TypedInv' /\ LockInv
  BY DEF Before
<1>2. KeepsDown
  BY <1>1, DownKept DEF Taken
<1>3. /\ Len(down) >= 1 /\ Len(down') = Len(down) - 1 /\ Head(down) = down[1] /\ Head(down) \in Frames
      /\ \A i \in 1 .. Len(down') : down'[i] = down[i + 1]
  BY <1>1, DownTail DEF Taken
<1>4. DOMAIN down = 1 .. Len(down) /\ DOMAIN down' = 1 .. Len(down') /\ Len(down) \in Nat
  BY <1>1 DEF TypedInv
<1>5. 1 \in DOMAIN down
  BY <1>3, <1>4
<1>6. UNCHANGED <<pc, sent, session, attempt, result, overtaken>>
  BY DEF Taken, host
<1>7. ASSUME OneAtMost, Streams(down[1])
      PROVE  NoStreams' /\ \A i \in DOMAIN up : ~Answer(up[i])
  <2>1. \A i \in DOMAIN down' : i + 1 \in DOMAIN down /\ down'[i] = down[i + 1] /\ i + 1 # 1
    BY <1>3, <1>4
  <2> QED  BY <1>5, <1>7, <2>1 DEF OneAtMost, NoStreams
<1> QED  BY <1>1, <1>2, <1>3, <1>5, <1>6, <1>7 DEF HostClass

(* The bootloader answers after the last packet of the data.               *)
LEMMA LockClosed ==
  ASSUME Before, Taken, ~overtaken, HostClass = 3, image' = image
  PROVE  LockInv'
<1>1. pc \in Closing \cup {"idle"}
  BY DEF Before, TypedInv, Places, HostClass, Entry, Opening, Filling, Closing
<1>2. CASE pc = "idle" /\ result # "ok"
  BY <1>2, TakenKeeps, LockAt
<1>3. CASE pc \in Closing \/ (pc = "idle" /\ result = "ok")
  <2>1. Stored(sent) /\ NoStreams
    BY <1>3, TakenKeeps DEF LockInv
  <2>2. NoStreams'
    BY <2>1, TakenKeeps DEF KeepsDown, NoStreams
  <2>3. Stored(sent)'
    BY <2>1, TakenKeeps DEF Stored
  <2> QED  BY <1>1, <2>2, <2>3, TakenKeeps, LockAt
<1> QED  BY <1>1, <1>2, <1>3

(* A packet that is taken while the host waits for its ACK, or has given   *)
(* up.                                                                     *)
LEMMA PacketAwaited ==
  ASSUME Before, Taken, ~overtaken, down[1].kind \notin Commands
  PROVE  \/ HostClass = 3 /\ (pc = "idle" \/ ~Streams(down[1]))
         \/ /\ pc = "header_ack" /\ down[1].kind = "header" /\ OneAtMost /\ Streams(down[1])
         \/ /\ pc = "data_ack" /\ down[1].kind = "data" /\ Number(down[1]) = sent + 1
            /\ OneAtMost /\ Streams(down[1])
<1> DEFINE f == down[1]
<1>1. 1 \in DOMAIN down /\ LockInv /\ TypedInv /\ FrameInv /\ f.kind \in Packets
  BY TakenKeeps DEF Frames
<1>2. /\ Class(f) <= HostClass /\ Class(f) \in 1 .. 3 /\ HostClass \in 0 .. 3
      /\ (f.kind = "header" <=> Class(f) = 1) /\ (f.kind = "data" <=> Class(f) = 2)
      /\ (Streams(f) <=> Class(f) # 3)
  <2>1. /\ Class(f) \in 1 .. 3 /\ (f.kind = "header" <=> Class(f) = 1)
        /\ (f.kind = "data" <=> Class(f) = 2)
    BY <1>1 DEF Class, Packets, Commands
  <2>2. Class(f) <= HostClass /\ HostClass \in 0 .. 3
    BY <1>1, Classes DEF FrameInv
  <2>3. Streams(f) <=> Class(f) # 3
    BY <2>1 DEF Streams
  <2> QED  BY <2>1, <2>2, <2>3
<1>3. ASSUME Streams(f)  PROVE pc \in {"header_ack", "data_ack", "idle"}
  <2>1. ~NoStreams
    BY <1>1, <1>3 DEF NoStreams
  <2> QED  BY <1>1, <2>1 DEF LockInv, Clear, TypedInv, Places, Opening, Filling
<1>4. CASE ~Streams(f)
  BY <1>2, <1>4
<1>5. CASE Streams(f) /\ pc = "idle"
  BY <1>5, Classes
<1>6. CASE Streams(f) /\ pc = "header_ack"
  <2>1. HostClass = 1
    BY <1>6, Classes DEF Opening
  <2> QED  BY <1>1, <1>2, <1>6, <2>1 DEF LockInv
<1>7. CASE Streams(f) /\ pc = "data_ack"
  <2>1. Class(f) = 2 /\ Number(f) = sent + 1
    BY <1>1, <1>7 DEF LockInv
  <2> QED  BY <1>1, <1>2, <1>7, <2>1 DEF LockInv
<1> QED  BY <1>3, <1>4, <1>5, <1>6, <1>7

LEMMA LockByte ==
  ASSUME Before, Taken, ~overtaken, down[1].kind \in Commands, ReceiveByte(down[1].kind), image' = image
  PROVE  LockInv'
<1>1. CASE up' = up \/ \E x \in {"menu", "C", "app"} : Reply(<<x>>)
  <2>1. KeepsUp
    BY <1>1, TakenKeeps, ShorterSame, UpKept DEF Bytes, Answer
  <2> QED  BY <2>1, TakenKeeps, LockKept
<1>2. CASE down[1].kind = "EOT"
  <2>1. Class(down[1]) = 3
    BY <1>2 DEF Class
  <2>2. HostClass = 3
    BY <2>1, TakenKeeps, Classes DEF FrameInv
  <2> QED  BY <2>2, LockClosed
<1> QED  BY <1>1, <1>2 DEF ReceiveByte

LEMMA LockNak ==
  ASSUME Before, Taken, ~overtaken, down[1].kind \notin Commands, UNCHANGED device, Reply(<<"NAK">>)
  PROVE  LockInv'
<1>0. "NAK" \in Bytes /\ image' = image
  BY DEF Bytes, device
<1>1. CASE HostClass = 3
  BY <1>0, <1>1, LockClosed
<1>2. CASE HostClass # 3 /\ Streams(down[1]) /\ OneAtMost
  <2>1. NoStreams' /\ (\A i \in DOMAIN up : ~Answer(up[i])) /\ TypedInv /\ TypedInv'
    BY <1>2, TakenKeeps
  <2>2. OneAtMost'
    BY <1>0, <2>1, OneAnswer
  <2>3. ~Acknowledged'
    <3>1. /\ Len(up') = Len(up) + 1 /\ up'[Len(up) + 1] = "NAK"
          /\ \A i \in 1 .. Len(up) : up'[i] = up[i]
      BY <1>0, <2>1, ReplyOne
    <3>2. DOMAIN up' = 1 .. Len(up) + 1 /\ DOMAIN up = 1 .. Len(up) /\ Len(up) \in Nat
      BY <2>1, <3>1 DEF TypedInv
    <3> QED  BY <2>1, <3>1, <3>2 DEF Acknowledged, Answer
  <2>4. CASE pc = "header_ack"
    BY <2>2, <2>3, <2>4, TakenKeeps, LockAt
  <2>5. CASE pc = "data_ack"
    <3>1. Stored(sent) \/ Stored(sent + 1)
      BY <2>5, TakenKeeps DEF LockInv
    <3>2. Stored(sent)' \/ Stored(sent + 1)'
      BY <1>0, <3>1, TakenKeeps DEF Stored
    <3> QED  BY <2>1, <2>2, <2>3, <2>5, <3>2, TakenKeeps, LockAtDataAck DEF NoStreams
  <2> QED  BY <1>2, <2>4, <2>5, PacketAwaited
<1> QED  BY <1>1, <1>2, PacketAwaited

(* Between calls what is taken is left over.                               *)
LEMMA LockIdle ==
  ASSUME Before, Taken, ~overtaken, pc = "idle", ~Streams(down[1]) => image' = image
  PROVE  LockInv'
<1>1. result = "ok" => NoStreams /\ Stored(sent)
  BY TakenKeeps DEF LockInv
<1>2. result = "ok" => ~Streams(down[1])
  BY <1>1, TakenKeeps DEF NoStreams
<1>3. result = "ok" => NoStreams' /\ Stored(sent)'
  BY <1>1, <1>2, TakenKeeps DEF KeepsDown, NoStreams, Stored
<1> QED  BY <1>3, TakenKeeps, LockAt

(* An ACK says that the bootloader holds the packet that the host waits    *)
(* for.                                                                    *)
LEMMA LockAck ==
  ASSUME Before, Taken, ~overtaken, down[1].kind \notin Commands, StreamInv',
         Reply(<<"ACK">>) \/ Reply(<<"ACK", "C">>),
         Streams(down[1]) => mode' = "data" /\ Len(image') = Number(down[1]),
         ~Streams(down[1]) => image' = image
  PROVE  LockInv'
<1>1. CASE HostClass = 3 /\ ~Streams(down[1])
  BY <1>1, LockClosed
<1>2. CASE pc = "idle"
  BY <1>2, LockIdle
<1>3. CASE pc \in {"header_ack", "data_ack"} /\ Streams(down[1]) /\ OneAtMost
  <2>1. NoStreams' /\ (\A i \in DOMAIN up : ~Answer(up[i])) /\ TypedInv /\ TypedInv'
    BY <1>3, TakenKeeps
  <2>2. OneAtMost'
    BY <2>1, OneAnswer DEF Bytes
  <2>3. Safe' /\ Opened' /\ mode' = "data"
    BY <1>3, TakenKeeps DEF Safe, Opened, Opening, Filling
  <2>4. image' = FileOf(session, Number(down[1]))
    BY <1>3, <2>3, TakenKeeps DEF StreamInv, OwnInv, Mine
  <2>5. CASE pc = "header_ack" /\ down[1].kind = "header"
    <3>1. Stored(0)'
      BY <2>4, <2>5, TakenKeeps DEF Stored, Number
    <3> QED  BY <2>2, <2>5, <3>1, TakenKeeps, LockAt
  <2>6. CASE pc = "data_ack" /\ Number(down[1]) = sent + 1
    <3>1. Stored(sent + 1)'
      BY <2>4, <2>6, TakenKeeps DEF Stored
    <3> QED  BY <2>1, <2>2, <2>6, <3>1, TakenKeeps, LockAtDataAck DEF NoStreams
  <2> QED  BY <1>3, <2>5, <2>6, PacketAwaited
<1> QED  BY <1>1, <1>2, <1>3, PacketAwaited

LEMMA LockPacket ==
  ASSUME Before, StreamInv', Taken, ~overtaken, down[1].kind \notin Commands, ReceivePacket(down[1])
  PROVE  LockInv'
<1> DEFINE f == down[1]
<1>0. /\ 1 \in DOMAIN down /\ TypedInv /\ TypedInv' /\ FrameInv /\ LockInv /\ StreamInv
      /\ (Streams(f) <=> f.kind \in {"header", "data"})
  <2>1. 1 \in DOMAIN down /\ TypedInv /\ TypedInv' /\ FrameInv /\ LockInv /\ f.kind \in Packets
    BY TakenKeeps DEF Frames
  <2>2. Streams(f) <=> f.kind \in {"header", "data"}
    BY <2>1 DEF Streams, Class, Packets
  <2> QED  BY <2>1, <2>2 DEF Before
<1>1. ~Streams(f) => image' = image
  BY <1>0 DEF ReceivePacket, device
<1>2. CASE pc = "idle"
  BY <1>1, <1>2, LockIdle
<1>3. CASE pc # "idle" /\ f.kind = "header" /\ mode' = "data" /\ image' = <<>> /\ Reply(<<"ACK", "C">>)
  <2>1. Number(f) = 0 /\ Len(image') = 0
    BY <1>3, EmptySeq DEF Number
  <2> QED  BY <1>0, <1>3, <2>1, LockAck
<1>4. CASE f.kind = "close" /\ Reply(<<"ACK">>) /\ image' = image
  BY <1>0, <1>4, LockAck
<1>5. CASE pc # "idle" /\ mode = "data" /\ f.kind = "data" /\ f.seq = expect
           /\ image' = Append(image, f.block) /\ mode' = mode /\ Reply(<<"ACK">>)
  <2>1. Safe
    BY <1>5 DEF Safe
  <2>2. Number(f) = Len(image) + 1
    BY <1>0, <1>5, <2>1, Matching DEF StreamInv
  <2>3. Len(image') = Len(image) + 1
    <3>1. image \in Seq(Nat \X Nat) /\ image' \in Seq(Nat \X Nat)
      BY <1>0 DEF TypedInv
    <3> QED  BY <1>5, <3>1
  <2> QED  BY <1>0, <1>5, <2>2, <2>3, LockAck
<1>6. CASE pc # "idle" /\ mode = "data" /\ (f.seq + 1) % Modulus = expect /\ UNCHANGED device
           /\ (Reply(<<"ACK", "C">>) \/ Reply(<<"ACK">>))
  <2>1. Safe /\ mode' = "data" /\ image' = image
    BY <1>6 DEF Safe, device
  <2>2. Streams(f) => Number(f) = Len(image)
    BY <1>0, <1>6, <2>1, Matching DEF StreamInv
  <2> QED  BY <1>6, <2>1, <2>2, LockAck
<1>7. CASE pc # "idle" /\ mode = "eot" /\ UNCHANGED device
  <2>1. Class(f) # 0
    BY <1>0, TakenKeeps DEF Class, Frames, Packets, Commands
  <2>2. Opened
    BY <1>0, <2>1 DEF Opened
  <2>3. HostClass = 3
    BY <1>0, <1>7, <2>2 DEF StreamInv, OwnInv
  <2> QED  BY <1>7, <2>3, LockClosed DEF device
<1>8. CASE UNCHANGED device /\ Reply(<<"NAK">>)
  BY <1>8, LockNak
<1>9. CASE UNCHANGED <<device, up>>
  <2>1. KeepsUp /\ image' = image
    BY <1>0, <1>9, ShorterSame, UpKept DEF device
  <2> QED  BY <2>1, TakenKeeps, LockKept
<1>10. CASE mode = "data" /\ f.seq # expect /\ UNCHANGED device
            /\ Reply(IF (f.seq + 1) % Modulus = expect
                       THEN IF f.kind = "header" THEN <<"ACK", "C">> ELSE <<"ACK">>
                       ELSE <<"NAK">>)
  <2>1. CASE (f.seq + 1) % Modulus = expect /\ f.kind = "header"
    BY <1>2, <1>6, <1>10, <2>1
  <2>2. CASE (f.seq + 1) % Modulus = expect /\ f.kind # "header"
    BY <1>2, <1>6, <1>10, <2>2
  <2>3. CASE (f.seq + 1) % Modulus # expect
    BY <1>8, <1>10, <2>3
  <2> QED  BY <2>1, <2>2, <2>3
<1>11. \/ f.kind = "header" /\ mode' = "data" /\ image' = <<>> /\ Reply(<<"ACK", "C">>)
       \/ f.kind = "close" /\ Reply(<<"ACK">>) /\ image' = image
       \/ /\ mode = "data" /\ f.kind = "data" /\ f.seq = expect
          /\ image' = Append(image, f.block) /\ mode' = mode /\ Reply(<<"ACK">>)
       \/ /\ mode = "data" /\ f.seq # expect /\ UNCHANGED device
          /\ Reply(IF (f.seq + 1) % Modulus = expect
                     THEN IF f.kind = "header" THEN <<"ACK", "C">> ELSE <<"ACK">>
                     ELSE <<"NAK">>)
       \/ mode = "eot" /\ UNCHANGED device
       \/ UNCHANGED <<device, up>>
  BY DEF ReceivePacket
<1> QED  BY <1>2, <1>3, <1>4, <1>5, <1>7, <1>9, <1>10, <1>11

LEMMA LockNext ==
  ASSUME Before, StreamInv', ~FlashFile, [Next]_vars  PROVE LockInv'
<1> SUFFICES ASSUME ~overtaken'  PROVE LockInv'
  BY DEF LockInv
<1>0. TypedInv /\ TypedInv' /\ LockInv
  BY DEF Before
<1>2. CASE HostStep \/ Cycled
  BY <1>2, LockHost DEF HostStep, Host, Cycled
<1>3. CASE DeviceReceives
  <2>1. Taken /\ ~overtaken
    BY <1>3 DEF DeviceReceives, Taken, host
  <2>2. CASE Head(down).kind \in Commands
    <3>1. ReceiveByte(Head(down).kind) /\ image' = image
      BY <1>3, <2>2 DEF DeviceReceives
    <3> QED  BY <2>1, <2>2, <3>1, TakenKeeps, LockByte
  <2>3. CASE Head(down).kind \notin Commands
    <3>1. ReceivePacket(Head(down))
      BY <1>3, <2>3 DEF DeviceReceives
    <3> QED  BY <2>1, <2>3, <3>1, TakenKeeps, LockPacket
  <2> QED  BY <2>2, <2>3
<1>4. CASE DeviceAlone
  <2>1. UNCHANGED <<pc, sent, session, image, attempt, result, overtaken, down>>
    BY <1>4 DEF DeviceAlone, host
  <2>2. up' = up \/ \E x \in {"menu", "C", "app"} : Reply(<<x>>)
    BY <1>4 DEF DeviceAlone
  <2>3. KeepsUp /\ KeepsDown
    BY <1>0, <2>1, <2>2, ShorterSame, UpKept, DownKept DEF Bytes, Answer
  <2> QED  BY <1>0, <2>1, <2>3, LockKept
<1>5. CASE Damage /\ Taken
  <2>1. ~overtaken /\ UNCHANGED device
    BY <1>5 DEF Damage, host
  <2>2. CASE up' = up
    <3>1. KeepsUp /\ image' = image
      BY <1>0, <2>1, <2>2, ShorterSame, UpKept DEF device
    <3> QED  BY <1>5, <2>1, <3>1, TakenKeeps, LockKept
  <2>3. CASE Head(down).kind \notin Commands /\ Reply(<<"NAK">>)
    BY <1>5, <2>1, <2>3, TakenKeeps, LockNak
  <2>4. CASE down' = down
    BY <1>5, <2>4, LockHost DEF HostStep
  <2> QED  BY <1>5, <2>2, <2>3, <2>4 DEF Damage
<1> QED  BY <1>2, <1>3, <1>4, <1>5, NextCases

(* A call that starts when nothing of an earlier one is on its way starts  *)
(* afresh, whatever the earlier one has left in the bootloader.            *)
LEMMA FreshCall ==
  ASSUME TypedInv, TypedInv', FlashFile, ~InFlight
  PROVE  FrameInv' /\ StreamInv' /\ LockInv'
<1>1. down' = <<>> /\ up' = <<>> /\ DOMAIN down' = {} /\ DOMAIN up' = {} /\ pc' \in Entry
  BY DEF FlashFile, InFlight, Entry
<1>2. FrameInv'
  BY <1>1 DEF FrameInv
<1>3. StreamInv'
  <2>1. ~Opened'
    BY <1>1 DEF Opened, Entry, Opening, Filling, Closing
  <2> QED  BY <1>1, <2>1 DEF StreamInv, OwnInv, NoStreams, AheadInv, LeadInv
<1>4. LockInv'
  <2>1. Clear'
    BY <1>1 DEF Clear, NoStreams
  <2> QED  BY <1>1, <2>1, LockAt
<1> QED  BY <1>2, <1>3, <1>4

-----------------------------------------------------------------------------
(* The theorems.                                                           *)

LEMMA ImageInit == Init => ImageInv
BY DEF Init, ImageInv

LEMMA ImageNext ==
  ASSUME Before, ImageInv, StreamInv', [Next]_vars  PROVE ImageInv'
<1>1. session' \in Nat /\ session \in Nat /\ session <= session'
  <2>1. CASE FlashFile
    BY <2>1 DEF FlashFile, Before, TypedInv
  <2>2. CASE session' = session
    BY <2>2 DEF Before, TypedInv
  <2>3. CASE DeviceReceives \/ DeviceAlone \/ Cycled \/ Taken
    BY <2>2, <2>3 DEF DeviceReceives, DeviceAlone, Cycled, PowerCycle, PowerCycleFails, Taken, host
  <2>4. CASE HostStep /\ ~Cycled
    BY <2>2, <2>4, HostSteps DEF Before, Quiet, Counting, Sending, Steady
  <2> QED  BY <2>1, <2>3, <2>4, NextCases
<1>2. session' = 0 => pc' = "idle" /\ down' = <<>>
  <2>1. CASE FlashFile
    BY <2>1 DEF FlashFile, Before, TypedInv
  <2>2. CASE ~FlashFile
    <3>1. ASSUME session' = 0  PROVE pc = "idle" /\ down = <<>>
      <4>1. session = 0
        BY <1>1, <3>1
      <4> QED  BY <4>1 DEF ImageInv
    <3>2. ASSUME pc = "idle", down = <<>>  PROVE pc' = "idle" /\ down' = <<>>
      <4>1. RxIdle \/ DeviceAlone \/ Damage \/ Signal \/ UNCHANGED vars
        BY <2>2, <3>2 DEF Next, Host, Expires, PowerCycle, PowerCycleFails, SendByte, AwaitByte, SendPacket, DataDone, AckRead,
           AwaitFails, AckTimeout, TriesFail, Stopped, Report, DeviceReceives, Sends, Awaits, Acked, AckPlace
      <4> QED  BY <3>2, <4>1 DEF RxIdle, DeviceAlone, Damage, Signal, vars
    <3> QED  BY <3>1, <3>2
  <2> QED  BY <2>1, <2>2
<1>3. CASE image' = image
  <2>1. \A s \in 1 .. session : s \in 1 .. session'
    BY <1>1
  <2> QED  BY <1>2, <1>3, <2>1 DEF ImageInv
<1>4. CASE image' = <<>>
  BY <1>2, <1>4 DEF ImageInv
<1>5. CASE /\ Taken /\ down[1].kind = "data" /\ mode = "data" /\ mode' = "data" /\ down[1].seq = expect
           /\ expect' = (expect + 1) % Modulus /\ image' = Append(image, down[1].block)
           /\ Reply(<<"ACK">>)
  <2>1. Taken
    BY <1>5
  <2>2. 1 \in DOMAIN down /\ Class(down[1]) # 0 /\ HostClass \in 2 .. 3 /\ UNCHANGED <<pc, session, HostClass>>
    <3>1. 1 \in DOMAIN down /\ Class(down[1]) = 2 /\ UNCHANGED <<pc, session, HostClass>> /\ FrameInv
      BY <1>5, <2>1, TakenKeeps DEF Class
    <3> QED  BY <3>1, Classes DEF FrameInv
  <2>3. session' # 0
    <3>1. down # <<>>
      BY <2>1 DEF Taken
    <3> QED  BY <2>2, <3>1 DEF ImageInv
  <2>4. ASSUME Wide  PROVE image' = FileOf(session', Len(image'))
    <3>1. Safe /\ "ACK" \in Bytes
      BY <2>4 DEF Safe, Bytes
    <3>2. TakenAnswer
      BY <1>5, <2>2, <3>1, Answers
    <3>3. Mine'
      BY <1>5, <3>1, <3>2, StoresMine
    <3> QED  BY <3>3 DEF Mine
  <2>5. session' \in 1 .. session'
    BY <1>1, <2>3
  <2> QED  BY <1>2, <2>4, <2>5 DEF ImageInv, Wide
<1>6. CASE DeviceReceives
  <2>1. Taken
    BY <1>6 DEF DeviceReceives, Taken
  <2>2. Head(down) = down[1]
    BY <2>1, TakenKeeps
  <2>3. CASE Head(down).kind \in Commands
    BY <1>3, <1>6, <2>3 DEF DeviceReceives
  <2>4. CASE Head(down).kind \notin Commands
    <3>1. ReceivePacket(down[1])
      BY <1>6, <2>2, <2>4 DEF DeviceReceives
    <3>2. \/ image' = image \/ image' = <<>>
          \/ /\ down[1].kind = "data" /\ mode = "data" /\ mode' = "data" /\ down[1].seq = expect
             /\ expect' = (expect + 1) % Modulus /\ image' = Append(image, down[1].block)
             /\ Reply(<<"ACK">>)
      BY <3>1 DEF ReceivePacket, device
    <3> QED  BY <1>3, <1>4, <1>5, <2>1, <3>2
  <2> QED  BY <2>3, <2>4
<1>7. CASE FlashFile \/ Cycled \/ DeviceAlone \/ Damage
  BY <1>3, <1>7 DEF FlashFile, Cycled, PowerCycle, PowerCycleFails, DeviceAlone, Damage, device
<1>8. CASE HostStep /\ ~Cycled
  BY <1>3, <1>8, HostSteps DEF Before, Quiet, Counting, Sending, Steady
<1> QED  BY <1>6, <1>7, <1>8, NextCases

(* A call that has returned well is over.                                  *)
DoneInv == result = "ok" => pc = "idle"

LEMMA DoneNext ==
  ASSUME DoneInv, [Next]_vars  PROVE DoneInv'
<1>1. CASE pc' = pc /\ result' = result
  BY <1>1 DEF DoneInv
<1>2. CASE result' = "none" \/ (\E r \in {"ok", "failed"} : Finish(r))
  BY <1>2 DEF DoneInv, Finish
<1>3. CASE result' = result /\ pc # "idle"
  BY <1>3 DEF DoneInv
<1>4. CASE FlashFile \/ RxIdle \/ DeviceReceives \/ DeviceAlone \/ Damage \/ Signal \/ UNCHANGED vars
  BY <1>1, <1>2, <1>4 DEF FlashFile, RxIdle, DeviceReceives, DeviceAlone, Damage, Signal, host, vars
<1>5. CASE PowerCycle \/ DataDone
  BY <1>3, <1>5 DEF PowerCycle, DataDone, host
<1>6. CASE AwaitByte \/ AckRead \/ AckTimeout
  BY <1>3, <1>6 DEF AwaitByte, AckRead, AckTimeout, Awaits, Acked
<1>7. CASE SendByte \/ SendPacket
  BY <1>2, <1>3, <1>7 DEF SendByte, SendPacket, Sends, AckPlace
<1>8. CASE PowerCycleFails \/ AwaitFails \/ TriesFail \/ Stopped \/ Report
  BY <1>2, <1>8 DEF PowerCycleFails, AwaitFails, TriesFail, Stopped, Report
<1> QED  BY <1>4, <1>5, <1>6, <1>7, <1>8 DEF Next, Host, Expires

(* What is known of a call that overtook nothing, or was started when      *)
(* nothing of an earlier one was on its way and as were all before it.     *)
CallInv == FrameInv /\ StreamInv /\ LockInv

TransferInv ==
  /\ TypedInv /\ DoneInv
  /\ ~overtaken \/ ~crowded => CallInv
  /\ ~crowded => ImageInv

(* Nothing but a new call takes back that a reply was overtaken.           *)
LEMMA HistoryKept ==
  ASSUME TypedInv, [Next]_vars, ~FlashFile
  PROVE  crowded' = crowded /\ (overtaken => overtaken')
<1>1. CASE AwaitFails \/ AckTimeout
  BY <1>1 DEF AwaitFails, AckTimeout
<1>2. CASE PowerCycle \/ PowerCycleFails \/ SendByte \/ AwaitByte \/ SendPacket \/ DataDone
           \/ AckRead \/ TriesFail \/ Stopped \/ Report
  BY <1>2 DEF PowerCycle, PowerCycleFails, SendByte, AwaitByte, SendPacket, DataDone, AckRead,
              TriesFail, Stopped, Report, host
<1>3. CASE RxIdle \/ DeviceReceives \/ DeviceAlone \/ Damage \/ Signal \/ UNCHANGED vars
  BY <1>3 DEF RxIdle, DeviceReceives, DeviceAlone, Damage, Signal, host, vars
<1> QED  BY <1>1, <1>2, <1>3 DEF Next, Host, Expires

(* The invariant of the calls, whatever is lost, damaged, late or fails.   *)
LEMMA TransferInvariant == Spec => []TransferInv
<1>1. Init => TransferInv
  <2>1. Init => DoneInv
    BY DEF Init, DoneInv
  <2> QED  BY <2>1, TypedInit, FrameInit, StreamInit, LockInit, ImageInit DEF TransferInv, CallInv
<1>2. TransferInv /\ [Next]_vars => TransferInv'
  <2> SUFFICES ASSUME TransferInv, [Next]_vars  PROVE TransferInv'
    OBVIOUS
  <2>1. TypedInv /\ TypedInv' /\ DoneInv'
    BY TypedNext, DoneNext DEF TransferInv
  <2>2. ASSUME CallInv, CallInv', ImageInv  PROVE ImageInv'
    BY <2>1, <2>2, ImageNext DEF Before, CallInv
  <2>3. CASE FlashFile
    <3>1. InFlight => overtaken' /\ crowded'
      BY <2>3 DEF FlashFile
    <3>2. ~InFlight => CallInv'
      BY <2>1, <2>3, FreshCall DEF CallInv
    <3>3. ~crowded' => ~crowded /\ ~InFlight
      BY <2>3 DEF FlashFile
    <3>4. ~crowded' => ImageInv'
      BY <2>2, <3>2, <3>3 DEF TransferInv
    <3> QED  BY <2>1, <3>1, <3>2, <3>4 DEF TransferInv
  <2>4. CASE ~FlashFile
    <3>1. crowded' = crowded /\ (overtaken => overtaken')
      BY <2>1, <2>4, HistoryKept
    <3>2. ASSUME CallInv  PROVE CallInv'
      <4>1. FrameInv' /\ StreamInv'
        BY <2>1, <2>4, <3>2, FrameNext, StreamNext DEF CallInv
      <4>2. Before
        BY <2>1, <3>2, <4>1 DEF Before, CallInv
      <4> QED  BY <2>4, <4>1, <4>2, LockNext DEF CallInv
    <3>3. ~overtaken' \/ ~crowded' => CallInv /\ CallInv'
      BY <3>1, <3>2 DEF TransferInv
    <3>4. ~crowded' => ImageInv'
      BY <2>2, <3>1, <3>3 DEF TransferInv
    <3> QED  BY <2>1, <3>3, <3>4 DEF TransferInv
  <2> QED  BY <2>3, <2>4
<1> QED  BY <1>1, <1>2, PTL DEF Spec

(* boot_flash_file returns 0 only when the bootloader has stored what was  *)
(* read of the file, block for block: send_ymodem_packet_with_retry sends  *)
(* a packet again after a NAK or a timeout, and waits for the answer to    *)
(* each try before the next.  For every length of the file, every number   *)
(* of tries, and already with two sequence numbers; a call that overtakes  *)
(* a reply, one to an earlier call included, is excluded by the property   *)
(* itself, whatever the calls before it were.                              *)
THEOREM FlashStoresTheFile == Spec => []StoredAsSent
<1>1. TransferInv => StoredAsSent
  BY DEF TransferInv, CallInv, DoneInv, LockInv, Stored, StoredAsSent
<1> QED  BY <1>1, TransferInvariant, PTL

(* Also when deadlines overtake replies, and the ACK of one packet is      *)
(* taken for that of a later one, the motor holds a gapless beginning of   *)
(* one file: the sequence numbers of make_ymodem_packet, one byte,         *)
(* outnumber twice over what can be in flight in a direction.  That is     *)
(* needed: with as many as twice the depth, and a file long enough, the    *)
(* property is false.  It ends with the first call that is started while   *)
(* something of an earlier one is on its way, which the property excludes. *)
THEOREM ImageOfOneTransfer ==
  ASSUME Modulus > 2 * Depth
  PROVE  Spec => []ImageIsPrefix
<1>1. TransferInv => ImageIsPrefix
  BY YmodemAssumption DEF TransferInv, CallInv, ImageInv, TypedInv, ImageIsPrefix, Wide
<1> QED  BY <1>1, TransferInvariant, PTL

=============================================================================
