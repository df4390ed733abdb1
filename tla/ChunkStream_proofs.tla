-------------------------- MODULE ChunkStream_proofs --------------------------
(***************************************************************************)
(* What TLAPS proves of the chunk stream: the types, that the reader stays *)
(* in step with the peer, and that what it returns are the messages of the *)
(* peer, for any EXT below HALF, any lengths and chunk sizes, any streams  *)
(* and, where the argument is about times, any that fit 31 bits.           *)
(* The argument compares the reader with the peer as it was when it had    *)
(* cut what the reader has taken: the line of these states ends at the     *)
(* peer as it is now, and the reader is level with the first of them.      *)
(***************************************************************************)
EXTENDS ChunkStream, DataInduction, FiniteSetTheorems, SequenceTheorems, TLAPS

ChunkStreamState ==
  [fresh : BOOLEAN, time : Nat, delta : Nat, len : Nat, kind : Kinds, extended : BOOLEAN,
   msg : BOOLEAN, size : Nat, payload : SUBSET Message]

Chunk == [cid : Cid, fmt : 0..3, field : Nat, ext : Nat \cup {Absent}, n : Nat, msg : Message]

\* The first chunk of a message of this time, or of this time since the last.
FirstOf(k, time) ==
  /\ k.field = Smaller(time, EXT)
  /\ k.ext = IF time >= EXT THEN time ELSE Absent

LEMMA HeaderFields ==
  ASSUME NEW cs \in ChunkStreamState, NEW k \in Chunk
  PROVE  LET h == Header(cs, k) IN
           /\ h.extended = IF k.fmt = 3 THEN cs.extended ELSE k.field >= EXT
           /\ h.delta = IF k.fmt = 3 THEN cs.delta ELSE k.field
           /\ h.time = IF ~(~h.extended /\ (k.fmt = 3 => ~cs.msg)) THEN cs.time
                       ELSE IF k.fmt = 0 THEN h.delta ELSE cs.time + h.delta
           /\ Timed(cs, k).time = (IF TakesExt(cs, k) THEN k.ext ELSE h.time) % HALF
           /\ Timed(cs, k).extended = h.extended /\ Timed(cs, k).delta = h.delta
BY DEF Header, Timed, Word, ChunkStreamState

\* The header without its time.
LEMMA HeaderIsTimed ==
  ASSUME NEW cs \in ChunkStreamState, NEW k \in Chunk
  PROVE  Header(cs, k) = [Timed(cs, k) EXCEPT !.fresh = cs.fresh, !.time = Header(cs, k).time]
<1> DEFINE h == Header(cs, k)
           t == (IF TakesExt(cs, k) THEN Word(k) ELSE h.time) % HALF
<1>1. Timed(cs, k) = [h EXCEPT !.fresh = FALSE, !.time = t]
  BY DEF Timed
<1>2. h = [x \in DOMAIN cs |-> h[x]] /\ h.fresh = cs.fresh
  BY DEF Header, ChunkStreamState
<1> HIDE DEF h, t
<1>3. h = [[h EXCEPT !.fresh = FALSE, !.time = t] EXCEPT !.fresh = h.fresh, !.time = h.time]
  BY <1>2
<1> QED
  BY <1>1, <1>2, <1>3 DEF h

LEMMA BelowHalf ==
  ASSUME NEW t \in Nat, t < HALF
  PROVE  t % HALF = t
BY ChunkStreamAssumption

(* A message that begins with format 0 is read with its time, whether the time fits
   its field or is in the extension, and the four bytes behind the header are
   taken for the extension exactly when they are it. *)
THEOREM FirstChunkIsUnderstood ==
  ASSUME NEW cs \in ChunkStreamState, ~cs.msg, NEW k \in Chunk, k.fmt = 0,
         NEW time \in Nat, time < HALF, FirstOf(k, time)
  PROVE  /\ TakesExt(cs, k) <=> k.ext # Absent
         /\ Timed(cs, k).time = time
         /\ Timed(cs, k).extended <=> time >= EXT
<1> USE ChunkStreamAssumption
<1>1. Header(cs, k).extended <=> time >= EXT
  <2>1. k.field >= EXT <=> time >= EXT
    BY DEF FirstOf, Smaller
  <2>2. Header(cs, k).extended = (k.field >= EXT)
    BY DEF Header, ChunkStreamState
  <2> QED
    BY <2>1, <2>2
<1>2. TakesExt(cs, k) <=> time >= EXT
  BY <1>1 DEF TakesExt
<1>3. k.ext # Absent <=> time >= EXT
  BY DEF FirstOf, Absent
<1>4. CASE time >= EXT
  BY <1>1, <1>2, <1>3, <1>4, HeaderFields, BelowHalf DEF FirstOf
<1>5. CASE ~(time >= EXT)
  <2>1. Header(cs, k).time = time
    BY <1>1, <1>5, HeaderFields DEF FirstOf, Smaller
  <2> QED
    BY <1>1, <1>2, <1>3, <1>5, <2>1, HeaderFields, BelowHalf
<1> QED
  BY <1>4, <1>5

(* A message that begins with a smaller header is read with the time of the last
   message of its chunk stream and the delta, also when format 3 leaves the delta
   out because it is the last field again. *)
THEOREM DeltaIsUnderstood ==
  ASSUME NEW cs \in ChunkStreamState, ~cs.msg, NEW k \in Chunk, k.fmt # 0,
         NEW delta \in Nat, delta < EXT, cs.time + delta < HALF, FirstOf(k, delta),
         k.fmt = 3 => ~cs.extended /\ cs.delta = delta
  PROVE  /\ ~TakesExt(cs, k) /\ k.ext = Absent
         /\ Timed(cs, k).time = cs.time + delta
         /\ ~Timed(cs, k).extended /\ Timed(cs, k).delta = delta
<1> USE ChunkStreamAssumption
<1>1. ~Header(cs, k).extended /\ Header(cs, k).delta = delta
  <2>1. k.field = delta /\ ~(k.field >= EXT)
    BY DEF FirstOf, Smaller
  <2>2. Header(cs, k).extended = IF k.fmt = 3 THEN cs.extended ELSE k.field >= EXT
    BY DEF Header, ChunkStreamState
  <2>3. Header(cs, k).delta = IF k.fmt = 3 THEN cs.delta ELSE k.field
    BY DEF Header, ChunkStreamState
  <2> QED
    BY <2>1, <2>2, <2>3
<1>2. Header(cs, k).time = cs.time + delta
  BY <1>1, HeaderFields
<1>3. ~TakesExt(cs, k)
  BY <1>1 DEF TakesExt
<1>4. k.ext = Absent
  BY DEF FirstOf
<1>5. cs.time + delta \in Nat
  BY DEF ChunkStreamState
<1> QED
  BY <1>1, <1>2, <1>3, <1>4, <1>5, HeaderFields, BelowHalf

(* The later chunks of a message, whose time is known: an extension that is written
   again is skipped, one that is left out is not looked for, and the time stays. *)
THEOREM ContinuationIsUnderstood ==
  ASSUME NEW cs \in ChunkStreamState, cs.msg, NEW k \in Chunk, k.fmt = 3,
         cs.time \in 1..HALF - 1, cs.extended => cs.time >= EXT,
         k.ext \in IF cs.extended THEN {cs.time, Absent} ELSE {Absent}
  PROVE  /\ TakesExt(cs, k) <=> k.ext # Absent
         /\ Timed(cs, k).time = cs.time
         /\ Timed(cs, k).extended = cs.extended
<1> USE ChunkStreamAssumption
<1>1. Header(cs, k).extended = cs.extended /\ Header(cs, k).time = cs.time
  BY HeaderFields
<1>2. TakesExt(cs, k) <=> cs.extended /\ cs.time = k.ext
  BY <1>1 DEF TakesExt, Word
<1>3. TakesExt(cs, k) <=> k.ext # Absent
  BY <1>2 DEF Absent
<1>4. (IF TakesExt(cs, k) THEN k.ext ELSE Header(cs, k).time) = cs.time
  BY <1>1, <1>2
<1>5. cs.time % HALF = cs.time
  BY BelowHalf
<1> QED
  BY <1>1, <1>3, <1>4, <1>5, HeaderFields

------------------------------------------------------------------------------
(* What goes over the wire *)

\* The messages that are begun: media on its chunk ids, a control message of one
\* unit on its own.
Messages ==
  {m \in Message :
     /\ m.time \in Times \cup {0}
     /\ IF m.cid = Control THEN m.len = 1 /\ m.kind # "media" ELSE m.kind = "media"
     /\ m.kind = "chunk_size" => m.val \in ChunkSizes}

\* The chunks they are cut into; a control message is one chunk of format 0.
Chunks ==
  {k \in Chunk :
     /\ k.msg \in Messages /\ k.msg.cid = k.cid
     /\ k.cid = Control => k.fmt = 0 /\ k.n = 1}

\* What a peer remembers of a chunk stream: nothing yet, or its last message.
OutState == [used : BOOLEAN, field : 0..EXT, ext : Nat \cup {Absent}, msg : Message, left : Nat]

NotUsed == [used |-> FALSE, field |-> 0, ext |-> Absent, msg |-> NoMessage, left |-> 0]

OutOK(c, o) ==
  /\ o \in OutState
  /\ \/ o = NotUsed
     \/ /\ o.used /\ o.msg \in Messages /\ o.msg.cid = c
        /\ o.left > 0 => o.left < o.msg.len /\ c # Control
        /\ o.ext # Absent => o.ext = o.msg.time /\ o.ext >= EXT

\* The state of a chunk stream at the reader, between two chunks or after a timeout.
StreamOK(c, cs) ==
  /\ cs \in ChunkStreamState /\ cs.time < HALF /\ cs.size <= cs.len
  /\ ~cs.msg => cs.size = 0 /\ cs.payload = {}
  /\ c \in Media => cs.kind = "media"
  /\ c = Control => cs.size = 0

------------------------------------------------------------------------------
(* The sum of a sequence of chunks *)

LEMMA BytesOfIsNumber ==
  ASSUME NEW s \in Seq(Chunk)
  PROVE  BytesOf(s) \in Nat
<1> DEFINE n == Len(s)
           Sums(g) == g = [t \in SUBSET (DOMAIN s) |->
                             IF t = {} THEN 0 ELSE g[t \ {Max(t)}] + Bytes(s[Max(t)])]
           sum == CHOOSE g : Sums(g)
           G == [i \in 1..n |-> [v \in Nat |-> v + Bytes(s[i])]]
<1>1. BytesOf(s) = sum[DOMAIN s]
  BY DEF BytesOf, FoldLeft, MapThenFoldSet
<1>2. n \in Nat /\ DOMAIN s = 1..n
  OBVIOUS
<1>3. \A i \in 1..n : Bytes(s[i]) \in Nat
  <2>1. \A i \in 1..n : s[i] \in Chunk
    BY <1>2, ElementOfSeq
  <2> QED
    BY <2>1 DEF Chunk, Bytes
<1>4. G \in [1..n -> [Nat -> Nat]]
  BY <1>3
<1>5. PICK h \in FoldTables(n, Nat, 0, G) : TRUE
  <2>1. n \in Nat /\ 0 \in Nat /\ G \in [1..n -> [Nat -> Nat]]
    BY <1>2, <1>4
  <2> HIDE DEF G, n
  <2> QED
    BY <2>1, FoldTableExists
<1>6. /\ h \in [SUBSET (1..n) -> Nat]
      /\ \A t \in SUBSET (1..n) :
           h[t] = IF t = {} THEN 0 ELSE G[Max(t)][h[t \ {Max(t)}]]
  BY <1>5 DEF FoldTables
<1>7. \A t \in SUBSET (1..n) :
        h[t] = IF t = {} THEN 0 ELSE h[t \ {Max(t)}] + Bytes(s[Max(t)])
  <2> SUFFICES ASSUME NEW t \in SUBSET (1..n), t # {}
               PROVE  h[t] = h[t \ {Max(t)}] + Bytes(s[Max(t)])
    BY <1>6
  <2>1. Max(t) \in 1..n
    BY <1>2, MaxIsMember
  <2>2. h[t \ {Max(t)}] \in Nat
    BY <1>6
  <2>3. h[t] = G[Max(t)][h[t \ {Max(t)}]]
    BY <1>6
  <2> HIDE DEF n
  <2> QED
    BY <2>1, <2>2, <2>3
<1>8. Sums(h)
  BY <1>2, <1>6, <1>7
<1>9. Sums(sum)
  BY <1>8
<1> HIDE DEF sum
<1>10. \A t \in SUBSET (1..n) :
         sum[t] = IF t = {} THEN 0 ELSE sum[t \ {Max(t)}] + Bytes(s[Max(t)])
  BY <1>2, <1>9
<1> DEFINE P == {k \in Nat : k <= n => sum[1..k] \in Nat}
<1>11. n \in P
  <2>1. 0 \in P
    <3>1. 1..0 = {} /\ {} \in SUBSET (1..n)
      OBVIOUS
    <3>2. sum[{}] = 0
      BY <1>10
    <3> QED
      BY <3>1, <3>2
  <2>2. ASSUME NEW k \in Nat, k + 1 <= n, sum[1..k] \in Nat PROVE sum[1..(k + 1)] \in Nat
    <3>1. 1..(k + 1) \in SUBSET (1..n) /\ k + 1 \in 1..n
      BY <1>2, <2>2
    <3>2. sum[1..(k + 1)] = sum[1..k] + Bytes(s[k + 1])
      <4>1. /\ 1..(k + 1) # {} /\ Max(1..(k + 1)) = k + 1
            /\ (1..(k + 1)) \ {k + 1} = 1..k
        BY IntervalStep
      <4>2. sum[1..(k + 1)] = sum[(1..(k + 1)) \ {Max(1..(k + 1))}] + Bytes(s[Max(1..(k + 1))])
        BY <1>10, <3>1, <4>1
      <4> QED
        BY <4>1, <4>2
    <3>3. Bytes(s[k + 1]) \in Nat
      BY <1>3, <3>1
    <3>4. \A a, b \in Nat : a + b \in Nat
      OBVIOUS
    <3> QED
      BY <2>2, <3>2, <3>3, <3>4, Zenon
  <2>3. \A k \in Nat : k \in P => k + 1 \in P
    BY <1>2, <2>2
  <2> HIDE DEF P
  <2> QED
    BY <1>2, <2>1, <2>3, NatIsInductive
<1> QED
  BY <1>1, <1>2, <1>11

------------------------------------------------------------------------------
(* The peer cuts a message *)

\* What is left of the message of which k is the next chunk.
Left(o, k) == IF o.left > 0 THEN o.left ELSE k.msg.len

Since(o, k) == k.msg.time - o.msg.time

\* Chunk k is the next one of chunk stream o, in one of the ways in which the peers
\* write it.
IsNext(o, k) ==
  /\ k.msg \in Messages /\ k.msg.cid = k.cid
  /\ IF o.left > 0
     THEN k.msg = o.msg /\ k.fmt = 3 /\ k.field = o.field /\ k.ext \in {o.ext, Absent}
     ELSE \/ k.fmt = 0 /\ FirstOf(k, k.msg.time)
          \/ /\ k.fmt # 0 /\ o.used /\ o.ext = Absent
             /\ Since(o, k) \in 0..EXT - 1 /\ FirstOf(k, Since(o, k))
             /\ k.fmt >= 2 => k.msg.len = o.msg.len /\ k.msg.kind = o.msg.kind
             /\ k.fmt = 3 => Since(o, k) = o.field

\* Chunk stream o when k has left.
After(o, k) ==
  [used |-> TRUE, field |-> k.field, ext |-> IF o.left > 0 THEN o.ext ELSE k.ext,
   msg |-> k.msg, left |-> Left(o, k) - k.n]

\* The peer in state a sends chunk k and is in state b.
Cut(a, k, b) ==
  LET o == a.out[k.cid]
  IN /\ k \in Chunks /\ IsNext(o, k) /\ k.n = Smaller(Left(o, k), a.size)
     /\ b.out = [a.out EXCEPT ![k.cid] = After(o, k)]
     /\ b.sent = IF Left(o, k) = k.n /\ k.msg.len > 0 THEN Append(a.sent, k.msg) ELSE a.sent
     /\ b.size = IF Left(o, k) = k.n /\ k.msg.kind = "chunk_size" THEN k.msg.val ELSE a.size

\* The states of the peer.
PeerOK(a) ==
  /\ a.out \in [Cid -> OutState] /\ \A c \in Cid : OutOK(c, a.out[c])
  /\ a.size \in ChunkSizes /\ a.sent \in Seq(Message)

\* The part that leaves.
LEMMA PartLeaves ==
  ASSUME NEW left \in Nat, NEW size \in ChunkSizes
  PROVE  LET n == Smaller(left, size) IN
           n \in Nat /\ n <= left /\ n <= size /\ (left > 0 => n > 0) /\ left - n \in Nat
BY ChunkStreamAssumption DEF Smaller

\* A cut leaves chunk streams as they should be.
LEMMA CutKeeps ==
  ASSUME NEW a, NEW k, NEW b, PeerOK(a), Cut(a, k, b)
  PROVE  PeerOK(b)
<1> DEFINE o == a.out[k.cid]
<1>1. /\ k \in Chunk /\ k.msg \in Messages /\ k.msg \in Message /\ k.msg.cid = k.cid /\ k.cid \in Cid
      /\ k.cid = Control => k.fmt = 0 /\ k.n = 1
  BY DEF Cut, Chunks, Chunk, Messages
<1>2. OutOK(k.cid, o) /\ o \in OutState
  BY <1>1 DEF PeerOK
<1>3. Left(o, k) \in Nat /\ k.n \in Nat /\ k.n <= Left(o, k) /\ Left(o, k) - k.n \in Nat
      /\ (Left(o, k) > 0 => k.n > 0)
  <2>1. Left(o, k) \in Nat
    BY <1>1, <1>2 DEF Left, OutState, Message
  <2> QED
    BY <2>1, PartLeaves DEF PeerOK, Cut
<1>4. IsNext(o, k)
  BY DEF Cut
<1> HIDE DEF o
<1>5. After(o, k) \in OutState
  <2>1. k.field \in 0..EXT
    <3>1. CASE o.left > 0
      BY <1>2, <1>4, <3>1 DEF IsNext, OutState
    <3>2. CASE ~(o.left > 0)
      <4>1. \A t \in Nat : Smaller(t, EXT) \in 0..EXT
        BY ChunkStreamAssumption DEF Smaller
      <4>2. k.msg.time \in Nat
        BY <1>1 DEF Message
      <4>3. \A t : FirstOf(k, t) => k.field = Smaller(t, EXT)
        BY DEF FirstOf
      <4>4. \A t \in 0..EXT - 1 : t \in Nat
        OBVIOUS
      <4> QED
        BY <1>4, <3>2, <4>1, <4>2, <4>3, <4>4 DEF IsNext
    <3> QED
      BY <3>1, <3>2
  <2>2. o.ext \in Nat \cup {Absent} /\ k.ext \in Nat \cup {Absent}
    BY <1>1, <1>2 DEF OutState, Chunk
  <2> QED
    BY <1>1, <1>3, <2>1, <2>2 DEF After, OutState
<1>6. OutOK(k.cid, After(o, k))
  <2>1. After(o, k).left > 0 => After(o, k).left < k.msg.len /\ k.cid # Control
    <3>1. After(o, k).left = Left(o, k) - k.n
      BY DEF After
    <3>2. CASE o.left > 0
      <4>1. o.left < o.msg.len /\ k.cid # Control /\ k.msg = o.msg /\ Left(o, k) = o.left
        BY <1>2, <1>4, <3>2 DEF OutOK, NotUsed, IsNext, Left
      <4>2. k.msg.len \in Nat
        BY <1>1 DEF Message
      <4> QED
        BY <1>2, <1>3, <3>1, <4>1, <4>2
    <3>3. CASE ~(o.left > 0)
      <4>1. Left(o, k) = k.msg.len /\ k.msg.len \in Nat
        BY <1>1, <3>3 DEF Left, Message
      <4>2. k.cid = Control => k.msg.len = 1
        BY <1>1 DEF Messages
      <4> QED
        BY <1>1, <1>3, <3>1, <4>1, <4>2
    <3> QED
      BY <3>2, <3>3
  <2>2. After(o, k).ext # Absent => After(o, k).ext = k.msg.time /\ After(o, k).ext >= EXT
    <3>1. CASE o.left > 0
      BY <1>2, <1>4, <3>1 DEF After, OutOK, NotUsed, IsNext
    <3>2. CASE ~(o.left > 0)
      <4>1. After(o, k).ext = k.ext
        BY <3>2 DEF After
      <4>2. CASE k.fmt = 0
        <5>1. FirstOf(k, k.msg.time)
          BY <1>4, <3>2, <4>2 DEF IsNext
        <5> QED
          BY <4>1, <5>1 DEF FirstOf
      <4>3. CASE k.fmt # 0
        <5>1. FirstOf(k, Since(o, k)) /\ Since(o, k) \in 0..EXT - 1
          BY <1>4, <3>2, <4>3 DEF IsNext
        <5>2. ~(Since(o, k) >= EXT)
          BY <5>1, ChunkStreamAssumption
        <5> QED
          BY <4>1, <5>1, <5>2 DEF FirstOf
      <4> QED
        BY <4>2, <4>3
    <3> QED
      BY <3>1, <3>2
  <2>3. After(o, k).used /\ After(o, k).msg = k.msg
    BY DEF After
  <2> QED
    BY <1>1, <1>5, <2>1, <2>2, <2>3 DEF OutOK
<1>7. b.out = [a.out EXCEPT ![k.cid] = After(o, k)] /\ a.out \in [Cid -> OutState]
  BY DEF Cut, PeerOK, o
<1>8. b.out \in [Cid -> OutState] /\ \A c \in Cid : OutOK(c, b.out[c])
  BY <1>1, <1>5, <1>6, <1>7 DEF PeerOK
<1>9. b.size \in ChunkSizes /\ b.sent \in Seq(Message)
  BY <1>1 DEF Cut, PeerOK, Messages
<1> QED
  BY <1>8, <1>9 DEF PeerOK

------------------------------------------------------------------------------
(* The reader takes a chunk *)

\* The header is complete, field by field.
LEMMA TimedFields ==
  ASSUME NEW cs \in ChunkStreamState, NEW k \in Chunk
  PROVE  Timed(cs, k) =
           [fresh |-> FALSE,
            time |-> (IF TakesExt(cs, k) THEN k.ext ELSE Header(cs, k).time) % HALF,
            delta |-> IF k.fmt = 3 THEN cs.delta ELSE k.field,
            len |-> IF k.fmt <= 1 THEN k.msg.len ELSE cs.len,
            kind |-> IF k.fmt <= 1 THEN k.msg.kind ELSE cs.kind,
            extended |-> IF k.fmt = 3 THEN cs.extended ELSE k.field >= EXT,
            msg |-> TRUE, size |-> cs.size, payload |-> cs.payload]
<1> DEFINE t == (IF TakesExt(cs, k) THEN k.ext ELSE Header(cs, k).time) % HALF
<1>1. Timed(cs, k) = [Header(cs, k) EXCEPT !.fresh = FALSE, !.time = t]
  BY DEF Timed, Word
<1> HIDE DEF t
<1>2. Timed(cs, k) =
           [fresh |-> FALSE, time |-> t,
            delta |-> IF k.fmt = 3 THEN cs.delta ELSE k.field,
            len |-> IF k.fmt <= 1 THEN k.msg.len ELSE cs.len,
            kind |-> IF k.fmt <= 1 THEN k.msg.kind ELSE cs.kind,
            extended |-> IF k.fmt = 3 THEN cs.extended ELSE k.field >= EXT,
            msg |-> TRUE, size |-> cs.size, payload |-> cs.payload]
  BY <1>1 DEF Header, ChunkStreamState
<1> QED
  BY <1>2 DEF t

\* What the types of a chunk stream need of the header.
LEMMA TimedOK ==
  ASSUME NEW c \in Cid, NEW cs, StreamOK(c, cs), NEW k \in Chunks, k.cid = c,
         ~ChunkStart(cs, k), ~PacketSize(cs, k), TakesExt(cs, k) <=> k.ext # Absent
  PROVE  /\ StreamOK(c, Timed(cs, k))
         /\ Timed(cs, k).size = cs.size /\ Timed(cs, k).payload = cs.payload
         /\ c = Control => /\ ~cs.msg /\ Timed(cs, k).len = 1
                           /\ Timed(cs, k).kind = k.msg.kind
<1> DEFINE h == Timed(cs, k)
<1>1. /\ cs \in ChunkStreamState /\ k \in Chunk /\ k.msg \in Messages /\ k.msg \in Message
      /\ k.msg.cid = c
  BY DEF StreamOK, Chunks, Messages
<1>2. h = [fresh |-> FALSE,
           time |-> (IF TakesExt(cs, k) THEN k.ext ELSE Header(cs, k).time) % HALF,
           delta |-> IF k.fmt = 3 THEN cs.delta ELSE k.field,
           len |-> IF k.fmt <= 1 THEN k.msg.len ELSE cs.len,
           kind |-> IF k.fmt <= 1 THEN k.msg.kind ELSE cs.kind,
           extended |-> IF k.fmt = 3 THEN cs.extended ELSE k.field >= EXT,
           msg |-> TRUE, size |-> cs.size, payload |-> cs.payload]
  BY <1>1, TimedFields
<1>3. h.time \in Nat /\ h.time < HALF
  <2>1. Header(cs, k).time \in Nat
    <3>1. cs.time \in Nat /\ cs.delta \in Nat /\ k.field \in Nat
      BY <1>1 DEF ChunkStreamState, Chunk
    <3> QED
      BY <1>1, <3>1 DEF Header, ChunkStreamState
  <2>2. TakesExt(cs, k) => k.ext \in Nat
    BY <1>1 DEF Chunk
  <2>3. HALF \in Nat /\ HALF > 0
    BY ChunkStreamAssumption
  <2>4. \A t \in Nat : t % HALF \in Nat /\ t % HALF < HALF
    BY <2>3
  <2> QED
    BY <1>2, <2>1, <2>2, <2>4
<1>4. h.len \in Nat /\ h.kind \in Kinds /\ h.extended \in BOOLEAN /\ h.delta \in Nat
  <2>1. /\ k.msg.len \in Nat /\ cs.len \in Nat /\ k.msg.kind \in Kinds /\ cs.kind \in Kinds
        /\ cs.extended \in BOOLEAN /\ (k.field >= EXT) \in BOOLEAN
        /\ cs.delta \in Nat /\ k.field \in Nat
    BY <1>1 DEF Message, Chunk, ChunkStreamState
  <2>2. h.len \in Nat
    BY <1>2, <2>1
  <2>3. h.kind \in Kinds
    BY <1>2, <2>1
  <2>4. h.delta \in Nat
    BY <1>2, <2>1
  <2>5. h.extended = IF k.fmt = 3 THEN cs.extended ELSE k.field >= EXT
    BY <1>2
  <2>6. h.extended \in BOOLEAN
    <3>1. CASE k.fmt = 3
      BY <2>1, <2>5, <3>1
    <3>2. CASE k.fmt # 3
      <4>1. h.extended = (k.field >= EXT)
        BY <2>5, <3>2
      <4> QED
        BY <4>1
    <3> QED
      BY <3>1, <3>2
  <2> QED
    BY <2>2, <2>3, <2>4, <2>6
<1>5. cs.size \in Nat /\ cs.payload \in SUBSET Message
  BY <1>1 DEF ChunkStreamState
<1>6. h \in ChunkStreamState
  BY <1>2, <1>3, <1>4, <1>5 DEF ChunkStreamState
<1>7. h.size <= h.len
  <2>1. k.fmt \in 0..3 /\ k.msg.len \in Nat /\ cs.len \in Nat /\ cs.size <= cs.len
    BY <1>1 DEF Chunk, Message, ChunkStreamState, StreamOK
  <2>2. h.size = cs.size /\ h.len = IF k.fmt <= 1 THEN k.msg.len ELSE cs.len
    BY <1>2
  <2>3. CASE k.fmt <= 1
    <3>1. cs.size = 0 \/ cs.size = k.msg.len
      BY <1>5, <2>3 DEF PacketSize
    <3> QED
      BY <2>1, <2>2, <2>3, <3>1
  <2>4. CASE ~(k.fmt <= 1)
    BY <2>1, <2>2, <2>4
  <2> QED
    BY <2>3, <2>4
<1>8. c \in Media => h.kind = "media"
  BY <1>1, <1>2, ChunkStreamAssumption DEF StreamOK, Messages
<1>9. c = Control => ~cs.msg /\ h.len = 1 /\ h.kind = k.msg.kind
  <2> SUFFICES ASSUME c = Control PROVE ~cs.msg /\ h.len = 1 /\ h.kind = k.msg.kind
    OBVIOUS
  <2>1. k.fmt = 0 /\ k.msg.len = 1
    BY <1>1 DEF Chunks, Messages
  <2> QED
    BY <1>2, <2>1 DEF ChunkStart
<1> QED
  BY <1>2, <1>6, <1>3, <1>7, <1>8, <1>9 DEF StreamOK

------------------------------------------------------------------------------
(* What the reader makes of it *)

\* The chunk stream of the reader that is level with chunk stream o of the peer.
Understood(o) ==
  [fresh |-> ~o.used, time |-> o.msg.time, delta |-> o.field, len |-> o.msg.len,
   kind |-> o.msg.kind, extended |-> o.ext # Absent, msg |-> o.left > 0,
   size |-> IF o.left > 0 THEN o.msg.len - o.left ELSE 0,
   payload |-> IF o.left > 0 THEN {o.msg} ELSE {}]

\* The same with the header of the next chunk k read.
Opened(o, k) ==
  [fresh |-> FALSE, time |-> k.msg.time, delta |-> k.field, len |-> k.msg.len,
   kind |-> k.msg.kind, extended |-> After(o, k).ext # Absent, msg |-> TRUE,
   size |-> k.msg.len - Left(o, k),
   payload |-> IF o.left > 0 THEN {o.msg} ELSE {}]

\* What a timeout leaves of it that does no harm.
HalfRead(o, k, cs) ==
  \/ k.fmt \in {1, 2} /\ cs = [Understood(o) EXCEPT !.msg = TRUE]
  \/ k.fmt = 3 /\ cs = Opened(o, k)

Level(o, k, cs) == cs = Understood(o) \/ HalfRead(o, k, cs)

LEMMA UnderstoodIsState ==
  ASSUME NEW c, NEW o, OutOK(c, o)
  PROVE  Understood(o) \in ChunkStreamState
<1>1. /\ o.msg \in Message /\ o.msg.time \in Nat /\ o.msg.len \in Nat /\ o.msg.kind \in Kinds
      /\ o.left \in Nat /\ o.field \in Nat /\ o.used \in BOOLEAN
  BY ChunkStreamAssumption DEF OutOK, OutState, Message
<1>2. o.left > 0 => o.msg.len - o.left \in Nat
  BY <1>1 DEF OutOK, NotUsed
<1>3. (o.left > 0) \in BOOLEAN /\ (o.ext # Absent) \in BOOLEAN /\ (~o.used) \in BOOLEAN
  BY <1>1
<1> QED
  BY <1>1, <1>2, <1>3 DEF Understood, ChunkStreamState

\* The next chunk is read alike from each of these states: it is not refused, its
\* extended timestamp is found, and the header says what the peer meant.
LEMMA NextIsOpened ==
  ASSUME Times \subseteq 0..HALF - 1,
         NEW o, NEW k \in Chunks, OutOK(k.cid, o), IsNext(o, k), NEW cs, Level(o, k, cs)
  PROVE  /\ ~ChunkStart(cs, k) /\ ~PacketSize(cs, k)
         /\ TakesExt(cs, k) <=> k.ext # Absent
         /\ Timed(cs, k) = Opened(o, k)
<1> USE ChunkStreamAssumption
<1>1. /\ k \in Chunk /\ k.msg \in Messages /\ k.msg \in Message /\ k.fmt \in 0..3
      /\ k.msg.time \in 0..HALF - 1 /\ k.msg.len \in Nat /\ k.msg.kind \in Kinds
  BY DEF Chunks, Messages, Message, Chunk
<1>2. /\ o \in OutState /\ o.msg \in Message /\ o.left \in Nat /\ o.field \in Nat
      /\ o.msg.time \in Nat /\ o.msg.len \in Nat
  BY DEF OutOK, OutState, Message
<1>3. Understood(o) \in ChunkStreamState
  BY UnderstoodIsState
<1>4. CASE o.left > 0
  <2>1. k.msg = o.msg /\ k.fmt = 3 /\ k.field = o.field /\ k.ext \in {o.ext, Absent}
    BY <1>4 DEF IsNext
  <2>2. o.used /\ (o.ext # Absent => o.ext = o.msg.time /\ o.ext >= EXT)
    BY <1>4 DEF OutOK, NotUsed
  <2>3. Opened(o, k) = Understood(o)
    BY <1>4, <2>1, <2>2 DEF Opened, Understood, After, Left
  <2>4. cs = Understood(o)
    BY <2>1, <2>3 DEF Level, HalfRead
  <2>5. /\ cs.msg /\ ~cs.fresh /\ cs.time = o.msg.time /\ (cs.extended <=> o.ext # Absent)
        /\ cs.extended \in BOOLEAN
    BY <1>4, <2>2, <2>4 DEF Understood
  <2>6. ~ChunkStart(cs, k) /\ ~PacketSize(cs, k)
    BY <2>1, <2>5 DEF ChunkStart, PacketSize
  <2>7. Header(cs, k).extended = cs.extended /\ Header(cs, k).time = cs.time
    <3>1. cs \in ChunkStreamState
      BY <1>3, <2>4
    <3> QED
      BY <1>1, <2>1, <2>5, <3>1, HeaderFields
  <2>8. TakesExt(cs, k) <=> k.ext # Absent
    <3>1. TakesExt(cs, k) <=> cs.extended /\ (cs.time > 0 => cs.time = k.ext)
      BY <2>5, <2>7 DEF TakesExt, Word
    <3>2. CASE cs.extended
      BY <1>2, <2>1, <2>2, <2>5, <3>1, <3>2 DEF Absent
    <3>3. CASE ~cs.extended
      BY <2>1, <2>5, <3>1, <3>3
    <3> QED
      BY <3>2, <3>3
  <2>9. (IF TakesExt(cs, k) THEN k.ext ELSE Header(cs, k).time) % HALF = cs.time
    <3>1. (IF TakesExt(cs, k) THEN k.ext ELSE Header(cs, k).time) = cs.time
      BY <2>1, <2>2, <2>5, <2>7, <2>8
    <3>2. cs.time \in Nat /\ cs.time < HALF
      BY <1>1, <2>1, <2>5
    <3> QED
      BY <3>1, <3>2, BelowHalf
  <2>10. Timed(cs, k) = cs
    <3>1. cs \in ChunkStreamState
      BY <1>3, <2>4
    <3>2. Timed(cs, k) = [fresh |-> FALSE, time |-> cs.time, delta |-> cs.delta, len |-> cs.len,
                          kind |-> cs.kind, extended |-> cs.extended, msg |-> TRUE,
                          size |-> cs.size, payload |-> cs.payload]
      BY <1>1, <2>1, <2>9, <3>1, TimedFields
    <3> QED
      BY <2>5, <3>1, <3>2 DEF ChunkStreamState
  <2> QED
    BY <2>3, <2>4, <2>6, <2>8, <2>10
<1>5. CASE ~(o.left > 0)
  <2>1. Left(o, k) = k.msg.len /\ After(o, k).ext = k.ext
    BY <1>5 DEF Left, After
  <2>2. Opened(o, k) =
          [fresh |-> FALSE, time |-> k.msg.time, delta |-> k.field, len |-> k.msg.len,
           kind |-> k.msg.kind, extended |-> k.ext # Absent, msg |-> TRUE, size |-> 0, payload |-> {}]
    <3>1. k.msg.len - Left(o, k) = 0 /\ (IF o.left > 0 THEN {o.msg} ELSE {}) = {}
      BY <1>1, <1>5, <2>1
    <3> QED
      BY <2>1, <3>1 DEF Opened
  <2>3. Understood(o) =
          [fresh |-> ~o.used, time |-> o.msg.time, delta |-> o.field, len |-> o.msg.len,
           kind |-> o.msg.kind, extended |-> o.ext # Absent, msg |-> FALSE, size |-> 0, payload |-> {}]
    <3>1. /\ (o.left > 0) = FALSE
          /\ (IF o.left > 0 THEN {o.msg} ELSE {}) = {}
          /\ (IF o.left > 0 THEN o.msg.len - o.left ELSE 0) = 0
      BY <1>5
    <3> QED
      BY <3>1 DEF Understood
  <2>4. CASE k.fmt = 0
    <3>1. FirstOf(k, k.msg.time)
      BY <1>5, <2>4 DEF IsNext
    <3>2. cs = Understood(o) /\ cs \in ChunkStreamState /\ ~cs.msg /\ cs.size = 0 /\ cs.payload = {}
      <4>1. cs = Understood(o)
        BY <2>4 DEF Level, HalfRead
      <4> QED
        BY <1>3, <2>3, <4>1
    <3>3. /\ TakesExt(cs, k) <=> k.ext # Absent
          /\ Timed(cs, k).time = k.msg.time
          /\ Timed(cs, k).extended <=> k.msg.time >= EXT
      BY <1>1, <2>4, <3>1, <3>2, FirstChunkIsUnderstood
    <3>4. k.ext # Absent <=> k.msg.time >= EXT
      BY <1>1, <3>1 DEF FirstOf, Absent
    <3>5. (IF TakesExt(cs, k) THEN k.ext ELSE Header(cs, k).time) % HALF = k.msg.time
      BY <1>1, <3>2, <3>3, HeaderFields
    <3>6. (k.field >= EXT) = (k.ext # Absent)
      <4>1. k.field >= EXT <=> k.msg.time >= EXT
        BY <1>1, <3>1 DEF FirstOf, Smaller
      <4> QED
        BY <3>4, <4>1
    <3>7. Timed(cs, k) = Opened(o, k)
      BY <1>1, <2>2, <2>4, <3>2, <3>5, <3>6, TimedFields
    <3>8. ~ChunkStart(cs, k) /\ ~PacketSize(cs, k)
      BY <2>4, <3>2 DEF ChunkStart, PacketSize
    <3> QED
      BY <3>3, <3>7, <3>8
  <2>5. CASE k.fmt # 0
    <3>1. /\ o.used /\ o.ext = Absent /\ Since(o, k) \in 0..EXT - 1 /\ FirstOf(k, Since(o, k))
          /\ (k.fmt >= 2 => k.msg.len = o.msg.len /\ k.msg.kind = o.msg.kind)
          /\ (k.fmt = 3 => Since(o, k) = o.field)
      BY <1>5, <2>5 DEF IsNext
    <3>2. k.field = Since(o, k) /\ k.ext = Absent /\ ~(k.field >= EXT)
      BY <3>1 DEF FirstOf, Smaller
    <3>3. o.msg.time + Since(o, k) = k.msg.time
      BY <1>1, <1>2 DEF Since
    <3>7. Understood(o) =
            [fresh |-> FALSE, time |-> o.msg.time, delta |-> o.field, len |-> o.msg.len,
             kind |-> o.msg.kind, extended |-> FALSE, msg |-> FALSE, size |-> 0, payload |-> {}]
      <4>1. (~o.used) = FALSE /\ (o.ext # Absent) = FALSE
        BY <3>1
      <4> QED
        BY <2>3, <4>1
    <3>8. Opened(o, k) =
            [fresh |-> FALSE, time |-> k.msg.time, delta |-> k.field, len |-> k.msg.len,
             kind |-> k.msg.kind, extended |-> FALSE, msg |-> TRUE, size |-> 0, payload |-> {}]
      <4>1. (k.ext # Absent) = FALSE
        BY <3>2
      <4> QED
        BY <2>2, <4>1
    <3>9. (k.field >= EXT) = FALSE
      BY <3>2
    <3>4. CASE cs = Understood(o)
      <4>1. /\ cs \in ChunkStreamState /\ ~cs.msg /\ cs.size = 0 /\ cs.payload = {} /\ ~cs.fresh
            /\ cs.time = o.msg.time /\ cs.delta = o.field /\ ~cs.extended
            /\ cs.len = o.msg.len /\ cs.kind = o.msg.kind
        BY <1>3, <3>4, <3>7
      <4>2. Since(o, k) \in Nat /\ Since(o, k) < EXT /\ cs.time + Since(o, k) < HALF
        BY <1>1, <3>1, <3>3, <4>1
      <4>3. /\ ~TakesExt(cs, k)
            /\ Timed(cs, k).time = k.msg.time
        BY <1>1, <2>5, <3>1, <3>3, <4>1, <4>2, DeltaIsUnderstood
      <4>4. (IF TakesExt(cs, k) THEN k.ext ELSE Header(cs, k).time) % HALF = k.msg.time
        BY <1>1, <4>1, <4>3, HeaderFields
      <4>5. Timed(cs, k) = Opened(o, k)
        <5>1. Timed(cs, k) =
                [fresh |-> FALSE, time |-> k.msg.time,
                 delta |-> IF k.fmt = 3 THEN cs.delta ELSE k.field,
                 len |-> IF k.fmt <= 1 THEN k.msg.len ELSE cs.len,
                 kind |-> IF k.fmt <= 1 THEN k.msg.kind ELSE cs.kind,
                 extended |-> IF k.fmt = 3 THEN cs.extended ELSE k.field >= EXT,
                 msg |-> TRUE, size |-> cs.size, payload |-> cs.payload]
          BY <1>1, <4>1, <4>4, TimedFields
        <5>2. /\ (IF k.fmt = 3 THEN cs.delta ELSE k.field) = k.field
              /\ (IF k.fmt <= 1 THEN k.msg.len ELSE cs.len) = k.msg.len
              /\ (IF k.fmt <= 1 THEN k.msg.kind ELSE cs.kind) = k.msg.kind
          BY <1>1, <3>1, <3>2, <4>1
        <5>3. (IF k.fmt = 3 THEN cs.extended ELSE k.field >= EXT) = FALSE
          BY <3>9, <4>1 DEF ChunkStreamState
        <5> QED
          BY <3>8, <4>1, <5>1, <5>2, <5>3
      <4>6. ~ChunkStart(cs, k) /\ ~PacketSize(cs, k)
        BY <2>5, <4>1 DEF ChunkStart, PacketSize
      <4> QED
        BY <3>2, <4>3, <4>5, <4>6
    <3>5. CASE k.fmt \in {1, 2} /\ cs = [Understood(o) EXCEPT !.msg = TRUE]
      <4>1. /\ cs \in ChunkStreamState /\ cs.msg /\ cs.size = 0 /\ cs.payload = {}
            /\ cs.time = o.msg.time /\ cs.len = o.msg.len /\ cs.kind = o.msg.kind
        <5>1. cs = [fresh |-> FALSE, time |-> o.msg.time, delta |-> o.field, len |-> o.msg.len,
                    kind |-> o.msg.kind, extended |-> FALSE, msg |-> TRUE, size |-> 0, payload |-> {}]
          <6> DEFINE u == [fresh |-> FALSE, time |-> o.msg.time, delta |-> o.field,
                           len |-> o.msg.len, kind |-> o.msg.kind, extended |-> FALSE,
                           msg |-> FALSE, size |-> 0, payload |-> {}]
          <6>1. cs = [u EXCEPT !.msg = TRUE]
            BY <3>5, <3>7
          <6> QED
            BY <6>1
        <5>2. o.msg.kind \in Kinds
          BY <1>2 DEF Message
        <5> QED
          BY <1>2, <5>1, <5>2 DEF ChunkStreamState
      <4>2. ~Header(cs, k).extended /\ Header(cs, k).time = k.msg.time
        <5>1. Header(cs, k).extended = (k.field >= EXT)
          BY <1>1, <3>5, <4>1, HeaderFields
        <5>2. Header(cs, k).delta = k.field /\ k.fmt # 3 /\ k.fmt # 0
          BY <1>1, <3>5, <4>1, HeaderFields
        <5>3. Header(cs, k).time = cs.time + k.field
          BY <3>2, <4>1, <5>2 DEF Header, ChunkStreamState
        <5> QED
          BY <3>2, <3>3, <4>1, <5>1, <5>3
      <4>3. ~TakesExt(cs, k)
        BY <4>2 DEF TakesExt
      <4>4. k.msg.time % HALF = k.msg.time
        BY <1>1, BelowHalf
      <4>5. Timed(cs, k) = Opened(o, k)
        <5>1. Timed(cs, k) =
                [fresh |-> FALSE, time |-> k.msg.time,
                 delta |-> IF k.fmt = 3 THEN cs.delta ELSE k.field,
                 len |-> IF k.fmt <= 1 THEN k.msg.len ELSE cs.len,
                 kind |-> IF k.fmt <= 1 THEN k.msg.kind ELSE cs.kind,
                 extended |-> IF k.fmt = 3 THEN cs.extended ELSE k.field >= EXT,
                 msg |-> TRUE, size |-> cs.size, payload |-> cs.payload]
          BY <1>1, <4>1, <4>2, <4>3, <4>4, TimedFields
        <5>2. /\ (IF k.fmt = 3 THEN cs.delta ELSE k.field) = k.field
              /\ (IF k.fmt <= 1 THEN k.msg.len ELSE cs.len) = k.msg.len
              /\ (IF k.fmt <= 1 THEN k.msg.kind ELSE cs.kind) = k.msg.kind
          BY <1>1, <3>1, <3>5, <4>1
        <5>3. (IF k.fmt = 3 THEN cs.extended ELSE k.field >= EXT) = FALSE
          BY <3>9, <3>5, <4>1 DEF ChunkStreamState
        <5> QED
          BY <3>8, <4>1, <5>1, <5>2, <5>3
      <4>6. ~ChunkStart(cs, k) /\ ~PacketSize(cs, k)
        BY <2>5, <4>1 DEF ChunkStart, PacketSize
      <4> QED
        BY <3>2, <4>3, <4>5, <4>6
    <3>6. CASE k.fmt = 3 /\ cs = Opened(o, k)
      <4>1. /\ cs \in ChunkStreamState /\ cs.msg /\ cs.size = 0 /\ cs.payload = {} /\ ~cs.fresh
            /\ cs.time = k.msg.time /\ cs.len = k.msg.len /\ cs.kind = k.msg.kind
            /\ ~cs.extended /\ cs.delta = k.field
        <5>1. k.field \in Nat /\ k.msg.time \in Nat
          BY <1>1 DEF Chunk, Message
        <5> QED
          BY <1>1, <3>6, <3>8, <5>1 DEF ChunkStreamState
      <4>2. ~Header(cs, k).extended /\ Header(cs, k).time = k.msg.time
        BY <1>1, <3>6, <4>1, HeaderFields
      <4>3. ~TakesExt(cs, k)
        BY <4>2 DEF TakesExt
      <4>4. k.msg.time % HALF = k.msg.time
        BY <1>1, BelowHalf
      <4>5. Timed(cs, k) = Opened(o, k)
        <5>1. Timed(cs, k) =
                [fresh |-> FALSE, time |-> k.msg.time,
                 delta |-> IF k.fmt = 3 THEN cs.delta ELSE k.field,
                 len |-> IF k.fmt <= 1 THEN k.msg.len ELSE cs.len,
                 kind |-> IF k.fmt <= 1 THEN k.msg.kind ELSE cs.kind,
                 extended |-> IF k.fmt = 3 THEN cs.extended ELSE k.field >= EXT,
                 msg |-> TRUE, size |-> cs.size, payload |-> cs.payload]
          BY <1>1, <4>1, <4>2, <4>3, <4>4, TimedFields
        <5>2. /\ (IF k.fmt = 3 THEN cs.delta ELSE k.field) = k.field
              /\ (IF k.fmt <= 1 THEN k.msg.len ELSE cs.len) = k.msg.len
              /\ (IF k.fmt <= 1 THEN k.msg.kind ELSE cs.kind) = k.msg.kind
          BY <1>1, <3>1, <3>6, <4>1
        <5>3. (IF k.fmt = 3 THEN cs.extended ELSE k.field >= EXT) = FALSE
          BY <3>9, <3>6, <4>1 DEF ChunkStreamState
        <5> QED
          BY <3>8, <4>1, <5>1, <5>2, <5>3
      <4>6. ~ChunkStart(cs, k) /\ ~PacketSize(cs, k)
        BY <2>5, <4>1 DEF ChunkStart, PacketSize
      <4> QED
        BY <3>2, <4>3, <4>5, <4>6
    <3> QED
      BY <3>4, <3>5, <3>6 DEF Level, HalfRead
  <2> QED
    BY <2>4, <2>5
<1> QED
  BY <1>4, <1>5

\* Records of the state of a chunk stream, field by field.
LEMMA SameState ==
  ASSUME NEW s \in ChunkStreamState, NEW t \in ChunkStreamState,
         s.fresh = t.fresh, s.time = t.time, s.delta = t.delta, s.len = t.len, s.kind = t.kind,
         s.extended = t.extended, s.msg = t.msg, s.size = t.size, s.payload = t.payload
  PROVE  s = t
BY DEF ChunkStreamState

LEMMA NewMessageFields ==
  ASSUME NEW h \in ChunkStreamState
  PROVE  LET s == NewMessage(h) IN
           /\ s \in ChunkStreamState
           /\ s.fresh = h.fresh /\ s.time = h.time /\ s.delta = h.delta /\ s.len = h.len
           /\ s.kind = h.kind /\ s.extended = h.extended
           /\ ~s.msg /\ s.size = 0 /\ s.payload = {}
BY DEF NewMessage, ChunkStreamState

LEMMA PartFields ==
  ASSUME NEW h \in ChunkStreamState, NEW n \in Nat, NEW m \in Message
  PROVE  LET s == [h EXCEPT !.size = @ + n, !.payload = @ \cup {m}] IN
           /\ s \in ChunkStreamState
           /\ s.fresh = h.fresh /\ s.time = h.time /\ s.delta = h.delta /\ s.len = h.len
           /\ s.kind = h.kind /\ s.extended = h.extended /\ s.msg = h.msg
           /\ s.size = h.size + n /\ s.payload = h.payload \cup {m}
<1>1. h.size + n \in Nat /\ h.payload \cup {m} \in SUBSET Message
  BY DEF ChunkStreamState
<1>2. \A size \in Nat, payload \in SUBSET Message :
        LET s == [h EXCEPT !.size = size, !.payload = payload] IN
          /\ s \in ChunkStreamState
          /\ s.fresh = h.fresh /\ s.time = h.time /\ s.delta = h.delta /\ s.len = h.len
          /\ s.kind = h.kind /\ s.extended = h.extended /\ s.msg = h.msg
          /\ s.size = size /\ s.payload = payload
  BY DEF ChunkStreamState
<1> QED
  BY <1>1, <1>2

LEMMA OpenedFields ==
  ASSUME NEW o, NEW k
  PROVE  LET h == Opened(o, k) IN
           /\ ~h.fresh /\ h.time = k.msg.time /\ h.delta = k.field /\ h.len = k.msg.len
           /\ h.kind = k.msg.kind /\ (h.extended <=> After(o, k).ext # Absent) /\ h.msg
           /\ h.size = k.msg.len - Left(o, k)
           /\ h.payload = IF o.left > 0 THEN {o.msg} ELSE {}
BY DEF Opened

LEMMA UnderstoodFields ==
  ASSUME NEW o
  PROVE  LET h == Understood(o) IN
           /\ (h.fresh <=> ~o.used) /\ h.time = o.msg.time /\ h.delta = o.field /\ h.len = o.msg.len
           /\ h.kind = o.msg.kind /\ (h.extended <=> o.ext # Absent) /\ (h.msg <=> o.left > 0)
           /\ h.size = IF o.left > 0 THEN o.msg.len - o.left ELSE 0
           /\ h.payload = IF o.left > 0 THEN {o.msg} ELSE {}
BY DEF Understood

\* The payload brings the reader level with the peer again: the message goes on, or
\* is complete and is the one the peer sent.
LEMMA OpenedIsRead ==
  ASSUME NEW o, NEW k \in Chunks, OutOK(k.cid, o), IsNext(o, k),
         NEW size \in ChunkSizes, k.n = Smaller(Left(o, k), size)
  PROVE  LET h == Opened(o, k)
             part == [h EXCEPT !.size = @ + k.n, !.payload = @ \cup {k.msg}]
         IN /\ h.len = k.msg.len /\ Smaller(h.len - h.size, size) = k.n
            /\ part.size <= h.len
            /\ h.len = 0 \/ part.size = h.len =>
                 Left(o, k) = k.n /\ NewMessage(h) = Understood(After(o, k))
            /\ h.len > 0 /\ part.size = h.len => Entire(part, k.cid) = k.msg
            /\ part.size < h.len => Left(o, k) # k.n /\ part = Understood(After(o, k))
<1> DEFINE h == Opened(o, k)
           part == [h EXCEPT !.size = @ + k.n, !.payload = @ \cup {k.msg}]
           a == After(o, k)
<1>1. /\ k \in Chunk /\ k.msg \in Message /\ k.msg.cid = k.cid /\ k.msg.len \in Nat
  BY DEF Chunks, Messages, Message
<1>2. /\ o \in OutState /\ o.left \in Nat
  BY DEF OutOK, OutState
<1>3. /\ Left(o, k) \in Nat /\ Left(o, k) <= k.msg.len
      /\ (o.left > 0 => Left(o, k) = o.left /\ o.msg = k.msg)
      /\ (~(o.left > 0) => Left(o, k) = k.msg.len)
  <2>1. CASE o.left > 0
    BY <1>1, <1>2, <2>1 DEF IsNext, Left, OutOK, NotUsed
  <2>2. CASE ~(o.left > 0)
    BY <1>1, <2>2 DEF Left
  <2> QED
    BY <2>1, <2>2
<1>4. /\ k.n \in Nat /\ k.n <= Left(o, k) /\ (Left(o, k) > 0 => k.n > 0)
  BY <1>3, PartLeaves
<1> DEFINE l == Left(o, k)
<1>5. /\ h.len = k.msg.len /\ h.size = k.msg.len - l /\ part.size = k.msg.len - l + k.n
      /\ part.payload = {k.msg}
  <2>1. /\ h.len = k.msg.len /\ h.size = k.msg.len - l
        /\ h.payload = IF o.left > 0 THEN {o.msg} ELSE {}
    BY DEF Opened
  <2>2. h.payload \cup {k.msg} = {k.msg}
    BY <1>3, <2>1
  <2>3. part.size = h.size + k.n /\ part.payload = h.payload \cup {k.msg}
    BY DEF Opened
  <2> HIDE DEF h, part
  <2> QED
    BY <2>1, <2>2, <2>3
<1>6. Smaller(h.len - h.size, size) = k.n
  <2>1. h.len - h.size = l
    <3> HIDE DEF h
    <3> QED
      BY <1>1, <1>3, <1>5
  <2> QED
    BY <2>1
<1>7. part.size <= h.len
  <2> HIDE DEF h, part
  <2> QED
    BY <1>1, <1>3, <1>4, <1>5
<1>12. h \in ChunkStreamState /\ part \in ChunkStreamState /\ Understood(a) \in ChunkStreamState
  <2>1. k.msg.len - l \in Nat /\ (IF o.left > 0 THEN {o.msg} ELSE {}) \in SUBSET Message
    BY <1>1, <1>3
  <2>2. /\ k.msg.time \in Nat /\ k.field \in Nat /\ k.msg.kind \in Kinds
        /\ (After(o, k).ext # Absent) \in BOOLEAN
    BY <1>1 DEF Message, Chunk
  <2>3. h \in ChunkStreamState
    BY <1>1, <2>1, <2>2 DEF Opened, ChunkStreamState
  <2>4. part \in ChunkStreamState
    <3> HIDE DEF h
    <3> QED
      BY <1>1, <1>4, <2>3, PartFields
  <2>5. Understood(a) \in ChunkStreamState
    <3>1. a.left \in Nat /\ a.left <= a.msg.len /\ a.used
      <4>1. a.left = l - k.n /\ a.msg = k.msg /\ a.used
        BY DEF After
      <4> HIDE DEF a
      <4> QED
        BY <1>1, <1>3, <1>4, <4>1
    <3>2. a.msg = k.msg /\ a.field = k.field
      BY DEF After
    <3>3. (a.left > 0) \in BOOLEAN /\ (a.ext # Absent) \in BOOLEAN /\ (~a.used) \in BOOLEAN
      BY <3>1
    <3>4. (IF a.left > 0 THEN a.msg.len - a.left ELSE 0) \in Nat
          /\ (IF a.left > 0 THEN {a.msg} ELSE {}) \in SUBSET Message
      <4> HIDE DEF a
      <4> QED
        BY <1>1, <3>1, <3>2
    <3> HIDE DEF a
    <3> QED
      BY <1>1, <2>2, <3>2, <3>3, <3>4 DEF Understood, ChunkStreamState
  <2> QED
    BY <2>3, <2>4, <2>5
<1>13. /\ ~h.fresh /\ h.time = k.msg.time /\ h.delta = k.field /\ h.kind = k.msg.kind
       /\ (h.extended <=> a.ext # Absent) /\ h.msg
  BY DEF Opened
<1>14. /\ ~Understood(a).fresh /\ Understood(a).time = k.msg.time
       /\ Understood(a).delta = k.field /\ Understood(a).len = k.msg.len
       /\ Understood(a).kind = k.msg.kind /\ (Understood(a).extended <=> a.ext # Absent)
       /\ (Understood(a).msg <=> a.left > 0)
       /\ Understood(a).size = IF a.left > 0 THEN k.msg.len - a.left ELSE 0
       /\ Understood(a).payload = IF a.left > 0 THEN {k.msg} ELSE {}
  <2>1. a.used /\ a.msg = k.msg /\ a.field = k.field
    BY DEF After
  <2> HIDE DEF a
  <2> QED
    BY <2>1, UnderstoodFields
<1>15. a.left = l - k.n
  BY DEF After
<1>9. ASSUME h.len = 0 \/ part.size = h.len
      PROVE  l = k.n /\ NewMessage(h) = Understood(a)
  <2>1. l = k.n
    <3> HIDE DEF h, part
    <3> QED
      BY <1>1, <1>3, <1>4, <1>5, <1>9
  <2>2. ~(a.left > 0)
    BY <1>3, <1>15, <2>1
  <2> HIDE DEF h, part, a
  <2>3. LET s == NewMessage(h)
            t == Understood(a)
        IN /\ s \in ChunkStreamState /\ t \in ChunkStreamState
           /\ s.time = t.time /\ s.delta = t.delta /\ s.len = t.len /\ s.kind = t.kind
           /\ s.size = t.size /\ s.payload = t.payload
    BY <1>5, <1>12, <1>13, <1>14, <2>2, NewMessageFields
  <2>4. LET s == NewMessage(h)
            t == Understood(a)
        IN s.fresh = t.fresh /\ s.extended = t.extended /\ s.msg = t.msg
    BY <1>12, <1>13, <1>14, <2>2, NewMessageFields DEF ChunkStreamState
  <2> QED
    BY <2>1, <2>3, <2>4, SameState
<1>10. Entire(part, k.cid) = k.msg
  <2>1. part.payload = {k.msg} /\ Cardinality({k.msg}) = 1
    BY <1>5, FS_Singleton
  <2>2. (CHOOSE m \in {k.msg} : TRUE) = k.msg
    OBVIOUS
  <2>3. part.time = k.msg.time /\ part.kind = k.msg.kind /\ part.len = k.msg.len
    BY DEF Opened
  <2> HIDE DEF part
  <2>4. Entire(part, k.cid) = [id |-> k.msg.id, cid |-> k.cid, kind |-> k.msg.kind,
                               time |-> k.msg.time, len |-> k.msg.len, val |-> k.msg.val]
    BY <2>1, <2>2, <2>3 DEF Entire
  <2> QED
    BY <1>1, <2>4 DEF Message
<1>11. ASSUME part.size < h.len
       PROVE  l # k.n /\ part = Understood(a)
  <2>1. l # k.n /\ l - k.n > 0
    <3> HIDE DEF h, part
    <3> QED
      BY <1>1, <1>3, <1>4, <1>5, <1>11
  <2>2. a.left = l - k.n /\ a.used /\ a.field = k.field /\ a.msg = k.msg
    BY DEF After
  <2> HIDE DEF h, a
  <2>3. /\ part.fresh = h.fresh /\ part.time = h.time /\ part.delta = h.delta /\ part.len = h.len
        /\ part.kind = h.kind /\ part.extended = h.extended /\ part.msg = h.msg
    BY <1>12 DEF ChunkStreamState
  <2> HIDE DEF part
  <2>4. /\ part.time = Understood(a).time /\ part.delta = Understood(a).delta
        /\ part.len = Understood(a).len /\ part.kind = Understood(a).kind
        /\ part.payload = Understood(a).payload
    BY <1>5, <1>13, <1>14, <2>1, <2>2, <2>3
  <2>5. part.size = Understood(a).size
    <3>1. a.left = l - k.n /\ a.left > 0
      BY <2>1, <2>2
    <3>2. k.msg.len - (l - k.n) = k.msg.len - l + k.n
      BY <1>1, <1>3, <1>4
    <3> QED
      BY <1>5, <1>14, <3>1, <3>2
  <2>6. /\ part.fresh = Understood(a).fresh /\ part.extended = Understood(a).extended
        /\ part.msg = Understood(a).msg
    BY <1>12, <1>13, <1>14, <2>1, <2>2, <2>3 DEF ChunkStreamState
  <2> QED
    BY <1>12, <2>1, <2>4, <2>5, <2>6, SameState
<1> HIDE DEF h, part, a
<1> QED
  BY <1>5, <1>6, <1>7, <1>9, <1>10, <1>11 DEF h, part, a

\* A timeout that is not among the harmful ones leaves the reader level.
LEMMA TimeoutKeepsLevel ==
  ASSUME Times \subseteq 0..HALF - 1,
         NEW o, NEW k \in Chunks, OutOK(k.cid, o), IsNext(o, k), NEW cs, Level(o, k, cs)
  PROVE  /\ k.fmt \in {1, 2} => /\ Level(o, k, [cs EXCEPT !.msg = TRUE])
                                /\ ~Header(cs, k).extended
         /\ k.fmt = 3 => Level(o, k, Timed(cs, k))
         /\ k.fmt = 3 /\ k.ext # Absent => Level(o, k, Header(cs, k))
<1>1. /\ k \in Chunk /\ k.fmt \in 0..3
  BY DEF Chunks, Chunk
<1>2. Understood(o) \in ChunkStreamState
  BY UnderstoodIsState
<1>3. ASSUME k.fmt \in {1, 2}
      PROVE  Level(o, k, [cs EXCEPT !.msg = TRUE]) /\ ~Header(cs, k).extended
  <2>1. cs = Understood(o) \/ cs = [Understood(o) EXCEPT !.msg = TRUE]
    BY <1>3 DEF Level, HalfRead
  <2>2. [cs EXCEPT !.msg = TRUE] = [Understood(o) EXCEPT !.msg = TRUE]
    BY <1>2, <2>1 DEF ChunkStreamState
  <2>3. Level(o, k, [cs EXCEPT !.msg = TRUE])
    BY <1>3, <2>2 DEF Level, HalfRead
  <2>4. cs \in ChunkStreamState
    BY <1>2, <2>1 DEF ChunkStreamState
  <2>5. Header(cs, k).extended = (k.field >= EXT)
    BY <1>1, <1>3, <2>4, HeaderFields
  <2>6. ~(k.field >= EXT)
    <3>1. ~(o.left > 0)
      BY <1>3 DEF IsNext
    <3>2. FirstOf(k, Since(o, k)) /\ Since(o, k) \in 0..EXT - 1
      BY <1>3, <3>1 DEF IsNext
    <3> QED
      BY <3>2, ChunkStreamAssumption DEF FirstOf, Smaller
  <2> QED
    BY <2>3, <2>5, <2>6
<1>4. k.fmt = 3 => Level(o, k, Timed(cs, k))
  BY NextIsOpened DEF Level, HalfRead
<1>5. ASSUME k.fmt = 3, k.ext # Absent
      PROVE  Level(o, k, Header(cs, k))
  <2>1. o.left > 0
    <3> SUFFICES ASSUME ~(o.left > 0) PROVE FALSE
      OBVIOUS
    <3>1. FirstOf(k, Since(o, k)) /\ Since(o, k) \in 0..EXT - 1
      BY <1>5 DEF IsNext
    <3>2. ~(Since(o, k) >= EXT)
      BY <3>1, ChunkStreamAssumption
    <3> QED
      BY <1>5, <3>1, <3>2 DEF FirstOf
  <2>2. k.msg = o.msg /\ k.field = o.field /\ o.used
    BY <2>1 DEF IsNext, OutOK, NotUsed
  <2>3. Opened(o, k) = Understood(o)
    BY <2>1, <2>2 DEF Opened, Understood, After, Left
  <2>4. cs = Understood(o) /\ cs.msg
    <3>1. cs = Understood(o)
      BY <1>5, <2>3 DEF Level, HalfRead
    <3>2. Understood(o).msg <=> o.left > 0
      BY DEF Understood
    <3> QED
      BY <2>1, <3>1, <3>2
  <2>5. Header(cs, k) = cs
    <3>1. cs \in ChunkStreamState /\ cs.msg = TRUE
      BY <1>2, <2>4 DEF ChunkStreamState
    <3> QED
      <4>1. /\ Header(cs, k).time = cs.time
            /\ Header(cs, k).delta = cs.delta /\ Header(cs, k).len = cs.len
            /\ Header(cs, k).kind = cs.kind
            /\ Header(cs, k).size = cs.size /\ Header(cs, k).payload = cs.payload
        BY <1>5, <3>1 DEF Header, ChunkStreamState
      <4>2. Header(cs, k).extended = cs.extended
        BY <1>1, <1>5, <3>1, HeaderFields
      <4>3. Header(cs, k).fresh = cs.fresh /\ Header(cs, k).msg = cs.msg
        BY <3>1 DEF Header, ChunkStreamState
      <4>4. Header(cs, k) \in ChunkStreamState
        <5> DEFINE h == Header(cs, k)
        <5>1. h = [cs EXCEPT !.msg = h.msg, !.extended = h.extended, !.delta = h.delta,
                             !.time = h.time, !.len = h.len, !.kind = h.kind]
          BY <3>1 DEF Header, ChunkStreamState
        <5> HIDE DEF h
        <5>2. h = [cs EXCEPT !.msg = cs.msg, !.extended = cs.extended, !.delta = cs.delta,
                             !.time = cs.time, !.len = cs.len, !.kind = cs.kind]
          BY <4>1, <4>2, <4>3, <5>1 DEF h
        <5>3. h \in ChunkStreamState
          BY <3>1, <5>2 DEF ChunkStreamState
        <5> QED
          BY <5>3 DEF h
      <4> QED
        BY <3>1, <4>1, <4>2, <4>3, <4>4, SameState
  <2> QED
    BY <2>4, <2>5 DEF Level
<1> QED
  BY <1>3, <1>4, <1>5

------------------------------------------------------------------------------
(* The types *)

\* The state of the peer.
Now == [out |-> out, size |-> out_chunk_size, sent |-> sent]

\* TypeOK, and what it needs: a message on the wire was begun by one of the actions
\* of the peer, and no bytes are left in a chunk stream between two messages.
Typed ==
  /\ peer \in Peers /\ PeerOK(Now)
  /\ begun \in Nat /\ owed \in Nat /\ ack_window \in Nat /\ unacked \in Nat
  /\ wire \in Seq(Chunks)
  /\ chunk_streams \in [Cid -> ChunkStreamState]
  /\ \A c \in Cid : StreamOK(c, chunk_streams[c])
  /\ in_chunk_size \in ChunkSizes /\ received \in Seq(Message)
  /\ error \in {"none", "chunk_start", "packet_size", "out_of_step"}
  /\ stalls \subseteq (0..3) \X {"header", "ext", "payload"}

\* The peer sends a chunk.
Sent(k) ==
  /\ Cut(Now, k, Now') /\ wire' = Append(wire, k)
  /\ owed' \in Nat /\ begun' \in Nat
  /\ UNCHANGED <<peer, reader, stalls>>

LEMMA SendsCuts ==
  ASSUME Typed, NEW m \in Messages, NEW fmt \in 0..3, NEW left \in Nat, NEW field \in Nat,
         NEW ext \in Nat \cup {Absent}, Sends(m, fmt, left, field, ext), begun' \in Nat,
         m.cid = Control => fmt = 0,
         out[m.cid].left > 0 =>
           /\ m = out[m.cid].msg /\ fmt = 3 /\ left = out[m.cid].left
           /\ field = out[m.cid].field /\ ext = out[m.cid].ext,
         ~(out[m.cid].left > 0) =>
           /\ left = m.len /\ MayBegin(m, fmt)
           /\ LET time == IF fmt = 0 THEN m.time ELSE m.time - out[m.cid].msg.time IN
                field = Smaller(time, EXT) /\ ext = IF time >= EXT THEN time ELSE Absent
  PROVE  \E k : Sent(k)
<1> DEFINE n == Smaller(left, out_chunk_size)
           omitted == fmt = 3 /\ peer = "librtmp"
           k == [cid |-> m.cid, fmt |-> fmt, field |-> field,
                 ext |-> IF omitted THEN Absent ELSE ext, n |-> n, msg |-> m]
           o == out[m.cid]
<1>1. /\ m \in Message /\ m.cid \in Cid /\ m.len \in Nat /\ m.time \in Nat
  BY DEF Messages, Message
<1>2. /\ out \in [Cid -> OutState] /\ \A c \in Cid : OutOK(c, out[c])
      /\ out_chunk_size \in ChunkSizes /\ sent \in Seq(Message)
  BY DEF Typed, PeerOK, Now
<1>3. o \in OutState /\ OutOK(m.cid, o)
  BY <1>1, <1>2
<1>4. n \in Nat /\ n <= left
  BY <1>2, PartLeaves
<1>5. (o.left > 0 => m.cid # Control) /\ (m.cid = Control => n = 1)
  <2>1. o.left > 0 => m.cid # Control
    BY <1>3 DEF OutOK, NotUsed
  <2>2. m.cid = Control => m.len = 1
    BY DEF Messages
  <2>3. Smaller(1, out_chunk_size) = 1
    BY <1>2, ChunkStreamAssumption DEF Smaller
  <2> QED
    BY <2>1, <2>2, <2>3
<1>6. /\ k.cid = m.cid /\ k.fmt = fmt /\ k.field = field /\ k.n = n /\ k.msg = m
      /\ k.ext = IF omitted THEN Absent ELSE ext
  OBVIOUS
<1>7. k \in Chunks
  <2>1. k.ext \in Nat \cup {Absent}
    BY <1>6
  <2>2. k \in Chunk
    <3> HIDE DEF n, omitted
    <3> QED
      BY <1>1, <1>4, <2>1 DEF Chunk
  <2> HIDE DEF k
  <2> QED
    BY <1>5, <1>6, <2>2 DEF Chunks
<1> DEFINE time == IF fmt = 0 THEN m.time ELSE m.time - o.msg.time
<1>8. ASSUME ~(o.left > 0)
      PROVE  /\ left = m.len /\ MayBegin(m, fmt)
             /\ field = Smaller(time, EXT) /\ ext = IF time >= EXT THEN time ELSE Absent
             /\ fmt # 0 => time \in 0..EXT - 1 /\ ext = Absent
  <2>1. /\ left = m.len /\ MayBegin(m, fmt)
        /\ field = Smaller(time, EXT) /\ ext = IF time >= EXT THEN time ELSE Absent
    BY <1>8
  <2>2. fmt # 0 => time \in 0..EXT - 1
    BY <2>1 DEF MayBegin
  <2>3. fmt # 0 => ~(time >= EXT)
    <3> HIDE DEF time
    <3> QED
      BY <2>2, ChunkStreamAssumption
  <2> QED
    BY <2>1, <2>2, <2>3
<1>9. IsNext(o, k) /\ Left(o, k) = left /\ (IF o.left > 0 THEN o.ext ELSE k.ext) = ext
  <2>1. CASE o.left > 0
    <3>1. m = o.msg /\ fmt = 3 /\ left = o.left /\ field = o.field /\ ext = o.ext
      BY <2>1
    <3> HIDE DEF k, o
    <3> QED
      BY <1>6, <2>1, <3>1 DEF IsNext, Left
  <2>2. CASE ~(o.left > 0)
    <3>1. k.ext = ext
      BY <1>6, <1>8, <2>2
    <3>2. FirstOf(k, time)
      <4> HIDE DEF time, k
      <4> QED
        BY <1>6, <1>8, <2>2, <3>1 DEF FirstOf
    <3>3. CASE fmt = 0
      <4> HIDE DEF k, o
      <4> QED
        BY <1>6, <1>8, <2>2, <3>1, <3>2, <3>3 DEF IsNext, Left, time
    <3>4. CASE fmt # 0
      <4>1. /\ o.used /\ o.ext = Absent
            /\ fmt >= 2 => m.len = o.msg.len /\ m.kind = o.msg.kind
            /\ fmt = 3 => time = o.field
        BY <1>8, <2>2, <3>4 DEF MayBegin
      <4>2. time = Since(o, k)
        BY <1>6, <3>4 DEF Since
      <4> HIDE DEF k, o, time
      <4> QED
        BY <1>6, <1>8, <2>2, <3>1, <3>2, <3>4, <4>1, <4>2 DEF IsNext, Left
    <3> QED
      BY <3>3, <3>4
  <2> QED
    BY <2>1, <2>2
<1>10. /\ wire' = Append(wire, k)
       /\ out' = [out EXCEPT ![m.cid] =
            [used |-> TRUE, field |-> field, ext |-> ext, msg |-> m, left |-> left - n]]
       /\ sent' = IF left = n /\ m.len > 0 THEN Append(sent, m) ELSE sent
       /\ owed' = IF Announced THEN owed + Bytes(k) ELSE 0
       /\ out_chunk_size' = IF left = n /\ m.kind = "chunk_size" THEN m.val ELSE out_chunk_size
       /\ UNCHANGED <<peer, reader, stalls>>
  BY DEF Sends
<1>11. After(o, k) = [used |-> TRUE, field |-> field, ext |-> ext, msg |-> m, left |-> left - n]
  <2> HIDE DEF o, k, n
  <2> QED
    BY <1>6, <1>9 DEF After
<1>12. owed' \in Nat
  <2> HIDE DEF k
  <2> QED
    BY <1>4, <1>6, <1>10 DEF Typed, Bytes
<1>13. Cut(Now, k, Now')
  <2>1. /\ Now.out = out /\ Now.sent = sent /\ Now.size = out_chunk_size
        /\ Now'.out = out' /\ Now'.sent = sent' /\ Now'.size = out_chunk_size'
    BY DEF Now
  <2>2. Now.out[k.cid] = o
    BY <1>6, <2>1
  <2>3. Now'.out = [Now.out EXCEPT ![k.cid] = After(o, k)]
    BY <1>6, <1>10, <1>11, <2>1
  <2> HIDE DEF o, k
  <2> QED
    BY <1>6, <1>7, <1>9, <1>10, <2>1, <2>2, <2>3 DEF Cut
<1> QED
  BY <1>10, <1>12, <1>13 DEF Sent

LEMMA PeerSends ==
  ASSUME Typed, BeginMedia \/ SetChunkSize \/ AskForAcks \/ \E c \in Cid : Continue(c)
  PROVE  \E k : Sent(k)
<1>1. /\ out \in [Cid -> OutState] /\ \A c \in Cid : OutOK(c, out[c])
      /\ begun \in Nat
  BY DEF Typed, PeerOK, Now
<1>2. ASSUME NEW m \in Messages, NEW fmt \in 0..3, m.cid = Control => fmt = 0, Begin(m, fmt)
      PROVE  \E k : Sent(k)
  <2> DEFINE time == IF fmt = 0 THEN m.time ELSE m.time - out[m.cid].msg.time
             ext == IF time >= EXT THEN time ELSE Absent
  <2>1. /\ out[m.cid].left = 0 /\ MayBegin(m, fmt) /\ begun' = begun + 1
        /\ Sends(m, fmt, m.len, Smaller(time, EXT), ext)
    BY <1>2 DEF Begin
  <2>2. m.len \in Nat /\ m.time \in Nat
    BY DEF Messages, Message
  <2>3. time \in Nat
    <3>1. fmt # 0 => time \in 0..EXT - 1
      BY <2>1 DEF MayBegin
    <3>2. fmt = 0 => time \in Nat
      BY <2>2
    <3> HIDE DEF time
    <3> QED
      BY <3>1, <3>2
  <2> HIDE DEF time
  <2>4. Smaller(time, EXT) \in Nat /\ ext \in Nat \cup {Absent}
    BY <2>3, ChunkStreamAssumption DEF Smaller
  <2>5. begun' \in Nat /\ ~(out[m.cid].left > 0)
    BY <1>1, <2>1
  <2> HIDE DEF ext
  <2>6. LET t == IF fmt = 0 THEN m.time ELSE m.time - out[m.cid].msg.time IN
          Smaller(time, EXT) = Smaller(t, EXT) /\ ext = IF t >= EXT THEN t ELSE Absent
    BY DEF time, ext
  <2> QED
    BY <1>2, <2>1, <2>2, <2>4, <2>5, <2>6, SendsCuts
<1>3. ASSUME BeginMedia PROVE \E k : Sent(k)
  <2>1. PICK c \in Media, time \in Times, len \in Lens, fmt \in 0..3 :
          Begin(MediaMessage(c, time, len), fmt)
    BY <1>3 DEF BeginMedia
  <2> DEFINE m == MediaMessage(c, time, len)
  <2>2. m \in Messages /\ m.cid # Control
    BY <1>1, ChunkStreamAssumption DEF MediaMessage, Messages, Message, Cid, Kinds
  <2> HIDE DEF m
  <2> QED
    BY <1>2, <2>1, <2>2 DEF m
<1>4. ASSUME SetChunkSize PROVE \E k : Sent(k)
  <2>1. PICK size \in ChunkSizes : Begin(ControlMessage("chunk_size", size), 0)
    BY <1>4 DEF SetChunkSize
  <2> DEFINE m == ControlMessage("chunk_size", size)
  <2>2. m \in Messages
    BY <1>1, ChunkStreamAssumption DEF ControlMessage, Messages, Message, Cid, Kinds
  <2> HIDE DEF m
  <2> QED
    BY <1>2, <2>1, <2>2 DEF m
<1>5. ASSUME AskForAcks PROVE \E k : Sent(k)
  <2> DEFINE m == ControlMessage("window", Window)
  <2>1. Begin(m, 0)
    BY <1>5 DEF AskForAcks
  <2>2. m \in Messages
    BY <1>1, ChunkStreamAssumption DEF ControlMessage, Messages, Message, Cid, Kinds
  <2> HIDE DEF m
  <2> QED
    BY <1>2, <2>1, <2>2
<1>6. ASSUME NEW c \in Cid, Continue(c) PROVE \E k : Sent(k)
  <2> DEFINE o == out[c]
  <2>1. o.left > 0 /\ Sends(o.msg, 3, o.left, o.field, o.ext) /\ begun' = begun
    BY <1>6 DEF Continue
  <2>2. o \in OutState /\ OutOK(c, o)
    BY <1>1
  <2>3. o.msg \in Messages /\ o.msg.cid = c /\ c # Control
    BY <2>1, <2>2 DEF OutOK, NotUsed
  <2>4. o.left \in Nat /\ o.field \in Nat /\ o.ext \in Nat \cup {Absent}
    BY <2>2, ChunkStreamAssumption DEF OutState
  <2>5. out[o.msg.cid] = o
    BY <2>3
  <2>6. out[o.msg.cid].left > 0 /\ begun' \in Nat /\ 3 \in 0..3
    BY <1>1, <2>1, <2>5
  <2>7. /\ o.msg = out[o.msg.cid].msg /\ 3 = 3 /\ o.left = out[o.msg.cid].left
        /\ o.field = out[o.msg.cid].field /\ o.ext = out[o.msg.cid].ext
    BY <2>5
  <2>8. PICK m \in Messages, left \in Nat, field \in Nat, ext \in Nat \cup {Absent} :
          /\ Sends(m, 3, left, field, ext) /\ m.cid # Control
          /\ out[m.cid].left > 0 /\ m = out[m.cid].msg /\ left = out[m.cid].left
          /\ field = out[m.cid].field /\ ext = out[m.cid].ext
    BY <2>1, <2>3, <2>4, <2>6, <2>7
  <2> HIDE DEF o
  <2> QED
    BY <2>6, <2>8, SendsCuts
<1> QED
  BY <1>3, <1>4, <1>5, <1>6

LEMMA SentKeepsTypes ==
  ASSUME Typed, NEW k, Sent(k)
  PROVE  Typed'
<1>1. PeerOK(Now')
  BY CutKeeps DEF Typed, Sent
<1>2. wire' \in Seq(Chunks)
  <2>1. k \in Chunks
    BY DEF Sent, Cut
  <2> QED
    BY <2>1 DEF Typed, Sent
<1> QED
  BY <1>1, <1>2 DEF Typed, Sent, reader

\* What is put together is a message, and only a control message says a chunk size.
LEMMA EntireIsMessage ==
  ASSUME NEW c \in Cid, NEW h \in ChunkStreamState, h.payload # {}
  PROVE  /\ Entire(h, c) \in Message /\ Entire(h, c).kind = h.kind
         /\ \A m : h.payload = {m} => Entire(h, c).val = m.val
<1> DEFINE of == CHOOSE m \in h.payload : TRUE
<1>1. of \in h.payload /\ h.payload \in SUBSET Message
  BY DEF ChunkStreamState
<1>2. of.id \in Nat /\ of.val \in Nat
  BY <1>1 DEF Message
<1>3. \A m : h.payload = {m} => of = m
  BY <1>1
<1> HIDE DEF of
<1>4. Entire(h, c) = [id |-> IF Cardinality(h.payload) = 1 THEN of.id ELSE 0, cid |-> c,
                      kind |-> h.kind, time |-> h.time, len |-> h.len, val |-> of.val]
  BY DEF Entire, of
<1>5. h.kind \in Kinds /\ h.time \in Nat /\ h.len \in Nat
  BY DEF ChunkStreamState
<1>6. (IF Cardinality(h.payload) = 1 THEN of.id ELSE 0) \in Nat
  BY <1>2
<1> QED
  BY <1>2, <1>3, <1>4, <1>5, <1>6 DEF Message

LEMMA ReceiveKeepsTypes ==
  ASSUME Typed, Receive
  PROVE  Typed'
<1> DEFINE k == Head(wire)
           cs == chunk_streams[k.cid]
           h == Timed(cs, k)
           part == [h EXCEPT !.size = @ + k.n, !.payload = @ \cup {k.msg}]
           read == unacked + Bytes(k)
<1>1. /\ error = "none" /\ wire # <<>> /\ wire' = Tail(wire)
      /\ UNCHANGED <<peer, out, out_chunk_size, begun, sent, stalls>>
  BY DEF Receive
<1>2. k \in Chunks /\ Tail(wire) \in Seq(Chunks)
  BY <1>1 DEF Typed
<1>3. /\ k \in Chunk /\ k.msg \in Messages /\ k.msg \in Message /\ k.cid \in Cid /\ k.n \in Nat
      /\ k.cid = Control => k.n = 1
  BY <1>2 DEF Chunks, Messages, Chunk
<1>4. StreamOK(k.cid, cs) /\ chunk_streams \in [Cid -> ChunkStreamState]
  BY <1>3 DEF Typed
<1>5. /\ wire' \in Seq(Chunks) /\ peer' \in Peers /\ PeerOK(Now') /\ begun' \in Nat
      /\ stalls' \subseteq (0..3) \X {"header", "ext", "payload"}
  BY <1>1, <1>2 DEF Typed, PeerOK, Now
<1>6. BytesOf(Tail(wire)) \in Nat
  <2>1. Chunks \subseteq Chunk
    BY DEF Chunks
  <2>2. Tail(wire) \in Seq(Chunk)
    BY <1>2, <2>1, SeqMonotonic
  <2> QED
    BY <2>2, BytesOfIsNumber
<1>7. read \in Nat
  <2> HIDE DEF k
  <2> QED
    BY <1>3 DEF Typed, Bytes
<1> HIDE DEF read
<1>8. CASE ChunkStart(cs, k) /\ Fails("chunk_start")
  BY <1>5, <1>8 DEF Typed, Fails
<1>9. CASE ~ChunkStart(cs, k) /\ PacketSize(cs, k) /\ Fails("packet_size")
  BY <1>5, <1>9 DEF Typed, Fails
<1>10. CASE ~ChunkStart(cs, k) /\ ~PacketSize(cs, k) /\ ~InStep(cs, k) /\ Fails("out_of_step")
  BY <1>5, <1>10 DEF Typed, Fails
<1>11. CASE /\ ~ChunkStart(cs, k) /\ ~PacketSize(cs, k) /\ InStep(cs, k)
            /\ UNCHANGED error
  <2>1. /\ StreamOK(k.cid, h)
        /\ h.size = cs.size /\ h.payload = cs.payload
        /\ k.cid = Control => ~cs.msg /\ h.len = 1 /\ h.kind = k.msg.kind
    <3> HIDE DEF k, cs
    <3> QED
      BY <1>2, <1>3, <1>4, <1>11, TimedOK DEF InStep
  <2>2. Smaller(h.len - h.size, in_chunk_size) = k.n
    BY <1>11 DEF InStep, Takes
  <2> HIDE DEF k, cs, h
  <2>3. h \in ChunkStreamState /\ h.size \in Nat /\ h.len \in Nat /\ h.size <= h.len
    BY <2>1 DEF StreamOK, ChunkStreamState
  <2>4. h.size + k.n <= h.len
    <3>1. h.len - h.size \in Nat /\ in_chunk_size \in ChunkSizes
      BY <2>3 DEF Typed
    <3>2. k.n <= h.len - h.size
      BY <2>2, <3>1, PartLeaves
    <3> QED
      BY <1>3, <2>3, <3>2
  <2>5. /\ part \in ChunkStreamState
        /\ part.time = h.time /\ part.len = h.len /\ part.kind = h.kind
        /\ part.size = h.size + k.n /\ part.payload = h.payload \cup {k.msg}
    <3>1. part \in ChunkStreamState
      BY <1>3, <2>3, PartFields
    <3>2. part.time = h.time /\ part.len = h.len /\ part.kind = h.kind
      BY <2>3 DEF ChunkStreamState
    <3>3. part.size = h.size + k.n /\ part.payload = h.payload \cup {k.msg}
      BY <2>3 DEF ChunkStreamState
    <3> QED
      BY <3>1, <3>2, <3>3
  <2>6. part.msg <=> h.msg
    BY <2>3 DEF ChunkStreamState
  <2> HIDE DEF part
  <2>7. StreamOK(k.cid, NewMessage(h))
    <3>1. /\ NewMessage(h) \in ChunkStreamState /\ NewMessage(h).time = h.time
          /\ NewMessage(h).len = h.len /\ NewMessage(h).kind = h.kind
          /\ NewMessage(h).size = 0 /\ NewMessage(h).payload = {}
      BY <2>3, NewMessageFields
    <3> QED
      BY <2>1, <2>3, <3>1 DEF StreamOK
  <2>8. ASSUME NEW s, StreamOK(k.cid, s), chunk_streams' = [chunk_streams EXCEPT ![k.cid] = s]
        PROVE  /\ chunk_streams' \in [Cid -> ChunkStreamState]
               /\ \A c \in Cid : StreamOK(c, chunk_streams'[c])
    <3>1. s \in ChunkStreamState
      BY <2>8 DEF StreamOK
    <3> QED
      BY <1>3, <1>4, <2>8, <3>1 DEF Typed
  <2>9. CASE /\ chunk_streams' = [chunk_streams EXCEPT ![k.cid] = NewMessage(h)]
             /\ unacked' = read
             /\ UNCHANGED <<in_chunk_size, ack_window, received, owed>>
    BY <1>5, <1>7, <1>11, <2>7, <2>8, <2>9 DEF Typed
  <2>10. CASE /\ h.len > 0 /\ part.size = h.len
              /\ chunk_streams' = [chunk_streams EXCEPT ![k.cid] = NewMessage(h)]
              /\ OnRecvMessage(Entire(part, k.cid), read)
    <3> DEFINE m == Entire(part, k.cid)
    <3>1. part.payload # {}
      BY <2>5
    <3>2. /\ m \in Message /\ m.kind = part.kind
          /\ \A x : part.payload = {x} => m.val = x.val
      BY <1>3, <2>5, <3>1, EntireIsMessage
    <3>3. m.kind = "chunk_size" => m.val \in ChunkSizes
      <4> SUFFICES ASSUME m.kind = "chunk_size" PROVE m.val \in ChunkSizes
        OBVIOUS
      <4>1. h.kind = "chunk_size"
        BY <2>5, <3>2
      <4>2. k.cid = Control
        BY <1>3, <2>1, <4>1 DEF StreamOK, Cid
      <4>3. h.payload = {} /\ k.msg.kind = "chunk_size"
        BY <1>4, <2>1, <4>1, <4>2 DEF StreamOK
      <4>4. part.payload = {k.msg}
        BY <2>5, <4>3
      <4>5. m.val = k.msg.val
        BY <3>2, <4>4
      <4> QED
        BY <1>3, <4>3, <4>5 DEF Messages
    <3> HIDE DEF m
    <3>4. /\ unacked' \in Nat /\ owed' \in Nat
          /\ ack_window' = IF m.kind = "window" /\ m.val > 0 THEN m.val ELSE ack_window
          /\ in_chunk_size' = IF m.kind = "chunk_size" THEN m.val ELSE in_chunk_size
          /\ received' = Append(received, m)
      BY <1>6, <1>7, <2>10 DEF OnRecvMessage, Typed, m
    <3>5. ack_window' \in Nat /\ in_chunk_size' \in ChunkSizes /\ received' \in Seq(Message)
      BY <3>2, <3>3, <3>4 DEF Typed, Message
    <3> QED
      BY <1>5, <1>11, <2>7, <2>8, <2>10, <3>4, <3>5 DEF Typed
  <2>11. CASE /\ h.len > 0 /\ part.size < h.len
              /\ chunk_streams' = [chunk_streams EXCEPT ![k.cid] = part]
              /\ unacked' = read
              /\ UNCHANGED <<in_chunk_size, ack_window, received, owed>>
    <3>1. k.cid # Control
      <4> SUFFICES ASSUME k.cid = Control PROVE FALSE
        OBVIOUS
      <4>1. h.len = 1 /\ h.size = 0 /\ k.n = 1
        BY <1>3, <1>4, <2>1 DEF StreamOK
      <4> QED
        BY <2>5, <2>11, <4>1
    <3>2. ~part.msg => part.size = 0 /\ part.payload = {}
      <4>1. h.msg
        BY DEF h, Timed, Header
      <4> QED
        BY <2>6, <4>1
    <3>3. StreamOK(k.cid, part)
      BY <1>3, <2>1, <2>3, <2>5, <2>11, <3>1, <3>2 DEF StreamOK
    <3> QED
      BY <1>5, <1>7, <1>11, <2>8, <2>11, <3>3 DEF Typed
  <2>12. \/ /\ chunk_streams' = [chunk_streams EXCEPT ![k.cid] = NewMessage(h)]
            /\ unacked' = read
            /\ UNCHANGED <<in_chunk_size, ack_window, received, owed>>
         \/ /\ h.len > 0 /\ part.size = h.len
            /\ chunk_streams' = [chunk_streams EXCEPT ![k.cid] = NewMessage(h)]
            /\ OnRecvMessage(Entire(part, k.cid), read)
         \/ /\ h.len > 0 /\ part.size < h.len
            /\ chunk_streams' = [chunk_streams EXCEPT ![k.cid] = part]
            /\ unacked' = read
            /\ UNCHANGED <<in_chunk_size, ack_window, received, owed>>
    BY <1>11 DEF Receive, k, cs, h, part, read
  <2> QED
    BY <2>9, <2>10, <2>11, <2>12
<1>12. \/ ChunkStart(cs, k) /\ Fails("chunk_start")
       \/ ~ChunkStart(cs, k) /\ PacketSize(cs, k) /\ Fails("packet_size")
       \/ ~ChunkStart(cs, k) /\ ~PacketSize(cs, k) /\ ~InStep(cs, k) /\ Fails("out_of_step")
       \/ /\ ~ChunkStart(cs, k) /\ ~PacketSize(cs, k) /\ InStep(cs, k)
          /\ UNCHANGED error
  BY DEF Receive
<1> QED
  BY <1>8, <1>9, <1>10, <1>11, <1>12

LEMMA TimesOutKeepsTypes ==
  ASSUME Typed, NEW place \in {"header", "ext", "payload"}, TimesOut(place)
  PROVE  Typed'
<1> DEFINE k == Head(wire)
           cs == chunk_streams[k.cid]
           h == Header(cs, k)
<1>1. /\ wire # <<>> /\ ~ChunkStart(cs, k) /\ ~PacketSize(cs, k) /\ InStep(cs, k)
      /\ stalls' = stalls \cup {<<k.fmt, place>>}
      /\ UNCHANGED <<sender, wire, in_chunk_size, ack_window, unacked, received, error>>
  BY DEF TimesOut
<1>2. k \in Chunks
  BY <1>1 DEF Typed
<1>3. k \in Chunk /\ k.cid \in Cid /\ k.fmt \in 0..3
  BY <1>2 DEF Chunks, Chunk
<1>4. StreamOK(k.cid, cs) /\ cs \in ChunkStreamState
  BY <1>3 DEF Typed
<1>5. /\ StreamOK(k.cid, Timed(cs, k)) /\ Timed(cs, k).size = cs.size
      /\ Timed(cs, k).payload = cs.payload
  <2> HIDE DEF k, cs
  <2> QED
    BY <1>1, <1>2, <1>3, <1>4, TimedOK DEF InStep
<1> HIDE DEF k, cs
<1>6. \/ chunk_streams' = [chunk_streams EXCEPT ![k.cid].msg = TRUE]
      \/ h.extended /\ chunk_streams' = [chunk_streams EXCEPT ![k.cid] = h]
      \/ chunk_streams' = [chunk_streams EXCEPT ![k.cid] = Timed(cs, k)]
  BY DEF TimesOut, k, cs
<1>7. StreamOK(k.cid, [cs EXCEPT !.msg = TRUE])
  BY <1>4 DEF StreamOK, ChunkStreamState
<1>8. h.extended => StreamOK(k.cid, h)
  <2> SUFFICES ASSUME h.extended PROVE StreamOK(k.cid, h)
    OBVIOUS
  <2>1. Timed(cs, k) \in ChunkStreamState
    BY <1>5 DEF StreamOK
  <2>2. h.time = cs.time
    <3> HIDE DEF h
    <3>1. h.extended /\ h = Header(cs, k)
      BY DEF h
    <3>2. h.time = IF ~(~h.extended /\ (k.fmt = 3 => ~cs.msg)) THEN cs.time
                   ELSE IF k.fmt = 0 THEN h.delta ELSE cs.time + h.delta
      BY <1>3, <1>4, <3>1, HeaderFields, Zenon
    <3> QED
      BY <3>1, <3>2
  <2>3. cs.fresh \in BOOLEAN /\ cs.time \in Nat /\ cs.time < HALF
    BY <1>4 DEF StreamOK, ChunkStreamState
  <2> HIDE DEF h
  <2>4. h = [Timed(cs, k) EXCEPT !.fresh = cs.fresh, !.time = cs.time]
    <3>1. h = [Timed(cs, k) EXCEPT !.fresh = cs.fresh, !.time = h.time]
      BY <1>3, <1>4, HeaderIsTimed, Zenon DEF h
    <3> QED
      BY <2>2, <3>1
  <2> QED
    BY <1>5, <2>1, <2>3, <2>4 DEF StreamOK, ChunkStreamState
<1>9. ASSUME NEW s, StreamOK(k.cid, s), chunk_streams' = [chunk_streams EXCEPT ![k.cid] = s]
      PROVE  /\ chunk_streams' \in [Cid -> ChunkStreamState]
             /\ \A c \in Cid : StreamOK(c, chunk_streams'[c])
  <2>1. s \in ChunkStreamState
    BY <1>9 DEF StreamOK
  <2> QED
    BY <1>3, <1>9, <2>1 DEF Typed
<1>10. /\ chunk_streams' \in [Cid -> ChunkStreamState]
       /\ \A c \in Cid : StreamOK(c, chunk_streams'[c])
  <2>1. CASE chunk_streams' = [chunk_streams EXCEPT ![k.cid].msg = TRUE]
    <3>1. chunk_streams' = [chunk_streams EXCEPT ![k.cid] = [cs EXCEPT !.msg = TRUE]]
      BY <2>1 DEF cs
    <3> QED
      BY <1>7, <1>9, <3>1
  <2>2. CASE h.extended /\ chunk_streams' = [chunk_streams EXCEPT ![k.cid] = h]
    BY <1>8, <1>9, <2>2
  <2>3. CASE chunk_streams' = [chunk_streams EXCEPT ![k.cid] = Timed(cs, k)]
    BY <1>5, <1>9, <2>3
  <2> QED
    BY <1>6, <2>1, <2>2, <2>3
<1>11. Now' = Now /\ begun' = begun /\ owed' = owed /\ peer' = peer
  BY <1>1 DEF Now, sender
<1> QED
  BY <1>1, <1>3, <1>10, <1>11 DEF Typed

LEMMA TypesInvariance == Spec => []Typed
<1>1. Init => Typed
  <2> SUFFICES ASSUME Init PROVE Typed
    OBVIOUS
  <2> USE ChunkStreamAssumption DEF Init
  <2>1. NoMessage \in Message /\ NotUsed \in OutState
    BY DEF NoMessage, Message, Kinds, Cid, NotUsed, OutState
  <2>2. /\ out \in [Cid -> OutState] /\ \A c \in Cid : OutOK(c, out[c])
    BY <2>1 DEF NotUsed, OutOK
  <2>3. PeerOK(Now)
    <3>1. Now.out = out /\ Now.size = FirstChunk /\ Now.sent = <<>>
      BY DEF Now
    <3>2. Now.size \in ChunkSizes /\ Now.sent \in Seq(Message)
      BY <3>1
    <3> HIDE DEF Init
    <3> QED
      BY <2>2, <3>1, <3>2 DEF PeerOK
  <2> DEFINE s == [fresh |-> TRUE, time |-> 0, delta |-> 0, len |-> 0, kind |-> "media",
                   extended |-> FALSE, msg |-> FALSE, size |-> 0, payload |-> {}]
  <2>4. s \in ChunkStreamState /\ \A c \in Cid : StreamOK(c, s)
    BY DEF ChunkStreamState, Kinds, StreamOK
  <2>5. chunk_streams = [c \in Cid |-> s]
    OBVIOUS
  <2> HIDE DEF s
  <2>6. chunk_streams \in [Cid -> ChunkStreamState] /\ \A c \in Cid : StreamOK(c, chunk_streams[c])
    BY <2>4, <2>5
  <2> QED
    BY <2>3, <2>6 DEF Typed
<1>2. Typed /\ [Next]_vars => Typed'
  <2> SUFFICES ASSUME Typed, [Next]_vars PROVE Typed'
    OBVIOUS
  <2>1. CASE BeginMedia \/ SetChunkSize \/ AskForAcks \/ \E c \in Cid : Continue(c)
    BY <2>1, PeerSends, SentKeepsTypes
  <2>2. CASE Receive
    BY <2>2, ReceiveKeepsTypes
  <2>3. CASE \E place \in {"header", "ext", "payload"} : TimesOut(place)
    BY <2>3, TimesOutKeepsTypes
  <2>4. CASE UNCHANGED vars
    BY <2>4 DEF vars, sender, reader, Typed, Now, PeerOK
  <2> QED
    BY <2>1, <2>2, <2>3, <2>4 DEF Next
<1> QED
  BY <1>1, <1>2, PTL DEF Spec

(* Types of the state: chunk sizes stay among those that were set, times below HALF,
   and no message has more payload than its header says. *)
THEOREM ChunkStreamTypes == Spec => []TypeOK
<1>1. Typed => TypeOK
  <2> SUFFICES ASSUME Typed PROVE TypeOK
    OBVIOUS
  <2>1. /\ out_chunk_size \in ChunkSizes /\ sent \in Seq(Message)
        /\ \A c \in Cid :
             /\ out[c].used \in BOOLEAN /\ out[c].msg \in Message /\ out[c].left \in Nat
             /\ out[c].field \in 0..EXT /\ out[c].ext \in Nat \cup {Absent}
    BY DEF Typed, PeerOK, Now, OutState
  <2>2. \A i \in DOMAIN wire :
          wire[i].cid \in Cid /\ wire[i].fmt \in 0..3 /\ wire[i].n \in Nat /\ wire[i].msg \in Message
    <3>1. \A i \in DOMAIN wire : wire[i] \in Chunks
      BY DEF Typed
    <3> QED
      BY <3>1 DEF Chunks, Chunk
  <2>3. \A c \in Cid :
          /\ chunk_streams[c].time \in 0..HALF - 1
          /\ chunk_streams[c].size \in Nat /\ chunk_streams[c].size <= chunk_streams[c].len
    <3> SUFFICES ASSUME NEW c \in Cid
                 PROVE  /\ chunk_streams[c].time \in 0..HALF - 1
                        /\ chunk_streams[c].size \in Nat
                        /\ chunk_streams[c].size <= chunk_streams[c].len
      OBVIOUS
    <3>1. StreamOK(c, chunk_streams[c])
      BY DEF Typed
    <3> QED
      BY <3>1, ChunkStreamAssumption DEF StreamOK, ChunkStreamState
  <2> QED
    BY <2>1, <2>2, <2>3 DEF Typed, TypeOK
<1> QED
  BY <1>1, TypesInvariance, PTL

------------------------------------------------------------------------------
(* The reader follows the peer *)

Starts(s, t) == Len(s) <= Len(t) /\ \A i \in 1..Len(s) : s[i] = t[i]

\* The states a through which the peer went with the chunks of the wire w: a[i] when
\* it had sent i of them, and where it is now.
Line(a, w, now) ==
  /\ \A i \in 0..Len(w) : PeerOK(a[i]) /\ Starts(a[i].sent, now.sent)
  /\ \A i \in 1..Len(w) : Cut(a[i - 1], w[i], a[i])
  /\ a[Len(w)] = now

\* The reader is where the peer was in state p, but for the header of the first chunk
\* of the wire, which a timeout may have left read.
ReaderAt(p, w, streams, got, size) ==
  /\ got = p.sent /\ size = p.size
  /\ \A c \in Cid :
       \/ streams[c] = Understood(p.out[c])
       \/ w # <<>> /\ c = Head(w).cid /\ HalfRead(p.out[c], Head(w), streams[c])

\* The reader is a line of chunks behind the peer.
Follows(w, now, streams, got, size) ==
  \E a : Line(a, w, now) /\ ReaderAt(a[0], w, streams, got, size)

LEMMA StartsGrow ==
  ASSUME NEW s \in Seq(Message), NEW t \in Seq(Message), NEW m \in Message, Starts(s, t)
  PROVE  Starts(s, Append(t, m))
BY DEF Starts

LEMMA LineGrows ==
  ASSUME NEW w \in Seq(Chunks), NEW now, NEW k, NEW next, NEW a,
         Line(a, w, now), PeerOK(now), Cut(now, k, next)
  PROVE  \E b : Line(b, Append(w, k), next) /\ b[0] = a[0]
<1> DEFINE n == Len(w)
           b == [i \in 0..n + 1 |-> IF i <= n THEN a[i] ELSE next]
<1>1. k \in Chunks /\ k.msg \in Message
  BY DEF Cut, Chunks, Messages
<1>2. /\ n \in Nat /\ Len(Append(w, k)) = n + 1 /\ Append(w, k)[n + 1] = k
      /\ \A i \in 1..n : Append(w, k)[i] = w[i]
  BY <1>1
<1>3. PeerOK(next) /\ next.sent \in {now.sent, Append(now.sent, k.msg)}
  BY CutKeeps DEF Cut
<1>4. Starts(next.sent, next.sent)
  BY <1>3 DEF Starts, PeerOK
<1>5. (\A i \in 0..n : b[i] = a[i]) /\ b[n + 1] = next
  BY <1>2
<1> HIDE DEF b, n
<1>6. ASSUME NEW i \in 0..n + 1 PROVE PeerOK(b[i]) /\ Starts(b[i].sent, next.sent)
  <2>1. CASE i \in 0..n
    <3>1. b[i] = a[i] /\ PeerOK(a[i]) /\ Starts(a[i].sent, now.sent)
      BY <1>5, <2>1 DEF Line, n
    <3>2. a[i].sent \in Seq(Message) /\ now.sent \in Seq(Message)
      BY <3>1 DEF PeerOK
    <3>3. Starts(a[i].sent, Append(now.sent, k.msg))
      BY <1>1, <3>1, <3>2, StartsGrow
    <3> QED
      BY <1>3, <3>1, <3>3
  <2>2. CASE i = n + 1
    BY <1>3, <1>4, <1>5, <2>2
  <2> QED
    BY <1>2, <2>1, <2>2
<1>7. ASSUME NEW i \in 1..n + 1 PROVE Cut(b[i - 1], Append(w, k)[i], b[i])
  <2>1. CASE i \in 1..n
    <3>1. i \in 0..n /\ i - 1 \in 0..n
      BY <1>2, <2>1
    <3>2. Cut(a[i - 1], w[i], a[i])
      BY <2>1 DEF Line, n
    <3> QED
      BY <1>2, <1>5, <2>1, <3>1, <3>2
  <2>2. CASE i = n + 1
    <3>1. i - 1 = n /\ n \in 0..n
      BY <1>2, <2>2
    <3>2. b[i - 1] = now
      BY <1>5, <3>1 DEF Line, n
    <3> QED
      BY <1>2, <1>5, <2>2, <3>2
  <2> QED
    BY <1>2, <2>1, <2>2
<1>8. Line(b, Append(w, k), next)
  BY <1>2, <1>5, <1>6, <1>7 DEF Line
<1>9. b[0] = a[0]
  BY <1>2, <1>5
<1> QED
  BY <1>8, <1>9

LEMMA LineMoves ==
  ASSUME NEW w \in Seq(Chunks), w # <<>>, NEW now, NEW a, Line(a, w, now)
  PROVE  /\ PeerOK(a[0]) /\ Cut(a[0], Head(w), a[1]) /\ Starts(a[1].sent, now.sent)
         /\ \E b : Line(b, Tail(w), now) /\ b[0] = a[1]
<1> DEFINE n == Len(w)
           b == [i \in 0..n - 1 |-> a[i + 1]]
<1>1. /\ n \in Nat /\ n > 0 /\ Tail(w) \in Seq(Chunks) /\ Len(Tail(w)) = n - 1 /\ Head(w) = w[1]
      /\ \A i \in 1..n - 1 : Tail(w)[i] = w[i + 1]
  OBVIOUS
<1>2. \A i \in 0..n - 1 : b[i] = a[i + 1]
  OBVIOUS
<1> HIDE DEF b
<1>3. /\ \A i \in 0..n : PeerOK(a[i]) /\ Starts(a[i].sent, now.sent)
      /\ \A i \in 1..n : Cut(a[i - 1], w[i], a[i])
      /\ a[n] = now
  BY DEF Line
<1> HIDE DEF n
<1>4. PeerOK(a[0]) /\ Cut(a[0], Head(w), a[1]) /\ Starts(a[1].sent, now.sent)
  <2>1. 0 \in 0..n /\ 1 \in 0..n /\ 1 \in 1..n /\ 1 - 1 = 0
    BY <1>1
  <2>2. Cut(a[1 - 1], w[1], a[1])
    BY <1>3, <2>1
  <2> QED
    BY <1>1, <1>3, <2>1, <2>2
<1>5. ASSUME NEW i \in 0..n - 1 PROVE PeerOK(b[i]) /\ Starts(b[i].sent, now.sent)
  <2>1. i + 1 \in 0..n
    BY <1>1
  <2> QED
    BY <1>2, <1>3, <2>1
<1>6. ASSUME NEW i \in 1..n - 1 PROVE Cut(b[i - 1], Tail(w)[i], b[i])
  <2>1. i + 1 \in 1..n /\ i \in 0..n - 1 /\ i - 1 \in 0..n - 1 /\ i - 1 + 1 = i /\ i + 1 - 1 = i
    BY <1>1
  <2>2. Cut(a[i + 1 - 1], w[i + 1], a[i + 1])
    BY <1>3, <2>1
  <2>3. b[i - 1] = a[i] /\ b[i] = a[i + 1] /\ Tail(w)[i] = w[i + 1]
    BY <1>1, <1>2, <2>1
  <2> QED
    BY <2>1, <2>2, <2>3
<1>7. b[n - 1] = now /\ b[0] = a[1]
  <2>1. n - 1 \in 0..n - 1 /\ n - 1 + 1 = n /\ 0 \in 0..n - 1 /\ 0 + 1 = 1
    BY <1>1
  <2>2. b[n - 1] = a[n - 1 + 1] /\ b[0] = a[0 + 1]
    BY <1>2, <2>1
  <2> QED
    BY <1>3, <2>1, <2>2
<1>8. Line(b, Tail(w), now)
  BY <1>1, <1>5, <1>6, <1>7 DEF Line
<1> QED
  BY <1>4, <1>7, <1>8

\* The invariant: the reader follows the peer as long as no timeout did harm.
OrderInv ==
  Undisturbed => /\ error = "none"
                 /\ Follows(wire, Now, chunk_streams, received, in_chunk_size)

\* The peer sends a chunk.
LEMMA SentKeepsOrder ==
  ASSUME Typed, OrderInv, NEW k, Sent(k)
  PROVE  OrderInv'
<1> SUFFICES ASSUME Undisturbed'
             PROVE  /\ error' = "none"
                    /\ Follows(wire', Now', chunk_streams', received', in_chunk_size')
  BY DEF OrderInv
<1>1. /\ Cut(Now, k, Now') /\ wire' = Append(wire, k)
      /\ stalls' = stalls /\ chunk_streams' = chunk_streams /\ received' = received
      /\ in_chunk_size' = in_chunk_size /\ error' = error
  BY DEF Sent, reader
<1>2. Undisturbed
  BY <1>1 DEF Undisturbed
<1>3. PICK a : Line(a, wire, Now) /\ ReaderAt(a[0], wire, chunk_streams, received, in_chunk_size)
  BY <1>2 DEF OrderInv, Follows
<1>4. wire \in Seq(Chunks) /\ PeerOK(Now) /\ k \in Chunks
  BY <1>1 DEF Typed, Cut
<1>5. PICK b : Line(b, Append(wire, k), Now') /\ b[0] = a[0]
  BY <1>1, <1>3, <1>4, LineGrows
<1>6. wire # <<>> => Head(Append(wire, k)) = Head(wire) /\ Append(wire, k) # <<>>
  BY <1>4
<1>7. ReaderAt(b[0], Append(wire, k), chunk_streams, received, in_chunk_size)
  BY <1>3, <1>5, <1>6 DEF ReaderAt
<1>8. Follows(wire', Now', chunk_streams', received', in_chunk_size')
  BY <1>1, <1>5, <1>7 DEF Follows
<1> QED
  BY <1>1, <1>2, <1>8 DEF OrderInv

\* The reader receives a chunk, and is where the peer was when it had sent it.
LEMMA ReceiveFollows ==
  ASSUME Times \subseteq 0..HALF - 1, Typed, error = "none", Receive,
         NEW a, Line(a, wire, Now), ReaderAt(a[0], wire, chunk_streams, received, in_chunk_size)
  PROVE  error' = "none" /\ ReaderAt(a[1], Tail(wire), chunk_streams', received', in_chunk_size')
<1> DEFINE k == Head(wire)
           cs == chunk_streams[k.cid]
           h == Timed(cs, k)
           part == [h EXCEPT !.size = @ + k.n, !.payload = @ \cup {k.msg}]
           read == unacked + Bytes(k)
           p == a[0]
           q == a[1]
           o == p.out[k.cid]
<1>1. wire # <<>> /\ wire \in Seq(Chunks) /\ k \in Chunks
  BY DEF Receive, Typed
<1>2. PeerOK(p) /\ Cut(p, k, q)
  BY <1>1, LineMoves
<1>3. k.cid \in Cid /\ k.msg \in Messages /\ k.msg.len \in Nat
  BY <1>1 DEF Chunks, Chunk, Messages, Message
<1>4. /\ OutOK(k.cid, o) /\ p.size \in ChunkSizes /\ p.out \in [Cid -> OutState]
  BY <1>2, <1>3 DEF PeerOK
<1>5. /\ IsNext(o, k) /\ k.n = Smaller(Left(o, k), p.size)
      /\ q.out = [p.out EXCEPT ![k.cid] = After(o, k)]
      /\ q.sent = IF Left(o, k) = k.n /\ k.msg.len > 0 THEN Append(p.sent, k.msg) ELSE p.sent
      /\ q.size = IF Left(o, k) = k.n /\ k.msg.kind = "chunk_size" THEN k.msg.val ELSE p.size
  BY <1>2 DEF Cut
<1>6. /\ received = p.sent /\ in_chunk_size = p.size /\ Level(o, k, cs)
      /\ \A c \in Cid \ {k.cid} : chunk_streams[c] = Understood(p.out[c])
  BY <1>3 DEF ReaderAt, Level
<1>7. /\ ~ChunkStart(cs, k) /\ ~PacketSize(cs, k)
      /\ TakesExt(cs, k) <=> k.ext # Absent
      /\ h = Opened(o, k)
  <2> HIDE DEF k, cs, o
  <2> QED
    BY <1>1, <1>4, <1>5, <1>6, NextIsOpened
<1>8. /\ h.len = k.msg.len /\ Smaller(h.len - h.size, p.size) = k.n
      /\ part.size <= h.len
      /\ h.len = 0 \/ part.size = h.len =>
           Left(o, k) = k.n /\ NewMessage(h) = Understood(After(o, k))
      /\ h.len > 0 /\ part.size = h.len => Entire(part, k.cid) = k.msg
      /\ part.size < h.len => Left(o, k) # k.n /\ part = Understood(After(o, k))
  <2> DEFINE g == Opened(o, k)
             full == [g EXCEPT !.size = @ + k.n, !.payload = @ \cup {k.msg}]
  <2>1. g = h /\ full = part
    BY <1>7
  <2>2. /\ g.len = k.msg.len /\ Smaller(g.len - g.size, p.size) = k.n
        /\ full.size <= g.len
        /\ g.len = 0 \/ full.size = g.len =>
             Left(o, k) = k.n /\ NewMessage(g) = Understood(After(o, k))
        /\ g.len > 0 /\ full.size = g.len => Entire(full, k.cid) = k.msg
        /\ full.size < g.len => Left(o, k) # k.n /\ full = Understood(After(o, k))
    <3> HIDE DEF k, o, p
    <3> QED
      BY <1>1, <1>4, <1>5, OpenedIsRead
  <2> HIDE DEF g, full, h, part
  <2> QED
    BY <2>1, <2>2
<1>9. InStep(cs, k)
  BY <1>6, <1>7, <1>8 DEF InStep, Takes
<1>10. /\ UNCHANGED error
       /\ \/ /\ h.len = 0
             /\ chunk_streams' = [chunk_streams EXCEPT ![k.cid] = NewMessage(h)]
             /\ UNCHANGED <<in_chunk_size, received>>
          \/ /\ h.len > 0 /\ part.size = h.len
             /\ chunk_streams' = [chunk_streams EXCEPT ![k.cid] = NewMessage(h)]
             /\ OnRecvMessage(Entire(part, k.cid), read)
          \/ /\ h.len > 0 /\ part.size < h.len
             /\ chunk_streams' = [chunk_streams EXCEPT ![k.cid] = part]
             /\ UNCHANGED <<in_chunk_size, received>>
  <2> USE <1>7, <1>9 DEF Receive
  <2> QED
    OBVIOUS
<1> HIDE DEF k, cs, h, part, read, p, q, o
<1>11. /\ chunk_streams' = [chunk_streams EXCEPT ![k.cid] = Understood(After(o, k))]
       /\ received' = q.sent /\ in_chunk_size' = q.size
  <2>1. CASE /\ h.len = 0
             /\ chunk_streams' = [chunk_streams EXCEPT ![k.cid] = NewMessage(h)]
             /\ UNCHANGED <<in_chunk_size, received>>
    <3>1. k.msg.len = 0 /\ k.msg.kind # "chunk_size"
      <4>1. k.msg.len = 0
        BY <1>8, <2>1
      <4> QED
        BY <1>3, <4>1 DEF Messages
    <3> QED
      BY <1>5, <1>6, <1>8, <2>1, <3>1
  <2>2. CASE /\ h.len > 0 /\ part.size = h.len
             /\ chunk_streams' = [chunk_streams EXCEPT ![k.cid] = NewMessage(h)]
             /\ OnRecvMessage(Entire(part, k.cid), read)
    <3>1. Left(o, k) = k.n /\ k.msg.len > 0 /\ Entire(part, k.cid) = k.msg
      BY <1>8, <2>2
    <3>2. /\ received' = Append(received, k.msg)
          /\ in_chunk_size' = IF k.msg.kind = "chunk_size" THEN k.msg.val ELSE in_chunk_size
      BY <2>2, <3>1 DEF OnRecvMessage
    <3> QED
      BY <1>5, <1>6, <1>8, <2>2, <3>1, <3>2
  <2>3. CASE /\ h.len > 0 /\ part.size < h.len
             /\ chunk_streams' = [chunk_streams EXCEPT ![k.cid] = part]
             /\ UNCHANGED <<in_chunk_size, received>>
    BY <1>5, <1>6, <1>8, <2>3
  <2> QED
    BY <1>10, <2>1, <2>2, <2>3
<1>12. ASSUME NEW c \in Cid PROVE chunk_streams'[c] = Understood(q.out[c])
  <2>1. chunk_streams \in [Cid -> ChunkStreamState]
    BY DEF Typed
  <2>2. CASE c = k.cid
    BY <1>4, <1>5, <1>11, <2>1, <2>2
  <2>3. CASE c # k.cid
    BY <1>4, <1>5, <1>6, <1>11, <2>1, <2>3
  <2> QED
    BY <2>2, <2>3
<1> QED
  BY <1>10, <1>11, <1>12 DEF ReaderAt, q

LEMMA ReceiveKeepsOrder ==
  ASSUME Times \subseteq 0..HALF - 1, Typed, OrderInv, Receive
  PROVE  OrderInv'
<1> SUFFICES ASSUME Undisturbed'
             PROVE  /\ error' = "none"
                    /\ Follows(wire', Now', chunk_streams', received', in_chunk_size')
  BY DEF OrderInv
<1>1. stalls' = stalls /\ Now' = Now /\ wire' = Tail(wire) /\ wire # <<>> /\ wire \in Seq(Chunks)
  BY DEF Receive, Now, Typed
<1>2. Undisturbed
  BY <1>1 DEF Undisturbed
<1>3. PICK a : Line(a, wire, Now) /\ ReaderAt(a[0], wire, chunk_streams, received, in_chunk_size)
  BY <1>2 DEF OrderInv, Follows
<1>4. error' = "none" /\ ReaderAt(a[1], Tail(wire), chunk_streams', received', in_chunk_size')
  BY <1>2, <1>3, ReceiveFollows DEF OrderInv
<1>5. PICK b : Line(b, Tail(wire), Now) /\ b[0] = a[1]
  BY <1>1, <1>3, LineMoves
<1> QED
  BY <1>1, <1>4, <1>5 DEF Follows

\* A timeout does harm, or leaves the reader where the peer was.
LEMMA TimesOutKeepsOrder ==
  ASSUME Times \subseteq 0..HALF - 1, Typed, OrderInv,
         NEW place \in {"header", "ext", "payload"}, TimesOut(place)
  PROVE  OrderInv'
<1> DEFINE k == Head(wire)
           cs == chunk_streams[k.cid]
           h == Header(cs, k)
<1> SUFFICES ASSUME Undisturbed'
             PROVE  /\ error' = "none"
                    /\ Follows(wire', Now', chunk_streams', received', in_chunk_size')
  BY DEF OrderInv
<1>1. /\ wire # <<>> /\ wire \in Seq(Chunks) /\ stalls' = stalls \cup {<<k.fmt, place>>}
      /\ wire' = wire /\ Now' = Now /\ received' = received /\ in_chunk_size' = in_chunk_size
      /\ error' = error
  BY DEF TimesOut, Typed, Now, sender
<1>2. Undisturbed /\ <<k.fmt, place>> \notin Harmful
  BY <1>1 DEF Undisturbed
<1>3. PICK a : Line(a, wire, Now) /\ ReaderAt(a[0], wire, chunk_streams, received, in_chunk_size)
  BY <1>2 DEF OrderInv, Follows
<1> DEFINE o == a[0].out[k.cid]
<1>4. PeerOK(a[0]) /\ Cut(a[0], k, a[1])
  BY <1>1, <1>3, LineMoves
<1>5. /\ k \in Chunks /\ k.cid \in Cid /\ k.fmt \in 0..3 /\ OutOK(k.cid, o) /\ IsNext(o, k)
      /\ Level(o, k, cs)
  <2>1. k \in Chunks /\ k.cid \in Cid /\ k.fmt \in 0..3
    BY <1>1 DEF Chunks, Chunk
  <2> QED
    BY <1>3, <1>4, <2>1 DEF PeerOK, Cut, ReaderAt, Level
<1>6. /\ k.fmt \in {1, 2} => Level(o, k, [cs EXCEPT !.msg = TRUE]) /\ ~h.extended
      /\ k.fmt = 3 => Level(o, k, Timed(cs, k))
      /\ k.fmt = 3 /\ k.ext # Absent => Level(o, k, h)
  <2> HIDE DEF k, cs, o
  <2> QED
    BY <1>5, TimeoutKeepsLevel
<1>7. \/ /\ place = "header" /\ k.fmt # 3
         /\ chunk_streams' = [chunk_streams EXCEPT ![k.cid].msg = TRUE]
      \/ /\ place = "ext" /\ h.extended /\ k.ext # Absent
         /\ chunk_streams' = [chunk_streams EXCEPT ![k.cid] = h]
      \/ /\ place = "payload" /\ k.n > 0
         /\ chunk_streams' = [chunk_streams EXCEPT ![k.cid] = Timed(cs, k)]
  BY DEF TimesOut
<1>8. \E s : Level(o, k, s) /\ chunk_streams' = [chunk_streams EXCEPT ![k.cid] = s]
  <2>1. CASE /\ place = "header" /\ k.fmt # 3
             /\ chunk_streams' = [chunk_streams EXCEPT ![k.cid].msg = TRUE]
    <3>1. k.fmt \in {1, 2}
      <4> HIDE DEF k
      <4> QED
        BY <1>2, <1>5, <2>1 DEF Harmful
    <3>2. chunk_streams' = [chunk_streams EXCEPT ![k.cid] = [cs EXCEPT !.msg = TRUE]]
      BY <2>1
    <3> HIDE DEF k, cs, o
    <3> QED
      BY <1>6, <3>1, <3>2
  <2>2. CASE /\ place = "ext" /\ h.extended /\ k.ext # Absent
             /\ chunk_streams' = [chunk_streams EXCEPT ![k.cid] = h]
    <3> HIDE DEF k, cs, o, h
    <3>1. k.fmt = 3
      BY <1>2, <1>5, <1>6, <2>2 DEF Harmful
    <3> QED
      BY <1>6, <2>2, <3>1
  <2>3. CASE /\ place = "payload" /\ k.n > 0
             /\ chunk_streams' = [chunk_streams EXCEPT ![k.cid] = Timed(cs, k)]
    <3> HIDE DEF k, cs, o, h
    <3>1. k.fmt = 3
      BY <1>2, <1>5, <2>3 DEF Harmful
    <3> QED
      BY <1>6, <2>3, <3>1
  <2> QED
    BY <1>7, <2>1, <2>2, <2>3
<1>9. PICK s : Level(o, k, s) /\ chunk_streams' = [chunk_streams EXCEPT ![k.cid] = s]
  BY <1>8
<1>10. ReaderAt(a[0], wire, chunk_streams', received, in_chunk_size)
  <2>1. chunk_streams \in [Cid -> ChunkStreamState]
    BY DEF Typed
  <2>2. ASSUME NEW c \in Cid
        PROVE  \/ chunk_streams'[c] = Understood(a[0].out[c])
               \/ wire # <<>> /\ c = Head(wire).cid
                  /\ HalfRead(a[0].out[c], Head(wire), chunk_streams'[c])
    <3>1. CASE c = k.cid
      <4>1. chunk_streams'[c] = s
        BY <1>9, <2>1, <3>1
      <4> QED
        BY <1>1, <1>9, <3>1, <4>1 DEF Level
    <3>2. CASE c # k.cid
      <4>1. chunk_streams'[c] = chunk_streams[c]
        BY <1>9, <2>1, <3>2
      <4>2. chunk_streams[c] = Understood(a[0].out[c])
        BY <1>3, <3>2 DEF ReaderAt
      <4> QED
        BY <4>1, <4>2
    <3> QED
      BY <3>1, <3>2
  <2> QED
    BY <1>3, <2>2 DEF ReaderAt
<1>11. Follows(wire', Now', chunk_streams', received', in_chunk_size')
  BY <1>1, <1>3, <1>10 DEF Follows
<1> QED
  BY <1>1, <1>2, <1>11 DEF OrderInv

LEMMA OrderInvariance ==
  ASSUME Times \subseteq 0..HALF - 1
  PROVE  Spec => [](Typed /\ OrderInv)
<1>1. Init => OrderInv
  <2> SUFFICES ASSUME Init PROVE Follows(wire, Now, chunk_streams, received, in_chunk_size)
    BY DEF OrderInv, Init
  <2> DEFINE a == [i \in 0..0 |-> Now]
  <2>1. /\ wire = <<>> /\ received = <<>> /\ in_chunk_size = FirstChunk /\ out_chunk_size = FirstChunk
        /\ sent = <<>> /\ out = [c \in Cid |-> NotUsed]
        /\ chunk_streams = [c \in Cid |->
             [fresh |-> TRUE, time |-> 0, delta |-> 0, len |-> 0, kind |-> "media",
              extended |-> FALSE, msg |-> FALSE, size |-> 0, payload |-> {}]]
    BY DEF Init, NotUsed
  <2>2. PeerOK(Now)
    <3>1. NoMessage \in Message /\ NotUsed \in OutState
      BY ChunkStreamAssumption DEF NoMessage, Message, Kinds, Cid, NotUsed, OutState
    <3>2. /\ out \in [Cid -> OutState] /\ \A c \in Cid : OutOK(c, out[c])
      BY <2>1, <3>1 DEF OutOK
    <3>3. Now.out = out /\ Now.size = FirstChunk /\ Now.sent = <<>>
      BY <2>1 DEF Now
    <3> QED
      BY <3>2, <3>3, ChunkStreamAssumption DEF PeerOK
  <2>3. Now.sent = <<>> /\ Now.size = FirstChunk /\ Now.out = out
    BY <2>1 DEF Now
  <2>4. Len(wire) = 0 /\ a[0] = Now
    BY <2>1
  <2> HIDE DEF a
  <2>5. Line(a, wire, Now)
    <3>1. Starts(<<>>, <<>>)
      BY DEF Starts
    <3> QED
      BY <2>2, <2>3, <2>4, <3>1 DEF Line
  <2>6. Understood(NotUsed) =
          [fresh |-> TRUE, time |-> 0, delta |-> 0, len |-> 0, kind |-> "media",
           extended |-> FALSE, msg |-> FALSE, size |-> 0, payload |-> {}]
    <3> DEFINE s == [fresh |-> TRUE, time |-> 0, delta |-> 0, len |-> 0, kind |-> "media",
                     extended |-> FALSE, msg |-> FALSE, size |-> 0, payload |-> {}]
               u == Understood(NotUsed)
    <3>1. s \in ChunkStreamState
      BY DEF ChunkStreamState, Kinds
    <3>2. /\ ~NotUsed.used /\ NotUsed.field = 0 /\ NotUsed.ext = Absent
          /\ NotUsed.msg = NoMessage /\ NotUsed.left = 0
      BY DEF NotUsed
    <3>3. NoMessage.time = 0 /\ NoMessage.len = 0 /\ NoMessage.kind = "media"
      BY DEF NoMessage
    <3>4. u \in ChunkStreamState
      <4>1. OutOK(Control, NotUsed)
        <5>1. NoMessage \in Message
          BY DEF NoMessage, Message, Kinds, Cid
        <5> QED
          BY <5>1, ChunkStreamAssumption DEF OutOK, NotUsed, OutState
      <4> QED
        BY <4>1, UnderstoodIsState
    <3>5. /\ u.fresh /\ ~u.extended /\ ~u.msg /\ u.time = 0 /\ u.delta = 0 /\ u.len = 0
          /\ u.kind = "media" /\ u.size = 0 /\ u.payload = {}
      <4>1. PICK o : o = NotUsed
        OBVIOUS
      <4>2. /\ (Understood(o).fresh <=> ~o.used) /\ (Understood(o).extended <=> o.ext # Absent)
            /\ (Understood(o).msg <=> o.left > 0)
        BY UnderstoodFields
      <4>3. /\ Understood(o).time = o.msg.time /\ Understood(o).delta = o.field
            /\ Understood(o).len = o.msg.len /\ Understood(o).kind = o.msg.kind
        BY UnderstoodFields
      <4>4. ~(o.left > 0)
        BY <3>2, <4>1
      <4>5. Understood(o).size = 0 /\ Understood(o).payload = {}
        BY <4>4, UnderstoodFields
      <4> HIDE DEF u
      <4>6. ~u.extended /\ ~u.msg /\ u.fresh
        BY <3>2, <4>1, <4>2, <4>4 DEF u
      <4>7. u.time = 0 /\ u.delta = 0 /\ u.len = 0 /\ u.kind = "media"
        BY <3>2, <3>3, <4>1, <4>3 DEF u
      <4>8. u.size = 0 /\ u.payload = {}
        BY <4>1, <4>5 DEF u
      <4> QED
        BY <4>6, <4>7, <4>8
    <3>6. /\ s.fresh /\ ~s.extended /\ ~s.msg /\ s.time = 0 /\ s.delta = 0 /\ s.len = 0
          /\ s.kind = "media" /\ s.size = 0 /\ s.payload = {}
      OBVIOUS
    <3> HIDE DEF s, u
    <3>7. u.fresh = s.fresh /\ u.extended = s.extended /\ u.msg = s.msg
      BY <3>1, <3>4, <3>5, <3>6 DEF ChunkStreamState
    <3>8. u = s
      BY <3>1, <3>4, <3>5, <3>6, <3>7, SameState
    <3> QED
      BY <3>8 DEF s, u
  <2>7. ReaderAt(a[0], wire, chunk_streams, received, in_chunk_size)
    BY <2>1, <2>3, <2>4, <2>6 DEF ReaderAt
  <2> QED
    BY <2>5, <2>7 DEF Follows
<1>2. Typed /\ OrderInv /\ [Next]_vars => OrderInv'
  <2> SUFFICES ASSUME Typed, OrderInv, [Next]_vars PROVE OrderInv'
    OBVIOUS
  <2>1. CASE BeginMedia \/ SetChunkSize \/ AskForAcks \/ \E c \in Cid : Continue(c)
    BY <2>1, PeerSends, SentKeepsOrder
  <2>2. CASE Receive
    BY <2>2, ReceiveKeepsOrder
  <2>3. CASE \E place \in {"header", "ext", "payload"} : TimesOut(place)
    BY <2>3, TimesOutKeepsOrder
  <2>4. CASE UNCHANGED vars
    BY <2>4 DEF vars, sender, reader, OrderInv, Undisturbed, Now, Follows
  <2> QED
    BY <2>1, <2>2, <2>3, <2>4 DEF Next
<1> QED
  BY <1>1, <1>2, TypesInvariance, PTL DEF Spec

(* Whatever the peer interleaves, whenever it changes its chunk size and whichever of
   the three ways it writes extended timestamps, the reader never loses the chunk
   boundaries and never refuses a chunk, for any number of chunk streams, messages
   and timeouts, unless a timeout made it read a header of a message twice. *)
THEOREM ReaderStaysInStep ==
  ASSUME Times \subseteq 0..HALF - 1
  PROVE  Spec => []StaysInStep
<1>1. OrderInv => StaysInStep
  BY DEF OrderInv, StaysInStep
<1> QED
  BY <1>1, OrderInvariance, PTL

------------------------------------------------------------------------------
(* The message channel *)

LEMMA StepOfChannel ==
  ASSUME Times \subseteq 0..HALF - 1, Typed, OrderInv, [Next]_vars
  PROVE  [Channel!Next]_(Channel!vars)
<1>1. CASE ~Undisturbed'
  BY <1>1 DEF Channel!Next, Channel!Break
<1>2. CASE Undisturbed'
  <2>1. ASSUME stalls' = stalls PROVE Undisturbed' = Undisturbed
    BY <2>1 DEF Undisturbed
  <2>2. CASE BeginMedia \/ SetChunkSize \/ AskForAcks \/ \E c \in Cid : Continue(c)
    <3>1. PICK k : Sent(k)
      BY <2>2, PeerSends
    <3>2. /\ Cut(Now, k, Now') /\ received' = received /\ Undisturbed' = Undisturbed
      BY <2>1, <3>1 DEF Sent, reader
    <3>3. sent' \in {sent, Append(sent, k.msg)}
      BY <3>2 DEF Cut, Now
    <3>4. sent \in Seq(Message) /\ k.msg \in Message
      BY <3>2 DEF Typed, PeerOK, Now, Cut, Chunks, Messages
    <3>5. CASE sent' = sent
      BY <3>2, <3>5 DEF Channel!vars
    <3>6. CASE sent' = Append(sent, k.msg)
      <4>1. sent' # sent /\ sent' = Append(sent, Last(sent'))
        <5>1. Len(sent') = Len(sent) + 1 /\ sent'[Len(sent) + 1] = k.msg
          BY <3>4, <3>6
        <5>2. Len(sent) \in Nat
          BY <3>4
        <5> QED
          BY <3>6, <5>1, <5>2 DEF Last
      <4>2. Undisturbed /\ Undisturbed' = Undisturbed /\ received' = received
        BY <1>2, <3>2
      <4>3. Channel!Send
        BY <4>1, <4>2 DEF Last, Channel!Last, Channel!Send
      <4>4. Channel!Next
        BY <4>3 DEF Channel!Next
      <4> QED
        BY <4>4
    <3> QED
      BY <3>3, <3>5, <3>6
  <2>3. CASE Receive
    <3>1. /\ stalls' = stalls /\ sent' = sent /\ wire # <<>> /\ wire \in Seq(Chunks) /\ error = "none"
      BY <2>3 DEF Receive, Typed
    <3>2. Undisturbed' = Undisturbed
      BY <2>1, <3>1
    <3>3. PICK a : /\ Line(a, wire, Now)
                   /\ ReaderAt(a[0], wire, chunk_streams, received, in_chunk_size)
      BY <1>2, <3>2 DEF OrderInv, Follows
    <3>4. received = a[0].sent /\ received' = a[1].sent
      BY <2>3, <3>1, <3>3, ReceiveFollows DEF ReaderAt
    <3>5. Cut(a[0], Head(wire), a[1]) /\ Starts(a[1].sent, sent) /\ PeerOK(a[0])
      BY <3>1, <3>3, LineMoves DEF Now
    <3> DEFINE m == Head(wire).msg
    <3>6. received' \in {received, Append(received, m)} /\ Starts(received', sent)
      BY <3>4, <3>5 DEF Cut
    <3>7. received \in Seq(Message) /\ sent \in Seq(Message) /\ m \in Message
      BY <3>5 DEF Typed, PeerOK, Now, Cut, Chunks, Messages
    <3> HIDE DEF m
    <3>8. CASE received' = received
      BY <3>1, <3>2, <3>8 DEF Channel!vars
    <3>9. CASE received' = Append(received, m)
      <4>1. /\ Len(received') = Len(received) + 1 /\ received'[Len(received) + 1] = m
            /\ Len(received) \in Nat /\ Len(sent) \in Nat
        BY <3>7, <3>9
      <4>2. Len(received) < Len(sent) /\ sent[Len(received) + 1] = m
        BY <3>6, <4>1 DEF Starts
      <4> QED
        BY <1>2, <3>1, <3>2, <3>9, <4>2 DEF Channel!Next, Channel!Receive
    <3> QED
      BY <3>6, <3>8, <3>9
  <2>4. CASE \E place \in {"header", "ext", "payload"} : TimesOut(place)
    <3>1. PICK place : TimesOut(place)
      BY <2>4
    <3>2. sent' = sent /\ received' = received /\ stalls \subseteq stalls'
      BY <3>1 DEF TimesOut, sender
    <3>3. Undisturbed
      BY <1>2, <3>2 DEF Undisturbed
    <3> QED
      BY <1>2, <3>2, <3>3 DEF Channel!vars
  <2>5. CASE UNCHANGED vars
    BY <2>1, <2>5 DEF vars, sender, reader, Channel!vars
  <2> QED
    BY <2>2, <2>3, <2>4, <2>5 DEF Next
<1> QED
  BY <1>1, <1>2

(* The chunk stream is a MessageChannel in every step: what recv_message() returns is
   the message that the peer finished next, with its time, its kind and its bytes,
   whatever was mixed with it on the way, until a timeout does harm. *)
THEOREM ChannelIsKept ==
  ASSUME Times \subseteq 0..HALF - 1
  PROVE  Spec => Channel!Init /\ [][Channel!Next]_(Channel!vars)
<1>1. Init => Channel!Init
  BY DEF Init, Channel!Init, Undisturbed
<1>2. Typed /\ OrderInv /\ [Next]_vars => [Channel!Next]_(Channel!vars)
  BY StepOfChannel
<1> QED
  BY <1>1, <1>2, OrderInvariance, PTL DEF Spec
==============================================================================
