----------------------------- MODULE ChunkStream -----------------------------
(***************************************************************************)
(* RTMP chunk streams between a peer and SrsProtocol: how the peer cuts    *)
(* its messages into chunks (SrsProtocol::do_send_and_free_message when    *)
(* the peer is an SRS, the encoders and players it is written for else),   *)
(* how recv_interlaced_message puts them together again, the chunk size    *)
(* and the acknowledgement window both sides agree on inside the stream,   *)
(* and receive timeouts in the middle of a chunk, after which the callers  *)
(* that wait with a pulse read the same chunk again.                       *)
(*                                                                         *)
(* The wire is a sequence of chunks; a reader that consumes another number *)
(* of bytes than a chunk has is out of step, and the model ends there. The *)
(* bytes of a payload are the message they belong to.                      *)
(***************************************************************************)
EXTENDS Integers, Sequences, FiniteSets, SequencesExt

CONSTANTS
  Control,      \* the chunk id of control messages (RTMP_CID_ProtocolControl)
  Media,        \* the chunk ids of media
  Peers,        \* kinds of peers, of "srs", "adobe", "librtmp"
  EXT,          \* RTMP_EXTENDED_TIMESTAMP, scaled
  HALF,         \* 2^31, scaled: what the reader masks times with
  Times,        \* times of messages
  Lens,         \* payload lengths of media
  FirstChunk,   \* RTMP_DEFAULT_CHUNK_SIZE, scaled
  ChunkSizes,   \* the chunk sizes a peer may set
  Window,       \* the acknowledgement window a peer asks for
  Slack,        \* how far beyond its window a peer sends on
  MaxMessages,  \* bound: messages of the peer
  MaxWire,      \* bound: chunks in flight
  MaxStalls     \* bound: receive timeouts in the middle of a chunk

ASSUME ChunkStreamAssumption ==
  /\ Control \notin Media
  /\ Peers \subseteq {"srs", "adobe", "librtmp"}
  /\ EXT \in Nat \ {0} /\ HALF \in Nat /\ EXT < HALF
  /\ Times \subseteq Nat /\ Lens \subseteq Nat
  /\ FirstChunk \in ChunkSizes /\ ChunkSizes \subseteq Nat \ {0}
  /\ Window \in Nat \ {0} /\ Slack \in Nat
  /\ MaxMessages \in Nat /\ MaxWire \in Nat /\ MaxStalls \in Nat

Cid == Media \cup {Control}
Kinds == {"media", "chunk_size", "window"}
Absent == -1   \* no extended timestamp in the chunk

\* A message; val is what a control message says.
Message == [id : Nat, cid : Cid, kind : Kinds, time : Nat, len : Nat, val : Nat]

VARIABLES
  peer,            \* the kind of the peer
  out,             \* its state of each chunk stream
  out_chunk_size,  \* its SrsProtocol::out_chunk_size
  begun,           \* messages it has begun
  sent,            \* history: those it has sent in full, empty ones left out
  owed,            \* bytes sent and not acknowledged since it asked for that
  wire,            \* chunks on the way
  chunk_streams,   \* SrsProtocol::chunk_streams
  in_chunk_size,   \* SrsProtocol::in_chunk_size
  ack_window,      \* in_ack_size.ack_window_size
  unacked,         \* bytes read since in_ack_size.acked_size
  received,        \* history: messages recv_message() returned
  error,           \* what ended the connection
  stalls           \* history: the chunk formats and places of timeouts

sender == <<peer, out, out_chunk_size, begun, sent, owed>>
reader == <<chunk_streams, in_chunk_size, ack_window, unacked, received, error>>
vars == <<sender, wire, reader, stalls>>

NoMessage == [id |-> 0, cid |-> Control, kind |-> "media", time |-> 0, len |-> 0, val |-> 0]

Init ==
  /\ peer \in Peers
  /\ out = [c \in Cid |-> [used |-> FALSE, field |-> 0, ext |-> Absent,
                           msg |-> NoMessage, left |-> 0]]
  /\ out_chunk_size = FirstChunk
  /\ begun = 0 /\ sent = <<>> /\ owed = 0 /\ wire = <<>>
  /\ chunk_streams = [c \in Cid |->
       [fresh |-> TRUE, time |-> 0, delta |-> 0, len |-> 0, kind |-> "media",
        extended |-> FALSE, msg |-> FALSE, size |-> 0, payload |-> {}]]
  /\ in_chunk_size = FirstChunk
  /\ ack_window = 0 /\ unacked = 0
  /\ received = <<>> /\ error = "none" /\ stalls = {}

------------------------------------------------------------------------------
\* The peer.

Smaller(a, b) == IF a < b THEN a ELSE b

\* Bytes of a chunk, as both sides count them.
Bytes(k) == 1 + k.n
BytesOf(chunks) == FoldLeft(LAMBDA sum, k : sum + Bytes(k), 0, chunks)

\* The peer waits for an acknowledgement once it has asked for them.
Announced == \E i \in DOMAIN sent : sent[i].kind = "window"
Blocked == owed >= Window + Slack

CanSend == error = "none" /\ ~Blocked /\ Len(wire) < MaxWire

\* The next chunk of message m, of which left bytes are to go, leaves; with its
\* last chunk the message is sent, and a new chunk size is in force. The chunk
\* stream remembers the field and the extended timestamp of the first chunk.
Sends(m, fmt, left, field, ext) ==
  LET n == Smaller(left, out_chunk_size)
      omitted == fmt = 3 /\ peer = "librtmp"
      k == [cid |-> m.cid, fmt |-> fmt, field |-> field,
            ext |-> IF omitted THEN Absent ELSE ext, n |-> n, msg |-> m]
  IN /\ wire' = Append(wire, k)
     /\ out' = [out EXCEPT ![m.cid] =
          [used |-> TRUE, field |-> field, ext |-> ext, msg |-> m, left |-> left - n]]
     /\ sent' = IF left = n /\ m.len > 0 THEN Append(sent, m) ELSE sent
     /\ owed' = IF Announced THEN owed + Bytes(k) ELSE 0
     /\ out_chunk_size' = IF left = n /\ m.kind = "chunk_size" THEN m.val ELSE out_chunk_size
     /\ UNCHANGED <<peer, reader, stalls>>

\* Which formats may begin m: an SRS uses 0 only, the others leave out what is as
\* in the last message. A format 3 repeats the field of the last header, also
\* when that was the time of a format 0. A delta too large for its field is not
\* sent by any of them: they begin with format 0 again.
MayBegin(m, fmt) ==
  LET last == out[m.cid]
      delta == m.time - last.msg.time
  IN fmt # 0 => /\ peer # "srs" /\ last.used /\ last.ext = Absent
                /\ delta \in 0..EXT - 1
                /\ fmt >= 2 => m.len = last.msg.len /\ m.kind = last.msg.kind
                /\ fmt = 3 => delta = last.field

\* The peer begins a message. The first chunk carries the time if its format is 0,
\* the time since the last message of the chunk stream else; what is too large for
\* the field goes into the extension. An SRS sends one message after the other, the
\* others mix the chunks of their chunk streams.
Begin(m, fmt) ==
  LET time == IF fmt = 0 THEN m.time ELSE m.time - out[m.cid].msg.time
      ext == IF time >= EXT THEN time ELSE Absent
  IN /\ CanSend /\ begun < MaxMessages
     /\ out[m.cid].left = 0
     /\ peer = "srs" => \A c \in Cid : out[c].left = 0
     /\ MayBegin(m, fmt)
     /\ begun' = begun + 1
     /\ Sends(m, fmt, m.len, Smaller(time, EXT), ext)

MediaMessage(c, time, len) ==
  [id |-> begun + 1, cid |-> c, kind |-> "media", time |-> time, len |-> len, val |-> 0]
ControlMessage(kind, val) ==
  [id |-> begun + 1, cid |-> Control, kind |-> kind, time |-> 0, len |-> 1, val |-> val]

BeginMedia == \E c \in Media, time \in Times, len \in Lens, fmt \in 0..3 :
  Begin(MediaMessage(c, time, len), fmt)
SetChunkSize == \E size \in ChunkSizes \ {out_chunk_size} :
  Begin(ControlMessage("chunk_size", size), 0)
AskForAcks == ~Announced /\ Begin(ControlMessage("window", Window), 0)

\* The next chunk of a message: SRS and Adobe repeat the extended timestamp,
\* librtmp and ffmpeg do not.
Continue(c) ==
  /\ CanSend /\ out[c].left > 0
  /\ Sends(out[c].msg, 3, out[c].left, out[c].field, out[c].ext)
  /\ UNCHANGED begun

------------------------------------------------------------------------------
\* The reader: SrsProtocol::recv_interlaced_message on the chunk k, cs being the
\* chunk stream of its id.

\* A chunk stream starts with format 0, and a message in parts has no second start.
ChunkStart(cs, k) == IF cs.msg THEN k.fmt = 0 ELSE cs.fresh /\ k.fmt # 0

\* A header that gives the length again may not differ from the bytes so far.
PacketSize(cs, k) == k.fmt <= 1 /\ cs.size > 0 /\ cs.size # k.msg.len

\* Mutants of Header: an extension is never forgotten; a format 3 that begins a
\* message does not add the delta.
HeaderStaysExtended(cs, k) ==
  LET extended == cs.extended \/ (k.fmt # 3 /\ k.field >= EXT)
      delta == IF k.fmt = 3 THEN cs.delta ELSE k.field
      adds == ~extended /\ (k.fmt = 3 => ~cs.msg)
  IN [cs EXCEPT !.msg = TRUE,
        !.extended = extended,
        !.delta = delta,
        !.time = IF ~adds THEN @ ELSE IF k.fmt = 0 THEN delta ELSE @ + delta,
        !.len = IF k.fmt <= 1 THEN k.msg.len ELSE @,
        !.kind = IF k.fmt <= 1 THEN k.msg.kind ELSE @]

HeaderSameTime(cs, k) ==
  LET extended == IF k.fmt = 3 THEN cs.extended ELSE k.field >= EXT
      delta == IF k.fmt = 3 THEN cs.delta ELSE k.field
      adds == ~extended /\ k.fmt # 3
  IN [cs EXCEPT !.msg = TRUE,
        !.extended = extended,
        !.delta = delta,
        !.time = IF ~adds THEN @ ELSE IF k.fmt = 0 THEN delta ELSE @ + delta,
        !.len = IF k.fmt <= 1 THEN k.msg.len ELSE @,
        !.kind = IF k.fmt <= 1 THEN k.msg.kind ELSE @]

\* The header is read. A format 3 that begins a message adds the last field again.
Header(cs, k) ==
  LET extended == IF k.fmt = 3 THEN cs.extended ELSE k.field >= EXT
      delta == IF k.fmt = 3 THEN cs.delta ELSE k.field
      adds == ~extended /\ (k.fmt = 3 => ~cs.msg)
  IN [cs EXCEPT !.msg = TRUE,
        !.extended = extended,
        !.delta = delta,
        !.time = IF ~adds THEN @ ELSE IF k.fmt = 0 THEN delta ELSE @ + delta,
        !.len = IF k.fmt <= 1 THEN k.msg.len ELSE @,
        !.kind = IF k.fmt <= 1 THEN k.msg.kind ELSE @]

\* The four bytes behind the header: the extended timestamp, or payload, which is
\* taken not to look like one.
Word(k) == k.ext

\* Whether the reader takes these four bytes for the extended timestamp: always
\* for the first chunk of a message, h being the chunk stream with the header read.
TakesExt(cs, k) ==
  LET h == Header(cs, k)
  IN h.extended /\ (cs.msg /\ h.time > 0 => h.time = Word(k))

\* The header is complete.
Timed(cs, k) ==
  LET h == Header(cs, k)
      time == IF TakesExt(cs, k) THEN Word(k) ELSE h.time
  IN [h EXCEPT !.fresh = FALSE, !.time = time % HALF]

\* The bytes of payload it reads.
Takes(h) == Smaller(h.len - h.size, in_chunk_size)

\* It has read what the peer wrote.
InStep(cs, k) ==
  /\ TakesExt(cs, k) <=> k.ext # Absent
  /\ Takes(Timed(cs, k)) = k.n

NewMessage(cs) == [cs EXCEPT !.msg = FALSE, !.size = 0, !.payload = {}]

\* The message that was put together: who wrote its bytes, under which header.
Entire(h, c) ==
  LET of == CHOOSE m \in h.payload : TRUE
  IN [id |-> IF Cardinality(h.payload) = 1 THEN of.id ELSE 0, cid |-> c,
      kind |-> h.kind, time |-> h.time, len |-> h.len, val |-> of.val]

Fails(what) ==
  /\ error' = what
  /\ UNCHANGED <<chunk_streams, in_chunk_size, ack_window, unacked, received, owed>>

\* Mutants of OnRecvMessage: the length of the message is taken for the chunk size;
\* only control messages are acknowledged.
OnRecvMessageLength(m, read) ==
  /\ IF ack_window > 0 /\ read > ack_window
     THEN unacked' = 0 /\ owed' = BytesOf(Tail(wire))
     ELSE unacked' = read /\ UNCHANGED owed
  /\ ack_window' = IF m.kind = "window" /\ m.val > 0 THEN m.val ELSE ack_window
  /\ in_chunk_size' = IF m.kind = "chunk_size" THEN m.len ELSE in_chunk_size
  /\ received' = Append(received, m)

OnRecvMessageControl(m, read) ==
  /\ IF m.kind # "media" /\ ack_window > 0 /\ read > ack_window
     THEN unacked' = 0 /\ owed' = BytesOf(Tail(wire))
     ELSE unacked' = read /\ UNCHANGED owed
  /\ ack_window' = IF m.kind = "window" /\ m.val > 0 THEN m.val ELSE ack_window
  /\ in_chunk_size' = IF m.kind = "chunk_size" THEN m.val ELSE in_chunk_size
  /\ received' = Append(received, m)

\* on_recv_message(): the acknowledgement first, then what the message says.
OnRecvMessage(m, read) ==
  /\ IF ack_window > 0 /\ read > ack_window
     THEN unacked' = 0 /\ owed' = BytesOf(Tail(wire))
     ELSE unacked' = read /\ UNCHANGED owed
  /\ ack_window' = IF m.kind = "window" /\ m.val > 0 THEN m.val ELSE ack_window
  /\ in_chunk_size' = IF m.kind = "chunk_size" THEN m.val ELSE in_chunk_size
  /\ received' = Append(received, m)

\* recv_message() goes on with the next chunk unless a message is complete; an
\* empty one is dropped.
Receive ==
  LET k == Head(wire)
      cs == chunk_streams[k.cid]
      h == Timed(cs, k)
      part == [h EXCEPT !.size = @ + k.n, !.payload = @ \cup {k.msg}]
      read == unacked + Bytes(k)
  IN /\ error = "none" /\ wire # <<>>
     /\ wire' = Tail(wire)
     /\ UNCHANGED <<peer, out, out_chunk_size, begun, sent, stalls>>
     /\ \/ ChunkStart(cs, k) /\ Fails("chunk_start")
        \/ ~ChunkStart(cs, k) /\ PacketSize(cs, k) /\ Fails("packet_size")
        \/ ~ChunkStart(cs, k) /\ ~PacketSize(cs, k) /\ ~InStep(cs, k) /\ Fails("out_of_step")
        \/ /\ ~ChunkStart(cs, k) /\ ~PacketSize(cs, k) /\ InStep(cs, k)
           /\ UNCHANGED error
           /\ \/ /\ h.len = 0
                 /\ chunk_streams' = [chunk_streams EXCEPT ![k.cid] = NewMessage(h)]
                 /\ unacked' = read
                 /\ UNCHANGED <<in_chunk_size, ack_window, received, owed>>
              \/ /\ h.len > 0 /\ part.size = h.len
                 /\ chunk_streams' = [chunk_streams EXCEPT ![k.cid] = NewMessage(h)]
                 /\ OnRecvMessage(Entire(part, k.cid), read)
              \/ /\ h.len > 0 /\ part.size < h.len
                 /\ chunk_streams' = [chunk_streams EXCEPT ![k.cid] = part]
                 /\ unacked' = read
                 /\ UNCHANGED <<in_chunk_size, ack_window, received, owed>>

\* The rest of a chunk does not come in time, and recv_message() returns with
\* ERROR_SOCKET_TIMEOUT, the buffer untouched: in the header, which a format 3 has
\* not; in the extended timestamp; in the payload. What was read is kept in the
\* chunk stream, and the next call begins with the same chunk.
TimesOut(place) ==
  LET k == Head(wire)
      cs == chunk_streams[k.cid]
      h == Header(cs, k)
  IN /\ error = "none" /\ wire # <<>>
     /\ Cardinality(stalls) < MaxStalls
     /\ ~ChunkStart(cs, k) /\ ~PacketSize(cs, k) /\ InStep(cs, k)
     /\ \/ /\ place = "header" /\ k.fmt # 3
           /\ chunk_streams' = [chunk_streams EXCEPT ![k.cid].msg = TRUE]
        \/ /\ place = "ext" /\ h.extended /\ k.ext # Absent
           /\ chunk_streams' = [chunk_streams EXCEPT ![k.cid] = h]
        \/ /\ place = "payload" /\ k.n > 0
           /\ chunk_streams' = [chunk_streams EXCEPT ![k.cid] = Timed(cs, k)]
     /\ stalls' = stalls \cup {<<k.fmt, place>>}
     /\ UNCHANGED <<sender, wire, in_chunk_size, ack_window, unacked, received, error>>

Next ==
  \/ BeginMedia \/ SetChunkSize \/ AskForAcks
  \/ \E c \in Cid : Continue(c)
  \/ Receive
  \/ \E place \in {"header", "ext", "payload"} : TimesOut(place)

\* What was sent arrives, and the reading coroutine is scheduled. Nothing makes
\* the peer send.
Spec == Init /\ [][Next]_vars /\ WF_vars(Receive)

------------------------------------------------------------------------------

\* The header of a message that is read twice: it starts the message again, or
\* adds its delta again. A repeated format 3 is read as the first time.
Harmful == {<<0, "header">>, <<0, "ext">>, <<0, "payload">>, <<1, "payload">>, <<2, "payload">>}
Undisturbed == stalls \cap Harmful = {}

\* Types of the state.
TypeOK ==
  /\ peer \in Peers
  /\ \A c \in Cid :
       /\ out[c].used \in BOOLEAN /\ out[c].msg \in Message /\ out[c].left \in Nat
       /\ out[c].field \in 0..EXT /\ out[c].ext \in Nat \cup {Absent}
  /\ out_chunk_size \in ChunkSizes /\ in_chunk_size \in ChunkSizes
  /\ begun \in Nat /\ sent \in Seq(Message) /\ received \in Seq(Message)
  /\ \A i \in DOMAIN wire :
       wire[i].cid \in Cid /\ wire[i].fmt \in 0..3 /\ wire[i].n \in Nat /\ wire[i].msg \in Message
  /\ \A c \in Cid :
       /\ chunk_streams[c].time \in 0..HALF - 1
       /\ chunk_streams[c].size \in Nat /\ chunk_streams[c].size <= chunk_streams[c].len
  /\ ack_window \in Nat /\ unacked \in Nat /\ owed \in Nat
  /\ error \in {"none", "chunk_start", "packet_size", "out_of_step"}
  /\ stalls \subseteq (0..3) \X {"header", "ext", "payload"}

\* Whatever the peer interleaves, whenever it changes its chunk size and whichever
\* of the three ways it writes extended timestamps, the reader never loses the
\* chunk boundaries and never refuses a chunk, unless a timeout made it read a
\* header of a message twice.
StaysInStep == Undisturbed => error = "none"

\* "if timeout, we generally ignore and send the data to client": the reader stays in
\* step whichever timeouts are ignored. The code does not keep it (README.md).
IgnoredTimeoutsDoNoHarm == error = "none"

\* The chunk stream is a MessageChannel: the messages arrive in the order in which
\* the peer finished them, with the times and the bytes they were sent with.
Channel == INSTANCE MessageChannel WITH ok <- Undisturbed
ImplementsChannel == Channel!Spec

\* A peer that waits for the acknowledgement it asked for gets it: its window and
\* the slack are large enough to finish the messages it has begun.
PeerGoesOn == (Blocked /\ Undisturbed) ~> (~Blocked \/ ~Undisturbed)

\* "client/server will block if required ack msg not arrived": it arrives before the
\* peer waits for it while the reader waits for the rest of its message. The code does
\* not keep it (README.md) where the slack does not let the peer finish one.
NobodyWaitsForever == ~(Blocked /\ wire = <<>> /\ error = "none")
==============================================================================
