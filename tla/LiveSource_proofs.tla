--------------------------- MODULE LiveSource_proofs ---------------------------
(***************************************************************************)
(* What TLAPS proves of LiveSource, for any peers, times, rates and events *)
(* of the encoder.  First of one step of the jitter and of the message     *)
(* queue, for every message, every state of them and every queue_length;   *)
(* then of the source: the types, and that the cached group of pictures is *)
(* one group of one session; then of the queues of the peers: that times   *)
(* are smooth, that frames follow their past, that players can decode, and *)
(* that the loop over shrink() leaves what Enqueue says in one step.       *)
(***************************************************************************)
EXTENDS MCLiveSource, DataInduction, FiniteSetTheorems, SequenceTheorems, TLAPS

Message == [kind : Kinds, time : Nat, sh : Nat]
Jitter == [last_pkt_time : Nat, last_pkt_correct_time : Nat]
Queue == [msgs : Seq(Message), av_start_time : Nat \cup {-1}, av_end_time : Nat \cup {-1}]

------------------------------------------------------------------------------
\* The delta the jitter adds is valid, whatever the clock of the encoder did
\* and whatever rates the metadata gave.
LEMMA DeltaIsValid ==
  ASSUME NEW j \in Jitter, NEW m \in Message, NEW tba \in Nat, NEW tbv \in Nat
  PROVE  Delta(j, m, tba, tbv) \in 0..CONST_MAX_JITTER_MS
<1> USE JitterAssumption
<1>1. m.time - j.last_pkt_time \in Int
  BY DEF Message, Jitter
<1>2. Rescaled(m, m.time - j.last_pkt_time, tba, tbv) \in Int
  <2>1. ASSUME NEW a \in Int, NEW b \in Nat, b > 0 PROVE Truncated(a, b) \in Int
    BY <2>1 DEF Truncated
  <2> QED
    BY <1>1, <2>1 DEF Rescaled
<1> QED
  BY <1>1, <1>2 DEF Delta, Valid

(* The corrected time of a peer goes neither back nor forth by more than the
   maximum: "to ensure the rtmp stream is monotonically". *)
THEOREM CorrectedTimeIsSmooth ==
  ASSUME NEW j \in Jitter, NEW m \in Message, NEW tba \in Nat, NEW tbv \in Nat
  PROVE  LET k == Corrected(j, m, tba, tbv) IN
           /\ k \in Jitter
           /\ k.last_pkt_correct_time - j.last_pkt_correct_time \in 0..CONST_MAX_JITTER_MS
<1> DEFINE d == Delta(j, m, tba, tbv)
           t == j.last_pkt_correct_time + d
<1> USE JitterAssumption
<1>1. d \in Nat /\ d <= CONST_MAX_JITTER_MS
  BY DeltaIsValid
<1>2. t \in Nat
  BY <1>1 DEF Jitter
<1>3. Max({0, t}) = t
  BY <1>2 DEF Max
<1>4. CASE IsAV(m)
  <2>1. Corrected(j, m, tba, tbv) = [last_pkt_time |-> m.time, last_pkt_correct_time |-> t]
    BY <1>3, <1>4 DEF Corrected
  <2> QED
    BY <1>1, <1>2, <2>1 DEF Jitter, Message
<1>5. CASE ~IsAV(m)
  BY <1>5 DEF Corrected, Jitter
<1> QED
  BY <1>4, <1>5

------------------------------------------------------------------------------
LEMMA PushedIsQueue ==
  ASSUME NEW q \in Queue, NEW m \in Message PROVE Pushed(q, m) \in Queue
BY DEF Pushed, Queue, Message

\* What enqueue() leaves: everything, nothing, or what begins at a key frame from
\* which the queue is not full.
LEMMA EnqueueOutcome ==
  ASSUME NEW q \in Queue, NEW m \in Message, NEW size \in Nat
  PROVE  LET p == Pushed(q, m)
             r == Enqueue(q, m, size)
         IN \/ ~IsFull(p, size) /\ r = p
            \/ IsFull(p, size) /\ r = NewQueue
            \/ /\ IsFull(p, size)
               /\ \E cut \in Cuts(p, size) :
                    r = [msgs |-> SubSeq(p.msgs, cut, Len(p.msgs)),
                         av_start_time |-> p.msgs[cut].time,
                         av_end_time |-> p.av_end_time]
<1> DEFINE p == Pushed(q, m)
<1>1. p \in Queue
  BY PushedIsQueue
<1>2. Cuts(p, size) \in SUBSET Nat
  BY <1>1 DEF Cuts, Queue
<1>3. CASE Cuts(p, size) # {}
  BY <1>2, <1>3, MinIsMember DEF Enqueue
<1>4. CASE Cuts(p, size) = {}
  BY <1>4 DEF Enqueue
<1> QED
  BY <1>3, <1>4

(* However full a queue was, and however queue_length was changed by a reload,
   one enqueue() brings it within queue_length: "we limit the size in seconds". *)
THEOREM EnqueueLimitsQueue ==
  ASSUME NEW q \in Queue, NEW m \in Message, NEW size \in Nat
  PROVE  ~IsFull(Enqueue(q, m, size), size)
<1> DEFINE p == Pushed(q, m)
<1>1. p \in Queue
  BY PushedIsQueue
<1>2. ~IsFull(NewQueue, size)
  BY DEF IsFull, NewQueue
<1>3. ASSUME NEW cut \in Cuts(p, size)
      PROVE  ~IsFull([msgs |-> SubSeq(p.msgs, cut, Len(p.msgs)),
                      av_start_time |-> p.msgs[cut].time,
                      av_end_time |-> p.av_end_time], size)
  <2>1. p.msgs[cut].time \in Nat /\ p.av_end_time \in Int
    <3>1. p.msgs \in Seq(Message) /\ cut \in 1..Len(p.msgs)
      BY <1>1 DEF Cuts, Queue
    <3>2. p.msgs[cut] \in Message
      BY <3>1, ElementOfSeq
    <3> QED
      BY <1>1, <3>2 DEF Queue, Message
  <2> QED
    BY <2>1 DEF Cuts, IsFull
<1> QED
  BY <1>2, <1>3, EnqueueOutcome

(* A queue that drops something goes on with a key frame, or with nothing: the
   peer is not sent the rest of a group of pictures. *)
THEOREM DropEndsAtKeyframe ==
  ASSUME NEW q \in Queue, NEW m \in Message, NEW size \in Nat,
         Enqueue(q, m, size).msgs # Append(q.msgs, m),
         Enqueue(q, m, size).msgs # <<>>
  PROVE  IsKeyframe(Enqueue(q, m, size).msgs[1])
<1> DEFINE p == Pushed(q, m)
           r == Enqueue(q, m, size)
<1>1. p \in Queue /\ p.msgs = Append(q.msgs, m)
  BY PushedIsQueue DEF Pushed
<1>2. PICK cut \in Cuts(p, size) :
        r = [msgs |-> SubSeq(p.msgs, cut, Len(p.msgs)),
             av_start_time |-> p.msgs[cut].time,
             av_end_time |-> p.av_end_time]
  <2>1. r # p /\ r # NewQueue
    BY <1>1 DEF NewQueue
  <2> QED
    BY <2>1, EnqueueOutcome
<1>3. cut \in 2..Len(p.msgs) /\ IsKeyframe(p.msgs[cut])
  BY DEF Cuts
<1>4. SubSeq(p.msgs, cut, Len(p.msgs))[1] = p.msgs[cut]
  BY <1>1, <1>3 DEF Queue
<1> QED
  BY <1>2, <1>3, <1>4

------------------------------------------------------------------------------
\* What is kept: the caches are sequences of messages, the counters are bounded by
\* the events, and the gop cache counts video only while it holds some.
CachesOK ==
  /\ meta \in Seq(Message) /\ vsh \in Seq(Message) /\ ash \in Seq(Message)
  /\ gop \in Seq(Message)
  /\ headers <= events /\ vcount <= events
  /\ vcount > 0 => gop # <<>>

MediaOK == TypeOK /\ CachesOK

\* Giving cached messages another time leaves what they are.
LEMMA RetimeKeeps ==
  ASSUME NEW c \in Seq(Message), NEW t \in Nat
  PROVE  /\ Retime(c, t) \in Seq(Message)
         /\ Len(Retime(c, t)) = Len(c)
         /\ \A i \in DOMAIN c : Retime(c, t)[i].kind = c[i].kind
         /\ DOMAIN Retime(c, t) = DOMAIN c
<1>1. ASSUME NEW i \in 1..Len(c)
      PROVE  [c[i] EXCEPT !.time = t] \in Message /\ [c[i] EXCEPT !.time = t].kind = c[i].kind
  <2>1. c[i] \in Message
    OBVIOUS
  <2> QED
    BY <2>1 DEF Message
<1>2. Retime(c, t) = [i \in 1..Len(c) |-> [c[i] EXCEPT !.time = t]]
  BY DEF Retime
<1> QED
  BY <1>1, <1>2

\* A message the encoder sends.
LEMMA SentMessage ==
  ASSUME MediaOK, NEW k, NEW t, NEW g,
         NEW m, m = [kind |-> k, time |-> t, sh |-> g], Sends(m)
  PROVE  /\ m \in Message
         /\ clock' \in Nat /\ headers' \in Nat /\ sh' \in 0..headers'
         /\ headers' <= headers + 1
         /\ events < MaxEvents /\ events' = events + 1
         /\ live /\ live' = live
<1> USE LiveSourceAssumption DEF MediaOK, TypeOK, CachesOK
<1>1. m.kind = k /\ m.time = t /\ m.sh = g
  OBVIOUS
<1>2. t \in Nat /\ k \in Kinds
  BY <1>1 DEF Sends, Times
<1>3. g \in Nat
  BY <1>1 DEF Sends
<1>4. m \in Message
  BY <1>2, <1>3 DEF Message
<1> QED
  BY <1>1, <1>2, <1>3, <1>4 DEF Sends

\* SrsGopCache::cache: a key frame, and the first video, starts the group.
LEMMA CacheGopOutcome ==
  ASSUME MediaOK, NEW m \in Message, CacheGop(m)
  PROVE  /\ vcount' \in Nat /\ vcount' <= vcount + 1
         /\ \/ gop' = gop /\ vcount' = vcount
            \/ gopEnabled /\ IsKeyframe(m) /\ gop' = <<m>>
            \/ /\ gopEnabled /\ ~IsKeyframe(m) /\ gop' = Append(gop, m)
               /\ gop # <<>> \/ IsVideo(m)
<1> USE DEF MediaOK, TypeOK, CachesOK
<1>1. (IF IsVideo(m) THEN vcount + 1 ELSE vcount) \in Nat
  OBVIOUS
<1>2. CASE ~gopEnabled \/ (IF IsVideo(m) THEN vcount + 1 ELSE vcount) = 0
  BY <1>2 DEF CacheGop
<1>3. CASE gopEnabled /\ (IF IsVideo(m) THEN vcount + 1 ELSE vcount) # 0
  BY <1>1, <1>3 DEF CacheGop
<1> QED
  BY <1>2, <1>3

\* What the handlers do to the peers stays within them.
PeersOK == /\ up \subseteq Peer /\ paused \subseteq Player /\ lost \subseteq Peer
           /\ DOMAIN pipe = Peer /\ DOMAIN got = Peer

LEMMA DispatchKeepsPeers ==
  ASSUME PeersOK, NEW m, NEW isAtc, NEW tb, Dispatch(m, isAtc, tb) PROVE PeersOK'
BY DEF PeersOK, Dispatch, Peer

LEMMA PeersOKNext ==
  ASSUME PeersOK, [Next]_vars PROVE PeersOK'
<1>1. CASE OnPublish \/ OnUnpublish
  BY <1>1 DEF OnPublish, OnUnpublish, peerVars, PeersOK
<1>2. CASE EncoderSends
  BY <1>2, DispatchKeepsPeers DEF EncoderSends, OnMetaData, OnSequenceHeader, OnFrame
<1>3. ASSUME NEW p \in Player, CreateConsumer(p) PROVE PeersOK'
  <2>1. UNCHANGED <<paused, got>> /\ up' = up \cup {p} /\ lost' \subseteq lost \cup {p}
    BY <1>3 DEF CreateConsumer
  <2>2. DOMAIN pipe' = Peer
    BY <1>3 DEF CreateConsumer, PeersOK
  <2> QED
    BY <2>1, <2>2 DEF PeersOK, Peer
<1>4. ASSUME NEW p \in Player, DestroyConsumer(p) \/ Pauses(p) PROVE PeersOK'
  BY <1>4 DEF DestroyConsumer, Pauses, PeersOK
<1>5. ASSUME NEW f \in Forwarder, ForwarderStarts(f) \/ ForwarderFails(f) PROVE PeersOK'
  <2>1. UNCHANGED paused /\ up' \subseteq up \cup {f} /\ lost' \subseteq lost \cup {f}
    BY <1>5 DEF ForwarderStarts, ForwarderFails
  <2>2. DOMAIN pipe' = Peer /\ DOMAIN got' = Peer
    BY <1>5 DEF ForwarderStarts, ForwarderFails, PeersOK
  <2> QED
    BY <2>1, <2>2 DEF PeersOK, Peer
<1>6. ASSUME NEW s \in Peer, Gets(s) PROVE PeersOK'
  <2>1. UNCHANGED <<up, paused, lost>> /\ DOMAIN pipe' = DOMAIN pipe
    BY <1>6 DEF Gets
  <2>2. DOMAIN got' = DOMAIN got
    BY <1>6 DEF Gets
  <2> QED
    BY <2>1, <2>2 DEF PeersOK
<1>7. CASE \/ ReloadAtc \/ (\E b \in BOOLEAN : SetCache(b))
           \/ \E n \in QueueSizes : ReloadQueueLength(n)
  BY <1>7 DEF ReloadAtc, SetCache, ReloadQueueLength, peerVars, PeersOK
<1>8. CASE UNCHANGED vars
  BY <1>8 DEF vars, peerVars, PeersOK
<1> QED
  BY <1>1, <1>2, <1>3, <1>4, <1>5, <1>6, <1>7, <1>8 DEF Next

------------------------------------------------------------------------------
\* Actions of the peers, of a reload and of nobody leave the caches as they are,
\* but for the times of the headers and for an emptied group of pictures.
LEMMA CachesFrame ==
  ASSUME MediaOK, [Next]_vars, ~EncoderSends, ~OnPublish, ~OnUnpublish
  PROVE  /\ UNCHANGED <<live, clock, sh, headers, atc, rates>>
         /\ events' \in events..MaxEvents
         /\ gopEnabled' \in BOOLEAN /\ queueSize' \in QueueSizes
         /\ \/ gop' = gop /\ vcount' = vcount /\ (gopEnabled => gopEnabled')
            \/ gop' = <<>> /\ vcount' = 0
         /\ \/ UNCHANGED <<meta, vsh, ash>>
            \/ \E t \in Nat : /\ gop # <<>> /\ t = gop[1].time
                              /\ meta' = Retime(meta, t)
                              /\ vsh' = Retime(vsh, t)
                              /\ ash' = Retime(ash, t)
<1> USE LiveSourceAssumption DEF MediaOK, TypeOK, CachesOK, encoderVars, cacheVars
<1>1. ASSUME NEW p \in Player, CreateConsumer(p)
      PROVE  /\ UNCHANGED <<encoderVars, atc, rates, gop, gopEnabled, vcount, queueSize>>
             /\ \/ UNCHANGED <<meta, vsh, ash>>
                \/ \E t \in Nat : /\ gop # <<>> /\ t = gop[1].time
                                  /\ meta' = Retime(meta, t)
                                  /\ vsh' = Retime(vsh, t)
                                  /\ ash' = Retime(ash, t)
  <2>1. UNCHANGED <<encoderVars, atc, rates, gop, gopEnabled, vcount, queueSize>>
    BY <1>1 DEF CreateConsumer
  <2>2. CASE atc /\ gop # <<>>
    <3>1. gop[1].time \in Nat
      <4>1. gop[1] \in Message
        BY <2>2
      <4> QED
        BY <4>1 DEF Message
    <3>2. meta' = Retime(meta, gop[1].time) /\ vsh' = Retime(vsh, gop[1].time)
          /\ ash' = Retime(ash, gop[1].time)
      BY <1>1, <2>2 DEF CreateConsumer
    <3> QED
      BY <2>1, <2>2, <3>1, <3>2
  <2>3. CASE ~(atc /\ gop # <<>>)
    BY <1>1, <2>1, <2>3 DEF CreateConsumer
  <2> QED
    BY <2>2, <2>3
<1>2. ASSUME NEW p \in Player, DestroyConsumer(p) \/ Pauses(p)
      PROVE  UNCHANGED <<encoderVars, cacheVars, queueSize>>
  BY <1>2 DEF DestroyConsumer, Pauses
<1>3. ASSUME NEW f \in Forwarder, ForwarderStarts(f) \/ ForwarderFails(f)
      PROVE  /\ UNCHANGED <<live, clock, sh, headers, cacheVars, queueSize>>
             /\ events' \in events..MaxEvents
  BY <1>3 DEF ForwarderStarts, ForwarderFails
<1>4. ASSUME NEW s \in Peer, Gets(s) PROVE UNCHANGED <<encoderVars, cacheVars, queueSize>>
  BY <1>4 DEF Gets
<1>5. CASE ReloadAtc
  BY <1>5 DEF ReloadAtc
<1>6. ASSUME NEW b \in BOOLEAN, SetCache(b)
      PROVE  /\ UNCHANGED <<encoderVars, atc, rates, meta, vsh, ash, queueSize>>
             /\ gopEnabled' \in BOOLEAN
             /\ \/ gop' = gop /\ vcount' = vcount /\ (gopEnabled => gopEnabled')
                \/ gop' = <<>> /\ vcount' = 0
  BY <1>6 DEF SetCache
<1>7. ASSUME NEW n \in QueueSizes, ReloadQueueLength(n)
      PROVE  UNCHANGED <<encoderVars, cacheVars>> /\ queueSize' \in QueueSizes
  BY <1>7 DEF ReloadQueueLength
<1>8. CASE UNCHANGED vars
  BY <1>8 DEF vars
<1> QED
  BY <1>1, <1>2, <1>3, <1>4, <1>5, <1>6, <1>7, <1>8 DEF Next

\* A cache of messages of kind k as message m leaves it.
Kept(c, d, k, m) == d = c \/ d = Retime(c, m.time) \/ (m.kind = k /\ d = <<m>>)

\* What a message of the encoder leaves in the caches.
LEMMA SendsOutcome ==
  ASSUME MediaOK, EncoderSends
  PROVE  \E m \in Message :
           /\ Sends(m)
           /\ clock' \in Nat /\ sh' \in 0..headers' /\ headers' \in Nat /\ headers' <= headers + 1
           /\ events < MaxEvents /\ events' = events + 1 /\ live /\ live'
           /\ UNCHANGED <<gopEnabled, queueSize>>
           /\ atc' \in BOOLEAN
           /\ rates' \in {rates, [audio |-> SampleRate, video |-> FrameRate]}
           /\ \/ ~IsFrame(m) /\ UNCHANGED <<gop, vcount>>
              \/ IsFrame(m) /\ CacheGop(m)
           /\ Kept(meta, meta', "meta", m) /\ Kept(vsh, vsh', "vsh", m) /\ Kept(ash, ash', "ash", m)
           /\ m.kind = "vsh" => vsh' = <<m>>
<1> USE LiveSourceAssumption
<1>1. PICK k \in Published, t \in Times, g \in 0..MaxEvents :
        LET m == [kind |-> k, time |-> t, sh |-> g] IN
          (\E mode \in AtcModes : OnMetaData(m, mode)) \/ OnSequenceHeader(m) \/ OnFrame(m)
  BY DEF EncoderSends
<1> DEFINE m == [kind |-> k, time |-> t, sh |-> g]
<1>2. (\E mode \in AtcModes : OnMetaData(m, mode)) \/ OnSequenceHeader(m) \/ OnFrame(m)
  BY <1>1
<1>3. m.kind = k /\ m = [kind |-> k, time |-> t, sh |-> g]
  OBVIOUS
<1> HIDE DEF m
<1>4. Sends(m)
  BY <1>2 DEF OnMetaData, OnSequenceHeader, OnFrame
<1>5. /\ m \in Message
      /\ clock' \in Nat /\ headers' \in Nat /\ sh' \in 0..headers' /\ headers' <= headers + 1
      /\ events < MaxEvents /\ events' = events + 1 /\ live /\ live'
  BY <1>3, <1>4, SentMessage
<1>6. atc \in BOOLEAN
  BY DEF MediaOK, TypeOK
<1>7. ASSUME NEW mode \in AtcModes, OnMetaData(m, mode)
      PROVE  /\ UNCHANGED <<gop, vcount, gopEnabled, queueSize, vsh, ash>> /\ ~IsFrame(m)
             /\ atc' \in BOOLEAN /\ rates' = [audio |-> SampleRate, video |-> FrameRate]
             /\ Kept(meta, meta', "meta", m)
  BY <1>7 DEF OnMetaData, IsFrame, Kept
<1>8. ASSUME OnSequenceHeader(m)
      PROVE  /\ UNCHANGED <<atc, rates, gop, vcount, gopEnabled, queueSize, meta>> /\ ~IsFrame(m)
             /\ Kept(vsh, vsh', "vsh", m) /\ Kept(ash, ash', "ash", m)
  BY <1>8 DEF OnSequenceHeader, IsFrame, Kept
<1>9. ASSUME OnFrame(m)
      PROVE  /\ UNCHANGED <<atc, rates, gopEnabled, queueSize>> /\ IsFrame(m) /\ CacheGop(m)
             /\ Kept(meta, meta', "meta", m) /\ Kept(vsh, vsh', "vsh", m) /\ Kept(ash, ash', "ash", m)
  BY <1>9 DEF OnFrame, Kept
<1>10. m.kind = "vsh" => vsh' = <<m>>
  BY <1>2 DEF OnMetaData, OnSequenceHeader, OnFrame, IsFrame
<1>11. /\ UNCHANGED <<gopEnabled, queueSize>> /\ atc' \in BOOLEAN
       /\ rates' \in {rates, [audio |-> SampleRate, video |-> FrameRate]}
       /\ \/ ~IsFrame(m) /\ UNCHANGED <<gop, vcount>>
          \/ IsFrame(m) /\ CacheGop(m)
       /\ Kept(meta, meta', "meta", m) /\ Kept(vsh, vsh', "vsh", m) /\ Kept(ash, ash', "ash", m)
  BY <1>2, <1>6, <1>7, <1>8, <1>9 DEF Kept
<1> QED
  BY <1>4, <1>5, <1>10, <1>11

\* A cache of one kind of message stays one when it is emptied, retimed or set.
LEMMA CacheKeeps ==
  ASSUME NEW c \in Seq(Message), NEW d, NEW k, NEW m \in Message,
         Len(c) <= 1, \A i \in DOMAIN c : c[i].kind = k, Kept(c, d, k, m)
  PROVE  d \in Seq(Message) /\ Len(d) <= 1 /\ \A i \in DOMAIN d : d[i].kind = k
<1>1. CASE d = Retime(c, m.time)
  <2>1. m.time \in Nat
    BY DEF Message
  <2> QED
    BY <1>1, <2>1, RetimeKeeps
<1>2. CASE m.kind = k /\ d = <<m>>
  BY <1>2
<1> QED
  BY <1>1, <1>2 DEF Kept

LEMMA MediaOKNext == MediaOK /\ [Next]_vars => MediaOK'
<1> SUFFICES ASSUME MediaOK, [Next]_vars PROVE MediaOK'
  OBVIOUS
<1> USE LiveSourceAssumption
<1>1. PeersOK'
  BY PeersOKNext DEF MediaOK, TypeOK, PeersOK
<1> DEFINE Cached(c, k) == c \in Seq(Message) /\ Len(c) <= 1 /\ \A i \in DOMAIN c : c[i].kind = k
           CachesTyped == Cached(meta, "meta") /\ Cached(vsh, "vsh") /\ Cached(ash, "ash")
           Gop == /\ gop \in Seq(Message) /\ (\A i \in DOMAIN gop : IsFrame(gop[i]))
                  /\ vcount \in 0..events /\ (vcount > 0 => gop # <<>>)
           Rest == /\ live \in BOOLEAN /\ clock \in Nat /\ headers \in 0..events /\ sh \in 0..headers
                   /\ events \in 0..MaxEvents /\ atc \in BOOLEAN
                   /\ rates \in {NoRates, [audio |-> SampleRate, video |-> FrameRate]}
                   /\ gopEnabled \in BOOLEAN /\ queueSize \in QueueSizes
<1>2. CachesTyped /\ Gop /\ Rest
  BY DEF MediaOK, TypeOK, CachesOK
<1>3. CachesTyped' /\ Gop' /\ Rest'
  <2>1. CASE EncoderSends
    <3>1. PICK m \in Message :
           /\ clock' \in Nat /\ sh' \in 0..headers' /\ headers' \in Nat /\ headers' <= headers + 1
           /\ events < MaxEvents /\ events' = events + 1 /\ live /\ live'
           /\ UNCHANGED <<gopEnabled, queueSize>>
           /\ atc' \in BOOLEAN
           /\ rates' \in {rates, [audio |-> SampleRate, video |-> FrameRate]}
           /\ \/ ~IsFrame(m) /\ UNCHANGED <<gop, vcount>>
              \/ IsFrame(m) /\ CacheGop(m)
           /\ Kept(meta, meta', "meta", m) /\ Kept(vsh, vsh', "vsh", m) /\ Kept(ash, ash', "ash", m)
      BY <2>1, SendsOutcome
    <3>3. Cached(meta, "meta")'
      BY <1>2, <3>1, CacheKeeps
    <3>4. Cached(vsh, "vsh")'
      BY <1>2, <3>1, CacheKeeps
    <3>5. Cached(ash, "ash")'
      BY <1>2, <3>1, CacheKeeps
    <3>6. Rest'
      BY <1>2, <3>1
    <3>7. Gop'
      <4>1. CASE UNCHANGED <<gop, vcount>>
        BY <1>2, <3>1, <4>1
      <4>2. CASE IsFrame(m) /\ CacheGop(m)
        <5>1. /\ vcount' \in Nat /\ vcount' <= vcount + 1
              /\ \/ gop' = gop /\ vcount' = vcount
                 \/ gop' = <<m>>
                 \/ gop' = Append(gop, m)
          BY <4>2, CacheGopOutcome
        <5>2. gop' = <<m>> \/ gop' = Append(gop, m)
              => gop' \in Seq(Message) /\ gop' # <<>> /\ \A i \in DOMAIN gop' : IsFrame(gop'[i])
          <6>1. CASE gop' = <<m>>
            BY <4>2, <6>1
          <6>2. CASE gop' = Append(gop, m)
            <7>1. gop' \in Seq(Message) /\ Len(gop') = Len(gop) + 1 /\ gop'[Len(gop) + 1] = m
                  /\ \A i \in 1..Len(gop) : gop'[i] = gop[i]
              BY <1>2, <6>2
            <7>2. ASSUME NEW i \in 1..(Len(gop) + 1) PROVE IsFrame(gop'[i])
              <8>1. CASE i \in 1..Len(gop)
                <9>1. gop'[i] = gop[i]
                  BY <7>1, <8>1
                <9>2. IsFrame(gop[i])
                  BY <1>2, <8>1
                <9> QED
                  BY <9>1, <9>2
              <8>2. CASE i = Len(gop) + 1
                BY <4>2, <7>1, <8>2
              <8> QED
                BY <1>2, <8>1, <8>2
            <7> QED
              BY <1>2, <7>1, <7>2
          <6> QED
            BY <6>1, <6>2
        <5> QED
          BY <1>2, <3>1, <5>1, <5>2
      <4> QED
        BY <3>1, <4>1, <4>2
    <3> QED
      BY <3>3, <3>4, <3>5, <3>6, <3>7
  <2>2. CASE OnPublish
    BY <1>2, <2>2 DEF OnPublish, cacheVars
  <2>3. CASE OnUnpublish
    <3>1. CachesTyped' /\ Gop'
      BY <1>2, <2>3 DEF OnUnpublish
    <3>2. Rest'
      BY <1>2, <2>3 DEF OnUnpublish
    <3> QED
      BY <3>1, <3>2
  <2>4. CASE ~EncoderSends /\ ~OnPublish /\ ~OnUnpublish
    <3>1. /\ UNCHANGED <<live, clock, sh, headers, atc, rates>>
          /\ events' \in events..MaxEvents
          /\ gopEnabled' \in BOOLEAN /\ queueSize' \in QueueSizes
          /\ (gop' = gop /\ vcount' = vcount) \/ (gop' = <<>> /\ vcount' = 0)
          /\ \/ UNCHANGED <<meta, vsh, ash>>
             \/ \E t \in Nat : /\ meta' = Retime(meta, t)
                               /\ vsh' = Retime(vsh, t)
                               /\ ash' = Retime(ash, t)
      BY <2>4, CachesFrame
    <3>2. CachesTyped'
      <4>1. CASE UNCHANGED <<meta, vsh, ash>>
        BY <1>2, <4>1
      <4>2. ASSUME NEW t \in Nat, meta' = Retime(meta, t), vsh' = Retime(vsh, t), ash' = Retime(ash, t)
            PROVE  CachesTyped'
        BY <1>2, <4>2, RetimeKeeps
      <4> QED
        BY <3>1, <4>1, <4>2
    <3>3. Gop'
      <4>1. CASE gop' = gop /\ vcount' = vcount
        BY <1>2, <3>1, <4>1
      <4>2. CASE gop' = <<>> /\ vcount' = 0
        BY <1>2, <3>1, <4>2
      <4> QED
        BY <3>1, <4>1, <4>2
    <3>4. Rest'
      BY <1>2, <3>1
    <3> QED
      BY <3>2, <3>3, <3>4
  <2> QED
    BY <2>1, <2>2, <2>3, <2>4
<1>4. CachesOK'
  BY <1>3 DEF CachesOK
<1>5. TypeOK'
  BY <1>1, <1>3 DEF TypeOK, PeersOK
<1> QED
  BY <1>4, <1>5 DEF MediaOK

LEMMA MediaInvariance == Spec => []MediaOK
<1>1. Init => MediaOK
  <2> SUFFICES ASSUME Init PROVE MediaOK
    OBVIOUS
  <2>1. CachesOK
    BY DEF Init, CachesOK
  <2>2. \A c \in {meta, vsh, ash, gop} : c = <<>>
    BY DEF Init
  <2>3. rates \in {NoRates, [audio |-> SampleRate, video |-> FrameRate]} /\ DOMAIN pipe = Peer
        /\ DOMAIN got = Peer /\ atc \in BOOLEAN /\ gopEnabled \in BOOLEAN
    BY LiveSourceAssumption DEF Init
  <2>4. /\ live \in BOOLEAN /\ clock \in Nat /\ sh \in 0..headers /\ headers \in 0..MaxEvents
        /\ events \in 0..MaxEvents /\ vcount \in 0..MaxEvents /\ queueSize \in QueueSizes
        /\ up \subseteq Peer /\ paused \subseteq Player /\ lost \subseteq Peer
    <3>1. /\ live = FALSE /\ clock = 0 /\ sh = 0 /\ headers = 0 /\ events = 0 /\ vcount = 0
          /\ queueSize \in QueueSizes /\ up = {} /\ paused = {} /\ lost = {}
      BY DEF Init
    <3>2. MaxEvents \in Nat
      BY LiveSourceAssumption
    <3>3. up \subseteq Peer /\ paused \subseteq Player /\ lost \subseteq Peer
      BY <3>1
    <3>4. live \in BOOLEAN /\ queueSize \in QueueSizes
      BY <3>1
    <3>5. clock \in Nat /\ sh \in 0..headers /\ headers \in 0..MaxEvents
          /\ events \in 0..MaxEvents /\ vcount \in 0..MaxEvents
      BY <3>1, <3>2
    <3> QED
      BY <3>3, <3>4, <3>5
  <2>5. \A c \in {meta, vsh, ash, gop} : Len(c) <= 1 /\ DOMAIN c = {}
    BY <2>2
  <2> QED
    BY <2>1, <2>3, <2>4, <2>5 DEF MediaOK, TypeOK
<1> QED
  BY <1>1, MediaOKNext, PTL DEF Spec

(* The caches keep one message of their own kind at most, the group of pictures
   keeps frames only, no headers, and what is kept for a peer is kept for it. *)
THEOREM TypeCorrect == Spec => []TypeOK
<1>1. MediaOK => TypeOK
  BY DEF MediaOK
<1> QED
  BY <1>1, MediaInvariance, PTL

(* If the encoder sends one H.264 header per session, the cache holds one group of
   pictures of the current session. *)
THEOREM CachedGopIsOneGroup == HeaderOnce /\ Spec => []GopIsOneGroup
<1> SUFFICES ASSUME HeaderOnce PROVE Spec => []GopIsOneGroup
  OBVIOUS
<1> USE LiveSourceAssumption
<1>1. Init => GopIsOneGroup
  BY DEF Init, GopIsOneGroup
<1>2. ASSUME MediaOK, GopIsOneGroup, [Next]_vars PROVE GopIsOneGroup'
  <2> USE <1>2 DEF MediaOK, TypeOK, CachesOK
  <2>1. CASE EncoderSends
    <3>1. PICK m \in Message :
           /\ Sends(m) /\ live' /\ gopEnabled' = gopEnabled
           /\ \/ ~IsFrame(m) /\ gop' = gop
              \/ IsFrame(m) /\ CacheGop(m)
      BY <2>1, SendsOutcome
    <3>2. m.kind = "vsh" => \A i \in DOMAIN gop : gop[i].sh = 0
      BY <3>1 DEF GopIsOneGroup, Sends
    <3>3. m.kind # "vsh" => sh' = sh /\ m.sh \in {0, sh}
      BY <3>1 DEF Sends
    <3>4. CASE gop' = gop
      BY <3>1, <3>2, <3>3, <3>4 DEF GopIsOneGroup
    <3>5. CASE IsFrame(m) /\ CacheGop(m) /\ gop' # gop
      <4>1. m.kind # "vsh"
        BY <3>5 DEF IsFrame
      <4>2. CASE gopEnabled /\ IsKeyframe(m) /\ gop' = <<m>>
        BY <3>1, <3>3, <4>1, <4>2 DEF GopIsOneGroup, IsKeyframe, IsVideo
      <4>3. CASE /\ gopEnabled /\ ~IsKeyframe(m) /\ gop' = Append(gop, m)
                 /\ gop # <<>> \/ IsVideo(m)
        <5>1. Len(gop') = Len(gop) + 1 /\ gop'[Len(gop) + 1] = m
              /\ \A i \in 1..Len(gop) : gop'[i] = gop[i]
          BY <4>3
        <5>2. \A i \in DOMAIN gop' : gop'[i].sh \in {0, sh'}
          BY <3>3, <4>1, <4>3, <5>1 DEF GopIsOneGroup
        <5>3. \A i \in 2..Len(gop') : ~IsKeyframe(gop'[i])
          BY <4>3, <5>1 DEF GopIsOneGroup
        <5>4. IsVideo(gop'[1])
          BY <4>3, <5>1 DEF GopIsOneGroup
        <5> QED
          BY <3>1, <4>3, <5>2, <5>3, <5>4 DEF GopIsOneGroup
      <4> QED
        BY <3>5, <4>2, <4>3, CacheGopOutcome
    <3> QED
      BY <3>1, <3>4, <3>5
  <2>2. CASE OnPublish
    BY <2>2 DEF OnPublish, GopIsOneGroup, cacheVars
  <2>3. CASE OnUnpublish
    BY <2>3 DEF OnUnpublish, GopIsOneGroup
  <2>4. CASE ~EncoderSends /\ ~OnPublish /\ ~OnUnpublish
    <3>1. /\ live' = live /\ sh' = sh
          /\ (gop' = gop /\ (gopEnabled => gopEnabled')) \/ gop' = <<>>
      BY <2>4, CachesFrame
    <3> QED
      BY <3>1 DEF GopIsOneGroup
  <2> QED
    BY <2>1, <2>2, <2>3, <2>4
<1> QED
  BY <1>1, <1>2, MediaInvariance, PTL DEF Spec

Pipe == [jitter : Jitter, queue : Queue]

\* What enqueue() leaves of a queue is a queue.
LEMMA EnqueueIsQueue ==
  ASSUME NEW q \in Queue, NEW m \in Message, NEW size \in Nat
  PROVE  Enqueue(q, m, size) \in Queue
<1> DEFINE p == Pushed(q, m)
<1>1. p \in Queue
  BY PushedIsQueue
<1>2. NewQueue \in Queue
  BY DEF NewQueue, Queue
<1>3. ASSUME NEW cut \in Cuts(p, size)
      PROVE  [msgs |-> SubSeq(p.msgs, cut, Len(p.msgs)),
              av_start_time |-> p.msgs[cut].time,
              av_end_time |-> p.av_end_time] \in Queue
  <2>1. p.msgs \in Seq(Message) /\ cut \in 1..Len(p.msgs) /\ p.av_end_time \in Nat \cup {-1}
    BY <1>1 DEF Cuts, Queue
  <2>2. p.msgs[cut] \in Message
    BY <2>1, ElementOfSeq
  <2>3. p.msgs[cut].time \in Nat
    BY <2>2 DEF Message
  <2>4. SubSeq(p.msgs, cut, Len(p.msgs)) \in Seq(Message)
    BY <2>1
  <2> QED
    BY <2>1, <2>3, <2>4 DEF Queue
<1> QED
  BY <1>1, <1>2, <1>3, EnqueueOutcome

\* Correcting the time of a message changes nothing else in it.
LEMMA RetimedIsMessage ==
  ASSUME NEW j \in Jitter, NEW m \in Message
  PROVE  /\ Retimed(j, m) \in Message
         /\ Retimed(j, m).kind = m.kind /\ Retimed(j, m).sh = m.sh
         /\ IsAV(m) => Retimed(j, m).time = j.last_pkt_correct_time
BY DEF Retimed, Message, Jitter

\* What a peer does with a message: either its time is corrected or it is taken as
\* it is.
LEMMA ReceiveOutcome ==
  ASSUME NEW s, NEW c \in Pipe, NEW m \in Message, NEW isAtc, NEW tb,
         tb.audio \in Nat, tb.video \in Nat, queueSize \in Nat
  PROVE  /\ Receive(s, c, m, isAtc, tb) \in Pipe
         /\ CorrectsTime(s, isAtc) =>
              \E a, v \in Nat :
                LET j == Corrected(c.jitter, m, a, v) IN
                  /\ j \in Jitter
                  /\ Receive(s, c, m, isAtc, tb) =
                       [jitter |-> j, queue |-> Enqueue(c.queue, Retimed(j, m), queueSize)]
         /\ ~CorrectsTime(s, isAtc) =>
              Receive(s, c, m, isAtc, tb) =
                [jitter |-> c.jitter, queue |-> Enqueue(c.queue, m, queueSize)]
<1> DEFINE r == Receive(s, c, m, isAtc, tb)
<1>1. c.jitter \in Jitter /\ c.queue \in Queue
  BY DEF Pipe
<1>2. ASSUME NEW a \in Nat, NEW v \in Nat
      PROVE  /\ Corrected(c.jitter, m, a, v) \in Jitter
             /\ Enqueue(c.queue, Retimed(Corrected(c.jitter, m, a, v), m), queueSize) \in Queue
  <2>1. Corrected(c.jitter, m, a, v) \in Jitter
    BY <1>1, CorrectedTimeIsSmooth
  <2>2. Retimed(Corrected(c.jitter, m, a, v), m) \in Message
    BY <2>1, RetimedIsMessage
  <2> QED
    BY <1>1, <2>1, <2>2, EnqueueIsQueue
<1>3. CASE CorrectsTime(s, isAtc)
  <2>1. PICK a \in Nat, v \in Nat :
          r = [jitter |-> Corrected(c.jitter, m, a, v),
               queue |-> Enqueue(c.queue, Retimed(Corrected(c.jitter, m, a, v), m), queueSize)]
    <3>1. CASE s \in Forwarder
      <4>1. r = [jitter |-> Corrected(c.jitter, m, 0, 0),
                 queue |-> Enqueue(c.queue, Retimed(Corrected(c.jitter, m, 0, 0), m), queueSize)]
        BY <1>3, <3>1 DEF Receive
      <4> QED
        BY <4>1
    <3>2. CASE s \notin Forwarder
      <4>1. r = [jitter |-> Corrected(c.jitter, m, tb.audio, tb.video),
                 queue |-> Enqueue(c.queue, Retimed(Corrected(c.jitter, m, tb.audio, tb.video), m),
                                   queueSize)]
        BY <1>3, <3>2 DEF Receive
      <4> QED
        BY <4>1
    <3> QED
      BY <3>1, <3>2
  <2>2. r \in Pipe
    BY <1>2, <2>1 DEF Pipe
  <2> QED
    BY <1>2, <1>3, <2>1, <2>2
<1>4. CASE ~CorrectsTime(s, isAtc)
  <2>1. r = [jitter |-> c.jitter, queue |-> Enqueue(c.queue, m, queueSize)]
    BY <1>4 DEF Receive, Pipe
  <2>2. Enqueue(c.queue, m, queueSize) \in Queue
    BY <1>1, EnqueueIsQueue
  <2> QED
    BY <1>1, <1>4, <2>1, <2>2 DEF Pipe
<1> QED
  BY <1>3, <1>4

\* What each step of receiving several messages keeps holds of what is left in the
\* end: P says it of a number of messages and what was made of them.
LEMMA ReceiveAllKeeps ==
  ASSUME NEW s, NEW c \in Pipe, NEW ms \in Seq(Message),
         rates.audio \in Nat, rates.video \in Nat, queueSize \in Nat,
         NEW P, <<0, c>> \in P,
         \A k \in 0..(Len(ms) - 1) : \A d \in Pipe :
           <<k, d>> \in P => <<k + 1, Receive(s, d, ms[k + 1], atc, rates)>> \in P
  PROVE  ReceiveAll(s, c, ms) \in Pipe /\ <<Len(ms), ReceiveAll(s, c, ms)>> \in P
<1> DEFINE n == Len(ms)
           Runs(g) == g = [t \in SUBSET (DOMAIN ms) |->
                        IF t = {} THEN c
                        ELSE Receive(s, g[t \ {Max(t)}], ms[Max(t)], atc, rates)]
           run == CHOOSE g : Runs(g)
           G == [i \in 1..n |-> [d \in Pipe |-> Receive(s, d, ms[i], atc, rates)]]
<1>1. ReceiveAll(s, c, ms) = run[DOMAIN ms]
  BY DEF ReceiveAll, FoldLeft, MapThenFoldSet
<1>2. n \in Nat /\ DOMAIN ms = 1..n
  OBVIOUS
<1>3. \A i \in 1..n : ms[i] \in Message
  BY <1>2, ElementOfSeq
<1>4. \A i \in 1..n : \A d \in Pipe : Receive(s, d, ms[i], atc, rates) \in Pipe
  BY <1>3, ReceiveOutcome
<1>5. G \in [1..n -> [Pipe -> Pipe]]
  BY <1>4
<1>6. PICK h \in FoldTables(n, Pipe, c, G) : TRUE
  <2>1. n \in Nat /\ c \in Pipe /\ G \in [1..n -> [Pipe -> Pipe]]
    BY <1>2, <1>5
  <2> HIDE DEF G, n
  <2> QED
    BY <2>1, FoldTableExists
<1>7. /\ h \in [SUBSET (1..n) -> Pipe]
      /\ \A t \in SUBSET (1..n) :
            h[t] = IF t = {} THEN c ELSE G[Max(t)][h[t \ {Max(t)}]]
  BY <1>6 DEF FoldTables
<1>8. \A t \in SUBSET (1..n) :
        h[t] = IF t = {} THEN c ELSE Receive(s, h[t \ {Max(t)}], ms[Max(t)], atc, rates)
  <2> SUFFICES ASSUME NEW t \in SUBSET (1..n), t # {}
               PROVE  h[t] = Receive(s, h[t \ {Max(t)}], ms[Max(t)], atc, rates)
    BY <1>7
  <2>1. Max(t) \in 1..n
    BY <1>2, MaxIsMember
  <2>2. h[t \ {Max(t)}] \in Pipe
    BY <1>7
  <2>3. h[t] = G[Max(t)][h[t \ {Max(t)}]]
    BY <1>7
  <2> HIDE DEF n
  <2> QED
    BY <2>1, <2>2, <2>3
<1>9. Runs(h)
  BY <1>2, <1>7, <1>8
<1>10. Runs(run)
  BY <1>9
<1> HIDE DEF run
<1>11. \A t \in SUBSET (1..n) :
         run[t] = IF t = {} THEN c ELSE Receive(s, run[t \ {Max(t)}], ms[Max(t)], atc, rates)
  BY <1>2, <1>10
<1> DEFINE Q == {k \in Nat : k <= n => run[1..k] \in Pipe /\ <<k, run[1..k]>> \in P}
<1>12. n \in Q
  <2>1. 0 \in Q
    <3>1. 1..0 = {}
      OBVIOUS
    <3>2. run[1..0] = c
      BY <1>11, <3>1
    <3> QED
      BY <3>2
  <2>2. ASSUME NEW k \in Nat, k + 1 <= n, run[1..k] \in Pipe, <<k, run[1..k]>> \in P
        PROVE  run[1..(k + 1)] \in Pipe /\ <<k + 1, run[1..(k + 1)]>> \in P
    <3>1. 1..(k + 1) \in SUBSET (1..n) /\ k + 1 \in 1..n /\ k \in 0..(n - 1)
      BY <1>2, <2>2
    <3>2. run[1..(k + 1)] = Receive(s, run[1..k], ms[k + 1], atc, rates)
      <4>1. /\ 1..(k + 1) # {} /\ Max(1..(k + 1)) = k + 1
            /\ (1..(k + 1)) \ {k + 1} = 1..k
        BY IntervalStep
      <4> HIDE DEF n
      <4> QED
        BY <1>11, <3>1, <4>1
    <3> HIDE DEF n
    <3>3. run[1..(k + 1)] \in Pipe
      BY <1>4, <2>2, <3>1, <3>2
    <3>4. <<k + 1, run[1..(k + 1)]>> \in P
      BY <2>2, <3>1, <3>2 DEF n
    <3> QED
      BY <3>3, <3>4
  <2>3. \A k \in Nat : k \in Q => k + 1 \in Q
    BY <1>2, <2>2
  <2> HIDE DEF Q
  <2> QED
    BY <1>2, <2>1, <2>3, NatIsInductive
<1> QED
  BY <1>1, <1>2, <1>12

Got == [sh : Nat, time : Nat]

\* What is kept of the peers.
PipesOK ==
  /\ pipe \in [Peer -> Pipe] /\ got \in [Peer -> Got]
  /\ \A p \in Player \ up : got[p] = Nothing

\* LastOf, without its operator: the last video header, the last audio or video.
LEMMA LastHeader ==
  ASSUME NEW ms \in Seq(Message), NEW g
  PROVE  LET at == {i \in DOMAIN ms : ms[i].kind = "vsh"} IN
           LastOf(ms, LAMBDA m : m.kind = "vsh", g) = IF at = {} THEN g ELSE ms[Max(at)]
BY DEF LastOf

LEMMA LastSent ==
  ASSUME NEW ms \in Seq(Message), NEW g
  PROVE  LET at == {i \in DOMAIN ms : IsAV(ms[i])} IN
           LastOf(ms, IsAV, g) = IF at = {} THEN g ELSE ms[Max(at)]
BY DEF LastOf

\* What may happen to peer s.
Hears(s, m) ==
  /\ s \in up \cup Forwarder /\ up' = up
  /\ pipe'[s] = Receive(s, pipe[s], m, atc', rates')
  /\ got'[s] = got[s]
  /\ s \in lost' <=> s \in lost \/ Drops(pipe[s], pipe'[s], 1)

Joins(s) ==
  LET ms == meta' \o vsh' \o ash' \o gop IN
  /\ s \in Player \ up /\ CreateConsumer(s) /\ UNCHANGED gop
  /\ pipe'[s] = ReceiveAll(s, NewPipe, ms)
  /\ got'[s] = got[s]
  /\ s \in lost' <=> s \in lost \/ Drops(NewPipe, pipe'[s], Len(ms))

Starts(s) ==
  /\ s \in Forwarder
  /\ pipe'[s] = ReceiveAll(s, pipe[s], Headers)
  /\ got'[s] = Nothing

Leaves(s) ==
  /\ s \notin up'
  /\ pipe'[s] = NewPipe /\ got'[s] = Nothing

Takes(s) ==
  LET ms == pipe[s].queue.msgs IN
  /\ s \in up /\ UNCHANGED <<up, lost>>
  /\ pipe'[s] = [jitter |-> pipe[s].jitter, queue |-> TakenAll(pipe[s].queue)]
  /\ got'[s] = [sh |-> LastOf(ms, LAMBDA m : m.kind = "vsh", got[s]).sh,
                time |-> LastOf(ms, IsAV, got[s]).time]

Rests(s) ==
  /\ pipe'[s] = pipe[s] /\ got'[s] = got[s]
  /\ s \in Player => (s \in up' <=> s \in up) /\ (s \in lost' <=> s \in lost)

EncoderRests == UNCHANGED <<live, clock, sh, headers>>

LEMMA PeerStep ==
  ASSUME MediaOK, PipesOK, [Next]_vars, NEW s \in Peer
  PROVE  \/ \E m \in Message : /\ EncoderSends /\ Sends(m)
                               /\ Hears(s, m) \/ (s \notin up /\ Rests(s))
         \/ EncoderRests /\ (Joins(s) \/ Starts(s) \/ Leaves(s) \/ Takes(s) \/ Rests(s))
         \/ OnPublish /\ Rests(s)
         \/ OnUnpublish /\ (Leaves(s) \/ Rests(s))
<1> USE LiveSourceAssumption
<1>1. pipe \in [Peer -> Pipe] /\ got \in [Peer -> Got] /\ s \in Player \cup Forwarder
  BY DEF PipesOK, Peer
<1>2. ASSUME EncoderSends
      PROVE  \E m \in Message : Sends(m) /\ (Hears(s, m) \/ (s \notin up /\ Rests(s)))
  <2>1. PICK k \in Published, t \in Times, g \in 0..MaxEvents :
          LET m == [kind |-> k, time |-> t, sh |-> g] IN
            (\E mode \in AtcModes : OnMetaData(m, mode)) \/ OnSequenceHeader(m) \/ OnFrame(m)
    BY <1>2 DEF EncoderSends
  <2> DEFINE m == [kind |-> k, time |-> t, sh |-> g]
  <2>2. (\E mode \in AtcModes : OnMetaData(m, mode)) \/ OnSequenceHeader(m) \/ OnFrame(m)
    BY <2>1
  <2>3. m = [kind |-> k, time |-> t, sh |-> g]
    OBVIOUS
  <2> HIDE DEF m
  <2>4. Sends(m) /\ Dispatch(m, atc', rates')
    <3>1. ASSUME NEW mode \in AtcModes, OnMetaData(m, mode) PROVE Sends(m) /\ Dispatch(m, atc', rates')
      BY <3>1 DEF OnMetaData
    <3>2. ASSUME OnSequenceHeader(m) PROVE Sends(m) /\ Dispatch(m, atc', rates')
      <4>1. atc' = atc /\ rates' = rates /\ Sends(m) /\ Dispatch(m, atc, rates)
        BY <3>2 DEF OnSequenceHeader
      <4> QED
        BY <4>1
    <3>3. ASSUME OnFrame(m) PROVE Sends(m) /\ Dispatch(m, atc', rates')
      <4>1. atc' = atc /\ rates' = rates /\ Sends(m) /\ Dispatch(m, atc, rates)
        BY <3>3 DEF OnFrame
      <4> QED
        BY <4>1
    <3> QED
      BY <2>2, <3>1, <3>2, <3>3
  <2>5. m \in Message
    BY <2>3, <2>4, SentMessage
  <2>6. UNCHANGED <<up, got>>
    BY <2>4 DEF Dispatch
  <2>7. pipe'[s] = IF s \in up \cup Forwarder THEN Receive(s, pipe[s], m, atc', rates') ELSE pipe[s]
    BY <2>4 DEF Dispatch
  <2>8. s \in lost' <=> s \in lost \/ (s \in up \cup Forwarder /\ Drops(pipe[s], pipe'[s], 1))
    BY <2>4 DEF Dispatch
  <2>9. CASE s \in up \cup Forwarder
    BY <2>4, <2>5, <2>6, <2>7, <2>8, <2>9 DEF Hears
  <2>10. CASE s \notin up \cup Forwarder
    BY <2>4, <2>5, <2>6, <2>7, <2>8, <2>10 DEF Rests
  <2> QED
    BY <2>9, <2>10
<1>3. ASSUME NEW p \in Player, CreateConsumer(p) PROVE EncoderRests /\ (Joins(s) \/ Rests(s))
  <2>1. /\ p \notin up /\ up' = up \cup {p}
        /\ UNCHANGED <<encoderVars, atc, rates, gop, got>>
        /\ pipe' = [pipe EXCEPT ![p] = ReceiveAll(p, NewPipe, meta' \o vsh' \o ash' \o gop)]
        /\ lost' = IF Drops(NewPipe, pipe'[p], Len(meta' \o vsh' \o ash' \o gop))
                     THEN lost \cup {p} ELSE lost
    BY <1>3 DEF CreateConsumer
  <2>2. CASE s = p
    <3>1. pipe'[s] = ReceiveAll(s, NewPipe, meta' \o vsh' \o ash' \o gop)
      BY <1>1, <2>1, <2>2
    <3>2. s \in lost' <=> s \in lost \/ Drops(NewPipe, pipe'[s], Len(meta' \o vsh' \o ash' \o gop))
      BY <2>1, <2>2
    <3> QED
      BY <1>3, <2>1, <2>2, <3>1, <3>2 DEF Joins, EncoderRests, encoderVars
  <2>3. CASE s # p
    <3>1. pipe'[s] = pipe[s]
      BY <1>1, <2>1, <2>3
    <3> QED
      BY <2>1, <2>3, <3>1 DEF Rests, EncoderRests, encoderVars
  <2> QED
    BY <2>2, <2>3
<1>4. ASSUME NEW p \in Player, DestroyConsumer(p) PROVE EncoderRests /\ (Leaves(s) \/ Rests(s))
  <2>1. EncoderRests
    BY <1>4 DEF DestroyConsumer, EncoderRests, encoderVars
  <2>2. CASE s = p
    BY <1>1, <1>4, <2>1, <2>2 DEF DestroyConsumer, Leaves
  <2>3. CASE s # p
    <3>1. /\ pipe' = [pipe EXCEPT ![p] = NewPipe] /\ got' = [got EXCEPT ![p] = Nothing]
          /\ up' = up \ {p} /\ lost' = lost \ {p}
      BY <1>4 DEF DestroyConsumer
    <3> QED
      BY <1>1, <2>1, <2>3, <3>1 DEF Rests
  <2> QED
    BY <2>2, <2>3
<1>5. ASSUME NEW p \in Player, Pauses(p) PROVE EncoderRests /\ Rests(s)
  BY <1>5 DEF Pauses, EncoderRests, encoderVars, Rests
<1>6. ASSUME NEW f \in Forwarder, ForwarderStarts(f) PROVE EncoderRests /\ (Starts(s) \/ Rests(s))
  <2>1. /\ EncoderRests
        /\ pipe' = [pipe EXCEPT ![f] = ReceiveAll(f, pipe[f], Headers)]
        /\ got' = [got EXCEPT ![f] = Nothing]
        /\ up' = up \cup {f} /\ lost' \in {lost, lost \cup {f}}
    BY <1>6 DEF ForwarderStarts, EncoderRests
  <2>2. CASE s = f
    BY <1>1, <2>1, <2>2 DEF Starts
  <2>3. CASE s # f
    BY <1>1, <2>1, <2>3 DEF Rests
  <2> QED
    BY <2>2, <2>3
<1>7. ASSUME NEW f \in Forwarder, ForwarderFails(f) PROVE EncoderRests /\ Rests(s)
  BY <1>1, <1>7 DEF ForwarderFails, EncoderRests, encoderVars, Rests
<1>8. ASSUME NEW r \in Peer, Gets(r) PROVE EncoderRests /\ (Takes(s) \/ Rests(s))
  <2> DEFINE ms == pipe[r].queue.msgs
             h == LastOf(ms, LAMBDA m : m.kind = "vsh", got[r]).sh
             t == LastOf(ms, IsAV, got[r]).time
  <2>1. /\ EncoderRests /\ r \in up /\ UNCHANGED <<up, lost>>
        /\ pipe' = [pipe EXCEPT ![r].queue = TakenAll(@)]
        /\ got' = [got EXCEPT ![r] = [sh |-> h, time |-> t]]
    BY <1>8 DEF Gets, EncoderRests, encoderVars
  <2>2. CASE s = r
    <3>1. pipe'[s] = [jitter |-> pipe[s].jitter, queue |-> TakenAll(pipe[s].queue)]
      BY <1>1, <2>1, <2>2 DEF Pipe
    <3>2. got'[s] = [sh |-> h, time |-> t]
      BY <1>1, <2>1, <2>2
    <3> QED
      BY <2>1, <2>2, <3>1, <3>2 DEF Takes
  <2>3. CASE s # r
    <3> HIDE DEF h, t
    <3> QED
      BY <1>1, <2>1, <2>3 DEF Rests
  <2> QED
    BY <2>2, <2>3
<1>9. CASE \/ ReloadAtc \/ (\E b \in BOOLEAN : SetCache(b))
           \/ \E n \in QueueSizes : ReloadQueueLength(n)
  BY <1>9 DEF ReloadAtc, SetCache, ReloadQueueLength, peerVars, encoderVars, EncoderRests, Rests
<1>10. CASE UNCHANGED vars
  BY <1>10 DEF vars, peerVars, encoderVars, EncoderRests, Rests
<1>11. CASE OnPublish
  BY <1>11 DEF OnPublish, peerVars, Rests
<1>12. CASE OnUnpublish
  BY <1>1, <1>12 DEF OnUnpublish, Leaves, Rests, Peer
<1>13. \/ OnPublish \/ OnUnpublish \/ EncoderSends
       \/ \E p \in Player : CreateConsumer(p) \/ DestroyConsumer(p) \/ Pauses(p)
       \/ \E f \in Forwarder : ForwarderStarts(f) \/ ForwarderFails(f)
       \/ \E r \in Peer : Gets(r)
       \/ ReloadAtc \/ (\E b \in BOOLEAN : SetCache(b))
       \/ (\E n \in QueueSizes : ReloadQueueLength(n))
       \/ UNCHANGED vars
  BY DEF Next
<1> QED
  BY <1>2, <1>3, <1>4, <1>5, <1>6, <1>7, <1>8, <1>9, <1>10, <1>11, <1>12, <1>13

\* The types that the proofs about the peers use.
LEMMA SourceTypes ==
  ASSUME MediaOK
  PROVE  /\ rates.audio \in Nat /\ rates.video \in Nat /\ queueSize \in Nat
         /\ atc \in BOOLEAN /\ clock \in Nat /\ sh \in Nat
         /\ meta \in Seq(Message) /\ vsh \in Seq(Message) /\ ash \in Seq(Message)
         /\ gop \in Seq(Message)
<1> USE LiveSourceAssumption DEF MediaOK, TypeOK, CachesOK
<1>1. queueSize \in Nat /\ atc \in BOOLEAN /\ clock \in Nat /\ sh \in Nat
  OBVIOUS
<1>2. rates.audio \in Nat /\ rates.video \in Nat
  BY DEF NoRates
<1> QED
  BY <1>1, <1>2

\* What was sent last is the last of the sequence, or what was sent before it.
LEMMA LastHeaderOutcome ==
  ASSUME NEW ms \in Seq(Message), NEW g
  PROVE  LET at == {i \in DOMAIN ms : ms[i].kind = "vsh"}
             last == LastOf(ms, LAMBDA m : m.kind = "vsh", g)
         IN \/ at = {} /\ last = g
            \/ \E i \in at : (\A j \in at : j <= i) /\ last = ms[i]
<1> DEFINE at == {i \in DOMAIN ms : ms[i].kind = "vsh"}
<1>1. CASE at = {}
  BY <1>1, LastHeader
<1>2. CASE at # {}
  <2>1. Len(ms) \in Nat /\ at \in SUBSET (1..Len(ms))
    OBVIOUS
  <2>2. Max(at) \in at /\ \A y \in at : y <= Max(at)
    BY <1>2, <2>1, MaxIsMember
  <2> QED
    BY <1>2, <2>2, LastHeader
<1> QED
  BY <1>1, <1>2

LEMMA LastSentOutcome ==
  ASSUME NEW ms \in Seq(Message), NEW g
  PROVE  LET at == {i \in DOMAIN ms : IsAV(ms[i])}
             last == LastOf(ms, IsAV, g)
         IN \/ at = {} /\ last = g
            \/ \E i \in at : (\A j \in at : j <= i) /\ last = ms[i]
<1> DEFINE at == {i \in DOMAIN ms : IsAV(ms[i])}
<1>1. CASE at = {}
  BY <1>1, LastSent
<1>2. CASE at # {}
  <2>1. Len(ms) \in Nat /\ at \in SUBSET (1..Len(ms))
    OBVIOUS
  <2>2. Max(at) \in at /\ \A y \in at : y <= Max(at)
    BY <1>2, <2>1, MaxIsMember
  <2> QED
    BY <1>2, <2>2, LastSent
<1> QED
  BY <1>1, <1>2

LEMMA NewPipeIsPipe == NewPipe \in Pipe /\ NewPipe.queue.msgs = <<>>
BY DEF NewPipe, NewJitter, NewQueue, Pipe, Jitter, Queue

LEMMA TakenAllIsQueue ==
  ASSUME NEW q \in Queue
  PROVE  TakenAll(q) \in Queue /\ TakenAll(q).msgs = <<>>
<1>1. CASE q.msgs = <<>>
  BY <1>1 DEF TakenAll
<1>2. CASE q.msgs # <<>>
  <2>1. q.msgs[Len(q.msgs)] \in Message
    BY <1>2 DEF Queue
  <2>2. q.msgs[Len(q.msgs)].time \in Nat
    BY <2>1 DEF Message
  <2>3. TakenAll(q) = [msgs |-> <<>>, av_start_time |-> q.msgs[Len(q.msgs)].time,
                       av_end_time |-> q.av_end_time]
    BY <1>2 DEF TakenAll, Queue
  <2>4. <<>> \in Seq(Message) /\ q.av_end_time \in Nat \cup {-1}
    BY DEF Queue
  <2> QED
    BY <2>2, <2>3, <2>4 DEF Queue
<1> QED
  BY <1>1, <1>2

\* A message that nobody says more of: what several of them make of a pipe.
LEMMA ReceiveAllIsPipe ==
  ASSUME MediaOK, NEW s, NEW c \in Pipe, NEW ms \in Seq(Message)
  PROVE  ReceiveAll(s, c, ms) \in Pipe
<1> DEFINE P == Nat \X Pipe
<1>1. rates.audio \in Nat /\ rates.video \in Nat /\ queueSize \in Nat
  BY SourceTypes
<1>2. <<0, c>> \in P
  OBVIOUS
<1>3. ASSUME NEW k \in 0..(Len(ms) - 1), NEW d \in Pipe
      PROVE  <<k + 1, Receive(s, d, ms[k + 1], atc, rates)>> \in P
  <2>1. ms[k + 1] \in Message
    <3>1. k + 1 \in 1..Len(ms)
      OBVIOUS
    <3> QED
      BY <3>1, ElementOfSeq
  <2>2. Receive(s, d, ms[k + 1], atc, rates) \in Pipe
    BY <1>1, <2>1, ReceiveOutcome
  <2> QED
    BY <2>2
<1> HIDE DEF P
<1> QED
  BY <1>1, <1>2, <1>3, ReceiveAllKeeps

LEMMA HeadersAreMessages ==
  ASSUME MediaOK
  PROVE  meta \o vsh \o ash \in Seq(Message) /\ meta \o vsh \o ash \o gop \in Seq(Message)
BY SourceTypes

LEMMA PeersAreFunctions ==
  ASSUME PipesOK, [Next]_vars
  PROVE  pipe' = [s \in DOMAIN pipe' |-> pipe'[s]] /\ got' = [s \in DOMAIN got' |-> got'[s]]
<1>1. pipe = [s \in DOMAIN pipe |-> pipe[s]] /\ got = [s \in DOMAIN got |-> got[s]]
  BY DEF PipesOK
<1>2. CASE OnPublish
  BY <1>1, <1>2 DEF OnPublish, peerVars
<1>3. CASE OnUnpublish
  BY <1>3 DEF OnUnpublish
<1>4. CASE EncoderSends
  <2>1. \E m, isAtc, tb : Dispatch(m, isAtc, tb)
    BY <1>4 DEF EncoderSends, OnMetaData, OnSequenceHeader, OnFrame
  <2> QED
    BY <1>1, <2>1 DEF Dispatch
<1>5. ASSUME NEW p \in Player, CreateConsumer(p) \/ DestroyConsumer(p) \/ Pauses(p)
      PROVE  /\ pipe' = [s \in DOMAIN pipe' |-> pipe'[s]]
             /\ got' = [s \in DOMAIN got' |-> got'[s]]
  <2>1. \/ pipe' = pipe
        \/ pipe' = [pipe EXCEPT ![p] = NewPipe]
        \/ pipe' = [pipe EXCEPT ![p] = ReceiveAll(p, NewPipe, meta' \o vsh' \o ash' \o gop)]
    BY <1>5 DEF CreateConsumer, DestroyConsumer, Pauses
  <2>2. got' = got \/ got' = [got EXCEPT ![p] = Nothing]
    BY <1>5 DEF CreateConsumer, DestroyConsumer, Pauses
  <2> QED
    BY <1>1, <2>1, <2>2
<1>6. ASSUME NEW f \in Forwarder, ForwarderStarts(f) \/ ForwarderFails(f)
      PROVE  /\ pipe' = [s \in DOMAIN pipe' |-> pipe'[s]]
             /\ got' = [s \in DOMAIN got' |-> got'[s]]
  <2>1. pipe' = pipe \/ pipe' = [pipe EXCEPT ![f] = ReceiveAll(f, pipe[f], Headers)]
    BY <1>6 DEF ForwarderStarts, ForwarderFails
  <2>2. got' = got \/ got' = [got EXCEPT ![f] = Nothing]
    BY <1>6 DEF ForwarderStarts, ForwarderFails
  <2> QED
    BY <1>1, <2>1, <2>2
<1>7. ASSUME NEW r \in Peer, Gets(r)
      PROVE  /\ pipe' = [s \in DOMAIN pipe' |-> pipe'[s]]
             /\ got' = [s \in DOMAIN got' |-> got'[s]]
  <2>1. \E x : pipe' = [pipe EXCEPT ![r] = x]
    BY <1>7 DEF Gets
  <2>2. \E x : got' = [got EXCEPT ![r] = x]
    BY <1>7 DEF Gets
  <2> QED
    BY <1>1, <2>1, <2>2
<1>8. CASE \/ ReloadAtc \/ (\E b \in BOOLEAN : SetCache(b))
           \/ (\E n \in QueueSizes : ReloadQueueLength(n)) \/ UNCHANGED vars
  BY <1>1, <1>8 DEF ReloadAtc, SetCache, ReloadQueueLength, vars, peerVars
<1> QED
  BY <1>2, <1>3, <1>4, <1>5, <1>6, <1>7, <1>8 DEF Next

LEMMA PipesOKNext ==
  ASSUME MediaOK, PipesOK, [Next]_vars PROVE PipesOK'
<1>1. ASSUME NEW s \in Peer
      PROVE  /\ pipe'[s] \in Pipe /\ got'[s] \in Got
             /\ s \in Player \ up' => got'[s] = Nothing
  <2>1. /\ pipe[s] \in Pipe /\ got[s] \in Got
        /\ s \in Player \ up => got[s] = Nothing
    BY DEF PipesOK
  <2>2. Nothing \in Got
    BY DEF Nothing, Got
  <2>3. MediaOK'
    BY MediaOKNext
  <2>4. ASSUME NEW m \in Message, Hears(s, m) PROVE pipe'[s] \in Pipe
    <3>1. rates'.audio \in Nat /\ rates'.video \in Nat /\ queueSize \in Nat
      <4>1. rates' \in {NoRates, [audio |-> SampleRate, video |-> FrameRate]}
        BY <2>3 DEF MediaOK, TypeOK
      <4> QED
        BY <4>1, LiveSourceAssumption, SourceTypes DEF NoRates
    <3> QED
      BY <2>1, <2>4, <3>1, ReceiveOutcome DEF Hears
  <2>5. ASSUME Joins(s) PROVE pipe'[s] \in Pipe
    <3>1. meta' \o vsh' \o ash' \o gop' \in Seq(Message) /\ gop' = gop
      <4>1. /\ meta' \in Seq(Message) /\ vsh' \in Seq(Message) /\ ash' \in Seq(Message)
            /\ gop' \in Seq(Message) /\ gop' = gop
        BY <2>3, <2>5 DEF MediaOK, CachesOK, Joins
      <4> QED
        BY <4>1
    <3> QED
      BY <2>5, <3>1, NewPipeIsPipe, ReceiveAllIsPipe DEF Joins
  <2>6. ASSUME Starts(s) PROVE pipe'[s] \in Pipe
    BY <2>1, <2>6, HeadersAreMessages, ReceiveAllIsPipe DEF Starts, Headers
  <2>7. ASSUME Takes(s) PROVE pipe'[s] \in Pipe /\ got'[s] \in Got
    <3> DEFINE ms == pipe[s].queue.msgs
    <3>1. pipe[s].jitter \in Jitter /\ pipe[s].queue \in Queue /\ ms \in Seq(Message)
      BY <2>1 DEF Pipe, Queue
    <3>2. pipe'[s] \in Pipe
      BY <2>7, <3>1, TakenAllIsQueue DEF Takes, Pipe
    <3>3. \A i \in DOMAIN ms : ms[i].sh \in Nat /\ ms[i].time \in Nat
      <4>1. \A i \in DOMAIN ms : ms[i] \in Message
        BY <3>1
      <4> QED
        BY <4>1 DEF Message
    <3> HIDE DEF ms
    <3>4. LastOf(ms, LAMBDA m : m.kind = "vsh", got[s]).sh \in Nat
      BY <2>1, <3>1, <3>3, LastHeaderOutcome DEF Got
    <3>5. LastOf(ms, IsAV, got[s]).time \in Nat
      BY <2>1, <3>1, <3>3, LastSentOutcome DEF Got
    <3> QED
      BY <2>7, <3>2, <3>4, <3>5 DEF Takes, Got, ms
  <2>8. s \in Peer /\ Player \cap Forwarder = {}
    BY LiveSourceAssumption
  <2>9. ASSUME NEW m \in Message, Hears(s, m)
        PROVE  got'[s] = got[s] /\ (s \in up' <=> s \in up)
    BY <2>9 DEF Hears
  <2>10. ASSUME Joins(s) PROVE got'[s] = got[s] /\ got[s] = Nothing
    BY <2>1, <2>10 DEF Joins
  <2>11. ASSUME Starts(s) PROVE got'[s] = Nothing
    BY <2>11 DEF Starts
  <2>12. ASSUME Leaves(s) PROVE pipe'[s] \in Pipe /\ got'[s] = Nothing
    BY <2>12, NewPipeIsPipe DEF Leaves
  <2>13. ASSUME Takes(s) PROVE s \in up'
    BY <2>13 DEF Takes
  <2>14. ASSUME Rests(s)
         PROVE pipe'[s] = pipe[s] /\ got'[s] = got[s] /\ (s \in Player => (s \in up' <=> s \in up))
    BY <2>14 DEF Rests
  <2> QED
    BY <2>1, <2>2, <2>4, <2>5, <2>6, <2>7, <2>9, <2>10, <2>11, <2>12, <2>13, <2>14, PeerStep
<1>2. DOMAIN pipe' = Peer /\ DOMAIN got' = Peer
  BY MediaOKNext DEF MediaOK, TypeOK
<1>3. pipe' = [s \in DOMAIN pipe' |-> pipe'[s]] /\ got' = [s \in DOMAIN got' |-> got'[s]]
  BY PeersAreFunctions
<1>4. \A p \in Player : p \in Peer
  BY DEF Peer
<1> QED
  BY <1>1, <1>2, <1>3, <1>4 DEF PipesOK

LEMMA PipesInvariance == Spec => [](MediaOK /\ PipesOK)
<1>1. Init => PipesOK
  <2> SUFFICES ASSUME Init PROVE PipesOK
    OBVIOUS
  <2>1. pipe = [s \in Peer |-> NewPipe] /\ got = [s \in Peer |-> Nothing]
    BY DEF Init
  <2>2. Nothing \in Got
    BY DEF Nothing, Got
  <2> QED
    BY <2>1, <2>2, NewPipeIsPipe DEF PipesOK, Peer
<1> QED
  BY <1>1, PipesOKNext, MediaInvariance, PTL DEF Spec

------------------------------------------------------------------------------
(* The times of a peer whose times are corrected *)

\* Its last message has the time of the jitter, now, and what precedes it ascends
\* from the time t of what it was sent.
Smooth(ms, now, t) ==
  /\ t <= now
  /\ \A j \in DOMAIN ms : IsAV(ms[j]) =>
       /\ t <= ms[j].time /\ ms[j].time <= now
       /\ (\A k \in (j + 1)..Len(ms) : ~IsAV(ms[k])) => ms[j].time = now
       /\ \A i \in 1..(j - 1) : IsAV(ms[i]) =>
            /\ ms[i].time <= ms[j].time
            /\ (\A k \in (i + 1)..(j - 1) : ~IsAV(ms[k]))
                 => ms[j].time - ms[i].time <= CONST_MAX_JITTER_MS

SmoothPipe(c, t) == Smooth(c.queue.msgs, c.jitter.last_pkt_correct_time, t)

\* An end of a smooth sequence is smooth.
LEMMA SmoothEnd ==
  ASSUME NEW ms \in Seq(Message), NEW now \in Nat, NEW t \in Nat, Smooth(ms, now, t),
         NEW cut \in 1..Len(ms)
  PROVE  Smooth(SubSeq(ms, cut, Len(ms)), now, t)
<1> DEFINE n == Len(ms)
           r == SubSeq(ms, cut, n)
<1>1. /\ n \in Nat /\ Len(r) = n - cut + 1 /\ DOMAIN r = 1..(n - cut + 1)
      /\ \A i \in 1..(n - cut + 1) : r[i] = ms[cut + i - 1] /\ cut + i - 1 \in DOMAIN ms
  OBVIOUS
<1> SUFFICES ASSUME NEW j \in DOMAIN r, IsAV(r[j])
             PROVE  /\ t <= r[j].time /\ r[j].time <= now
                    /\ (\A k \in (j + 1)..Len(r) : ~IsAV(r[k])) => r[j].time = now
                    /\ \A i \in 1..(j - 1) : IsAV(r[i]) =>
                         /\ r[i].time <= r[j].time
                         /\ (\A k \in (i + 1)..(j - 1) : ~IsAV(r[k]))
                              => r[j].time - r[i].time <= CONST_MAX_JITTER_MS
  BY DEF Smooth
<1> DEFINE J == cut + j - 1
<1>2. J \in DOMAIN ms /\ r[j] = ms[J] /\ IsAV(ms[J])
  BY <1>1
<1> HIDE DEF r
<1>3. t <= r[j].time /\ r[j].time <= now
  BY <1>2 DEF Smooth
<1>4. ASSUME \A k \in (j + 1)..Len(r) : ~IsAV(r[k]) PROVE r[j].time = now
  <2>1. ASSUME NEW k \in (J + 1)..n PROVE ~IsAV(ms[k])
    <3>3. /\ j \in Nat /\ cut \in Nat /\ k \in Nat /\ 1 <= j
          /\ cut + j <= k /\ k <= n
      BY <1>1
    <3>4. Len(r) = n - cut + 1 /\ n \in Nat
      BY <1>1
    <3>1. k - cut + 1 \in (j + 1)..Len(r) /\ k - cut + 1 \in 1..(n - cut + 1)
      BY <3>3, <3>4
    <3>2. r[k - cut + 1] = ms[cut + (k - cut + 1) - 1] /\ cut + (k - cut + 1) - 1 = k
      BY <1>1, <3>1
    <3> QED
      BY <1>4, <3>1, <3>2
  <2> HIDE DEF J
  <2> QED
    BY <1>2, <2>1 DEF Smooth
<1>5. ASSUME NEW i \in 1..(j - 1), IsAV(r[i])
      PROVE  /\ r[i].time <= r[j].time
             /\ (\A k \in (i + 1)..(j - 1) : ~IsAV(r[k]))
                  => r[j].time - r[i].time <= CONST_MAX_JITTER_MS
  <2> DEFINE I == cut + i - 1
  <2>1. I \in 1..(J - 1) /\ r[i] = ms[I]
    BY <1>1
  <2>2. ASSUME \A k \in (i + 1)..(j - 1) : ~IsAV(r[k]) PROVE \A k \in (I + 1)..(J - 1) : ~IsAV(ms[k])
    <3> SUFFICES ASSUME NEW k \in (I + 1)..(J - 1) PROVE ~IsAV(ms[k])
      OBVIOUS
    <3>1. k - cut + 1 \in (i + 1)..(j - 1) /\ k - cut + 1 \in 1..(n - cut + 1)
      BY <1>1
    <3>2. r[k - cut + 1] = ms[cut + (k - cut + 1) - 1] /\ cut + (k - cut + 1) - 1 = k
      BY <1>1, <3>1
    <3> QED
      BY <2>2, <3>1, <3>2
  <2> HIDE DEF I, J
  <2> QED
    BY <1>2, <1>5, <2>1, <2>2 DEF Smooth
<1> QED
  BY <1>3, <1>4, <1>5

\* A corrected message at its end leaves it smooth.
LEMMA SmoothAppend ==
  ASSUME NEW ms \in Seq(Message), NEW now \in Nat, NEW t \in Nat, Smooth(ms, now, t),
         NEW m \in Message, NEW later \in Nat,
         now <= later, later - now <= CONST_MAX_JITTER_MS,
         IF IsAV(m) THEN m.time = later ELSE later = now
  PROVE  Smooth(Append(ms, m), later, t)
<1> DEFINE n == Len(ms)
           r == Append(ms, m)
<1>1. /\ n \in Nat /\ r \in Seq(Message) /\ Len(r) = n + 1 /\ DOMAIN r = 1..(n + 1)
      /\ r[n + 1] = m /\ DOMAIN ms = 1..n
      /\ \A i \in 1..n : r[i] = ms[i]
  OBVIOUS
<1>2. \A i \in 1..(n + 1) : r[i].time \in Nat
  <2>1. \A i \in 1..(n + 1) : r[i] \in Message
    BY <1>1, ElementOfSeq
  <2> HIDE DEF r
  <2> QED
    BY <2>1 DEF Message
<1>3. t <= later
  BY DEF Smooth
<1> HIDE DEF r
<1> SUFFICES ASSUME NEW j \in DOMAIN r, IsAV(r[j])
             PROVE  /\ t <= r[j].time /\ r[j].time <= later
                    /\ (\A k \in (j + 1)..Len(r) : ~IsAV(r[k])) => r[j].time = later
                    /\ \A i \in 1..(j - 1) : IsAV(r[i]) =>
                         /\ r[i].time <= r[j].time
                         /\ (\A k \in (i + 1)..(j - 1) : ~IsAV(r[k]))
                              => r[j].time - r[i].time <= CONST_MAX_JITTER_MS
  BY <1>3 DEF Smooth, r
<1>4. CASE j \in 1..n
  <2>1. r[j] = ms[j] /\ \A i \in 1..(j - 1) : r[i] = ms[i]
    BY <1>1, <1>4
  <2>2. t <= r[j].time /\ r[j].time <= now
    BY <1>1, <1>4, <2>1 DEF Smooth
  <2>3. ASSUME \A k \in (j + 1)..Len(r) : ~IsAV(r[k]) PROVE r[j].time = later
    <3>1. ~IsAV(m)
      BY <1>1, <1>4, <2>3
    <3>2. \A k \in (j + 1)..n : ~IsAV(ms[k])
      BY <1>1, <1>4, <2>3
    <3> QED
      BY <1>1, <1>4, <2>1, <3>1, <3>2 DEF Smooth
  <2>4. ASSUME NEW i \in 1..(j - 1), IsAV(r[i])
        PROVE  /\ r[i].time <= r[j].time
               /\ (\A k \in (i + 1)..(j - 1) : ~IsAV(r[k]))
                    => r[j].time - r[i].time <= CONST_MAX_JITTER_MS
    BY <1>1, <1>4, <2>1, <2>4 DEF Smooth
  <2>5. r[j].time <= later
    BY <1>1, <1>2, <2>2
  <2> QED
    BY <2>2, <2>3, <2>4, <2>5
<1>5. CASE j = n + 1
  <2>1. r[j] = m /\ m.time = later
    BY <1>1, <1>5
  <2>2. ASSUME NEW i \in 1..(j - 1), IsAV(r[i])
        PROVE  /\ r[i].time <= r[j].time
               /\ (\A k \in (i + 1)..(j - 1) : ~IsAV(r[k]))
                    => r[j].time - r[i].time <= CONST_MAX_JITTER_MS
    <3>1. i \in 1..n /\ r[i] = ms[i] /\ IsAV(ms[i])
      BY <1>1, <1>5, <2>2
    <3>2. ms[i].time <= now /\ ms[i].time \in Nat
      BY <1>1, <1>2, <3>1 DEF Smooth
    <3>3. (\A k \in (i + 1)..(j - 1) : ~IsAV(r[k])) => ms[i].time = now
      <4> SUFFICES ASSUME \A k \in (i + 1)..(j - 1) : ~IsAV(r[k]) PROVE ms[i].time = now
        OBVIOUS
      <4>1. \A k \in (i + 1)..n : ~IsAV(ms[k])
        BY <1>1, <1>5, <3>1
      <4> QED
        BY <1>1, <3>1, <4>1 DEF Smooth
    <3> QED
      BY <2>1, <3>1, <3>2, <3>3
  <2>3. t <= r[j].time /\ r[j].time <= later
    BY <1>3, <2>1
  <2> QED
    BY <2>1, <2>2, <2>3
<1>6. j \in 1..n \/ j = n + 1
  BY <1>1
<1> QED
  BY <1>4, <1>5, <1>6, Zenon

\* So does one message that is received.
LEMMA ReceiveKeepsSmooth ==
  ASSUME NEW s, NEW c \in Pipe, NEW m \in Message, NEW isAtc, NEW tb,
         tb.audio \in Nat, tb.video \in Nat, queueSize \in Nat,
         CorrectsTime(s, isAtc), NEW t \in Nat, SmoothPipe(c, t)
  PROVE  SmoothPipe(Receive(s, c, m, isAtc, tb), t)
<1> USE JitterAssumption
<1>1. PICK a \in Nat, v \in Nat :
        Receive(s, c, m, isAtc, tb) =
          [jitter |-> Corrected(c.jitter, m, a, v),
           queue |-> Enqueue(c.queue, Retimed(Corrected(c.jitter, m, a, v), m), queueSize)]
  BY ReceiveOutcome
<1> DEFINE j == Corrected(c.jitter, m, a, v)
           now == c.jitter.last_pkt_correct_time
           later == j.last_pkt_correct_time
           x == Retimed(j, m)
           p == Pushed(c.queue, x)
           r == Enqueue(c.queue, x, queueSize)
<1>2. c.jitter \in Jitter /\ c.queue \in Queue /\ c.queue.msgs \in Seq(Message) /\ now \in Nat
  BY DEF Pipe, Queue, Jitter
<1>3. j \in Jitter /\ later - now \in 0..CONST_MAX_JITTER_MS
  BY <1>2, CorrectedTimeIsSmooth
<1>4. later \in Nat /\ now <= later /\ later - now <= CONST_MAX_JITTER_MS
  BY <1>2, <1>3 DEF Jitter
<1>5. ~IsAV(m) => later = now
  BY DEF Corrected
<1>6. /\ x \in Message /\ x.kind = m.kind /\ (IsAV(m) => x.time = later)
  <2> HIDE DEF j
  <2> QED
    BY <1>3, RetimedIsMessage
<1>7. IsAV(x) <=> IsAV(m)
  BY <1>6 DEF IsAV, IsVideo, IsAudio
<1> HIDE DEF j, x
<1>8. p \in Queue /\ p.msgs = Append(c.queue.msgs, x) /\ p.msgs \in Seq(Message)
  BY <1>2, <1>6, PushedIsQueue DEF Pushed, Queue
<1> HIDE DEF now, later
<1>9. Smooth(p.msgs, later, t)
  <2>1. Smooth(c.queue.msgs, now, t)
    BY DEF SmoothPipe, now
  <2> QED
    BY <1>2, <1>4, <1>5, <1>6, <1>7, <1>8, <2>1, SmoothAppend
<1>10. Smooth(<<>>, later, t)
  BY <1>9 DEF Smooth
<1>11. Smooth(r.msgs, later, t)
  <2>1. \/ r = p
        \/ r = NewQueue
        \/ \E cut \in Cuts(p, queueSize) : r.msgs = SubSeq(p.msgs, cut, Len(p.msgs))
    BY <1>2, <1>6, EnqueueOutcome
  <2>2. ASSUME NEW cut \in Cuts(p, queueSize)
        PROVE  Smooth(SubSeq(p.msgs, cut, Len(p.msgs)), later, t)
    <3>1. cut \in 1..Len(p.msgs)
      BY <1>8 DEF Cuts
    <3> HIDE DEF p
    <3> QED
      BY <1>4, <1>8, <1>9, <3>1, SmoothEnd
  <2>3. NewQueue.msgs = <<>>
    BY DEF NewQueue
  <2> HIDE DEF r, p
  <2> QED
    BY <1>9, <1>10, <2>1, <2>2, <2>3
<1>12. Receive(s, c, m, isAtc, tb) = [jitter |-> j, queue |-> r]
  BY <1>1 DEF j, x
<1> HIDE DEF r
<1> QED
  BY <1>11, <1>12 DEF SmoothPipe, later

LEMMA ReceiveAllKeepsSmooth ==
  ASSUME MediaOK, NEW s, NEW c \in Pipe, NEW ms \in Seq(Message),
         CorrectsTime(s, atc), NEW t \in Nat, SmoothPipe(c, t)
  PROVE  SmoothPipe(ReceiveAll(s, c, ms), t)
<1> DEFINE P == {x \in Nat \X Pipe : SmoothPipe(x[2], t)}
<1>1. rates.audio \in Nat /\ rates.video \in Nat /\ queueSize \in Nat
  BY SourceTypes
<1>2. <<0, c>> \in P
  OBVIOUS
<1>3. ASSUME NEW k \in 0..(Len(ms) - 1), NEW d \in Pipe, <<k, d>> \in P
      PROVE  <<k + 1, Receive(s, d, ms[k + 1], atc, rates)>> \in P
  <2>1. ms[k + 1] \in Message
    <3>1. k + 1 \in 1..Len(ms)
      OBVIOUS
    <3> QED
      BY <3>1, ElementOfSeq
  <2>2. Receive(s, d, ms[k + 1], atc, rates) \in Pipe
    BY <1>1, <2>1, ReceiveOutcome
  <2>3. SmoothPipe(Receive(s, d, ms[k + 1], atc, rates), t)
    BY <1>1, <1>3, <2>1, ReceiveKeepsSmooth
  <2> QED
    BY <2>2, <2>3
<1>4. <<Len(ms), ReceiveAll(s, c, ms)>> \in P
  <2> HIDE DEF P
  <2> QED
    BY <1>1, <1>2, <1>3, ReceiveAllKeeps
<1> QED
  BY <1>4

\* Every pipe whose times are always corrected is smooth.
SmoothInv ==
  \A s \in Peer : s \in Forwarder \/ AtcModes = {FALSE} => SmoothPipe(pipe[s], got[s].time)

AtcOK == atc \in AtcModes

LEMMA AtcIsOfModes == Spec => []AtcOK
<1>1. Init => AtcOK
  BY DEF Init, AtcOK
<1>2. AtcOK /\ [Next]_vars => AtcOK'
  <2> SUFFICES ASSUME atc \in AtcModes, [Next]_vars PROVE atc' \in AtcModes
    BY DEF AtcOK
  <2>1. CASE EncoderSends
    BY <2>1 DEF EncoderSends, OnMetaData, OnSequenceHeader, OnFrame
  <2>2. CASE OnPublish \/ OnUnpublish
    BY <2>2 DEF OnPublish, OnUnpublish, cacheVars
  <2>3. ASSUME NEW p \in Player, CreateConsumer(p) \/ DestroyConsumer(p) \/ Pauses(p)
        PROVE  atc' = atc
    BY <2>3 DEF CreateConsumer, DestroyConsumer, Pauses, cacheVars
  <2>4. ASSUME NEW f \in Forwarder, ForwarderStarts(f) \/ ForwarderFails(f) PROVE atc' = atc
    BY <2>4 DEF ForwarderStarts, ForwarderFails, cacheVars
  <2>5. ASSUME NEW s \in Peer, Gets(s) PROVE atc' = atc
    BY <2>5 DEF Gets, cacheVars
  <2>6. CASE \/ ReloadAtc \/ (\E b \in BOOLEAN : SetCache(b))
             \/ (\E n \in QueueSizes : ReloadQueueLength(n)) \/ UNCHANGED vars
    BY <2>6 DEF ReloadAtc, SetCache, ReloadQueueLength, vars, cacheVars
  <2> QED
    BY <2>1, <2>2, <2>3, <2>4, <2>5, <2>6 DEF Next
<1> QED
  BY <1>1, <1>2, PTL DEF Spec

\* Taking everything: the peer was sent the time of the last message, or nothing.
LEMMA TakeKeepsSmooth ==
  ASSUME NEW c \in Pipe, NEW g \in Got, SmoothPipe(c, g.time)
  PROVE  SmoothPipe([jitter |-> c.jitter, queue |-> TakenAll(c.queue)],
                    LastOf(c.queue.msgs, IsAV, g).time)
<1> DEFINE ms == c.queue.msgs
           t == LastOf(ms, IsAV, g).time
           now == c.jitter.last_pkt_correct_time
<1>1. c.queue \in Queue /\ ms \in Seq(Message)
  BY DEF Pipe, Queue
<1>2. t <= now
  BY <1>1, LastSentOutcome DEF SmoothPipe, Smooth
<1>3. TakenAll(c.queue).msgs = <<>>
  BY <1>1, TakenAllIsQueue
<1>4. DOMAIN TakenAll(c.queue).msgs = {}
  BY <1>3
<1>5. Smooth(TakenAll(c.queue).msgs, now, t)
  <2> HIDE DEF t, now
  <2> QED
    BY <1>2, <1>4 DEF Smooth
<1> QED
  BY <1>5 DEF SmoothPipe

LEMMA SmoothInvNext ==
  ASSUME MediaOK, PipesOK, AtcOK, SmoothInv, [Next]_vars, MediaOK', AtcOK'
  PROVE  SmoothInv'
<1> SUFFICES ASSUME NEW s \in Peer, s \in Forwarder \/ AtcModes = {FALSE}
             PROVE  SmoothPipe(pipe[s], got[s].time)'
  BY DEF SmoothInv
<1>1. /\ CorrectsTime(s, atc) /\ CorrectsTime(s, atc')
      /\ pipe[s] \in Pipe /\ got[s] \in Got /\ got[s].time \in Nat
      /\ SmoothPipe(pipe[s], got[s].time)
  BY DEF AtcOK, CorrectsTime, PipesOK, Got, SmoothInv
<1>2. SmoothPipe(NewPipe, 0) /\ Nothing.time = 0
  BY DEF SmoothPipe, Smooth, NewPipe, NewJitter, NewQueue, Nothing
<1>3. ASSUME NEW m \in Message, Hears(s, m) PROVE SmoothPipe(pipe'[s], got'[s].time)
  <2>1. rates'.audio \in Nat /\ rates'.video \in Nat /\ queueSize \in Nat
    <3>1. rates' \in {NoRates, [audio |-> SampleRate, video |-> FrameRate]}
      BY DEF MediaOK, TypeOK
    <3> QED
      BY <3>1, LiveSourceAssumption, SourceTypes DEF NoRates
  <2> QED
    BY <1>1, <1>3, <2>1, ReceiveKeepsSmooth DEF Hears
<1>4. ASSUME Joins(s) PROVE SmoothPipe(pipe'[s], got'[s].time)
  <2> DEFINE ms == meta' \o vsh' \o ash' \o gop
  <2>1. ms \in Seq(Message)
    <3>1. /\ meta' \in Seq(Message) /\ vsh' \in Seq(Message) /\ ash' \in Seq(Message)
          /\ gop' = gop /\ gop \in Seq(Message)
      BY <1>4 DEF MediaOK, CachesOK, Joins
    <3> QED
      BY <3>1
  <2>2. got'[s] = Nothing /\ pipe'[s] = ReceiveAll(s, NewPipe, meta' \o vsh' \o ash' \o gop')
        /\ gop' = gop
    BY <1>4 DEF Joins, PipesOK
  <2>3. pipe'[s] = ReceiveAll(s, NewPipe, ms)
    BY <2>2
  <2> HIDE DEF ms
  <2>4. SmoothPipe(ReceiveAll(s, NewPipe, ms), 0)
    BY <1>1, <1>2, <2>1, NewPipeIsPipe, ReceiveAllKeepsSmooth
  <2> QED
    BY <1>2, <2>2, <2>3, <2>4
<1>5. ASSUME Starts(s) PROVE SmoothPipe(pipe'[s], got'[s].time)
  <2>1. Headers \in Seq(Message)
    BY HeadersAreMessages DEF Headers
  <2>2. SmoothPipe(pipe[s], 0)
    <3> DEFINE ms == pipe[s].queue.msgs
               now == pipe[s].jitter.last_pkt_correct_time
    <3>1. now \in Nat /\ ms \in Seq(Message)
      BY <1>1 DEF Pipe, Jitter, Queue
    <3>2. \A i \in DOMAIN ms : ms[i].time \in Nat
      <4>1. \A i \in DOMAIN ms : ms[i] \in Message
        BY <3>1
      <4> QED
        BY <4>1 DEF Message
    <3>3. Smooth(ms, now, got[s].time)
      BY <1>1 DEF SmoothPipe
    <3> DEFINE Past(j) ==
                 \A i \in 1..(j - 1) : IsAV(ms[i]) =>
                   /\ ms[i].time <= ms[j].time
                   /\ (\A k \in (i + 1)..(j - 1) : ~IsAV(ms[k]))
                        => ms[j].time - ms[i].time <= CONST_MAX_JITTER_MS
               End(j) == (\A k \in (j + 1)..Len(ms) : ~IsAV(ms[k])) => ms[j].time = now
    <3> HIDE DEF ms, now
    <3>5. \A j \in DOMAIN ms : IsAV(ms[j]) => ms[j].time <= now /\ End(j) /\ Past(j)
      BY <3>3 DEF Smooth
    <3> HIDE DEF End, Past
    <3>6. \A j \in DOMAIN ms :
            IsAV(ms[j]) => 0 <= ms[j].time /\ ms[j].time <= now /\ End(j) /\ Past(j)
      BY <3>2, <3>5
    <3>7. 0 <= now
      BY <3>1
    <3>4. Smooth(ms, now, 0)
      BY <3>6, <3>7 DEF Smooth, End, Past
    <3> QED
      BY <3>4 DEF SmoothPipe, ms, now
  <2>3. SmoothPipe(ReceiveAll(s, pipe[s], Headers), 0)
    BY <1>1, <2>1, <2>2, ReceiveAllKeepsSmooth
  <2> QED
    BY <1>2, <1>5, <2>3 DEF Starts
<1>6. ASSUME Leaves(s) PROVE SmoothPipe(pipe'[s], got'[s].time)
  BY <1>2, <1>6 DEF Leaves
<1>7. ASSUME Takes(s) PROVE SmoothPipe(pipe'[s], got'[s].time)
  <2>1. /\ pipe'[s] = [jitter |-> pipe[s].jitter, queue |-> TakenAll(pipe[s].queue)]
        /\ got'[s].time = LastOf(pipe[s].queue.msgs, IsAV, got[s]).time
    BY <1>7 DEF Takes
  <2> QED
    BY <1>1, <2>1, TakeKeepsSmooth
<1>8. ASSUME Rests(s) PROVE SmoothPipe(pipe'[s], got'[s].time)
  BY <1>1, <1>8 DEF Rests
<1> QED
  BY <1>3, <1>4, <1>5, <1>6, <1>7, <1>8, PeerStep

LEMMA SmoothInvariance == Spec => []SmoothInv
<1>1. Init => SmoothInv
  <2> SUFFICES ASSUME Init, NEW s \in Peer PROVE SmoothPipe(pipe[s], got[s].time)
    BY DEF SmoothInv
  <2>1. pipe[s] = NewPipe /\ got[s] = Nothing
    BY DEF Init
  <2> QED
    BY <2>1 DEF SmoothPipe, Smooth, NewPipe, NewJitter, NewQueue, Nothing
<1>2. SmoothInv /\ MediaOK /\ PipesOK /\ AtcOK /\ [Next]_vars /\ MediaOK' /\ AtcOK' => SmoothInv'
  BY SmoothInvNext
<1> QED
  BY <1>1, <1>2, PipesInvariance, AtcIsOfModes, PTL DEF Spec

(* Where atc does not change, every peer whose times are corrected sees them go
   neither back nor forth by more than the maximum, whatever the encoder sends, and
   however often headers are sent again, its queue dropped and its connection made. *)
THEOREM TimesSmooth ==
  ASSUME NEW b \in BOOLEAN, AtcModes = {b}
  PROVE  Spec => []TimesAreSmooth
<1>1. SmoothInv /\ AtcOK /\ MediaOK /\ PipesOK => TimesAreSmooth
  <2> SUFFICES ASSUME SmoothInv, AtcOK, MediaOK, PipesOK,
                      NEW s \in up, CorrectsTime(s, atc)
               PROVE  /\ Ascends(s, IsAV)
                      /\ \A j \in DOMAIN Queued(s) : \A i \in 1..(j - 1) :
                           FollowsAV(s, i, j) =>
                             Queued(s)[j].time - Queued(s)[i].time <= CONST_MAX_JITTER_MS
    BY DEF TimesAreSmooth
  <2>1. s \in Peer /\ (s \in Forwarder \/ AtcModes = {FALSE})
    BY DEF AtcOK, MediaOK, TypeOK, CorrectsTime
  <2>2. Smooth(Queued(s), pipe[s].jitter.last_pkt_correct_time, got[s].time)
    BY <2>1 DEF SmoothInv, SmoothPipe, Queued
  <2>3. Ascends(s, IsAV)
    BY <2>2 DEF Ascends, Smooth
  <2>4. ASSUME NEW j \in DOMAIN Queued(s), NEW i \in 1..(j - 1), FollowsAV(s, i, j)
        PROVE  Queued(s)[j].time - Queued(s)[i].time <= CONST_MAX_JITTER_MS
    BY <2>2, <2>4 DEF FollowsAV, Smooth
  <2> QED
    BY <2>3, <2>4
<1> QED
  BY <1>1, SmoothInvariance, AtcIsOfModes, PipesInvariance, PTL

------------------------------------------------------------------------------
(* What a queue holds of what was received *)

\* q is the end of the first k of ms: all of it but what was dropped, and as it was
\* where exact.
IsEnd(q, ms, k, exact) ==
  /\ Len(q) <= k
  /\ \A i \in DOMAIN q :
       /\ q[i].kind = ms[k - Len(q) + i].kind /\ q[i].sh = ms[k - Len(q) + i].sh
       /\ exact => q[i] = ms[k - Len(q) + i]

\* enqueue() leaves an end of what was there and came, all of it if it is as long.
LEMMA EnqueueLeavesEnd ==
  ASSUME NEW q \in Queue, NEW m \in Message, NEW size \in Nat
  PROVE  LET r == Enqueue(q, m, size).msgs IN
           /\ r \in Seq(Message) /\ Len(r) <= Len(q.msgs) + 1
           /\ \A i \in 1..Len(r) :
                r[i] = Append(q.msgs, m)[Len(q.msgs) + 1 - Len(r) + i]
           /\ \/ r = Append(q.msgs, m)
              \/ r = <<>>
              \/ \E cut \in 2..(Len(q.msgs) + 1) :
                   r = SubSeq(Append(q.msgs, m), cut, Len(q.msgs) + 1)
<1> DEFINE a == Append(q.msgs, m)
           n == Len(q.msgs)
           r == Enqueue(q, m, size).msgs
           p == Pushed(q, m)
<1>1. /\ a \in Seq(Message) /\ Len(a) = n + 1 /\ n \in Nat /\ p.msgs = a
  BY DEF Queue, Pushed
<1>2. r \in Seq(Message)
  BY EnqueueIsQueue DEF Queue
<1>3. r = a \/ r = <<>> \/ \E cut \in 2..(n + 1) : r = SubSeq(a, cut, n + 1)
  <2>1. \/ Enqueue(q, m, size) = p
        \/ Enqueue(q, m, size) = NewQueue
        \/ \E cut \in Cuts(p, size) : r = SubSeq(p.msgs, cut, Len(p.msgs))
    BY EnqueueOutcome
  <2>2. Cuts(p, size) \subseteq 2..(n + 1) /\ Len(p.msgs) = n + 1 /\ NewQueue.msgs = <<>>
    BY <1>1 DEF Cuts, NewQueue
  <2>3. r = p.msgs \/ r = <<>> \/ \E cut \in Cuts(p, size) : r = SubSeq(p.msgs, cut, n + 1)
    BY <2>1, <2>2
  <2> HIDE DEF r, p, a, n
  <2> QED
    BY <1>1, <2>2, <2>3
<1> HIDE DEF a, r
<1>4. Len(r) <= n + 1 /\ \A i \in 1..Len(r) : r[i] = a[n + 1 - Len(r) + i]
  <2>1. CASE r = a
    BY <1>1, <2>1
  <2>2. CASE r = <<>>
    BY <1>1, <2>2
  <2>3. ASSUME NEW cut \in 2..(n + 1), r = SubSeq(a, cut, n + 1)
        PROVE  Len(r) <= n + 1 /\ \A i \in 1..Len(r) : r[i] = a[n + 1 - Len(r) + i]
    <3>1. Len(r) = n + 2 - cut /\ \A i \in 1..(n + 2 - cut) : r[i] = a[cut + i - 1]
      BY <1>1, <2>3
    <3>2. \A i \in 1..Len(r) : n + 1 - Len(r) + i = cut + i - 1
      BY <1>1, <3>1
    <3> QED
      BY <1>1, <3>1, <3>2
  <2> QED
    BY <1>3, <2>1, <2>2, <2>3
<1> QED
  BY <1>2, <1>3, <1>4 DEF a, r

\* One more message received: the message as the peer takes it, or its end.
LEMMA ReceiveLeavesEnd ==
  ASSUME NEW s, NEW c \in Pipe, NEW m \in Message, NEW isAtc, NEW tb,
         tb.audio \in Nat, tb.video \in Nat, queueSize \in Nat
  PROVE  \E x \in Message :
           /\ x.kind = m.kind /\ x.sh = m.sh /\ (~CorrectsTime(s, isAtc) => x = m)
           /\ Receive(s, c, m, isAtc, tb).queue = Enqueue(c.queue, x, queueSize)
<1>1. CASE CorrectsTime(s, isAtc)
  <2>1. PICK a \in Nat, v \in Nat :
          LET j == Corrected(c.jitter, m, a, v) IN
            /\ j \in Jitter
            /\ Receive(s, c, m, isAtc, tb) =
                 [jitter |-> j, queue |-> Enqueue(c.queue, Retimed(j, m), queueSize)]
    BY <1>1, ReceiveOutcome
  <2> DEFINE j == Corrected(c.jitter, m, a, v)
  <2>2. j \in Jitter
        /\ Receive(s, c, m, isAtc, tb).queue = Enqueue(c.queue, Retimed(j, m), queueSize)
    BY <2>1
  <2> HIDE DEF j
  <2>3. /\ Retimed(j, m) \in Message
        /\ Retimed(j, m).kind = m.kind /\ Retimed(j, m).sh = m.sh
    BY <2>2, RetimedIsMessage
  <2> QED
    BY <1>1, <2>2, <2>3
<1>2. CASE ~CorrectsTime(s, isAtc)
  BY <1>2, ReceiveOutcome
<1> QED
  BY <1>1, <1>2

\* What a new consumer's queue holds of what it is fed.
LEMMA ReceiveAllLeavesEnd ==
  ASSUME MediaOK, NEW s, NEW ms \in Seq(Message)
  PROVE  IsEnd(ReceiveAll(s, NewPipe, ms).queue.msgs, ms, Len(ms), ~CorrectsTime(s, atc))
<1> DEFINE exact == ~CorrectsTime(s, atc)
           P == {x \in Nat \X Pipe : IsEnd(x[2].queue.msgs, ms, x[1], exact)}
<1>1. rates.audio \in Nat /\ rates.video \in Nat /\ queueSize \in Nat
  BY SourceTypes
<1>2. NewPipe \in Pipe /\ <<0, NewPipe>> \in P
  <2>1. IsEnd(<<>>, ms, 0, exact)
    BY DEF IsEnd
  <2> QED
    BY <2>1, NewPipeIsPipe
<1>3. ASSUME NEW k \in 0..(Len(ms) - 1), NEW d \in Pipe, <<k, d>> \in P
      PROVE  <<k + 1, Receive(s, d, ms[k + 1], atc, rates)>> \in P
  <2> DEFINE m == ms[k + 1]
             e == Receive(s, d, m, atc, rates)
             q == d.queue.msgs
             r == e.queue.msgs
  <2>1. k \in Nat /\ k + 1 \in Nat /\ m \in Message
    <3>1. k + 1 \in 1..Len(ms)
      OBVIOUS
    <3> QED
      BY <3>1, ElementOfSeq
  <2>2. e \in Pipe
    BY <1>1, <2>1, ReceiveOutcome
  <2>3. IsEnd(q, ms, k, exact)
    BY <1>3
  <2>4. d.queue \in Queue /\ q \in Seq(Message)
    BY DEF Pipe, Queue
  <2>5. PICK x \in Message :
          /\ x.kind = m.kind /\ x.sh = m.sh /\ (exact => x = m)
          /\ e.queue = Enqueue(d.queue, x, queueSize)
    <3> HIDE DEF m
    <3> QED
      BY <1>1, <2>1, ReceiveLeavesEnd
  <2>6. /\ r \in Seq(Message) /\ Len(r) <= Len(q) + 1
        /\ \A i \in 1..Len(r) : r[i] = Append(q, x)[Len(q) + 1 - Len(r) + i]
    <3> DEFINE y == Enqueue(d.queue, x, queueSize).msgs
    <3>1. /\ y \in Seq(Message) /\ Len(y) <= Len(q) + 1
          /\ \A i \in 1..Len(y) : y[i] = Append(q, x)[Len(q) + 1 - Len(y) + i]
      BY <1>1, <2>4, EnqueueLeavesEnd
    <3>2. r = y
      BY <2>5
    <3> HIDE DEF y, r, q
    <3> QED
      BY <3>1, <3>2
  <2>7. IsEnd(r, ms, k + 1, exact)
    <3> HIDE DEF e, r, exact
    <3>1. Len(q) \in Nat /\ Len(r) \in Nat /\ Len(q) <= k /\ DOMAIN r = 1..Len(r)
          /\ DOMAIN q = 1..Len(q)
      BY <2>3, <2>4, <2>6 DEF IsEnd
    <3>4. k \in Nat /\ Len(q) \in Nat /\ Len(r) \in Nat
      BY <2>1, <2>4, <2>6
    <3>2. ASSUME NEW i \in 1..Len(r)
          PROVE  LET y == ms[k + 1 - Len(r) + i] IN
                   r[i].kind = y.kind /\ r[i].sh = y.sh /\ (exact => r[i] = y)
      <4> DEFINE l == Len(q) + 1 - Len(r) + i
      <4>1. r[i] = Append(q, x)[l] /\ l \in 1..(Len(q) + 1)
        BY <2>6, <3>1
      <4>2. CASE l = Len(q) + 1
        <5>1. r[i] = x
          BY <2>4, <4>1, <4>2
        <5>2. k + 1 - Len(r) + i = k + 1
          BY <2>1, <3>1, <4>2
        <5>3. ms[k + 1 - Len(r) + i] = m
          BY <5>2
        <5> HIDE DEF m, l, q
        <5> QED
          BY <2>5, <5>1, <5>3
      <4>3. CASE l \in 1..Len(q)
        <5>1. r[i] = q[l]
          BY <2>4, <4>1, <4>3
        <5>3. k - Len(q) + l = k + 1 - Len(r) + i
          <6> HIDE DEF m, q
          <6>1. k - Len(q) + (Len(q) + 1 - Len(r) + i) = k + 1 - Len(r) + i
            BY <3>4
          <6> QED
            BY <6>1
        <5>2. /\ q[l].kind = ms[k - Len(q) + l].kind /\ q[l].sh = ms[k - Len(q) + l].sh
              /\ exact => q[l] = ms[k - Len(q) + l]
          BY <2>3, <3>1, <4>3 DEF IsEnd
        <5> HIDE DEF q, l
        <5> QED
          BY <5>1, <5>2, <5>3
      <4> HIDE DEF l, q
      <4>4. l = Len(q) + 1 \/ l \in 1..Len(q)
        BY <3>4, <4>1
      <4> QED
        BY <4>2, <4>3, <4>4
    <3>3. Len(r) <= k + 1
      BY <2>1, <2>6, <3>1
    <3> QED
      BY <3>1, <3>2, <3>3 DEF IsEnd
  <2>8. IsEnd(e.queue.msgs, ms, k + 1, exact)
    BY <2>7
  <2> HIDE DEF e, exact
  <2>9. <<k + 1, e>> \in Nat \X Pipe /\ <<k + 1, e>>[1] = k + 1 /\ <<k + 1, e>>[2] = e
    BY <2>1, <2>2
  <2>10. <<k + 1, e>> \in P
    BY <2>8, <2>9
  <2> QED
    BY <2>10 DEF e
<1>4. <<Len(ms), ReceiveAll(s, NewPipe, ms)>> \in P
  <2> HIDE DEF P
  <2> QED
    BY <1>1, <1>2, <1>3, ReceiveAllKeeps
<1> QED
  BY <1>4

------------------------------------------------------------------------------
(* The times of a player whose times are those of the encoder *)

\* Nothing is later than now, and a frame is not earlier than what precedes it or
\* than the time t of what was sent before.
Follows(ms, now, t) ==
  /\ t <= now
  /\ \A j \in DOMAIN ms :
       /\ IsAV(ms[j]) => ms[j].time <= now
       /\ IsFrame(ms[j]) =>
            /\ t <= ms[j].time
            /\ \A i \in 1..(j - 1) : IsAV(ms[i]) => ms[i].time <= ms[j].time

\* The caches are not later than the encoder, and the group of pictures ascends.
CacheFollows ==
  /\ \A i \in DOMAIN vsh : vsh[i].time <= clock
  /\ \A i \in DOMAIN ash : ash[i].time <= clock
  /\ \A j \in DOMAIN gop : gop[j].time <= clock /\ \A i \in 1..(j - 1) : gop[i].time <= gop[j].time

FollowsInv ==
  CacheFollows /\ \A p \in Player : Follows(pipe[p].queue.msgs, clock, got[p].time)

\* The types of a message.
LEMMA TimesAreNat ==
  ASSUME NEW ms \in Seq(Message)
  PROVE  \A i \in DOMAIN ms : ms[i] \in Message /\ ms[i].time \in Nat /\ ms[i].sh \in Nat
<1>1. \A i \in DOMAIN ms : ms[i] \in Message
  OBVIOUS
<1> QED
  BY <1>1 DEF Message

\* The end of what follows its past does too.
LEMMA FollowsEnd ==
  ASSUME NEW ms \in Seq(Message), NEW now, NEW t, Follows(ms, now, t),
         NEW q \in Seq(Message), IsEnd(q, ms, Len(ms), TRUE)
  PROVE  Follows(q, now, t)
<1> DEFINE n == Len(ms)
           l == Len(q)
<1>1. n \in Nat /\ l \in Nat /\ l <= n /\ DOMAIN q = 1..l /\ DOMAIN ms = 1..n
      /\ \A i \in 1..l : q[i] = ms[n - l + i]
  BY DEF IsEnd
<1> HIDE DEF n, l
<1>2. ASSUME NEW j \in 1..l
      PROVE  /\ IsAV(q[j]) => q[j].time <= now
             /\ IsFrame(q[j]) =>
                  /\ t <= q[j].time
                  /\ \A i \in 1..(j - 1) : IsAV(q[i]) => q[i].time <= q[j].time
  <2>1. q[j] = ms[n - l + j] /\ n - l + j \in 1..n
    BY <1>1
  <2>2. \A i \in 1..(j - 1) : q[i] = ms[n - l + i] /\ n - l + i \in 1..(n - l + j - 1)
    BY <1>1
  <2> DEFINE J == n - l + j
  <2> HIDE DEF J
  <2>3. /\ q[j] = ms[J] /\ J \in DOMAIN ms
        /\ \A i \in 1..(j - 1) : \E I \in 1..(J - 1) : q[i] = ms[I]
    BY <1>1, <2>1, <2>2 DEF J
  <2> QED
    BY <2>3 DEF Follows
<1> QED
  BY <1>1, <1>2 DEF Follows

\* A message of the present follows all that is there.
LEMMA FollowsAppend ==
  ASSUME NEW ms \in Seq(Message), NEW now \in Nat, NEW t \in Nat, Follows(ms, now, t),
         NEW m \in Message, now <= m.time
  PROVE  Follows(Append(ms, m), m.time, t)
<1> DEFINE n == Len(ms)
           r == Append(ms, m)
<1>1. /\ n \in Nat /\ r \in Seq(Message) /\ Len(r) = n + 1 /\ DOMAIN r = 1..(n + 1)
      /\ r[n + 1] = m /\ DOMAIN ms = 1..n
      /\ \A i \in 1..n : r[i] = ms[i]
  OBVIOUS
<1>2. m.time \in Nat /\ \A i \in 1..n : ms[i].time \in Nat
  BY <1>1, TimesAreNat DEF Message
<1> HIDE DEF n, r
<1>3. t <= m.time
  BY <1>2 DEF Follows
<1>4. ASSUME NEW j \in 1..(n + 1)
      PROVE  /\ IsAV(r[j]) => r[j].time <= m.time
             /\ IsFrame(r[j]) =>
                  /\ t <= r[j].time
                  /\ \A i \in 1..(j - 1) : IsAV(r[i]) => r[i].time <= r[j].time
  <2>1. CASE j \in 1..n
    <3>1. r[j] = ms[j] /\ \A i \in 1..(j - 1) : r[i] = ms[i]
      BY <1>1, <2>1
    <3>2. /\ IsAV(ms[j]) => ms[j].time <= now
          /\ IsFrame(ms[j]) =>
               /\ t <= ms[j].time
               /\ \A i \in 1..(j - 1) : IsAV(ms[i]) => ms[i].time <= ms[j].time
      BY <1>1, <2>1 DEF Follows
    <3>3. IsAV(ms[j]) => ms[j].time <= m.time
      BY <1>2, <2>1, <3>2
    <3> QED
      BY <3>1, <3>2, <3>3
  <2>2. CASE j = n + 1
    <3>1. r[j] = m /\ \A i \in 1..(j - 1) : r[i] = ms[i] /\ i \in DOMAIN ms
      BY <1>1, <2>2
    <3>2. \A i \in 1..(j - 1) : IsAV(r[i]) => r[i].time <= now /\ r[i].time \in Nat
      BY <1>1, <1>2, <3>1 DEF Follows
    <3> QED
      BY <1>2, <1>3, <3>1, <3>2
  <2> QED
    BY <1>1, <2>1, <2>2
<1> QED
  BY <1>1, <1>3, <1>4 DEF Follows, r

LEMMA FollowsLater ==
  ASSUME NEW ms \in Seq(Message), NEW now \in Nat, NEW t \in Nat, Follows(ms, now, t),
         NEW later \in Nat, now <= later
  PROVE  Follows(ms, later, t)
<1>1. \A j \in DOMAIN ms : ms[j].time \in Nat
  BY TimesAreNat
<1>2. \A j \in DOMAIN ms : IsAV(ms[j]) => ms[j].time <= later
  BY <1>1 DEF Follows
<1>3. t <= later
  BY DEF Follows
<1> QED
  BY <1>2, <1>3 DEF Follows

\* The times only grow where the encoder's clock never goes back.
LEMMA ClockGrows ==
  ASSUME MediaOK, BackSteps = {}, NEW m \in Message, Sends(m)
  PROVE  clock <= m.time /\ clock' = m.time
<1> USE LiveSourceAssumption
<1>1. clock \in Nat /\ m.time \in Times /\ clock' = m.time
  BY SourceTypes DEF Sends
<1>2. PICK d \in Steps : m.time = clock + d
  BY <1>1 DEF Times
<1> QED
  BY <1>1, <1>2

LEMMA CacheFollowsNext ==
  ASSUME MediaOK, BackSteps = {}, CacheFollows, [Next]_vars
  PROVE  CacheFollows'
<1>1. /\ vsh \in Seq(Message) /\ ash \in Seq(Message) /\ gop \in Seq(Message) /\ clock \in Nat
  BY SourceTypes
<1>2. /\ \A i \in DOMAIN vsh : vsh[i].time \in Nat
      /\ \A i \in DOMAIN ash : ash[i].time \in Nat
      /\ \A i \in DOMAIN gop : gop[i].time \in Nat
  BY <1>1, TimesAreNat
<1>3. ASSUME NEW c \in Seq(Message), NEW t \in Nat
      PROVE  \A i \in DOMAIN Retime(c, t) : Retime(c, t)[i].time = t
  <2>1. \A i \in DOMAIN c : c[i] \in Message
    OBVIOUS
  <2> QED
    BY <2>1 DEF Retime, Message
<1>4. CASE EncoderSends
  <2>1. PICK m \in Message :
          /\ Sends(m)
          /\ (gop' = gop) \/ CacheGop(m)
          /\ Kept(vsh, vsh', "vsh", m) /\ Kept(ash, ash', "ash", m)
    BY <1>4, SendsOutcome
  <2>2. clock <= m.time /\ clock' = m.time /\ m.time \in Nat
    BY <2>1, ClockGrows DEF Message
  <2>3. ASSUME NEW c \in Seq(Message), \A i \in DOMAIN c : c[i].time <= clock,
               NEW d, NEW k, Kept(c, d, k, m)
        PROVE  \A i \in DOMAIN d : d[i].time <= clock'
    <3>1. CASE d = c
      <4>1. \A i \in DOMAIN c : c[i].time \in Nat
        BY TimesAreNat
      <4> QED
        BY <1>1, <2>2, <2>3, <3>1, <4>1
    <3>2. CASE d = Retime(c, m.time)
      BY <1>3, <2>2, <3>2
    <3>3. CASE d = <<m>>
      BY <2>2, <3>3
    <3> QED
      BY <2>3, <3>1, <3>2, <3>3 DEF Kept
  <2>4. /\ \A i \in DOMAIN vsh' : vsh'[i].time <= clock'
        /\ \A i \in DOMAIN ash' : ash'[i].time <= clock'
    BY <1>1, <2>1, <2>3 DEF CacheFollows
  <2>5. \A j \in DOMAIN gop' :
           gop'[j].time <= clock' /\ \A i \in 1..(j - 1) : gop'[i].time <= gop'[j].time
    <3>1. CASE gop' = gop
      BY <1>1, <1>2, <2>2, <3>1 DEF CacheFollows
    <3>2. CASE gop' = <<m>>
      BY <2>2, <3>2
    <3>3. CASE gop' = Append(gop, m)
      <4>1. /\ Len(gop) \in Nat /\ DOMAIN gop = 1..Len(gop) /\ DOMAIN gop' = 1..(Len(gop) + 1)
            /\ gop'[Len(gop) + 1] = m /\ \A i \in 1..Len(gop) : gop'[i] = gop[i]
        BY <1>1, <3>3
      <4>2. ASSUME NEW j \in 1..(Len(gop) + 1)
            PROVE gop'[j].time <= clock' /\ \A i \in 1..(j - 1) : gop'[i].time <= gop'[j].time
        <5>1. CASE j \in 1..Len(gop)
          <6>1. gop'[j] = gop[j] /\ \A i \in 1..(j - 1) : gop'[i] = gop[i]
            BY <4>1, <5>1
          <6>2. /\ gop[j].time <= clock /\ gop[j].time \in Nat
                /\ \A i \in 1..(j - 1) : gop[i].time <= gop[j].time
            BY <1>2, <4>1, <5>1 DEF CacheFollows
          <6>3. gop[j].time <= clock'
            BY <1>1, <2>2, <6>2
          <6> QED
            BY <6>1, <6>2, <6>3
        <5>2. CASE j = Len(gop) + 1
          <6>1. gop'[j] = m /\ \A i \in 1..(j - 1) : gop'[i] = gop[i] /\ i \in DOMAIN gop
            BY <4>1, <5>2
          <6>2. \A i \in DOMAIN gop : gop[i].time <= clock
            BY DEF CacheFollows
          <6>3. \A i \in DOMAIN gop : gop[i].time <= m.time
            BY <1>1, <1>2, <2>2, <6>2
          <6> QED
            BY <2>2, <6>1, <6>3
        <5> QED
          BY <4>1, <5>1, <5>2
      <4> QED
        BY <4>1, <4>2
    <3> QED
      BY <2>1, <3>1, <3>2, <3>3, CacheGopOutcome
  <2> QED
    BY <2>4, <2>5 DEF CacheFollows
<1>5. CASE OnPublish
  BY <1>5 DEF OnPublish, cacheVars, CacheFollows
<1>6. CASE OnUnpublish
  BY <1>6 DEF OnUnpublish, CacheFollows
<1>7. CASE ~EncoderSends /\ ~OnPublish /\ ~OnUnpublish
  <2>1. /\ clock' = clock
        /\ gop' = gop \/ gop' = <<>>
        /\ \/ UNCHANGED <<vsh, ash>>
           \/ \E t \in Nat : /\ gop # <<>> /\ t = gop[1].time
                             /\ vsh' = Retime(vsh, t) /\ ash' = Retime(ash, t)
    BY <1>7, CachesFrame
  <2>2. gop # <<>> => gop[1].time <= clock
    BY <1>1 DEF CacheFollows
  <2>3. /\ \A i \in DOMAIN vsh' : vsh'[i].time <= clock
        /\ \A i \in DOMAIN ash' : ash'[i].time <= clock
    BY <1>1, <1>3, <2>1, <2>2 DEF CacheFollows
  <2> QED
    BY <2>1, <2>3 DEF CacheFollows
<1> QED
  BY <1>4, <1>5, <1>6, <1>7

\* What a concatenation consists of.
IsIn(x, c) == \E k \in DOMAIN c : x = c[k]

LEMMA ConcatMembers ==
  ASSUME NEW a \in Seq(Message), NEW b \in Seq(Message), NEW c \in Seq(Message),
         NEW i \in DOMAIN (a \o b \o c)
  PROVE  LET x == (a \o b \o c)[i] IN IsIn(x, a) \/ IsIn(x, b) \/ IsIn(x, c)
<1>1. ASSUME NEW x \in Seq(Message), NEW y \in Seq(Message), NEW j \in DOMAIN (x \o y)
      PROVE  IsIn((x \o y)[j], x) \/ IsIn((x \o y)[j], y)
  <2>1. CASE j \in 1..Len(x)
    <3>1. (x \o y)[j] = x[j] /\ j \in DOMAIN x
      BY <2>1
    <3> QED
      BY <3>1 DEF IsIn
  <2>2. CASE j \notin 1..Len(x)
    <3>1. j - Len(x) \in 1..Len(y) /\ (x \o y)[j] = y[j - Len(x)]
      BY <2>2
    <3> QED
      BY <3>1 DEF IsIn
  <2> QED
    BY <2>1, <2>2
<1> DEFINE ab == a \o b
<1>2. ab \in Seq(Message) /\ \A k \in DOMAIN ab : IsIn(ab[k], a) \/ IsIn(ab[k], b)
  <2>1. \A k \in DOMAIN (a \o b) : IsIn((a \o b)[k], a) \/ IsIn((a \o b)[k], b)
    BY <1>1, Zenon
  <2>2. a \o b \in Seq(Message)
    OBVIOUS
  <2> QED
    BY <2>1, <2>2
<1> HIDE DEF ab
<1>3. i \in DOMAIN (ab \o c)
  BY DEF ab
<1>4. IsIn((ab \o c)[i], ab) \/ IsIn((ab \o c)[i], c)
  BY <1>1, <1>2, <1>3
<1>5. IsIn((ab \o c)[i], ab) => IsIn((ab \o c)[i], a) \/ IsIn((ab \o c)[i], b)
  BY <1>2 DEF IsIn
<1> QED
  BY <1>4, <1>5 DEF ab

\* What a new consumer is fed: the headers, at the time of the group of pictures,
\* and that group.
LEMMA FeedFollows ==
  ASSUME MediaOK, CacheFollows, atc, NEW p, CreateConsumer(p), MediaOK'
  PROVE  LET ms == meta' \o vsh' \o ash' \o gop IN
           ms \in Seq(Message) /\ Follows(ms, clock, 0)
<1> DEFINE hs == meta' \o vsh' \o ash'
           ms == hs \o gop
           h == Len(hs)
<1>1. /\ meta' \in Seq(Message) /\ vsh' \in Seq(Message) /\ ash' \in Seq(Message)
      /\ meta \in Seq(Message) /\ vsh \in Seq(Message) /\ ash \in Seq(Message)
      /\ gop \in Seq(Message) /\ clock \in Nat
  BY SourceTypes DEF MediaOK, CachesOK
<1>2. hs \in Seq(Message) /\ ms \in Seq(Message) /\ h \in Nat
  BY <1>1
<1>3. \A i \in DOMAIN hs : IsIn(hs[i], meta') \/ IsIn(hs[i], vsh') \/ IsIn(hs[i], ash')
  <2>1. PICK a \in Seq(Message), b \in Seq(Message), c \in Seq(Message) :
          a = meta' /\ b = vsh' /\ c = ash'
    BY <1>1
  <2>2. ASSUME NEW i \in DOMAIN hs
        PROVE  IsIn(hs[i], meta') \/ IsIn(hs[i], vsh') \/ IsIn(hs[i], ash')
    <3>1. i \in DOMAIN (a \o b \o c) /\ hs[i] = (a \o b \o c)[i]
      BY <2>1
    <3>2. IsIn((a \o b \o c)[i], a) \/ IsIn((a \o b \o c)[i], b) \/ IsIn((a \o b \o c)[i], c)
      BY <3>1, ConcatMembers
    <3> QED
      BY <2>1, <3>1, <3>2
  <2> QED
    BY <2>2
<1>4. /\ \A i \in DOMAIN meta' : meta'[i].kind = "meta"
      /\ \A i \in DOMAIN vsh' : vsh'[i].kind = "vsh"
      /\ \A i \in DOMAIN ash' : ash'[i].kind = "ash"
  BY DEF MediaOK, TypeOK
<1> HIDE DEF hs
<1>5. \A i \in 1..h : ~IsFrame(hs[i])
  BY <1>2, <1>3, <1>4 DEF IsFrame, IsIn
<1>6. gop # <<>> => \A i \in 1..h : hs[i].time = gop[1].time
  <2> SUFFICES ASSUME gop # <<>> PROVE \A i \in 1..h : hs[i].time = gop[1].time
    OBVIOUS
  <2>1. ASSUME NEW c \in Seq(Message)
        PROVE  \A i \in DOMAIN Retime(c, gop[1].time) :
                 Retime(c, gop[1].time)[i].time = gop[1].time
    <3>1. \A i \in DOMAIN c : c[i] \in Message
      OBVIOUS
    <3> QED
      BY <3>1 DEF Retime, Message
  <2>2. /\ meta' = Retime(meta, gop[1].time) /\ vsh' = Retime(vsh, gop[1].time)
        /\ ash' = Retime(ash, gop[1].time)
    BY DEF CreateConsumer
  <2>3. /\ \A i \in DOMAIN meta' : meta'[i].time = gop[1].time
        /\ \A i \in DOMAIN vsh' : vsh'[i].time = gop[1].time
        /\ \A i \in DOMAIN ash' : ash'[i].time = gop[1].time
    BY <1>1, <2>1, <2>2
  <2> QED
    BY <1>2, <1>3, <2>3 DEF IsIn
<1>7. \A i \in 1..h : IsAV(hs[i]) => hs[i].time <= clock
  <2>1. CASE gop = <<>>
    <3>1. vsh' = vsh /\ ash' = ash
      BY <2>1 DEF CreateConsumer
    <3>2. \A i \in DOMAIN meta' : ~IsAV(meta'[i])
      BY <1>4 DEF IsAV, IsVideo, IsAudio
    <3> QED
      BY <1>2, <1>3, <3>1, <3>2 DEF CacheFollows, IsIn
  <2>2. CASE gop # <<>>
    <3>1. \A i \in 1..h : hs[i].time = gop[1].time
      BY <1>6, <2>2
    <3>2. gop[1].time <= clock
      BY <1>1, <2>2 DEF CacheFollows
    <3> QED
      BY <3>1, <3>2
  <2> QED
    BY <2>1, <2>2
<1>8. /\ Len(gop) \in Nat /\ DOMAIN ms = 1..(h + Len(gop))
      /\ \A i \in 1..h : ms[i] = hs[i]
      /\ \A i \in (h + 1)..(h + Len(gop)) : ms[i] = gop[i - h] /\ i - h \in 1..Len(gop)
  BY <1>1, <1>2
<1>9. /\ \A i \in 1..Len(gop) : gop[i].time \in Nat /\ gop[i].time <= clock
      /\ \A j \in 1..Len(gop) : \A i \in 1..j : gop[i].time <= gop[j].time
  <2>1. \A i \in 1..Len(gop) : gop[i].time \in Nat
    BY <1>1, TimesAreNat
  <2>2. \A j \in 1..Len(gop) : \A i \in 1..j : i = j \/ i \in 1..(j - 1)
    OBVIOUS
  <2>3. DOMAIN gop = 1..Len(gop)
    BY <1>1
  <2>4. /\ \A i \in 1..Len(gop) : gop[i].time <= clock
        /\ \A j \in 1..Len(gop) : \A i \in 1..(j - 1) : gop[i].time <= gop[j].time
    BY <2>3 DEF CacheFollows
  <2>5. \A j \in 1..Len(gop) : gop[j].time <= gop[j].time
    BY <2>1
  <2> QED
    BY <2>1, <2>2, <2>4, <2>5
<1> HIDE DEF ms, h
<1>10. ASSUME NEW j \in DOMAIN ms
       PROVE  /\ IsAV(ms[j]) => ms[j].time <= clock
              /\ IsFrame(ms[j]) =>
                   /\ 0 <= ms[j].time
                   /\ \A i \in 1..(j - 1) : IsAV(ms[i]) => ms[i].time <= ms[j].time
  <2>1. CASE j \in 1..h
    BY <1>5, <1>7, <1>8, <2>1
  <2>2. CASE j \in (h + 1)..(h + Len(gop))
    <3> DEFINE J == j - h
    <3>1. ms[j] = gop[J] /\ J \in 1..Len(gop)
      BY <1>8, <2>2
    <3>2. gop # <<>> /\ 1 \in 1..J
      BY <3>1
    <3>3. ASSUME NEW i \in 1..(j - 1) PROVE ms[i].time <= ms[j].time
      <4>1. CASE i \in 1..h
        <5>1. ms[i].time = gop[1].time
          BY <1>6, <1>8, <3>2, <4>1
        <5> HIDE DEF J
        <5> QED
          BY <1>9, <3>1, <3>2, <5>1
      <4>2. CASE i \notin 1..h
        <5>1. i \in (h + 1)..(h + Len(gop)) /\ i - h \in 1..J
          BY <1>2, <1>8, <2>2, <4>2 DEF h
        <5>2. ms[i] = gop[i - h]
          BY <1>8, <5>1
        <5> HIDE DEF J
        <5> QED
          BY <1>9, <3>1, <5>1, <5>2
      <4> QED
        BY <4>1, <4>2
    <3> HIDE DEF J
    <3> QED
      BY <1>9, <3>1, <3>3
  <2> QED
    BY <1>2, <1>8, <2>1, <2>2
<1>11. Follows(ms, clock, 0)
  BY <1>1, <1>10 DEF Follows
<1> QED
  BY <1>2, <1>11 DEF ms, hs

LEMMA FollowsInvNext ==
  ASSUME BackSteps = {}, AtcModes = {TRUE}, MediaOK, PipesOK, AtcOK, FollowsInv,
         [Next]_vars, MediaOK', AtcOK'
  PROVE  FollowsInv'
<1> USE LiveSourceAssumption
<1>1. CacheFollows'
  BY CacheFollowsNext DEF FollowsInv
<1> SUFFICES ASSUME NEW s \in Player
             PROVE  Follows(pipe[s].queue.msgs, clock, got[s].time)'
  BY <1>1 DEF FollowsInv
<1> DEFINE q == pipe[s].queue.msgs
           t == got[s].time
<1>2. /\ s \in Peer /\ s \notin Forwarder /\ atc = TRUE /\ atc' = TRUE
      /\ ~CorrectsTime(s, atc) /\ ~CorrectsTime(s, atc')
  BY DEF Peer, AtcOK, CorrectsTime
<1>3. /\ pipe[s] \in Pipe /\ got[s] \in Got /\ t \in Nat /\ pipe[s].queue \in Queue
      /\ q \in Seq(Message) /\ clock \in Nat /\ queueSize \in Nat
  BY <1>2, SourceTypes DEF PipesOK, Got, Pipe, Queue
<1>4. Follows(q, clock, t)
  BY DEF FollowsInv
<1>5. Follows(<<>>, clock, 0) /\ NewPipe.queue.msgs = <<>> /\ Nothing.time = 0
  BY <1>3 DEF Follows, NewPipe, NewQueue, Nothing
<1>6. ASSUME NEW m \in Message, Sends(m), Hears(s, m)
      PROVE  Follows(pipe'[s].queue.msgs, clock', got'[s].time)
  <2>1. rates'.audio \in Nat /\ rates'.video \in Nat
    <3>1. rates' \in {NoRates, [audio |-> SampleRate, video |-> FrameRate]}
      BY DEF MediaOK, TypeOK
    <3> QED
      BY <3>1 DEF NoRates
  <2>2. pipe'[s] = Receive(s, pipe[s], m, atc', rates') /\ got'[s] = got[s]
    BY <1>6 DEF Hears
  <2>3. pipe'[s].queue = Enqueue(pipe[s].queue, m, queueSize)
    <3>1. PICK x \in Message :
            /\ ~CorrectsTime(s, atc') => x = m
            /\ Receive(s, pipe[s], m, atc', rates').queue = Enqueue(pipe[s].queue, x, queueSize)
      BY <1>3, <2>1, ReceiveLeavesEnd
    <3> QED
      BY <1>2, <2>2, <3>1
  <2>4. clock <= m.time /\ clock' = m.time
    BY <1>6, ClockGrows
  <2>5. Follows(Append(q, m), m.time, t)
    <3> HIDE DEF q, t
    <3> QED
      BY <1>3, <1>4, <2>4, FollowsAppend
  <2> DEFINE r == Enqueue(pipe[s].queue, m, queueSize).msgs
             a == Append(q, m)
  <2>6. /\ r \in Seq(Message) /\ Len(r) <= Len(q) + 1
        /\ \A i \in 1..Len(r) : r[i] = a[Len(q) + 1 - Len(r) + i]
    BY <1>3, EnqueueLeavesEnd
  <2>7. a \in Seq(Message) /\ Len(a) = Len(q) + 1
    BY <1>3
  <2>8. IsEnd(r, a, Len(a), TRUE)
    <3> HIDE DEF r, a
    <3>1. Len(q) \in Nat /\ Len(r) \in Nat /\ DOMAIN r = 1..Len(r) /\ Len(r) <= Len(a)
      BY <1>3, <2>6, <2>7
    <3>2. \A i \in 1..Len(r) : Len(a) - Len(r) + i = Len(q) + 1 - Len(r) + i
      BY <2>7, <3>1
    <3>3. \A i \in 1..Len(r) : r[i] = a[Len(a) - Len(r) + i]
      BY <2>6, <3>2
    <3> QED
      BY <3>1, <3>3 DEF IsEnd
  <2>9. Follows(r, m.time, t)
    <3> HIDE DEF r, a, t, q
    <3> QED
      BY <2>5, <2>6, <2>7, <2>8, FollowsEnd DEF a
  <2> QED
    BY <2>2, <2>3, <2>4, <2>9
<1>7. ASSUME EncoderRests, Joins(s) PROVE Follows(pipe'[s].queue.msgs, clock', got'[s].time)
  <2> DEFINE ms == meta' \o vsh' \o ash' \o gop
             r == ReceiveAll(s, NewPipe, ms)
  <2>1. ms \in Seq(Message) /\ Follows(ms, clock, 0)
    BY <1>2, <1>7, FeedFollows DEF Joins, FollowsInv
  <2>2. /\ got'[s] = Nothing /\ gop' = gop
        /\ pipe'[s] = ReceiveAll(s, NewPipe, meta' \o vsh' \o ash' \o gop')
    BY <1>2, <1>7 DEF Joins, PipesOK
  <2>3. pipe'[s] = r
    BY <2>2
  <2> HIDE DEF ms
  <2>4. r \in Pipe /\ IsEnd(r.queue.msgs, ms, Len(ms), ~CorrectsTime(s, atc))
    BY <2>1, NewPipeIsPipe, ReceiveAllIsPipe, ReceiveAllLeavesEnd
  <2>5. r.queue.msgs \in Seq(Message) /\ IsEnd(r.queue.msgs, ms, Len(ms), TRUE)
    <3>1. (~CorrectsTime(s, atc)) = TRUE
      BY <1>2
    <3> HIDE DEF r
    <3> QED
      BY <2>4, <3>1 DEF Pipe, Queue
  <2> HIDE DEF r
  <2>6. Follows(r.queue.msgs, clock, 0)
    BY <2>1, <2>5, FollowsEnd
  <2> QED
    BY <1>5, <1>7, <2>2, <2>3, <2>6 DEF EncoderRests
<1>8. ASSUME clock' = clock, Leaves(s) PROVE Follows(pipe'[s].queue.msgs, clock', got'[s].time)
  BY <1>5, <1>8 DEF Leaves
<1>9. ASSUME EncoderRests, Takes(s) PROVE Follows(pipe'[s].queue.msgs, clock', got'[s].time)
  <2>1. pipe'[s].queue.msgs = <<>> /\ got'[s].time = LastOf(q, IsAV, got[s]).time
    BY <1>3, <1>9, TakenAllIsQueue DEF Takes
  <2>2. LastOf(q, IsAV, got[s]).time <= clock
    BY <1>3, <1>4, LastSentOutcome DEF Follows
  <2> HIDE DEF q
  <2> QED
    BY <1>9, <2>1, <2>2 DEF EncoderRests, Follows
<1>10. ASSUME clock' = clock, Rests(s) PROVE Follows(pipe'[s].queue.msgs, clock', got'[s].time)
  BY <1>4, <1>10 DEF Rests
<1>11. ASSUME NEW m \in Message, Sends(m), Rests(s), s \notin up
       PROVE  Follows(pipe'[s].queue.msgs, clock', got'[s].time)
  <2>1. clock <= m.time /\ clock' = m.time /\ m.time \in Nat
    BY <1>11, ClockGrows DEF Message
  <2>2. Follows(q, clock', t)
    <3> HIDE DEF q, t
    <3> QED
      BY <1>3, <1>4, <2>1, FollowsLater
  <2> QED
    BY <1>11, <2>2 DEF Rests
<1>12. /\ OnPublish => clock' = clock
       /\ OnUnpublish => clock' = clock
       /\ EncoderRests => clock' = clock
  BY DEF OnPublish, OnUnpublish, EncoderRests
<1>13. ~Starts(s)
  BY <1>2 DEF Starts
<1> QED
  BY <1>2, <1>6, <1>7, <1>8, <1>9, <1>10, <1>11, <1>12, <1>13, PeerStep

(* With atc and an encoder whose clock never goes back, no player gets a frame that
   is earlier than a header or a frame sent to it before, whether it joins in the
   middle of a session, is fed the cached group of pictures or pauses. *)
THEOREM FramesFollow ==
  ASSUME AtcModes = {TRUE}, BackSteps = {}
  PROVE  Spec => []FramesFollowTheirPast
<1>1. Init => FollowsInv
  <2> SUFFICES ASSUME Init PROVE FollowsInv
    OBVIOUS
  <2>1. vsh = <<>> /\ ash = <<>> /\ gop = <<>> /\ clock = 0
    BY DEF Init
  <2>2. \A p \in Player : pipe[p] = NewPipe /\ got[p] = Nothing
    BY DEF Init, Peer
  <2>3. CacheFollows
    BY <2>1 DEF CacheFollows
  <2>4. Follows(NewPipe.queue.msgs, clock, Nothing.time)
    BY <2>1 DEF Follows, NewPipe, NewQueue, Nothing
  <2> QED
    BY <2>2, <2>3, <2>4 DEF FollowsInv
<1>2. FollowsInv /\ MediaOK /\ PipesOK /\ AtcOK /\ [Next]_vars /\ MediaOK' /\ AtcOK'
        => FollowsInv'
  BY FollowsInvNext
<1>3. FollowsInv /\ MediaOK => FramesFollowTheirPast
  <2> SUFFICES ASSUME FollowsInv, NEW p \in up \cap Player PROVE Ascends(p, IsFrame)
    BY DEF FramesFollowTheirPast
  <2>1. Follows(Queued(p), clock, got[p].time)
    BY DEF FollowsInv, Queued
  <2> QED
    BY <2>1 DEF Ascends, Follows
<1> QED
  BY <1>1, <1>2, <1>3, PipesInvariance, AtcIsOfModes, PTL DEF Spec

------------------------------------------------------------------------------
(* The headers a player has *)

\* The last H.264 header of the first n of ms, or what g was before them, is h.
HeaderIs(ms, g, n, h) ==
  \/ (\A k \in 1..n : ms[k].kind # "vsh") /\ g.sh = h
  \/ \E k \in 1..n : /\ ms[k].kind = "vsh" /\ ms[k].sh = h
                     /\ \A l \in (k + 1)..n : ms[l].kind # "vsh"

Encoded(m) == m.kind \in {"key", "inter"} /\ m.sh # 0

\* Every frame finds its header, and so will a frame under header h that comes next.
CanDecode(ms, g, h) ==
  /\ \A i \in DOMAIN ms : Encoded(ms[i]) => HeaderIs(ms, g, i, ms[i].sh)
  /\ h # 0 => HeaderIs(ms, g, Len(ms), h)

CurrentHeader == IF live THEN sh ELSE 0

HeaderCached == live /\ sh # 0 => vsh # <<>> /\ vsh[1].sh = sh

DecodeInv ==
  /\ HeaderCached
  /\ \A p \in (up \cap Player) \ lost : CanDecode(Queued(p), got[p], CurrentHeader)

LEMMA LastIsHeader ==
  ASSUME NEW ms \in Seq(Message), NEW g, NEW h, HeaderIs(ms, g, Len(ms), h)
  PROVE  LastOf(ms, LAMBDA m : m.kind = "vsh", g).sh = h
<1> DEFINE at == {i \in DOMAIN ms : ms[i].kind = "vsh"}
           last == LastOf(ms, LAMBDA m : m.kind = "vsh", g)
<1>1. Len(ms) \in Nat /\ DOMAIN ms = 1..Len(ms)
  OBVIOUS
<1>2. \/ at = {} /\ last = g
      \/ \E i \in at : (\A j \in at : j <= i) /\ last = ms[i]
  BY LastHeaderOutcome
<1> HIDE DEF last
<1>3. CASE (\A k \in 1..Len(ms) : ms[k].kind # "vsh") /\ g.sh = h
  <2>1. at = {}
    BY <1>1, <1>3
  <2>2. last = g
    BY <1>2, <2>1
  <2>3. g.sh = h
    BY <1>3
  <2> QED
    BY <2>2, <2>3 DEF last
<1>4. ASSUME NEW k \in 1..Len(ms), ms[k].kind = "vsh", ms[k].sh = h,
             \A l \in (k + 1)..Len(ms) : ms[l].kind # "vsh"
      PROVE  last.sh = h
  <2>1. k \in at
    BY <1>1, <1>4
  <2>2. PICK i \in at : (\A j \in at : j <= i) /\ last = ms[i]
    BY <1>2, <2>1
  <2>3. i \in 1..Len(ms) /\ ms[i].kind = "vsh" /\ k <= i
    BY <1>1, <2>1, <2>2
  <2>4. i = k
    BY <1>1, <1>4, <2>3
  <2> QED
    BY <1>4, <2>2, <2>4
<1> QED
  BY <1>3, <1>4 DEF HeaderIs, last

\* The header by the time of the message at i.
LEMMA HeaderAtIs ==
  ASSUME NEW s, Queued(s) \in Seq(Message), NEW i \in DOMAIN Queued(s), NEW h,
         HeaderIs(Queued(s), got[s], i, h)
  PROVE  HeaderAt(s, i) = h
<1> DEFINE ms == Queued(s)
           r == SubSeq(ms, 1, i)
<1> HIDE DEF ms
<1>1. /\ ms \in Seq(Message) /\ i \in 1..Len(ms) /\ HeaderIs(ms, got[s], i, h)
  BY DEF ms
<1>2. r \in Seq(Message) /\ Len(r) = i /\ \A k \in 1..i : r[k] = ms[k]
  BY <1>1
<1> HIDE DEF r
<1>3. HeaderIs(r, got[s], Len(r), h)
  <2>1. \A k \in 1..i : \A l \in (k + 1)..i : l \in 1..i
    BY <1>1
  <2>2. /\ \A k \in 1..i : r[k] = ms[k]
        /\ \A k \in 1..i : \A l \in (k + 1)..i : r[l] = ms[l]
    BY <1>2, <2>1
  <2>3. HeaderIs(ms, got[s], i, h)
    BY <1>1
  <2>4. HeaderIs(r, got[s], i, h)
    BY <2>2, <2>3 DEF HeaderIs
  <2> QED
    BY <1>2, <2>4
<1>4. LastOf(r, LAMBDA m : m.kind = "vsh", got[s]).sh = h
  BY <1>2, <1>3, LastIsHeader
<1> QED
  BY <1>4 DEF HeaderAt, r, ms

\* One more message: headers are what HeaderIs looks at.
LEMMA HeaderIsNext ==
  ASSUME NEW ms \in Seq(Message), NEW g, NEW m \in Message, NEW i \in 0..Len(ms), NEW h,
         HeaderIs(ms, g, i, h)
  PROVE  /\ HeaderIs(Append(ms, m), g, i, h)
         /\ i = Len(ms) /\ m.kind # "vsh" => HeaderIs(Append(ms, m), g, i + 1, h)
<1> DEFINE r == Append(ms, m)
<1>1. Len(ms) \in Nat /\ r[Len(ms) + 1] = m /\ \A k \in 1..Len(ms) : r[k] = ms[k]
  OBVIOUS
<1> HIDE DEF r
<1>2. \A k \in 1..i : /\ r[k] = ms[k]
                      /\ \A l \in (k + 1)..i : r[l] = ms[l]
  BY <1>1
<1>3. HeaderIs(r, g, i, h)
  BY <1>2 DEF HeaderIs
<1>4. ASSUME i = Len(ms), m.kind # "vsh" PROVE HeaderIs(r, g, i + 1, h)
  <2>1. r[i + 1].kind # "vsh" /\ \A k \in 1..(i + 1) : k \in 1..i \/ k = i + 1
    BY <1>1, <1>4
  <2>2. \A k \in 1..i : k \in 1..(i + 1) /\ \A l \in (k + 1)..(i + 1) : l \in (k + 1)..i \/ l = i + 1
    BY <1>4
  <2> QED
    BY <1>3, <2>1, <2>2 DEF HeaderIs
<1> QED
  BY <1>3, <1>4 DEF r

\* A message that is received: h is the header of the encoder before it, l after it.
LEMMA CanDecodeNext ==
  ASSUME NEW ms \in Seq(Message), NEW g, NEW h, NEW l, NEW m \in Message, CanDecode(ms, g, h),
         IF m.kind = "vsh" THEN m.sh = l ELSE l = h,
         Encoded(m) => m.sh = h
  PROVE  CanDecode(Append(ms, m), g, l)
<1> DEFINE r == Append(ms, m)
           n == Len(ms)
<1>1. /\ n \in Nat /\ DOMAIN ms = 1..n /\ Len(r) = n + 1 /\ DOMAIN r = 1..(n + 1)
      /\ r[n + 1] = m /\ \A k \in 1..n : r[k] = ms[k]
  OBVIOUS
<1>2. \A i \in 0..n : \A x : HeaderIs(ms, g, i, x) =>
        /\ HeaderIs(r, g, i, x)
        /\ i = n /\ m.kind # "vsh" => HeaderIs(r, g, i + 1, x)
  BY HeaderIsNext
<1> HIDE DEF r, n
<1>3. m.kind # "vsh" /\ h # 0 => HeaderIs(r, g, n + 1, h)
  <2>1. h # 0 => HeaderIs(ms, g, n, h)
    BY DEF CanDecode, n
  <2>2. n \in 0..n
    BY <1>1
  <2> QED
    BY <1>2, <2>1, <2>2
<1>4. m.kind = "vsh" => HeaderIs(r, g, n + 1, l)
  <2> SUFFICES ASSUME m.kind = "vsh" PROVE HeaderIs(r, g, n + 1, l)
    OBVIOUS
  <2>1. n + 1 \in 1..(n + 1) /\ \A k \in (n + 1 + 1)..(n + 1) : FALSE
    BY <1>1
  <2> QED
    BY <1>1, <2>1 DEF HeaderIs
<1>5. ASSUME NEW i \in 1..(n + 1), Encoded(r[i]) PROVE HeaderIs(r, g, i, r[i].sh)
  <2>1. CASE i \in 1..n
    <3>1. r[i] = ms[i] /\ i \in 0..n /\ HeaderIs(ms, g, i, ms[i].sh)
      BY <1>1, <1>5, <2>1 DEF CanDecode
    <3> QED
      BY <1>2, <3>1
  <2>2. CASE i = n + 1
    BY <1>1, <1>3, <1>5, <2>2 DEF Encoded
  <2> QED
    BY <1>1, <2>1, <2>2
<1>6. l # 0 => HeaderIs(r, g, n + 1, l)
  BY <1>3, <1>4
<1> QED
  BY <1>1, <1>5, <1>6 DEF CanDecode, r

\* Two sequences of the same kinds and headers are the same to a decoder.
LEMMA CanDecodeAlike ==
  ASSUME NEW ms \in Seq(Message), NEW r \in Seq(Message), NEW g, NEW h,
         CanDecode(ms, g, h), Len(r) = Len(ms),
         \A i \in DOMAIN r : r[i].kind = ms[i].kind /\ r[i].sh = ms[i].sh
  PROVE  CanDecode(r, g, h)
<1>1. Len(ms) \in Nat /\ DOMAIN ms = 1..Len(ms) /\ DOMAIN r = 1..Len(ms)
  OBVIOUS
<1>2. ASSUME NEW n \in 0..Len(ms), NEW x, HeaderIs(ms, g, n, x) PROVE HeaderIs(r, g, n, x)
  <2>1. \A k \in 1..n : k \in DOMAIN r /\ \A l \in (k + 1)..n : l \in DOMAIN r
    BY <1>1
  <2> QED
    BY <1>2, <2>1 DEF HeaderIs
<1>3. Len(ms) \in 0..Len(ms) /\ \A i \in DOMAIN ms : i \in 0..Len(ms)
  BY <1>1
<1> QED
  BY <1>1, <1>2, <1>3 DEF CanDecode, Encoded

\* A player that has been sent everything still has the header.
LEMMA CanDecodeTaken ==
  ASSUME NEW ms \in Seq(Message), NEW g, NEW h, CanDecode(ms, g, h), NEW f,
         f.sh = LastOf(ms, LAMBDA m : m.kind = "vsh", g).sh
  PROVE  CanDecode(<<>>, f, h)
<1>1. h # 0 => f.sh = h
  BY LastIsHeader DEF CanDecode
<1>2. Len(<<>>) = 0 /\ DOMAIN <<>> = {} /\ 1..0 = {}
  OBVIOUS
<1> QED
  BY <1>1, <1>2 DEF CanDecode, HeaderIs

\* The cached header is that of the encoder, from its arrival to the end of the session.
LEMMA HeaderCachedNext ==
  ASSUME MediaOK, HeaderCached, [Next]_vars PROVE HeaderCached'
<1>1. vsh \in Seq(Message) /\ (vsh # <<>> => vsh[1] \in Message)
  BY SourceTypes
<1>2. ASSUME NEW t, vsh # <<>> PROVE Retime(vsh, t) # <<>> /\ Retime(vsh, t)[1].sh = vsh[1].sh
  <2>1. 1 \in DOMAIN vsh /\ 1 \in DOMAIN Retime(vsh, t)
    BY <1>1, <1>2 DEF Retime
  <2>2. Retime(vsh, t)[1] = [vsh[1] EXCEPT !.time = t]
    BY <2>1 DEF Retime
  <2>3. Retime(vsh, t) # <<>>
    BY <2>1
  <2> QED
    BY <1>1, <1>2, <2>2, <2>3 DEF Message
<1>3. CASE EncoderSends
  <2>1. PICK m \in Message :
          /\ Sends(m) /\ live /\ live'
          /\ Kept(vsh, vsh', "vsh", m) /\ (m.kind = "vsh" => vsh' = <<m>>)
    BY <1>3, SendsOutcome
  <2>2. CASE m.kind = "vsh"
    <3>1. sh' = m.sh /\ vsh' = <<m>>
      BY <2>1, <2>2 DEF Sends
    <3> QED
      BY <3>1 DEF HeaderCached
  <2>3. CASE m.kind # "vsh"
    <3>1. sh' = sh /\ (vsh' = vsh \/ vsh' = Retime(vsh, m.time))
      BY <2>1, <2>3 DEF Sends, Kept
    <3> QED
      BY <1>2, <2>1, <3>1 DEF HeaderCached
  <2> QED
    BY <2>2, <2>3
<1>4. CASE OnPublish \/ OnUnpublish
  BY <1>4 DEF OnPublish, OnUnpublish, HeaderCached
<1>5. CASE ~EncoderSends /\ ~OnPublish /\ ~OnUnpublish
  <2>1. /\ live' = live /\ sh' = sh
        /\ vsh' = vsh \/ \E t \in Nat : vsh' = Retime(vsh, t)
    BY <1>5, CachesFrame
  <2> QED
    BY <1>2, <2>1 DEF HeaderCached
<1> QED
  BY <1>3, <1>4, <1>5

\* Where a concatenation has what it consists of.
LEMMA ConcatIndices ==
  ASSUME NEW x \in Seq(Message), NEW y \in Seq(Message), NEW n \in Nat, n = Len(x)
  PROVE  /\ x \o y \in Seq(Message) /\ Len(x \o y) = n + Len(y) /\ Len(y) \in Nat
         /\ DOMAIN (x \o y) = 1..(n + Len(y))
         /\ \A i \in 1..n : (x \o y)[i] = x[i]
         /\ \A i \in (n + 1)..(n + Len(y)) : (x \o y)[i] = y[i - n] /\ i - n \in 1..Len(y)
OBVIOUS

\* What a new consumer is fed can be decoded.
LEMMA FeedDecodes ==
  ASSUME MediaOK, HeaderCached, GopIsOneGroup, NEW p, CreateConsumer(p), MediaOK', NEW g
  PROVE  LET ms == meta' \o vsh' \o ash' \o gop IN
           ms \in Seq(Message) /\ CanDecode(ms, g, CurrentHeader)
<1> DEFINE a == Len(meta')
           ms == meta' \o vsh' \o ash' \o gop
           h == CurrentHeader
<1>1. /\ meta' \in Seq(Message) /\ vsh' \in Seq(Message) /\ ash' \in Seq(Message)
      /\ vsh \in Seq(Message) /\ gop \in Seq(Message)
  BY SourceTypes DEF MediaOK, CachesOK
<1>2. /\ \A i \in DOMAIN meta' : meta'[i].kind = "meta"
      /\ \A i \in DOMAIN vsh' : vsh'[i].kind = "vsh"
      /\ \A i \in DOMAIN ash' : ash'[i].kind = "ash"
      /\ \A i \in DOMAIN gop : gop[i].kind \in {"audio", "key", "inter"}
      /\ Len(vsh') <= 1
  BY DEF MediaOK, TypeOK, IsFrame
<1>12. /\ DOMAIN meta' = 1..a /\ DOMAIN vsh' = 1..Len(vsh') /\ DOMAIN ash' = 1..Len(ash')
       /\ DOMAIN gop = 1..Len(gop)
  BY <1>1
<1>3. \A i \in DOMAIN gop : live /\ gop[i].sh \in {0, sh}
  BY <1>1 DEF GopIsOneGroup
<1>4. h # 0 => live /\ sh = h /\ vsh' # <<>> /\ vsh'[1].sh = h
  <2> SUFFICES ASSUME h # 0 PROVE live /\ sh = h /\ vsh' # <<>> /\ vsh'[1].sh = h
    OBVIOUS
  <2>1. live /\ sh = h /\ sh # 0
    BY DEF CurrentHeader
  <2>2. vsh # <<>> /\ vsh[1].sh = sh /\ vsh[1] \in Message
    BY <1>1, <2>1 DEF HeaderCached
  <2> HIDE DEF h
  <2>3. vsh' = vsh \/ vsh' = Retime(vsh, gop[1].time)
    BY DEF CreateConsumer
  <2>4. CASE vsh' = Retime(vsh, gop[1].time)
    <3>1. 1 \in DOMAIN vsh /\ 1 \in DOMAIN vsh'
      BY <1>1, <2>2, <2>4 DEF Retime
    <3>2. vsh'[1] = [vsh[1] EXCEPT !.time = gop[1].time]
      BY <2>4, <3>1 DEF Retime
    <3> QED
      BY <2>1, <2>2, <3>1, <3>2 DEF Message
  <2> QED
    BY <2>1, <2>2, <2>3, <2>4
<1> HIDE DEF h
<1> DEFINE b == Len(vsh')
           c == Len(ash')
           d == Len(gop)
           hs == meta' \o vsh' \o ash'
<1>5. /\ hs \in Seq(Message) /\ Len(hs) = a + b + c
      /\ a \in Nat /\ b \in Nat /\ c \in Nat /\ d \in Nat
      /\ \A i \in 1..a : hs[i] = meta'[i]
      /\ \A i \in (a + 1)..(a + b) : hs[i] = vsh'[i - a] /\ i - a \in 1..b
      /\ \A i \in (a + b + 1)..(a + b + c) : hs[i] = ash'[i - a - b] /\ i - a - b \in 1..c
  <2>1. /\ meta' \o vsh' \in Seq(Message) /\ Len(meta' \o vsh') = a + b
        /\ \A i \in 1..a : (meta' \o vsh')[i] = meta'[i]
        /\ \A i \in (a + 1)..(a + b) : (meta' \o vsh')[i] = vsh'[i - a] /\ i - a \in 1..b
        /\ a \in Nat /\ b \in Nat
    BY <1>1
  <2> DEFINE mv == meta' \o vsh'
  <2> HIDE DEF mv, a, b
  <2>2. /\ hs = mv \o ash' /\ mv \in Seq(Message) /\ Len(mv) = a + b
        /\ a \in Nat /\ b \in Nat /\ c \in Nat
    BY <1>1, <2>1 DEF mv
  <2> HIDE DEF hs
  <2>3. /\ hs \in Seq(Message) /\ Len(hs) = a + b + c
        /\ \A i \in 1..(a + b) : hs[i] = mv[i]
        /\ \A i \in (a + b + 1)..(a + b + c) : hs[i] = ash'[i - (a + b)] /\ i - (a + b) \in 1..c
    <3>1. a + b \in Nat
      BY <2>2
    <3>2. PICK z \in Seq(Message) : z = ash' /\ Len(z) = c
      BY <1>1 DEF c
    <3>3. hs = mv \o z
      BY <2>2, <3>2
    <3> HIDE DEF c
    <3>4. /\ mv \o z \in Seq(Message) /\ Len(mv \o z) = a + b + Len(z)
          /\ \A i \in 1..(a + b) : (mv \o z)[i] = mv[i]
          /\ \A i \in (a + b + 1)..(a + b + Len(z)) :
               (mv \o z)[i] = z[i - (a + b)] /\ i - (a + b) \in 1..Len(z)
      BY <2>2, <3>1, ConcatIndices
    <3> QED
      BY <3>2, <3>3, <3>4
  <2>4. \A i \in (a + b + 1)..(a + b + c) : i - (a + b) = i - a - b
    BY <2>2
  <2>5. (\A i \in 1..a : i \in 1..(a + b)) /\ \A i \in (a + 1)..(a + b) : i \in 1..(a + b)
    BY <2>2
  <2>6. d \in Nat
    BY <1>1
  <2> QED
    BY <2>1, <2>2, <2>3, <2>4, <2>5, <2>6 DEF mv
<1>13. /\ \A i \in 1..a : meta'[i].kind = "meta"
       /\ \A i \in 1..b : vsh'[i].kind = "vsh"
       /\ \A i \in 1..c : ash'[i].kind = "ash"
       /\ \A i \in 1..d : gop[i].kind \in {"audio", "key", "inter"}
  BY <1>2, <1>12
<1>14. h # 0 => b = 1 /\ vsh'[1].sh = h
  <2>1. h # 0 => vsh' # <<>> /\ vsh'[1].sh = h
    BY <1>4
  <2>2. vsh' # <<>> => Len(vsh') # 0
    BY <1>1
  <2>3. b <= 1 /\ b \in Nat
    BY <1>2, <1>5
  <2>4. b # 0 => b = 1
    BY <2>3
  <2>5. h # 0 => b # 0
    BY <2>1, <2>2
  <2> QED
    BY <2>1, <2>4, <2>5
<1> HIDE DEF hs, a, b, c, d
<1>6. /\ ms \in Seq(Message) /\ Len(ms) = a + b + c + d /\ DOMAIN ms = 1..(a + b + c + d)
      /\ \A i \in 1..(a + b + c) : ms[i] = hs[i]
      /\ \A i \in (a + b + c + 1)..(a + b + c + d) :
           ms[i] = gop[i - (a + b + c)] /\ i - (a + b + c) \in 1..d
  <2>1. ms = hs \o gop
    BY DEF hs
  <2>2. a + b + c \in Nat /\ Len(hs) = a + b + c
    BY <1>5
  <2> HIDE DEF ms
  <2>3. PICK n \in Nat : n = a + b + c
    BY <2>2
  <2>4. /\ hs \o gop \in Seq(Message) /\ Len(hs \o gop) = n + Len(gop)
        /\ DOMAIN (hs \o gop) = 1..(n + Len(gop))
        /\ \A i \in 1..n : (hs \o gop)[i] = hs[i]
        /\ \A i \in (n + 1)..(n + Len(gop)) :
             (hs \o gop)[i] = gop[i - n] /\ i - n \in 1..Len(gop)
    <3>1. hs \in Seq(Message) /\ gop \in Seq(Message) /\ n = Len(hs)
      BY <1>1, <1>5, <2>2, <2>3
    <3>2. /\ hs \o gop \in Seq(Message) /\ Len(hs \o gop) = n + Len(gop) /\ Len(gop) \in Nat
          /\ DOMAIN (hs \o gop) = 1..(n + Len(gop))
          /\ \A i \in 1..n : (hs \o gop)[i] = hs[i]
          /\ \A i \in (n + 1)..(n + Len(gop)) :
               (hs \o gop)[i] = gop[i - n] /\ i - n \in 1..Len(gop)
      BY <3>1, ConcatIndices, Zenon
    <3> QED
      BY <3>2, Zenon
  <2> QED
    BY <2>1, <2>3, <2>4 DEF d
<1> HIDE DEF ms
<1>7. /\ \A i \in 1..(a + b + c) : ~Encoded(ms[i])
      /\ \A i \in (a + b + 1)..(a + b + c + d) : ms[i].kind # "vsh"
  <2>1. ASSUME NEW i \in 1..(a + b + c) PROVE ~Encoded(ms[i]) /\ (a + b + 1 <= i => ms[i].kind # "vsh")
    <3>1. i \in 1..a \/ i \in (a + 1)..(a + b) \/ i \in (a + b + 1)..(a + b + c)
      BY <1>5
    <3>2. ms[i].kind \in {"meta", "vsh", "ash"} /\ (i \in (a + b + 1)..(a + b + c) => ms[i].kind = "ash")
      <4>1. CASE i \in 1..a
        <5>1. ms[i] = meta'[i]
          BY <1>5, <1>6, <4>1
        <5> QED
          BY <1>5, <1>13, <4>1, <5>1
      <4>2. CASE i \in (a + 1)..(a + b)
        <5>1. ms[i] = vsh'[i - a] /\ i - a \in 1..b
          BY <1>5, <1>6, <4>2
        <5> QED
          BY <1>5, <1>13, <4>2, <5>1
      <4>3. CASE i \in (a + b + 1)..(a + b + c)
        <5>1. ms[i] = ash'[i - a - b] /\ i - a - b \in 1..c
          BY <1>5, <1>6, <4>3
        <5> QED
          BY <1>5, <1>13, <4>3, <5>1
      <4> QED
        BY <3>1, <4>1, <4>2, <4>3
    <3>3. a + b + 1 <= i => i \in (a + b + 1)..(a + b + c)
      BY <1>5
    <3> QED
      BY <3>2, <3>3 DEF Encoded
  <2>2. ASSUME NEW i \in (a + b + c + 1)..(a + b + c + d) PROVE ms[i].kind # "vsh"
    <3>1. ms[i] = gop[i - (a + b + c)] /\ i - (a + b + c) \in 1..d
      BY <1>6
    <3> QED
      BY <1>13, <3>1
  <2>3. \A i \in (a + b + 1)..(a + b + c + d) :
          i \in (a + b + c + 1)..(a + b + c + d) \/ (i \in 1..(a + b + c) /\ a + b + 1 <= i)
    BY <1>5
  <2> QED
    BY <2>1, <2>2, <2>3
<1>8. ASSUME h # 0, NEW i \in (a + b)..(a + b + c + d) PROVE HeaderIs(ms, g, i, h)
  <2>1. b = 1 /\ vsh'[1].sh = h /\ vsh'[1].kind = "vsh"
    BY <1>8, <1>13, <1>14
  <2>2. a + 1 \in (a + 1)..(a + b) /\ a + 1 \in 1..(a + b + c) /\ a + 1 - a = 1 /\ a + 1 \in 1..i
    BY <1>5, <2>1
  <2>3. ms[a + 1] = vsh'[1]
    BY <1>5, <1>6, <2>2
  <2>4. \A l \in (a + 1 + 1)..i : l \in (a + b + 1)..(a + b + c + d)
    BY <1>5, <2>1
  <2> QED
    BY <1>7, <2>1, <2>2, <2>3, <2>4 DEF HeaderIs
<1>9. ASSUME NEW i \in DOMAIN ms, Encoded(ms[i]) PROVE HeaderIs(ms, g, i, ms[i].sh)
  <2>1. i \in (a + b + c + 1)..(a + b + c + d)
    BY <1>5, <1>6, <1>7, <1>9
  <2>2. live /\ ms[i].sh = sh /\ sh # 0
    <3>1. ms[i] = gop[i - (a + b + c)] /\ i - (a + b + c) \in DOMAIN gop
      BY <1>6, <1>12, <2>1 DEF d
    <3> QED
      BY <1>3, <1>9, <3>1 DEF Encoded
  <2>3. h = ms[i].sh /\ h # 0
    BY <2>2 DEF h, CurrentHeader
  <2>4. i \in (a + b)..(a + b + c + d)
    BY <1>5, <2>1
  <2> QED
    BY <1>8, <2>3, <2>4
<1>10. h # 0 => HeaderIs(ms, g, Len(ms), h)
  <2>1. Len(ms) \in (a + b)..(a + b + c + d)
    BY <1>5, <1>6
  <2> QED
    BY <1>8, <2>1
<1>11. CanDecode(ms, g, h)
  BY <1>9, <1>10 DEF CanDecode
<1> QED
  BY <1>6, <1>11 DEF ms, h

LEMMA DecodeInvNext ==
  ASSUME MediaOK, PipesOK, GopIsOneGroup, DecodeInv, [Next]_vars, MediaOK'
  PROVE  DecodeInv'
<1> USE LiveSourceAssumption
<1>1. HeaderCached'
  BY HeaderCachedNext DEF DecodeInv
<1> SUFFICES ASSUME NEW s \in (up' \cap Player) \ lost'
             PROVE  CanDecode(Queued(s), got[s], CurrentHeader)'
  BY <1>1 DEF DecodeInv
<1> DEFINE q == pipe[s].queue.msgs
           h == CurrentHeader
           h2 == CurrentHeader'
           Goal == CanDecode(pipe'[s].queue.msgs, got'[s], h2)
<1>2. s \in Peer /\ s \notin Forwarder
  BY DEF Peer
<1>3. /\ pipe[s] \in Pipe /\ got[s] \in Got /\ pipe[s].queue \in Queue
      /\ q \in Seq(Message) /\ queueSize \in Nat
  BY <1>2, SourceTypes DEF PipesOK, Pipe, Queue
<1>4. s \in up /\ s \notin lost => CanDecode(q, got[s], h)
  BY DEF DecodeInv, Queued
<1>5. ASSUME NEW m \in Message, EncoderSends, Sends(m), Hears(s, m) PROVE Goal
  <2>1. rates'.audio \in Nat /\ rates'.video \in Nat
    <3>1. rates' \in {NoRates, [audio |-> SampleRate, video |-> FrameRate]}
      BY DEF MediaOK, TypeOK
    <3> QED
      BY <3>1 DEF NoRates
  <2>2. /\ pipe'[s] = Receive(s, pipe[s], m, atc', rates') /\ got'[s] = got[s]
        /\ s \in up /\ s \notin lost /\ ~Drops(pipe[s], pipe'[s], 1)
    BY <1>2, <1>5 DEF Hears
  <2>3. PICK x \in Message :
          /\ x.kind = m.kind /\ x.sh = m.sh
          /\ Receive(s, pipe[s], m, atc', rates').queue = Enqueue(pipe[s].queue, x, queueSize)
    BY <1>3, <2>1, ReceiveLeavesEnd
  <2> DEFINE r == Enqueue(pipe[s].queue, x, queueSize).msgs
             a == Append(q, x)
  <2>4. pipe'[s].queue.msgs = r
    BY <2>2, <2>3
  <2>5. \/ r = a
        \/ r = <<>>
        \/ \E cut \in 2..(Len(q) + 1) : r = SubSeq(a, cut, Len(q) + 1)
    BY <1>3, EnqueueLeavesEnd
  <2>6. Len(q) \in Nat /\ a \in Seq(Message) /\ Len(a) = Len(q) + 1
    BY <1>3
  <2> HIDE DEF a, r
  <2>7. ~(Len(r) < Len(q) + 1)
    BY <2>2, <2>4 DEF Drops
  <2>8. r = a
    <3>1. r = <<>> => Len(r) = 0
      OBVIOUS
    <3>2. ASSUME NEW cut \in 2..(Len(q) + 1), r = SubSeq(a, cut, Len(q) + 1)
          PROVE  Len(r) = Len(q) + 2 - cut
      BY <2>6, <3>2
    <3> HIDE DEF q
    <3>3. r # <<>>
      BY <2>6, <2>7, <3>1
    <3>4. \A cut \in 2..(Len(q) + 1) : r # SubSeq(a, cut, Len(q) + 1)
      BY <2>6, <2>7, <3>2
    <3> QED
      BY <2>5, <3>3, <3>4
  <2>9. /\ live /\ live' /\ h = sh /\ h2 = sh'
    <3>1. live /\ live'
      BY <1>5, SendsOutcome
    <3> QED
      BY <3>1 DEF CurrentHeader
  <2>10. IF x.kind = "vsh" THEN x.sh = h2 ELSE h2 = h
    BY <1>5, <2>3, <2>9 DEF Sends
  <2>11. Encoded(x) => x.sh = h
    BY <1>5, <2>3, <2>9 DEF Sends, Encoded, IsVideo
  <2>12. CanDecode(q, got[s], h)
    BY <1>4, <2>2
  <2>13. CanDecode(a, got[s], h2)
    <3> HIDE DEF h, h2, q
    <3> QED
      BY <1>3, <2>10, <2>11, <2>12, CanDecodeNext DEF a
  <2> QED
    BY <2>2, <2>4, <2>8, <2>13
<1>6. ASSUME EncoderRests PROVE h2 = h
  BY <1>6 DEF EncoderRests, CurrentHeader
<1>7. ASSUME EncoderRests, Joins(s) PROVE Goal
  <2> DEFINE ms == meta' \o vsh' \o ash' \o gop
             r == ReceiveAll(s, NewPipe, ms)
  <2>1. ms \in Seq(Message) /\ CanDecode(ms, got[s], h)
    BY <1>7, FeedDecodes DEF Joins, DecodeInv
  <2>2. /\ got'[s] = got[s]
        /\ pipe'[s] = ReceiveAll(s, NewPipe, meta' \o vsh' \o ash' \o gop')
        /\ gop' = gop
        /\ ~Drops(NewPipe, pipe'[s], Len(meta' \o vsh' \o ash' \o gop'))
    BY <1>7 DEF Joins
  <2>3. pipe'[s] = r /\ ~Drops(NewPipe, r, Len(ms))
    BY <2>2
  <2> HIDE DEF ms
  <2>4. r \in Pipe /\ IsEnd(r.queue.msgs, ms, Len(ms), ~CorrectsTime(s, atc))
    BY <2>1, NewPipeIsPipe, ReceiveAllIsPipe, ReceiveAllLeavesEnd
  <2> HIDE DEF r
  <2> DEFINE p == r.queue.msgs
  <2>5. p \in Seq(Message) /\ Len(p) \in Nat /\ DOMAIN p = 1..Len(p) /\ Len(ms) \in Nat
    BY <2>1, <2>4 DEF Pipe, Queue
  <2>6. Len(NewPipe.queue.msgs) = 0
    BY DEF NewPipe, NewQueue
  <2>7. ~(Len(p) < Len(ms)) /\ Len(p) <= Len(ms)
    BY <2>3, <2>4, <2>5, <2>6 DEF Drops, IsEnd
  <2>8. Len(p) = Len(ms)
    BY <2>5, <2>7
  <2>9. \A i \in DOMAIN p : p[i].kind = ms[i].kind /\ p[i].sh = ms[i].sh
    <3>1. \A i \in DOMAIN p : Len(ms) - Len(p) + i = i
      BY <2>5, <2>8
    <3> QED
      BY <2>4, <3>1 DEF IsEnd
  <2> HIDE DEF p, h
  <2>10. CanDecode(p, got[s], h)
    BY <2>1, <2>5, <2>8, <2>9, CanDecodeAlike
  <2> QED
    BY <1>6, <1>7, <2>2, <2>3, <2>10 DEF p
<1>8. ASSUME EncoderRests, Takes(s) PROVE Goal
  <2>1. /\ pipe'[s].queue.msgs = <<>> /\ s \in up /\ s \notin lost
        /\ got'[s].sh = LastOf(q, LAMBDA m : m.kind = "vsh", got[s]).sh
    BY <1>3, <1>8, TakenAllIsQueue DEF Takes
  <2>2. CanDecode(q, got[s], h)
    BY <1>4, <2>1
  <2> HIDE DEF q, h
  <2>3. CanDecode(<<>>, got'[s], h)
    BY <1>3, <2>1, <2>2, CanDecodeTaken
  <2> QED
    BY <1>6, <1>8, <2>1, <2>3
<1>9. ASSUME Rests(s), h2 = h \/ h2 = 0 PROVE Goal
  <2>1. pipe'[s] = pipe[s] /\ got'[s] = got[s] /\ s \in up /\ s \notin lost
    BY <1>9 DEF Rests
  <2>2. CanDecode(q, got[s], h)
    BY <1>4, <2>1
  <2>3. CanDecode(q, got[s], h2)
    BY <1>9, <2>2 DEF CanDecode
  <2> QED
    BY <2>1, <2>3
<1>10. ~Leaves(s)
  BY DEF Leaves
<1>11. ~Starts(s)
  BY <1>2 DEF Starts
<1>12. ASSUME OnPublish \/ OnUnpublish PROVE h2 = 0
  BY <1>12 DEF OnPublish, OnUnpublish, CurrentHeader
<1>13. ASSUME Rests(s), s \notin up PROVE FALSE
  BY <1>13 DEF Rests
<1>14. Goal
  <2> HIDE DEF Goal, h, h2
  <2> QED
    BY <1>2, <1>5, <1>6, <1>7, <1>8, <1>9, <1>10, <1>11, <1>12, <1>13, PeerStep
<1> QED
  BY <1>14 DEF Queued

(* If the encoder sends one H.264 header per session, a player from which nothing was
   dropped has the header of every frame it gets: whenever it joined, with or without
   the cached group of pictures, after a pause, and across sessions. *)
THEOREM PlayersDecode == HeaderOnce /\ Spec => []PlayersCanDecode
<1>1. Init => DecodeInv
  BY DEF Init, DecodeInv, HeaderCached
<1>2. DecodeInv /\ MediaOK /\ PipesOK /\ GopIsOneGroup /\ [Next]_vars /\ MediaOK' => DecodeInv'
  BY DecodeInvNext
<1>3. DecodeInv /\ MediaOK /\ PipesOK => PlayersCanDecode
  <2> SUFFICES ASSUME DecodeInv, MediaOK, PipesOK, NEW s \in (up \cap Player) \ lost,
                      NEW i \in DOMAIN Queued(s),
                      Queued(s)[i].kind \in {"key", "inter"} /\ Queued(s)[i].sh # 0
               PROVE  HeaderAt(s, i) = Queued(s)[i].sh
    BY DEF PlayersCanDecode, Decodes
  <2>1. HeaderIs(Queued(s), got[s], i, Queued(s)[i].sh)
    BY DEF DecodeInv, CanDecode, Encoded
  <2>2. Queued(s) \in Seq(Message)
    <3>1. s \in Peer
      BY DEF Peer
    <3> QED
      BY <3>1 DEF PipesOK, Queued, Pipe, Queue
  <2> QED
    BY <2>1, <2>2, HeaderAtIs
<1> QED
  BY <1>1, <1>2, <1>3, CachedGopIsOneGroup, PipesInvariance, PTL DEF Spec

------------------------------------------------------------------------------
(* The loop over shrink() *)

LEMMA ShrinkIsQueue ==
  ASSUME NEW q \in Queue PROVE Shrink(q) \in Queue
<1>1. q.msgs \in Seq(Message) /\ IFrames(q) \in SUBSET Nat /\ NewQueue \in Queue
  BY DEF Queue, IFrames, NewQueue
<1>2. CASE IFrames(q) = {}
  BY <1>1, <1>2 DEF Shrink
<1>3. CASE IFrames(q) # {}
  <2> DEFINE i == Min(IFrames(q))
  <2>1. i \in IFrames(q)
    BY <1>1, <1>3, MinIsMember
  <2> HIDE DEF i
  <2>2. i \in 1..Len(q.msgs)
    BY <1>1, <2>1 DEF IFrames
  <2>3. q.msgs[i].time \in Nat /\ SubSeq(q.msgs, i, Len(q.msgs)) \in Seq(Message)
    BY <1>1, <2>2, TimesAreNat
  <2>4. Shrink(q) = [q EXCEPT !.msgs = SubSeq(q.msgs, i, Len(q.msgs)),
                              !.av_start_time = q.msgs[i].time]
    BY <1>3 DEF Shrink, i
  <2> QED
    BY <2>3, <2>4 DEF Queue
<1> QED
  BY <1>2, <1>3

\* Where the loop is after k rounds on p: done, or at c, all cuts behind it.
At(p, size, c) ==
  [msgs |-> SubSeq(p.msgs, c, Len(p.msgs)),
   av_start_time |-> IF c = 1 THEN p.av_start_time ELSE p.msgs[c].time,
   av_end_time |-> p.av_end_time]

Runs(p, size, k, r) ==
  /\ IsFull(r, size)
  /\ \E c \in (k + 1)..Len(p.msgs) : r = At(p, size, c) /\ \A cut \in Cuts(p, size) : c < cut

\* What enqueue() makes of a queue to which the message was pushed.
Fitted(p, size) ==
  IF ~IsFull(p, size) THEN p
  ELSE IF Cuts(p, size) = {} THEN NewQueue
  ELSE At(p, size, Min(Cuts(p, size)))

\* One round.
LEMMA ShrinkRound ==
  ASSUME NEW p \in Queue, NEW size \in Nat, NEW k \in Nat, NEW r \in Queue, Runs(p, size, k, r),
         IsFull(p, size)
  PROVE  \/ Shrink(r) = Fitted(p, size) /\ ~IsFull(Shrink(r), size)
         \/ Runs(p, size, k + 1, Shrink(r))
<1> DEFINE n == Len(p.msgs)
<1>1. PICK c \in (k + 1)..n : r = At(p, size, c) /\ \A cut \in Cuts(p, size) : c < cut
  BY DEF Runs
<1>2. /\ p.msgs \in Seq(Message) /\ n \in Nat /\ c \in 1..n
      /\ r.msgs = SubSeq(p.msgs, c, n) /\ r.av_end_time = p.av_end_time
  BY <1>1 DEF Queue, At
<1>3. /\ Len(r.msgs) = n - c + 1
      /\ \A i \in 1..(n - c + 1) : r.msgs[i] = p.msgs[c + i - 1]
  BY <1>2
<1> DEFINE frames == {i \in 2..(n - c + 1) : IsKeyframe(p.msgs[c + i - 1])}
<1>4. IFrames(r) = frames
  BY <1>2, <1>3 DEF IFrames
<1>5. \A cut \in Cuts(p, size) : cut - c + 1 \in frames
  <2> SUFFICES ASSUME NEW cut \in Cuts(p, size) PROVE cut - c + 1 \in frames
    OBVIOUS
  <2>1. cut \in 2..n /\ IsKeyframe(p.msgs[cut]) /\ c < cut
    BY <1>1 DEF Cuts
  <2>2. cut - c + 1 \in 2..(n - c + 1) /\ c + (cut - c + 1) - 1 = cut
    BY <1>2, <2>1
  <2> QED
    BY <2>1, <2>2
<1> HIDE DEF n
<1>6. CASE frames = {}
  <2>1. Cuts(p, size) = {}
    BY <1>5, <1>6
  <2>2. Shrink(r) = NewQueue
    BY <1>4, <1>6 DEF Shrink
  <2>3. ~IsFull(NewQueue, size)
    BY DEF IsFull, NewQueue
  <2> QED
    BY <2>1, <2>2, <2>3 DEF Fitted
<1>7. CASE frames # {}
  <2> DEFINE i == Min(frames)
             d == c + i - 1
  <2>1. i \in frames /\ \A j \in frames : i <= j
    <3>1. frames \in SUBSET Nat
      OBVIOUS
    <3> HIDE DEF frames
    <3> QED
      BY <1>7, <3>1, MinIsMember
  <2> HIDE DEF i
  <2>2. /\ i \in 2..(n - c + 1) /\ d \in 2..n /\ c < d /\ d \in (k + 2)..n
        /\ IsKeyframe(p.msgs[d]) /\ i \in 1..Len(r.msgs)
    BY <1>2, <1>3, <2>1
  <2>3. \A cut \in Cuts(p, size) : d <= cut
    <3> SUFFICES ASSUME NEW cut \in Cuts(p, size) PROVE d <= cut
      OBVIOUS
    <3>1. cut \in 2..n /\ i <= cut - c + 1
      BY <1>5, <2>1 DEF Cuts, n
    <3>2. c \in Nat /\ cut \in Nat
      BY <1>2, <3>1
    <3>3. i \in Nat
      BY <2>1
    <3> QED
      BY <3>1, <3>2, <3>3
  <2>4. Shrink(r) = At(p, size, d)
    <3>1. Shrink(r) = [r EXCEPT !.msgs = SubSeq(r.msgs, i, Len(r.msgs)),
                                !.av_start_time = r.msgs[i].time]
      BY <1>4, <1>7 DEF Shrink, i
    <3>2. SubSeq(r.msgs, i, Len(r.msgs)) = SubSeq(p.msgs, d, n)
      <4> DEFINE x == SubSeq(r.msgs, i, Len(r.msgs))
                 y == SubSeq(p.msgs, d, n)
      <4>1. r.msgs \in Seq(Message)
        BY DEF Queue
      <4>2. /\ x \in Seq(Message) /\ Len(x) = n - c + 1 - i + 1
            /\ \A l \in 1..(n - c + 1 - i + 1) : x[l] = r.msgs[i + l - 1]
        BY <1>2, <1>3, <2>2, <4>1
      <4>3. /\ y \in Seq(Message) /\ Len(y) = n - d + 1
            /\ \A l \in 1..(n - d + 1) : y[l] = p.msgs[d + l - 1]
        <5>1. d \in 1..n /\ n = Len(p.msgs) /\ p.msgs \in Seq(Message) /\ n \in Nat
          BY <1>2, <2>2 DEF n
        <5> HIDE DEF d
        <5> QED
          BY <5>1
      <4>4. n - c + 1 - i + 1 = n - d + 1
        BY <1>2, <2>2
      <4>5. \A l \in 1..(n - d + 1) : /\ i + l - 1 \in 1..(n - c + 1)
                                      /\ c + (i + l - 1) - 1 = d + l - 1
        BY <1>2, <2>2
      <4>6. \A l \in 1..(n - d + 1) : x[l] = y[l]
        BY <1>3, <4>2, <4>3, <4>4, <4>5
      <4> HIDE DEF x, y
      <4>7. x = y
        BY <4>2, <4>3, <4>4, <4>6, SeqEqual
      <4> QED
        BY <4>7 DEF x, y
    <3>3. r.msgs[i].time = p.msgs[d].time /\ d # 1
      <4>1. i \in 1..(n - c + 1) /\ d = c + i - 1 /\ d # 1
        BY <1>2, <2>2
      <4>2. r.msgs[i] = p.msgs[c + i - 1]
        BY <1>3, <4>1
      <4> HIDE DEF d
      <4> QED
        BY <4>1, <4>2
    <3> QED
      BY <1>2, <3>1, <3>2, <3>3 DEF At, Queue, n
  <2>5. p.msgs[d].time \in Nat /\ p.av_end_time \in Int
    <3>1. d \in DOMAIN p.msgs
      BY <1>2, <2>2 DEF n
    <3> HIDE DEF d
    <3>2. p.msgs[d].time \in Nat
      BY <1>2, <3>1, TimesAreNat
    <3>3. p.av_end_time \in Int
      BY DEF Queue
    <3> QED
      BY <3>2, <3>3
  <2>6. IsFull(At(p, size, d), size) <=> p.av_end_time - p.msgs[d].time > size
    BY <2>2 DEF IsFull, At
  <2>7. CASE IsFull(At(p, size, d), size)
    <3>1. d \notin Cuts(p, size)
      BY <2>5, <2>6, <2>7 DEF Cuts
    <3>2. \A cut \in Cuts(p, size) : d < cut
      <4>1. \A cut \in Cuts(p, size) : cut \in Nat
        BY <1>2 DEF Cuts, n
      <4> QED
        BY <2>2, <2>3, <3>1, <4>1
    <3>3. d \in (k + 1 + 1)..Len(p.msgs)
      BY <1>2, <2>2 DEF n
    <3> QED
      BY <2>4, <2>7, <3>2, <3>3 DEF Runs
  <2>8. CASE ~IsFull(At(p, size, d), size)
    <3>1. d \in Cuts(p, size)
      BY <2>2, <2>5, <2>6, <2>8 DEF Cuts, n
    <3>2. Cuts(p, size) \in SUBSET Nat
      BY <1>2 DEF Cuts, n
    <3>3. Min(Cuts(p, size)) \in Cuts(p, size) /\ Min(Cuts(p, size)) <= d
      BY <3>1, <3>2, MinIsMember
    <3>4. Min(Cuts(p, size)) = d
      BY <2>2, <2>3, <3>1, <3>2, <3>3
    <3>5. Fitted(p, size) = At(p, size, d)
      BY <3>1, <3>4 DEF Fitted
    <3> QED
      BY <2>4, <2>8, <3>5
  <2> QED
    BY <2>7, <2>8
<1> QED
  BY <1>6, <1>7

\* The rounds of the loop.
AreRounds(p, size, n, h) ==
  /\ h \in [0..n -> Queue]
  /\ \A k \in 0..n : h[k] = IF k = 0 THEN p
                           ELSE IF IsFull(h[k - 1], size) THEN Shrink(h[k - 1])
                           ELSE h[k - 1]

LEMMA ShrinkRounds ==
  ASSUME NEW p \in Queue, NEW size \in Nat, NEW n \in Nat
  PROVE  \E h : AreRounds(p, size, n, h)
<1>1. \E G \in [Queue -> Queue] :
        \A q \in Queue : G[q] = IF IsFull(q, size) THEN Shrink(q) ELSE q
  <2> DEFINE F == [q \in Queue |-> IF IsFull(q, size) THEN Shrink(q) ELSE q]
  <2>1. F \in [Queue -> Queue]
    BY ShrinkIsQueue
  <2>2. \A q \in Queue : F[q] = IF IsFull(q, size) THEN Shrink(q) ELSE q
    OBVIOUS
  <2> QED
    BY <2>1, <2>2
<1>2. PICK G \in [Queue -> Queue] :
        \A q \in Queue : G[q] = IF IsFull(q, size) THEN Shrink(q) ELSE q
  BY <1>1
<1>3. PICK h \in [0..n -> Queue] : \A k \in 0..n : h[k] = IF k = 0 THEN p ELSE G[h[k - 1]]
  BY RoundsExist
<1>4. ASSUME NEW k \in 0..n, k # 0
      PROVE  h[k] = IF IsFull(h[k - 1], size) THEN Shrink(h[k - 1]) ELSE h[k - 1]
  <2>1. h[k - 1] \in Queue
    <3>1. k - 1 \in 0..n
      BY <1>4
    <3> QED
      BY <3>1
  <2>2. h[k] = G[h[k - 1]]
    BY <1>3, <1>4
  <2> QED
    BY <1>2, <2>1, <2>2
<1>5. h[0] = p
  BY <1>3
<1>6. \A k \in 0..n : h[k] = IF k = 0 THEN p
                            ELSE IF IsFull(h[k - 1], size) THEN Shrink(h[k - 1])
                            ELSE h[k - 1]
  BY <1>4, <1>5
<1> QED
  BY <1>6 DEF AreRounds

\* The loop comes to what enqueue() says in one step.
LEMMA ShrinkLoopFits ==
  ASSUME NEW p \in Queue, NEW size \in Nat, p.msgs # <<>>
  PROVE  ShrinkLoop(p, size) = Fitted(p, size) /\ ~IsFull(ShrinkLoop(p, size), size)
<1>2. PICK n \in Nat : n = Len(p.msgs) /\ n > 0 /\ p.msgs \in Seq(Message)
  BY DEF Queue
<1> DEFINE Rounds(g) == g = [k \in 0..n |->
                               IF k = 0 THEN p
                               ELSE IF IsFull(g[k - 1], size) THEN Shrink(g[k - 1])
                               ELSE g[k - 1]]
           rounds == CHOOSE g : Rounds(g)
<1>1. ShrinkLoop(p, size) = rounds[n]
  BY <1>2 DEF ShrinkLoop
<1>3. PICK h : AreRounds(p, size, n, h)
  BY ShrinkRounds
<1>6. Rounds(h)
  BY <1>3 DEF AreRounds
<1>7. Rounds(rounds)
  BY <1>6
<1> HIDE DEF rounds
<1>8. \A k \in 0..n : rounds[k] = IF k = 0 THEN p
                                  ELSE IF IsFull(rounds[k - 1], size) THEN Shrink(rounds[k - 1])
                                  ELSE rounds[k - 1]
  BY <1>7
<1> HIDE DEF Rounds
<1> DEFINE Done(r) == r = Fitted(p, size) /\ ~IsFull(r, size)
           P == {k \in Nat : k <= n =>
                   rounds[k] \in Queue /\ (Done(rounds[k]) \/ (IsFull(p, size) /\ Runs(p, size, k, rounds[k])))}
<1>9. 0 \in P
  <2>1. rounds[0] = p
    BY <1>2, <1>8
  <2>2. ~IsFull(p, size) => Done(p)
    BY DEF Fitted
  <2>3. IsFull(p, size) => Runs(p, size, 0, p)
    <3>1. SubSeq(p.msgs, 1, n) = p.msgs
      BY <1>2
    <3>2. At(p, size, 1) = p
      BY <3>1 DEF At, Queue
    <3>3. 1 \in (0 + 1)..Len(p.msgs) /\ \A cut \in Cuts(p, size) : 1 < cut
      BY <1>2 DEF Cuts
    <3> QED
      BY <3>2, <3>3 DEF Runs
  <2> HIDE DEF Done
  <2> QED
    BY <2>1, <2>2, <2>3
<1>10. ASSUME NEW k \in Nat, k + 1 <= n, rounds[k] \in Queue,
              Done(rounds[k]) \/ (IsFull(p, size) /\ Runs(p, size, k, rounds[k]))
       PROVE  /\ rounds[k + 1] \in Queue
              /\ \/ Done(rounds[k + 1])
                 \/ IsFull(p, size) /\ Runs(p, size, k + 1, rounds[k + 1])
  <2>1. k + 1 \in 0..n /\ k + 1 # 0 /\ k + 1 - 1 = k
    BY <1>2, <1>10
  <2>2. rounds[k + 1] = IF IsFull(rounds[k], size) THEN Shrink(rounds[k]) ELSE rounds[k]
    BY <1>8, <2>1
  <2>3. CASE Done(rounds[k])
    BY <1>10, <2>2, <2>3
  <2>4. CASE IsFull(p, size) /\ Runs(p, size, k, rounds[k])
    <3>1. rounds[k + 1] = Shrink(rounds[k])
      BY <2>2, <2>4 DEF Runs
    <3> QED
      BY <1>10, <2>4, <3>1, ShrinkRound, ShrinkIsQueue
  <2> QED
    BY <1>10, <2>3, <2>4
<1>11. n \in P
  <2>1. \A k \in Nat : k \in P => k + 1 \in P
    <3> HIDE DEF Done
    <3> QED
      BY <1>2, <1>10
  <2> HIDE DEF P
  <2> QED
    BY <1>2, <1>9, <2>1, NatIsInductive
<1>12. ~Runs(p, size, n, rounds[n])
  <2>1. \A c \in (n + 1)..Len(p.msgs) : FALSE
    BY <1>2
  <2> QED
    BY <2>1 DEF Runs
<1> QED
  BY <1>1, <1>2, <1>11, <1>12

(* enqueue() as it is written, pushing the message and calling shrink() while the
   queue is too long, leaves what the model says in one step, and it ends: for every
   message that comes to the queue of a peer. *)
THEOREM ShrinkLoopLeavesEnqueued == Spec => []EnqueueIsShrinkLoop
<1>1. MediaOK /\ PipesOK => EnqueueIsShrinkLoop
  <2> SUFFICES ASSUME MediaOK, PipesOK, NEW s \in Peer, NEW m \in Incoming(s)
               PROVE  LET q == ShrinkLoop(Pushed(pipe[s].queue, m), queueSize) IN
                        q = Enqueue(pipe[s].queue, m, queueSize) /\ ~IsFull(q, queueSize)
    BY DEF EnqueueIsShrinkLoop
  <2> DEFINE p == Pushed(pipe[s].queue, m)
  <2>1. pipe[s].queue \in Queue /\ queueSize \in Nat
    BY SourceTypes DEF PipesOK, Pipe
  <2>2. m \in Message
    BY LiveSourceAssumption DEF Incoming, Message
  <2>3. p \in Queue
    BY <2>1, <2>2, PushedIsQueue
  <2>4. p.msgs # <<>>
    BY <2>1 DEF Pushed, Queue
  <2> HIDE DEF p
  <2>5. ShrinkLoop(p, queueSize) = Fitted(p, queueSize) /\ ~IsFull(ShrinkLoop(p, queueSize), queueSize)
    BY <2>1, <2>3, <2>4, ShrinkLoopFits
  <2>6. Fitted(p, queueSize) = Enqueue(pipe[s].queue, m, queueSize)
    <3>1. CASE IsFull(p, queueSize) /\ Cuts(p, queueSize) # {}
      <4>1. Cuts(p, queueSize) \in SUBSET Nat
        BY <2>3 DEF Cuts, Queue
      <4>2. Min(Cuts(p, queueSize)) \in Cuts(p, queueSize)
        BY <3>1, <4>1, MinIsMember
      <4>3. Min(Cuts(p, queueSize)) # 1
        BY <2>3, <4>2 DEF Cuts, Queue
      <4> QED
        BY <3>1, <4>3 DEF Fitted, At, Enqueue, p
    <3>2. CASE ~(IsFull(p, queueSize) /\ Cuts(p, queueSize) # {})
      BY <3>2 DEF Fitted, Enqueue, p
    <3> QED
      BY <3>1, <3>2
  <2> QED
    BY <2>5, <2>6 DEF p
<1> QED
  BY <1>1, PipesInvariance, PTL
==============================================================================
