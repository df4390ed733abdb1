------------------------------ MODULE LiveSource ------------------------------
(***************************************************************************)
(* The media of one live stream (app/srs_app_source.cpp, SrsSource): one   *)
(* encoder publishes, the source copies each message to the consumer of    *)
(* every player and to every forwarder, and keeps the metadata, the        *)
(* sequence headers and a group of pictures for those that come later.     *)
(* A handler runs without a switch of coroutines, so each is one action.   *)
(***************************************************************************)
EXTENDS MediaQueue, FiniteSets, SequencesExt

CONSTANTS
  Player, Forwarder,  \* the peers: players, and servers the vhost forwards to
  Published,          \* the kinds of messages the encoder sends
  Steps, BackSteps,   \* from the time of one of its messages forth or back to
                      \* the time of the next
  HeaderOnce,         \* it sends one H.264 header at most in a session
  AtcModes,           \* the values on_meta_data() and the config may give atc
  QueueSizes,         \* the values of queue_length, in ms
  SampleRate, FrameRate,  \* of the metadata
  Reloads,            \* whether the configuration is reloaded
  MaxEvents           \* bound: on_publish calls, messages, forwarder connections

ASSUME LiveSourceAssumption ==
  /\ Player \cap Forwarder = {}
  /\ Published \subseteq Kinds
  /\ Steps \subseteq Nat /\ BackSteps \subseteq Nat
  /\ AtcModes \subseteq BOOLEAN /\ AtcModes # {}
  /\ QueueSizes \subseteq Nat /\ QueueSizes # {}
  /\ SampleRate \in Nat /\ FrameRate \in Nat
  /\ HeaderOnce \in BOOLEAN /\ Reloads \in BOOLEAN
  /\ MaxEvents \in Nat

Peer == Player \cup Forwarder

VARIABLES
  live, clock, sh, headers,  \* the encoder: publishing, its time, the header it
                             \* encodes under (0: none), the headers sent so far
  events,                    \* what MaxEvents bounds
  atc, rates,                \* SrsSource::atc, sample_rate and frame_rate
  meta, vsh, ash,            \* cache_metadata, cache_sh_video, cache_sh_audio:
                             \* sequences of one message or none
  gop, gopEnabled, vcount,   \* SrsGopCache
  queueSize,                 \* queue_length of the configuration
  pipe,                      \* the jitter and the queue of each peer
  up,                        \* peers that play, or whose connection is ready
  paused,                    \* players that paused
  got,                       \* what each peer was sent: its last header and time
  lost                       \* peers whose queue dropped something

encoderVars == <<live, clock, sh, headers, events>>
cacheVars == <<atc, rates, meta, vsh, ash, gop, gopEnabled, vcount>>
peerVars == <<pipe, up, paused, got, lost>>
vars == <<encoderVars, cacheVars, queueSize, peerVars>>

NewPipe == [jitter |-> NewJitter, queue |-> NewQueue]
Nothing == [sh |-> 0, time |-> 0]
NoRates == [audio |-> 0, video |-> 0]


TypeOK ==
  /\ live \in BOOLEAN /\ clock \in Nat /\ sh \in 0..headers
  /\ headers \in 0..MaxEvents /\ events \in 0..MaxEvents
  /\ atc \in BOOLEAN
  /\ rates \in {NoRates, [audio |-> SampleRate, video |-> FrameRate]}
  /\ \A c \in {meta, vsh, ash} : Len(c) <= 1
  /\ \A i \in DOMAIN meta : meta[i].kind = "meta"
  /\ \A i \in DOMAIN vsh : vsh[i].kind = "vsh"
  /\ \A i \in DOMAIN ash : ash[i].kind = "ash"
  /\ \A i \in DOMAIN gop : IsFrame(gop[i])
  /\ gopEnabled \in BOOLEAN /\ vcount \in 0..MaxEvents
  /\ queueSize \in QueueSizes
  /\ up \subseteq Peer /\ paused \subseteq Player /\ lost \subseteq Peer
  /\ DOMAIN pipe = Peer /\ DOMAIN got = Peer

Init ==
  /\ live = FALSE /\ clock = 0 /\ sh = 0 /\ headers = 0 /\ events = 0
  /\ atc \in AtcModes /\ rates = NoRates
  /\ meta = <<>> /\ vsh = <<>> /\ ash = <<>>
  /\ gop = <<>> /\ gopEnabled = TRUE /\ vcount = 0
  /\ queueSize \in QueueSizes
  /\ pipe = [s \in Peer |-> NewPipe]
  /\ up = {} /\ paused = {} /\ lost = {}
  /\ got = [s \in Peer |-> Nothing]

------------------------------------------------------------------------------
(* SrsConsumer::enqueue, SrsForwarder::on_meta_data, on_audio and on_video *)

\* Forwarders always correct the time, and without the rates of the metadata.
CorrectsTime(s, isAtc) == s \in Forwarder \/ ~isAtc

Receive(s, c, m, isAtc, tb) ==
  LET j == IF s \in Forwarder THEN Corrected(c.jitter, m, 0, 0)
           ELSE Corrected(c.jitter, m, tb.audio, tb.video)
  IN IF CorrectsTime(s, isAtc)
       THEN [jitter |-> j, queue |-> Enqueue(c.queue, Retimed(j, m), queueSize)]
       ELSE [c EXCEPT !.queue = Enqueue(@, m, queueSize)]

ReceiveAll(s, c, ms) ==
  FoldLeft(LAMBDA d, m : Receive(s, d, m, atc, rates), c, ms)

\* A queue that does not end one message longer has dropped some.
Drops(old, new, n) == Len(new.queue.msgs) < Len(old.queue.msgs) + n

\* A message goes to every consumer, and to every forwarder of the session.
Dispatch(m, isAtc, tb) ==
  /\ pipe' = [s \in Peer |->
       IF s \in up \cup Forwarder THEN Receive(s, pipe[s], m, isAtc, tb) ELSE pipe[s]]
  /\ lost' = lost \cup {s \in up \cup Forwarder : Drops(pipe[s], pipe'[s], 1)}
  /\ UNCHANGED <<up, paused, got>>

------------------------------------------------------------------------------
(* The encoder *)

Retime(c, t) == [i \in DOMAIN c |-> [c[i] EXCEPT !.time = t]]

Times == {clock + d : d \in Steps} \cup {clock - d : d \in {b \in BackSteps : b <= clock}}

\* One message of the encoder: its time, and the header it belongs to.
Sends(m) ==
  /\ live /\ events < MaxEvents
  /\ m.kind \in Published
  /\ m.time \in Times
  /\ m.kind = "vsh" => (HeaderOnce => sh = 0)
  /\ m.sh = IF m.kind = "vsh" THEN headers + 1 ELSE IF IsVideo(m) THEN sh ELSE 0
  /\ headers' = IF m.kind = "vsh" THEN m.sh ELSE headers
  /\ sh' = IF m.kind = "vsh" THEN m.sh ELSE sh
  /\ clock' = m.time
  /\ events' = events + 1
  /\ UNCHANGED live

\* Mutant of CacheGop: a key frame does not clear the cache.
CacheGopUncleared(m) ==
  LET count == IF IsVideo(m) THEN vcount + 1 ELSE vcount IN
  IF ~gopEnabled \/ count = 0 THEN UNCHANGED <<gop, vcount>>
  ELSE gop' = Append(gop, m) /\ vcount' = count

\* SrsGopCache::cache.
CacheGop(m) ==
  LET count == IF IsVideo(m) THEN vcount + 1 ELSE vcount IN
  IF ~gopEnabled THEN UNCHANGED <<gop, vcount>>
  ELSE IF count = 0 THEN UNCHANGED <<gop, vcount>>
  ELSE IF IsKeyframe(m) THEN gop' = <<m>> /\ vcount' = 1
  ELSE gop' = Append(gop, m) /\ vcount' = count

\* on_meta_data: atc, the sample and the frame rate are read anew.
OnMetaData(m, mode) ==
  /\ m.kind = "meta"
  /\ Sends(m)
  /\ atc' = mode
  /\ rates' = [audio |-> SampleRate, video |-> FrameRate]
  /\ meta' = <<m>>
  /\ Dispatch(m, atc', rates')
  /\ UNCHANGED <<vsh, ash, gop, gopEnabled, vcount, queueSize>>

\* Mutant of OnSequenceHeader: on_audio and on_video go on with the gop cache.
OnSequenceHeaderCached(m) ==
  /\ m.kind \in {"ash", "vsh"}
  /\ Sends(m)
  /\ Dispatch(m, atc, rates)
  /\ IF m.kind = "ash" THEN ash' = <<m>> /\ UNCHANGED vsh
     ELSE vsh' = <<m>> /\ UNCHANGED ash
  /\ CacheGop(m)
  /\ UNCHANGED <<atc, rates, meta, gopEnabled, queueSize>>

\* on_audio and on_video of a sequence header.
OnSequenceHeader(m) ==
  /\ m.kind \in {"ash", "vsh"}
  /\ Sends(m)
  /\ Dispatch(m, atc, rates)
  /\ IF m.kind = "ash" THEN ash' = <<m>> /\ UNCHANGED vsh
     ELSE vsh' = <<m>> /\ UNCHANGED ash
  /\ UNCHANGED <<atc, rates, meta, gop, gopEnabled, vcount, queueSize>>

\* on_audio and on_video of a frame: with atc the caches follow its time.
OnFrame(m) ==
  /\ IsFrame(m)
  /\ Sends(m)
  /\ Dispatch(m, atc, rates)
  /\ CacheGop(m)
  /\ meta' = IF atc THEN Retime(meta, m.time) ELSE meta
  /\ ash' = IF atc /\ IsAudio(m) THEN Retime(ash, m.time) ELSE ash
  /\ vsh' = IF atc /\ IsVideo(m) THEN Retime(vsh, m.time) ELSE vsh
  /\ UNCHANGED <<atc, rates, gopEnabled, queueSize>>

\* on_publish: forwarders are created, none is connected yet.
OnPublish ==
  /\ ~live /\ events < MaxEvents
  /\ live' = TRUE
  /\ sh' = 0
  /\ events' = events + 1
  /\ UNCHANGED <<clock, headers, cacheVars, queueSize, peerVars>>

\* on_unpublish: forwarders and caches go, consumers stay.
OnUnpublish ==
  /\ live
  /\ live' = FALSE
  /\ meta' = <<>> /\ vsh' = <<>> /\ ash' = <<>>
  /\ rates' = NoRates
  /\ gop' = <<>> /\ vcount' = 0
  /\ pipe' = [s \in Peer |-> IF s \in Forwarder THEN NewPipe ELSE pipe[s]]
  /\ got' = [s \in Peer |-> IF s \in Forwarder THEN Nothing ELSE got[s]]
  /\ up' = up \ Forwarder /\ lost' = lost \ Forwarder
  /\ UNCHANGED <<clock, sh, headers, events, atc, gopEnabled, queueSize, paused>>

------------------------------------------------------------------------------
(* The peers *)

Headers == meta \o vsh \o ash

\* Mutants of CreateConsumer: the group of pictures before the headers; headers
\* whose time is not aligned.
CreateConsumerGopFirst(p) ==
  /\ p \notin up
  /\ pipe' = [pipe EXCEPT ![p] = ReceiveAll(p, NewPipe, gop \o Headers)]
  /\ lost' = lost
  /\ up' = up \cup {p}
  /\ UNCHANGED <<encoderVars, cacheVars, queueSize, paused, got>>

CreateConsumerUnaligned(p) ==
  /\ p \notin up
  /\ pipe' = [pipe EXCEPT ![p] = ReceiveAll(p, NewPipe, Headers \o gop)]
  /\ lost' = lost
  /\ up' = up \cup {p}
  /\ UNCHANGED <<encoderVars, cacheVars, queueSize, paused, got>>

\* create_consumer: with atc the cached headers take the time of the cached
\* group of pictures; they are sent first, then that group.
CreateConsumer(p) ==
  LET Aligned(c) == IF atc /\ gop # <<>> THEN Retime(c, gop[1].time) ELSE c IN
  /\ p \notin up
  /\ meta' = Aligned(meta) /\ vsh' = Aligned(vsh) /\ ash' = Aligned(ash)
  /\ LET ms == meta' \o vsh' \o ash' \o gop IN
       /\ pipe' = [pipe EXCEPT ![p] = ReceiveAll(p, NewPipe, ms)]
       /\ lost' = IF Drops(NewPipe, pipe'[p], Len(ms)) THEN lost \cup {p} ELSE lost
  /\ up' = up \cup {p}
  /\ UNCHANGED <<encoderVars, atc, rates, gop, gopEnabled, vcount, queueSize, paused, got>>

DestroyConsumer(p) ==
  /\ p \in up
  /\ up' = up \ {p} /\ paused' = paused \ {p} /\ lost' = lost \ {p}
  /\ pipe' = [pipe EXCEPT ![p] = NewPipe]
  /\ got' = [got EXCEPT ![p] = Nothing]
  /\ UNCHANGED <<encoderVars, cacheVars, queueSize>>

\* on_play_client_pause.
Pauses(p) ==
  /\ p \in up
  /\ paused' = IF p \in paused THEN paused \ {p} ELSE paused \cup {p}
  /\ UNCHANGED <<encoderVars, cacheVars, queueSize, pipe, up, got, lost>>

\* The forwarder's thread has a new connection: on_forwarder_start() feeds it
\* the headers, behind what its queue still holds.
ForwarderStarts(f) ==
  /\ live /\ f \notin up
  /\ events < MaxEvents /\ events' = events + 1
  /\ up' = up \cup {f}
  /\ pipe' = [pipe EXCEPT ![f] = ReceiveAll(f, pipe[f], Headers)]
  /\ lost' = IF Drops(pipe[f], pipe'[f], Len(Headers)) THEN lost \cup {f} ELSE lost
  /\ got' = [got EXCEPT ![f] = Nothing]
  /\ UNCHANGED <<live, clock, sh, headers, cacheVars, queueSize, paused>>

\* The connection fails, the jitter and the queue stay.
ForwarderFails(f) ==
  /\ f \in Forwarder \cap up
  /\ up' = up \ {f}
  /\ UNCHANGED <<encoderVars, cacheVars, queueSize, pipe, paused, got, lost>>

LastOf(ms, P(_), default) ==
  LET at == {i \in DOMAIN ms : P(ms[i])} IN IF at = {} THEN default ELSE ms[Max(at)]

\* The sending loop of a player or a forwarder takes the queue and sends it.
Gets(s) ==
  LET ms == pipe[s].queue.msgs IN
  /\ s \in up \ paused
  /\ ms # <<>>
  /\ pipe' = [pipe EXCEPT ![s].queue = TakenAll(@)]
  /\ got' = [got EXCEPT ![s] =
       [sh |-> LastOf(ms, LAMBDA m : m.kind = "vsh", got[s]).sh,
        time |-> LastOf(ms, IsAV, got[s]).time]]
  /\ UNCHANGED <<encoderVars, cacheVars, queueSize, up, paused, lost>>

------------------------------------------------------------------------------
(* The configuration *)

\* set_cache, by a reload and by every client that connects.
SetCache(enabled) ==
  /\ Reloads
  /\ gopEnabled' = enabled
  /\ IF enabled THEN UNCHANGED <<gop, vcount>> ELSE gop' = <<>> /\ vcount' = 0
  /\ UNCHANGED <<encoderVars, atc, rates, meta, vsh, ash, queueSize, peerVars>>

ReloadAtc ==
  /\ Reloads
  /\ gop' = <<>> /\ vcount' = 0
  /\ UNCHANGED <<encoderVars, atc, rates, meta, vsh, ash, gopEnabled, queueSize, peerVars>>

\* A queue that has become too long is cut by its next enqueue() only.
ReloadQueueLength(size) ==
  /\ Reloads
  /\ queueSize' = size
  /\ UNCHANGED <<encoderVars, cacheVars, peerVars>>

EncoderSends ==
  \E kind \in Published, t \in Times, g \in 0..MaxEvents :
    LET m == [kind |-> kind, time |-> t, sh |-> g] IN
      \/ \E mode \in AtcModes : OnMetaData(m, mode)
      \/ OnSequenceHeader(m)
      \/ OnFrame(m)

Next ==
  \/ OnPublish \/ OnUnpublish \/ EncoderSends
  \/ \E p \in Player : CreateConsumer(p) \/ DestroyConsumer(p) \/ Pauses(p)
  \/ \E f \in Forwarder : ForwarderStarts(f) \/ ForwarderFails(f)
  \/ \E s \in Peer : Gets(s)
  \/ ReloadAtc
  \/ \E b \in BOOLEAN : SetCache(b)
  \/ \E n \in QueueSizes : ReloadQueueLength(n)

Spec == Init /\ [][Next]_vars

------------------------------------------------------------------------------
Queued(s) == pipe[s].queue.msgs

\* The header a peer has by the time it gets the message at i.
HeaderAt(s, i) == LastOf(SubSeq(Queued(s), 1, i), LAMBDA m : m.kind = "vsh", got[s]).sh

Ascends(s, IsLater(_)) ==
  \A j \in DOMAIN Queued(s) :
    IsLater(Queued(s)[j]) =>
      /\ got[s].time <= Queued(s)[j].time
      /\ \A i \in 1..(j - 1) : IsAV(Queued(s)[i]) => Queued(s)[i].time <= Queued(s)[j].time

\* What is sent at j follows what is sent at i, no audio or video between them.
FollowsAV(s, i, j) ==
  /\ IsAV(Queued(s)[i]) /\ IsAV(Queued(s)[j])
  /\ \A k \in (i + 1)..(j - 1) : ~IsAV(Queued(s)[k])

(* A peer whose times are corrected sees them go neither back nor forth by
   more than the maximum, whatever the encoder sends: "to ensure the rtmp
   stream is monotonically". *)
TimesAreSmooth ==
  \A s \in up : CorrectsTime(s, atc) =>
    /\ Ascends(s, IsAV)
    /\ \A j \in DOMAIN Queued(s) : \A i \in 1..(j - 1) :
         FollowsAV(s, i, j) =>
           Queued(s)[j].time - Queued(s)[i].time <= CONST_MAX_JITTER_MS

(* With atc and an encoder whose clock never goes back, a player gets no frame
   that is earlier than a header or a frame sent to it before. *)
FramesFollowTheirPast == \A p \in up \cap Player : atc => Ascends(p, IsFrame)

(* A queue drops messages "if full" only: when what it holds and what comes
   span more than queue_length. *)
DropsOnlyIfFull ==
  [][\A s \in lost' \ lost : s \in up /\ CorrectsTime(s, atc') =>
       \E i \in DOMAIN Queued(s) :
         /\ IsAV(Queued(s)[i])
         /\ pipe'[s].jitter.last_pkt_correct_time - Queued(s)[i].time > queueSize
    ]_vars

Decodes(s) ==
  \A i \in DOMAIN Queued(s) :
    Queued(s)[i].kind \in {"key", "inter"} /\ Queued(s)[i].sh # 0
      => HeaderAt(s, i) = Queued(s)[i].sh

(* A player from which nothing was dropped has the sequence header of every
   frame it gets, whenever it came: before the header, after it, from the
   cached group of pictures, or in an earlier session. *)
PlayersCanDecode == \A p \in (up \cap Player) \ lost : Decodes(p)

(* The cache holds one group of pictures of the current session: it starts with
   video, and a key frame is at its start or nowhere. *)
GopIsOneGroup ==
  gop # <<>> =>
    /\ live /\ gopEnabled
    /\ IsVideo(gop[1])
    /\ \A i \in 2..Len(gop) : ~IsKeyframe(gop[i])
    /\ \A i \in DOMAIN gop : gop[i].sh \in {0, sh}
==============================================================================
