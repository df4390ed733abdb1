# A TLA+ model of SRS (srs.win)

SRS is a live RTMP server: one process, one operating system thread, coroutines
of the state-threads library (ST). An encoder publishes a stream, players play
it, an *edge* pulls or pushes streams from or to an *origin*, and a source may
be forwarded to other servers. This directory holds TLA+ modules translated from
the C++ code under `src/trunk/src`, the TLC configurations that check them, and
proofs checked by TLAPS. `PROJECT.json` lists components, runs, the lines each
definition models, findings, hazards and theorems.

All coroutines share one thread, so code between two *switch points* (socket
I/O, `st_usleep`, `st_thread_join`, `st_thread_exit`) is atomic. That is the
grain of every model: **one action runs from one switch point to the next**. The
hard behaviours are what other coroutines do to shared objects at those points.

## Inventory

| Component (code) | State | Operations | Hard behaviour | What makes it correct |
|---|---|---|---|---|
| `SrsThread` (`app/srs_app_thread.cpp`) on ST (`win/lib/st/sched_win.c`) | `tid`, `loop`, `_cid`; the st-thread's phase, interrupt flag, joiner | `start`, `stop`, `thread_cycle`, `can_loop` | several callers; `start` polls for the cid, `stop` joins; interrupts that a sleep swallows | one st-thread per object, no use of a reaped one, `stop` and `start` come back |
| Play edge (`SrsPlayEdge`, `SrsEdgeIngester` in `app/srs_app_edge.cpp`) | state Init/Play/IngestConnected; client object, socket; the ingester's `SrsThread`; `_can_publish` of the source | `on_client_play`, `on_all_client_stop`, `on_ingest_play`, `connect_server`, `ingest` | clients arriving and leaving while the ingester is joined; reconnects | who plays has an ingester; nobody else frees its client; an idle edge is unpublished |
| Publish edge (`SrsPublishEdge`, `SrsEdgeForwarder`) | state Init/Publish; client object, queue, `send_error_code`; `SrsThread` | `on_client_publish`, `start`, `proxy`, `cycle`, `stop`, `on_proxy_unpublish` | connect before the state changes; send errors; early returns of the publisher | one user of the connection; an error ends the publish; stop comes back |
| Media of a source (`SrsSource`, `SrsConsumer`, `SrsMessageQueue`, `SrsRtmpJitter`, `SrsGopCache` in `app/srs_app_source.cpp`) | metadata, sequence headers, gop cache, `atc`, rates; each consumer's queue and jitter | `on_meta_data`, `on_audio`, `on_video`, `create_consumer`, `on_consumer_destroy`, `get_packets`, reload handlers | clocks that jump, players that come in the middle, a full queue, sessions that follow each other | order and size of times, header before frames, bounded queues |
| Publish life cycle (`SrsSource`, `app/srs_app_rtmp_conn.cpp`) | `_can_publish`, `forwarders` | `can_publish`, `on_publish`, `on_unpublish`, `create_/destroy_forwarders`, `on_reload_vhost_forward` | each forwarder started or joined is a switch inside a loop over the vector | the stream is given back; no freed forwarder is used |
| Forwarder (`app/srs_app_forward.cpp`) | queue, jitter, connection, `SrsThread` | `on_publish`, `on_unpublish`, `cycle`, `forward` | reconnects with messages still queued | headers before frames, corrected times |
| RTMP connection (`app/srs_app_rtmp_conn.cpp`) | what it plays or publishes | `stream_service_cycle`, `playing`, `fmle_publish`, `flash_publish` | early returns after it has changed a source or an edge | undoes what it did |
| HLS (`SrsHls`, `SrsHlsMuxer`, `SrsHlsCache` in `app/srs_app_hls.cpp`) | `hls_enabled`; segment being written, list of segments, `_sequence_no`, the m3u8 and the ts files on disk; audio cache, stream dts | `on_publish`, `on_unpublish`, `on_audio`, `on_video`, `reap_segment`, `segment_open`, `segment_close`, `refresh_m3u8` | each file call may fail, half way through closing one segment and opening the next; publishes that follow a failure; reloads | successive segment numbers, a list whose files are there, a discontinuity where a run begins |
| DVR (`SrsDvrPlan` and its session, segment and hss plans in `app/srs_app_dvr.cpp`) | `dvr_enabled`, the open file, `.tmp` path, durations | `on_publish`, `on_unpublish`, media, `flv_open`, `flv_close`, `update_duration` | files cut while the stream runs, republish while a file is open, errors half way, reloads that free the plan | an enabled plan has its file; each recording gets its name |
| Server, listeners, connections (`app/srs_app_server.cpp`, `srs_app_conn.cpp`) | `conns`, listeners, signals | accept, remove, reload | a connection frees itself | no use after removal |
| RTMP protocol (`SrsProtocol` in `rtmp/srs_protocol_rtmp_stack.cpp`) | `chunk_streams`, `in_chunk_size`, `out_chunk_size`, `in_ack_size`, `requests` | `recv_message`, `recv_interlaced_message`, `do_send_and_free_message`, `on_recv_message`, `response_acknowledgement_message` | chunks of several messages mixed, a chunk size that changes between them, extended timestamps that some peers repeat and others do not, timeouts inside a chunk | messages arrive whole, once, in order, with their times; the peer gets its acknowledgements |
| Config and reload, encoder/ffmpeg/ingest, HTTP, statistics, utilities | — | — | mostly text, I/O and child processes | — |

How they interact: connections call the source and the edges directly; edges
and forwarders own an `SrsThread` each and publish to, or feed from, the source;
the source calls its consumers and forwarders in loops, and starts, feeds and
stops HLS and then DVR in its own handlers; every connection, ingester and
forwarder reads its peer through a chunk stream, from a coroutine that may be
called back by a timeout; the reload runs in the coroutine of `SrsServer::cycle`
and calls the source's handlers.

## Modules

| Module | Models | State and actions |
|---|---|---|
| `ThreadService` | abstract specification of a restartable thread: `Begin`, `Ask`, `Finish`, `Return`, `Forget` | `phase`, whether a body runs |
| `SrsThread` | `SrsThread` with its ST half | variables named after the fields; `th` is the phase of each st-thread, `starting`/`joining` where a caller is inside `start()`/`stop()` |
| `SrsThread_proofs`, `PlayEdge_proofs`, `PublishEdge_proofs`, `SourcePublish_proofs`, `LiveSource_proofs`, `ChunkStream_proofs`, `Recorders_proofs` | theorems about the module each is named after; those of `LiveSource` are also about `MediaQueue` and `MCLiveSource` | — |
| `DataInduction` | lemmas the others share: smallest and largest numbers, induction over a set of numbers, what a fold over a sequence computes, loops as sequences of rounds | — |
| `PlayEdge` | play edge, its ingester and its clients | composes `SrsThread` by `INSTANCE`; `pc` per client, `at` per ingester st-thread, `conn` owner of the current client object |
| `PublishEdge` | publish edge, its forwarder and its publishers | the same way; `queue`, `batch` say whose messages are held |
| `MediaQueue` | pure operators: `Corrected` (the jitter), `Enqueue`, `TakenAll` (the queue) | no variables |
| `LiveSource` | the media half of the source | uses `MediaQueue`; one action per handler, since no handler switches |
| `MCLiveSource` | `shrink()` and its loop statement by statement, to compare `Enqueue` with | the loop is a function of the number of rounds |
| `SourcePublish` | the publish life cycle with forwarders, publishers and the reload coroutine | loops over the vector are resumed at each switch: `pc`, `index`, `held`; a forwarder's thread follows `ThreadService` |
| `Hls`, `Dvr` | the two recorders, as operators on a record of their fields, with the set of what fails as a parameter: file calls, and the decoding of a message by HLS | no variables: a call gives the recorder it leaves and whether it succeeded (`Ok`/`Failed`, `Done`/`Broken`) |
| `Recorders` | how `SrsSource` starts, feeds, stops and reloads both | composes `Hls` and `Dvr`; one action per handler of the source; none of them switches |
| `MCRecorders` | the vhosts TLC looks at | a vhost with both recorders has a shorter stream |
| `MessageChannel` | abstract specification of what the reader of a connection is promised | `sent`, `received`: a reliable channel, until `ok` is lost |
| `ChunkStream` | a peer that cuts messages into chunks, and `SrsProtocol` that puts them together | `out` is the peer's state of a chunk stream, `chunk_streams` the reader's; the wire is a sequence of chunks; `TimesOut` leaves in `chunk_streams` what was read before the timeout |

Abstractions. A message is a record of its kind, its time and the sequence
header it belongs to; payloads, encodings and logs are left out. Calls to a
peer end in success, failure or (by the fairness) a timeout. The widths of
integers are not modelled but for the mask 2^31 of `ChunkStream` (`HALF`): times
stay below a few dozen. In `ChunkStream` a reader that consumes another number of
bytes than a chunk has is out of step, and its behaviour ends there; the four
bytes of payload where a continuation may have its extended timestamp are taken
not to look like one. In `Hls` the durations of the window are cut to whole seconds
before they are compared, as in `hls.cpp:742`, so the list may be almost a second
longer than `hls_window`. What the demuxer makes of a message (`avc_aac.cpp:135`) is
two faults of a call: `refused`, an error before anything of it is kept, as for another codec,
and `malformed`, one behind the part that is kept; both make the source stop HLS
for the rest of the publish. The headers that the hss plan asks for are media to
its jitter, so each takes time (`lag`) and may cut the file. Where memory is used
after it was freed, the models go on as if it read as it was left; a crash would
end the behaviour and adds no state. After a failed `srs_assert` the behaviour
is only kept for `aborted` to be seen.

History variables. Much of this code is right only while callers do not overlap,
and no caller is kept from overlapping. So the models let everything happen and
*remember* it, and a property says how far it holds:

* `refused` (`SrsThread`): a join was refused because another caller joins.
* `late`, `overlapped` (`PlayEdge`): clients that came while the edge was being
  stopped, or were on their way when its last consumer left; two clients stopping it at once.
* `met` (`PublishEdge`): a publisher got in while another one was there.
* `crossed`, `reloaded` (`SourcePublish`): a coroutine came into the calls of another; a reload happened.
* `lost` (`LiveSource`): peers whose queue has dropped something since they came.
* `faults`, `reloads` (`Recorders`): the recorders in which a file call has
  failed or a message could not be decoded, and what was reloaded, with or without a publisher.
* `stalls` (`ChunkStream`): the chunk format and place of each timeout; `Harmful`
  names those after which a header is read twice with another effect.

## Runs

Eight runs pass; each explores its whole bounded state space, `Recorders` and
`SourcePublish` as the largest with some 600,000 states.

| Run | Bounds | Shows |
|---|---|---|
| `SrsThread` | 3 owners, 3 st-threads | `NoReapedHandle` always; `OneThread`, `QuietWhenStopped` until a join is refused; `CallsComplete`: `start()` comes back always, `stop()` until a join is refused; `ImplementsService`: refines `ThreadService` |
| `PlayEdge` | 2 clients, 2 st-threads, forwarders; fair | `PlayersKeepIngester`, `IngesterOwnsItsClient`, `IngestPlayAsserts` while stops do not overlap; `StopResetsEdge` always; `PlayersAreServed` (liveness) |
| `PublishEdge` | 2 publishers, 2 st-threads; fair | `OneThreadOneFd`, `InitHasNoForwarder`, `ErrorEndsPublish` while publishers come one at a time; `CallsFinish`: `start()` of the forwarder comes back always, `stop()` until a join is refused |
| `LiveSource_jitter` | 1 player, 1 forwarder, 5 events, clock steps 1 and 5 (maximum 2) forth, 2 back | `TimesAreSmooth`; `EnqueueIsShrinkLoop`: `Enqueue` is the loop of `shrink()` for every message that may come |
| `LiveSource_headers` | 1 player, 5 events, atc, gop cache and queue length reloaded | `PlayersCanDecode`, `GopIsOneGroup`, `FramesFollowTheirPast` |
| `SourcePublish` | 2 publishers, 2 servers, 6 forwarder objects, reloads; fair | `IdleCanBePublished` always; `CanPublishIfNotStreaming`, `UsedForwardersAreAlive`, `ForwardersFollowPublisher`, `ServiceFinishes` while coroutines do not cross |
| `ChunkStream` | 3 kinds of peers, 2 media chunk streams and the control stream, 3 messages, lengths 0 and 4, chunk sizes 2 and 3, times below and at the extension, 2 chunks in flight, 1 timeout; fair reader | `StaysInStep`, `ImplementsChannel` (refines `MessageChannel`) and `PeerGoesOn` while no timeout made the reader take a header twice |
| `Recorders` | vhosts with HLS, with each DVR plan, with both; 2 publishes, 1 reload, 1 failing call or refused message, `rename()` that replaces a file and that does not, at most 3 frames that move the clock | `EnabledHasFile`, `NumbersAreSuccessive` always; `PlaylistIsServed`, `DiscontinuitiesAreMarked`, `RecordersFollowPublisher`, `RecordingsAreKept` until something fails in that recorder |

Each run also checks the type invariant of its module, but for `LiveSource_jitter`,
whose module is `LiveSource` with the type invariant of `LiveSource_headers`.

Why the bounds are enough. Two callers meet in one object in every hazard of the
threads and edges; a third adds one that arrives while two are inside. Two
handles let an old st-thread live beside a new one; an st-thread is bound only
when a third would have to be created. For the source, five or six events cover
a session, its headers, a group of pictures and a second session; the maximum
jitter is scaled from 500 ms (`source.cpp:45`) to 2 and the frame time from 40 ms to 1, so a step
is below, at or above it. Two servers give the loops a middle; six forwarder
objects let two publishers and a reload be inside at once (`HasObjects`). Three
clients of the play edge pass its safety properties as well; its liveness needs
two, of which one comes while the other is being stopped. Three messages are a
chunk size or a window and two media messages mixed with each other; a length
of 4 is cut in two by either chunk size, and the window with its slack lets two
messages be unfinished together. The durations of `Recorders` are scaled to a
second of 2 units, a fragment and a window of one second each, and a
clock that moves by 3 or not at all: a segment is below its minimum, or, with a second and a half, above
the fragment; cut to whole seconds it fits the window, which two segments do not, so the list keeps two
where an exact comparison would keep one. Three moves give three segments, of which one leaves the
list, and `dvr_duration` of 3 is reached exactly and passed. One failing call and one reload
may come at any place of two publishes, so each of their effects on the second
publish is seen.

Named assumptions. `HeaderOnce`: an encoder sends one H.264 header per session;
with a second one the cached group of pictures is of the old header
(`srs_app_source.cpp:1048`), which no document excludes or promises.
`LiveSource_headers` keeps atc as its `AtcModes` says, on: when it is switched in
a session, corrected and uncorrected times meet in one queue. `Times` of
`ChunkStream` stay below `HALF`: above it the reader masks the time, and takes
the continuation chunks of SRS itself, which repeat the unmasked one, for
payload. `MaxEvents` bounds what the encoder does
and the forwarders' connections. Deadlock is not checked in the runs of
`LiveSource`, `ChunkStream` and `Recorders`, which stop at their bounds, and of `SourcePublish`, where coroutines
that cross leave forwarders behind until no object is left; that nobody waits
for ever there is `ServiceFinishes`.

Fairness. The ST scheduler runs every runnable coroutine (weak fairness of each
coroutine's own step). Each blocking call of an ingester, a forwarder or a
publisher has a timeout, so it ends. In `ChunkStream` what was sent arrives and
the reading coroutine is scheduled (`WF_vars(Receive)`); nothing makes the peer
send. Nothing makes a client come or leave, and `handler->cycle()` need not
return while `loop` is set.

## Findings

Four runs expect a violation; each is a disagreement between the code and what
the repository says, met while modelling.

* `PlayEdge_stranded` — a client that arrives while the last consumer's
  destruction joins the ingester finds state Play, starts nothing, and loses the
  edge under it (`edge.cpp:677`).
* `PublishEdge_released` — a publisher whose service fails after
  `on_edge_start_publish()` leaves the edge in state Publish (`rtmp_conn.cpp:343`).
* `LiveSource_loss` — `get_packets()` that ends in metadata sets
  `av_start_time` to 0; the next audio or video is dropped from an empty queue
  (`source.cpp:181`).
* `SourcePublish_two` — two publishers pass `can_publish()` before either
  clears it (`rtmp_conn.cpp:290`).

Further claims are stated in the modules and not kept by the code. Each is what a passing
property says without its guard, so that the passing one does **not** cover the hazard beside it.
No run is spent on them: put the property alone, as the `INVARIANTS` of the `.cfg` named with it,
and TLC shows the behaviour.

| Property, `.cfg` | What the repository says | What happens | Guard it takes away |
|---|---|---|---|
| `FdHasOneUser`, `PublishEdge` | "we must ensure one thread one fd principle" (`edge.hpp:125`) | two publishers inside `SrsEdgeForwarder::start()` both use the client that the later one opens (`edge.cpp:751`) | `met` in `OneThreadOneFd` |
| `StreamingIsNotOffered`, `SourcePublish`, also with `NumServers = 0` | "can publish, true when is not streaming" (`source.hpp:282`) | of two publishers that passed together one is rejected for its referer and unpublishes the other's stream (`rtmp_conn.cpp:361`) | `crossed` in `CanPublishIfNotStreaming` |
| `CopiedForwardersAreAlive`, `SourcePublish` | "copy to all forwarders." (`source.cpp:1001`) | a reload joins the second forwarder while the first is freed, in the vector and copied to (`source.cpp:1432`) | `pc[Reloader] = "out"` in `UsedForwardersAreAlive` |
| `IdleIsNotForwarded`, `SourcePublish` | "forward all publish stream to the specified server." (`conf/full.conf:796`) | a reload creates forwarders of a stream that nobody publishes (`source.cpp:641`) | `reloaded` in `ForwardersFollowPublisher` |
| `PlaylistGoesOn`, `Recorders` | "publish stream event, continue to write the m3u8," (`hls.hpp:303`) | where `rename()` does not replace a file, as in the Windows build, the second refresh fails (`hls.cpp:791`); with `Replaces = {TRUE}` the property holds | `hls.replaces` in `PlaylistIsServed`, `RecordersFollowPublisher` |
| `IdleIsNotRecorded`, `Recorders` | "start to record to file when encoder publish," (`conf/full.conf:122`) | a reload starts the DVR of a stream that nobody publishes (`source.cpp:690`) | `idle` in `RecordersFollowPublisher` |
| `FilesAreReaped`, `Recorders` | "if close, the flv is reap and closed." (`dvr.hpp:101`) | a reload frees a segment or hss plan whose file is open and abandons its `.tmp` (`source.cpp:685`) | `DvrReloaded` in `RecordingsAreKept` |
| `SessionIsReaped`, `Recorders` | "session plan: reap flv when session complete(unpublish)" (`dvr.hpp:140`) | when the header of a flv file cannot be written the file stays open, and the session plan, which cannot open it again, refuses every later publish (`dvr.cpp:276`) | `faults` in `RecordersFollowPublisher` |
| `IgnoredTimeoutsDoNoHarm`, `ChunkStream` | "if timeout, we generally ignore and send the data to client," (`rtmp_stack.hpp:61`) | a timeout of 60 seconds in the first chunk of a message leaves the message that was begun, and a format 0 is refused when it is read again (`rtmp_stack.cpp:829`) | `Undisturbed` in `StaysInStep`, `ImplementsChannel` |
| `NobodyWaitsForever`, `ChunkStream` with `Slack = 1` | "client/server will block if required ack msg not arrived" (`rtmp_stack.cpp:1296`) | a peer whose window ends inside a message waits for an acknowledgement that is sent only with a complete one (`rtmp_stack.cpp:1260`) | `Slack = 6` of `ChunkStream.cfg` |

The models also reach these states, on which no run is spent:

* a second `stop()` is refused the join and returns while the thread runs
  (`thread.cpp:118`, where `thread.hpp:126` says "wait for the thread to
  terminate"): `refused`. In `PlayEdge`, such stops can bring the ingester
  to the assertion of `edge.cpp:694` in state Init: `IngestPlayAsserts` without `~overlapped` fails.
* a client that starts the ingester and returns before it has a consumer leaves
  the ingester running (`rtmp_conn.cpp:318`; `edge.cpp:672`):
  `(\A c \in Client : pc[c] = "out") => Thread!LiveThreads = {}` fails.
* a failed send drops the rest of the batch without an error code
  (`edge.cpp:502`; `edge.hpp:132`): action `SendFails`.
* a forwarder that reconnects gets the headers behind what its queue still
  holds (`forward.cpp:213`; `source.cpp:725`): `Decodes(f)` fails for forwarders.
* with atc, the two cached headers are sent video first with the times they came
  with (`source.cpp:1333`; `source.hpp:107`): `Ascends(p, IsAV)` fails.
* of two accepted publishers the first to leave sets `_can_publish`
  (`source.cpp:1302`; `source.hpp:282`): `StreamingIsNotOffered` fails that way too.
* the publish after a reload of an idle stream creates a second set of forwarders
  (`source.cpp:632`; `conf/full.conf:796`): `Len(forwarders) <= NumServers` fails.
* a flush that fails in `on_unpublish` keeps its segment open into the next publish
  (`hls.cpp:996`); a segment is listed although its file could not be renamed (`hls.cpp:754`).
* files the segment plan cuts, or a reload starts, get no sequence headers: only
  `on_dvr_request_sh` of a publish sends them (`source.cpp:770`).
* metadata that the DVR cannot write ends the publish, audio and video only stop
  the DVR (`source.cpp:850`); the hss plan writes metadata also when it records nothing.
* a timeout inside a chunk leaves the receive timeout of the connection at 60
  seconds (`rtmp_stack.cpp:829`), and behind a timeout in its payload a format 1 or 2 adds
  its delta twice: `ImplementsChannel` without `Undisturbed` fails.
* an extended timestamp of a delta is taken for a time (`rtmp_stack.cpp:1137`), and a
  format 1 in the middle of a message is always refused for its size (`rtmp_stack.cpp:1055`); no
  peer of the model sends them.

## Proofs

`SrsThread_proofs`, for any set of owners and of handles, from `HandleAssumption`
(`NoTid` is no handle) alone:

* `TypeCorrect`, `HandlesStayValid`: always. `NoReapedHandle` is not inductive: a
  handle being joined must have no second joiner, or the first to return would
  free it under the other. `HandleInv` adds that at most one owner joins a thread (`OneJoiner`).
* `OneThreadAtATime`, `StoppedIsQuiet`, `JoinedStopWaitsForExit`: by `JoinInv` =
  types, one joiner per thread, and, until a join is refused, that each st-thread
  that is not free is the one `tid` names, that `loop` is cleared only under a
  joiner, and that a joiner waits for `tid`. `OneThread` alone is not inductive: a state in
  which `loop` is cleared and nobody joins would let the thread end behind
  `tid`, and `JoinReturns` clears `tid` whatever it names.
* `RefinesService`: the initial state and every step of `SrsThread` map to
  `ThreadService` or a stutter, under `JoinInv` before and after.

`PlayEdge_proofs` and `PublishEdge_proofs`, for any clients or publishers and any
handles, from `PlayEdgeAssumption` and `PublishEdgeAssumption`:

* `RefinesThread`: each action of an edge is an action of its `SrsThread` or
  leaves its variables alone (`ClientKeepsThread`, `IngesterKeepsThread` and
  their counterparts, one step per action).
* `IngesterHandlesValid`, `ForwarderHandlesValid`: `RefinesThread` with
  `HandlesStayValid`. No invariant of the edge is needed: the thread protects its
  handle whatever its owners do. `SameThread` says that the instance in the edge
  and the instance in the theorems are one specification.
* `TypeCorrect` of each, from the types of the thread and one lemma per kind of step.
* `IngesterHasItsClient`, `AssertionHolds`, `PlayersAreKept`: none is inductive, each
  needs that the thread has one st-thread, and that needs the other two. The common
  invariant `EdgeInv` says that until two stops overlap no join is refused and no
  assertion fails, at most one client is stopping the edge (`OneStops`), an edge that has
  a thread or is being stopped is not in Init (`StateFollows`), the client object is that
  of the ingester inside `cycle()` (`OwnsItsClient`), and a client that came in time (`InTime`)
  finds `tid` set and nobody stopping. What the thread contributes is `JoinInv`, carried
  over by `RefinesThread`.
* `StopsReset`: `LostIsReset`, which holds however stops overlap.
* `NoForwarderInInit`, `OneThreadUsesFd`: `EdgeInv` of the publish edge says the same of
  publishers that come one at a time: the join is not refused, one publisher is in the
  edge (`Alone`), its state follows it (`StateFollows`), and a thread means state Publish or a publisher
  in `start()` (`HeldByEdge`).

`SourcePublish_proofs`, for any publishers, servers and forwarder objects, from
`SourcePublishAssumption`:

* `StreamIsGivenBack`: `IdleInv` = the types of `pc` and `IdleCanBePublished`. The
  outcome lemmas reduce `on_publish()` and `on_unpublish()`, resumed at any
  forwarder, to what they do to `pc` and `_can_publish`.
* `PublisherHoldsStream`: `CanPublishIfNotStreaming` is not inductive: a second
  publisher in `on_unpublish()` frees the stream under the first. `HolderInv` adds
  that until coroutines cross one publisher is inside, and that the stream is taken from
  its first forwarder on, not only when it publishes.
* `TypeCorrect`: the types with the vector holding no forwarder twice, without which
  freeing one could free another one's place.
* `UsedIsAlive`: `UsedForwardersAreAlive` is not inductive: a forwarder behind the one
  being joined must be alive too, since it is next. `UsedInv` says that until coroutines
  cross one of them is inside, that the forwarders from its position on are alive
  (`Ahead`), and that all are when none is being destroyed.
* `ForwardersFollow`: `ForwardersFollowPublisher` says nothing of a publisher inside its
  loops. `FollowInv` adds `InPlace`: one that creates has as many forwarders as its position,
  all but the last with a running thread; one that destroys has freed those before its
  position (`Gone`); and every object in use is in the vector (`Listed`). The `...Leaves` lemmas say of each
  call, resumed anywhere, that it leaves what the next one needs.

`DataInduction` is about numbers and sequences only. The theorems of the library on
induction take an operator as a parameter, which the provers cannot instantiate; its
lemmas take sets and functions instead. That a set of numbers has a smallest member
(`MinIsMember`) comes from the well-founded order of finite sets, and induction
(`NatIsInductive`) from that. A fold over a sequence is what a table of its values on
sets of positions says (`FoldTableExists`), which `IntervalStep` goes through one position
at a time.

`LiveSource_proofs`, for any peers, queue lengths, clocks, rates and numbers of events,
from `LiveSourceAssumption` and `JitterAssumption`. Of one step:

* `CorrectedTimeIsSmooth`: `Delta` is in `0..CONST_MAX_JITTER_MS` on each of its
  branches, so the corrected time is.
* `EnqueueLimitsQueue`, `DropEndsAtKeyframe`: `EnqueueOutcome` says that `Enqueue`
  leaves everything, nothing or a suffix at a cut.

Of the source and the queues of its peers:

* `TypeCorrect`, with the caches being sequences of messages (`CachesOK`).
* `CachedGopIsOneGroup`, for an encoder that sends one header per session: that a
  cached frame belongs to the header of the session needs that the counter of video
  is positive only while the cache holds something.
* `TimesSmooth`, where atc does not change (`AtcModes` has one member; when atc is
  switched, corrected and uncorrected times meet in one queue). `SmoothInv` relates a
  queue to the jitter that feeds it: the last audio or video queued has the jitter's last
  corrected time, which the property does not say and each next message needs. The
  queue may meanwhile be cut (`SmoothEnd`) or taken. A cached group fed to a new
  consumer goes through a fold, so the invariant is carried through it.
* `FramesFollow`, with atc and an encoder whose clock does not go back
  (`AtcModes = {TRUE}`, `BackSteps = {}`): `FollowsInv` adds that no cached header or
  frame is later than the clock, that the cached group ascends, and that nothing queued
  is later than the clock, without which the next frame might be earlier.
* `PlayersDecode`, for an encoder that sends one header per session: `DecodeInv` says
  of the queue of a player that lost nothing that each frame has its header before it,
  in the queue or in what was sent, up to the header of the session, and
  `HeaderCached` that the source has that header while there are frames of it.
* `ShrinkLoopLeavesEnqueued`: after each round the loop holds the suffix at a key
  frame before the first cut, or is done (`Runs`, `ShrinkRound`); each round that is not the
  last makes the queue shorter, so it ends.

`Recorders_proofs`, for any vhosts, durations, window, clock steps and bounds, from
`RecordersAssumption` and those of `Hls` and `Dvr`:

* `TypeCorrect`, `SegmentNumbers`, `RecordersHaveFiles`, by `RecInv` = the types of the
  source (`SourceOK`), `HlsGood` and `DvrGood`. Each operator of a recorder is shown to keep
  the invariant of its record for every set of failing file calls; the three are needed
  together, since a header marks the current segment and media go to the current file. A
  call that fails may leave a recorder enabled without a file (`HlsSound`, `DvrSound`); the
  source then stops it in the same step.
* `PlaylistServed`, `DiscontinuitiesMarked`, `RecordersFollow`, `RecordingsKept`, by
  `FaultlessInv`: what holds of a recorder in which nothing has failed: no file call, and for HLS no message that it
  cannot decode, so these theorems are about well formed AAC and H.264. For HLS
  (`HlsFine`) the m3u8 is the list of segments, each of which has its file (`Served`), only a
  recorder that is on writes a segment, and a segment that begins a run and has no header
  yet has no duration (`CurrentWell`); for the DVR (`DvrInv`) the path is that of the
  open file, which is the only one without its name, a file of the session plan is of
  one session, and a session plan that is off has no file open. `IdleInv` says that between
  publishes the source has no headers and a recorder is off, unless a reload started it.
  The four are proved together: whether a recorder is on decides which invariant its next
  call starts from. The sum of durations in the window is a fold;
  that its whole seconds do not exceed the window bounds it by a second more (`WholeSeconds`), which is
  all the code promises.

`ChunkStream_proofs`, for any chunk streams, kinds of peers, chunk sizes, lengths,
windows, numbers of messages and timeouts, from `ChunkStreamAssumption`:

* `FirstChunkIsUnderstood`, `DeltaIsUnderstood`, `ContinuationIsUnderstood`: what the reader
  makes of one chunk is what its writer meant, for every scale of the extension and
  every pair of times.
* `ChunkStreamTypes`: the types, also after timeouts that did harm. `Typed` says more of
  a chunk stream than its fields' ranges: what the payload holds and how long it may be.
* `ReaderStaysInStep`, `ChannelIsKept`, where `Times` fit below `HALF` (above it the reader
  masks what it read and the property is false). The reader cannot be compared with
  the peer as it is, which is chunks ahead. `OrderInv` says that there is a line of
  states of the peer (`Line`), one for each place between two chunks on the wire: each comes
  from the one before by cutting the chunk between them (`Cut`), the last is the
  peer as it is now, and the reader is level with the first (`ReaderAt`): each of its chunk
  streams holds what the peer's says (`Understood`), or what a harmless timeout leaves of that
  (`HalfRead`). What the reader does with the next chunk then follows from what the peer
  did to write it (`NextIsOpened`, `OpenedIsRead`), and a chunk sent makes the line one longer.
  With it each message received is the next one sent: `ChannelIsKept` is the safety half of
  the refinement, `Channel!Init` and `[][Channel!Next]_(Channel!vars)`.

Every invariant and type invariant of a passing run is stated by a theorem. Only
model-checked: liveness, since the prover has no fairness and no `ENABLED`: `CallsComplete`,
`CallsFinish`, `PlayersAreServed`, `ErrorEndsPublish`, `ServiceFinishes`, `PeerGoesOn`, and of
`ImplementsService` and `ImplementsChannel` what their fairness says; their steps are
`RefinesService` and `ChannelIsKept`.

## Not modelled

The `SrsThread` objects that are not joinable and end by `stop_loop()`
(connections), a failing `st_thread_create`, an interrupted join, integer
widths beyond the mask of the chunk stream, the bytes of flv tags and ts packets, the
switch inside the hook that `flv_close()` of the hss plan calls, the encoding and decoding of
packets, the matching of responses to requests, pings, the bandwidth test, hooks and refers other
than as steps that may fail. The encoder, FFMPEG and ingest processes are not
compiled into this build. Handshake, AMF0, configuration text, HTTP request handlers, logs
and statistics hold little state between calls: they are byte layout, text and I/O,
listed with reasons in `PROJECT.json`.

The map covers the part of the repository that decides: `src/trunk/src` is less than a
tenth of it, the rest is vendored (openssl and the state-threads library under
`src/trunk/win/lib`, with copies of their generated headers), and of it only the scheduler calls that
`SrsThread` makes are modelled.

## Plan

1. Server, connections and listeners: `max_connections`, removal of a connection that frees
   itself, the order of a reload; the threads that are not joinable.
2. `SourcePublish` composed with `PlayEdge`: each reconnect of the ingester calls
   `on_publish()` again. Sessions in `PublishEdge`'s queue.
3. Hooks of the hss plan as switch points of `Recorders`; requests and their responses in
   `SrsProtocol`.
4. Proofs: the theorems of each new component beside its runs; that the slack of `ChunkStream`
   suffices, the safety half of `PeerGoesOn`.

To run: `tlc -config PlayEdge.cfg PlayEdge.tla`, `tlc -config
LiveSource_jitter.cfg MCLiveSource.tla`, `tlc -config Recorders.cfg
MCRecorders.tla`, `tlapm SrsThread_proofs.tla` (and so for the other `_proofs`
modules).
