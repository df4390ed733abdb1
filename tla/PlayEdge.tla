------------------------------ MODULE PlayEdge ------------------------------
(***************************************************************************)
(* Playing on an edge server (app/srs_app_edge.cpp, SrsPlayEdge and        *)
(* SrsEdgeIngester): the first client starts an ingester thread that pulls *)
(* the stream from the origin and publishes it to the local source, the    *)
(* destruction of the last consumer stops it.  Composes SrsThread with the *)
(* client coroutines (SrsRtmpConn::stream_service_cycle, the play branch)  *)
(* and the publish state of the source.                                    *)
(***************************************************************************)
EXTENDS Naturals, FiniteSets

CONSTANTS
  Client,         \* play clients of one stream: each may come again
  Handle, NoTid,  \* as in SrsThread
  HasForwarders   \* the vhost forwards: SrsSource::on_publish and on_unpublish
                  \* start and join forwarder threads, so they switch

ASSUME PlayEdgeAssumption == NoTid \notin Handle /\ HasForwarders \in BOOLEAN

VARIABLES
  tid, loop, named, th, intr, starting, joining, refused,  \* the ingester's SrsThread
  state,      \* SrsPlayEdge::state
  pc,         \* where each client is
  at,         \* where each ingester st-thread is inside cycle()
  conn,       \* st-thread whose cycle() opened the current client, io and stfd
  published,  \* ~SrsSource::_can_publish
  aborted,    \* an srs_assert has failed: what follows is not the program's
  late,       \* history: the clients that came while the edge was being stopped,
              \* or were on their way when the last consumer went
  overlapped  \* history: whether two clients were stopping the edge at once

Thread == INSTANCE SrsThread WITH Owner <- Client

history == <<late, overlapped>>
threadVars == <<tid, loop, named, th, intr, starting, joining, refused>>
vars == <<threadVars, state, pc, at, conn, published, aborted, history>>

TypeOK ==
  /\ Thread!TypeOK
  /\ state \in {"Init", "Play", "IngestConnected"}
  /\ pc \in [Client -> {"out", "starting", "accepted", "playing", "stopping", "unpublishing"}]
  /\ at \in [Handle -> {"none", "connecting", "publishing", "usleep", "recv"}]
  /\ conn \in Handle \cup {NoTid}
  /\ published \in BOOLEAN
  /\ aborted \in BOOLEAN
  /\ late \subseteq Client
  /\ overlapped \in BOOLEAN
  /\ \A h \in Handle : at[h] # "none" => th[h] = "cycle"
  /\ \A c \in Client : (pc[c] = "starting") = (c \in starting)
                    /\ (pc[c] = "stopping") = (joining[c] # NoTid)

Init ==
  /\ Thread!Init
  /\ state = "Init"
  /\ pc = [c \in Client |-> "out"]
  /\ at = [h \in Handle |-> "none"]
  /\ conn = NoTid
  /\ published = FALSE
  /\ aborted = FALSE
  /\ late = {}
  /\ overlapped = FALSE

\* SrsSource::consumers: a client is in it from create_consumer() until the
\* consumer is destroyed.
consumers == {c \in Client : pc[c] = "playing"}

Goes(c, from, to) == pc[c] = from /\ pc' = [pc EXCEPT ![c] = to]
Moves(h, from, to) == at[h] = from /\ at' = [at EXCEPT ![h] = to]

Stopping == \E c \in Client : pc[c] \in {"stopping", "unpublishing"}

\* What the history keeps of the arrival of a client, and of the last leaving.
Arrives(c) == /\ late' = IF Stopping THEN late \cup {c} ELSE late \ {c}
              /\ UNCHANGED overlapped
LastGoes == /\ late' = late \cup {d \in Client : pc[d] \in {"starting", "accepted"}}
            /\ overlapped' = (overlapped \/ Stopping)

------------------------------------------------------------------------------
(* Clients *)

\* SrsPlayEdge::on_client_play, state Init: the first client starts the ingester.
FirstClientPlays(c) ==
  /\ Arrives(c)
  /\ state = "Init"
  /\ state' = "Play"
  /\ Thread!Start(c)
  /\ Goes(c, "out", IF c \in starting' THEN "starting" ELSE "accepted")
  /\ UNCHANGED <<at, conn, published, aborted>>

\* on_client_play in any other state changes nothing.
NextClientPlays(c) ==
  /\ Arrives(c)
  /\ state # "Init"
  /\ Goes(c, "out", "accepted")
  /\ UNCHANGED <<threadVars, state, at, conn, published, aborted>>

IngesterStarted(c) ==
  /\ Goes(c, "starting", "accepted")
  /\ Thread!StartReturns(c)
  /\ UNCHANGED <<state, at, conn, published, aborted, history>>

\* start_play(), the on_play hook or the play refer fails: the client returns
\* without ever having had a consumer.
Refused(c) ==
  /\ Goes(c, "accepted", "out")
  /\ UNCHANGED <<threadVars, state, at, conn, published, aborted, history>>

\* SrsSource::create_consumer.
Plays(c) ==
  /\ Goes(c, "accepted", "playing")
  /\ UNCHANGED <<threadVars, state, at, conn, published, aborted, history>>

\* ~SrsConsumer, others remain or the edge is in state Init: nothing to stop.
Leaves(c) ==
  /\ consumers # {c} \/ state = "Init"
  /\ Goes(c, "playing", "out")
  /\ UNCHANGED <<threadVars, state, at, conn, published, aborted, history>>

\* Mutant of StopIngester: the state stays.
StopIngesterInState(c, from) ==
  /\ conn' = NoTid
  /\ Goes(c, from, "out")
  /\ published' = FALSE
  /\ UNCHANGED <<at, aborted, state>>

\* The rest of SrsEdgeIngester::stop and of on_all_client_stop, once the call
\* of SrsThread::stop has returned: the socket is closed, the client freed, and
\* the source unpublished, which joins the forwarders if there are any.
StopIngester(c, from) ==
  /\ conn' = NoTid
  /\ UNCHANGED <<at, aborted>>
  /\ IF HasForwarders /\ published
       THEN Goes(c, from, "unpublishing") /\ UNCHANGED <<state, published>>
       ELSE Goes(c, from, "out") /\ state' = "Init" /\ published' = FALSE

\* Mutants of LastLeaves: the client is freed, or the state set, before the
\* thread is joined.
LastLeavesFreeingFirst(c) ==
  /\ consumers = {c}
  /\ state # "Init"
  /\ LastGoes
  /\ Thread!StopWaits(c)
  /\ Goes(c, "playing", "stopping")
  /\ conn' = NoTid
  /\ UNCHANGED <<state, at, published, aborted>>

LastLeavesInitFirst(c) ==
  /\ consumers = {c}
  /\ state # "Init"
  /\ LastGoes
  /\ Thread!StopWaits(c)
  /\ Goes(c, "playing", "stopping")
  /\ state' = "Init"
  /\ UNCHANGED <<at, conn, published, aborted>>

\* ~SrsConsumer of the last consumer, the edge is ingesting.
LastLeaves(c) ==
  /\ consumers = {c}
  /\ state # "Init"
  /\ LastGoes
  /\ \/ /\ Thread!StopWaits(c)
        /\ Goes(c, "playing", "stopping")
        /\ UNCHANGED <<state, at, conn, published, aborted>>
     \/ /\ Thread!StopUnjoined(c) \/ Thread!StopAgain(c)
        /\ StopIngester(c, "playing")

IngesterJoined(c) == Thread!JoinReturns(c) /\ StopIngester(c, "stopping") /\ UNCHANGED history

\* Mutant of Unpublished: the edge is not set back to Init.
UnpublishedInState(c) ==
  /\ Goes(c, "unpublishing", "out")
  /\ published' = FALSE
  /\ UNCHANGED <<threadVars, state, at, conn, aborted, history>>

\* destroy_forwarders() is through; SrsSource::on_unpublish ends, then the edge
\* goes back to Init.
Unpublished(c) ==
  /\ Goes(c, "unpublishing", "out")
  /\ state' = "Init"
  /\ published' = FALSE
  /\ UNCHANGED <<threadVars, at, conn, aborted, history>>

ClientStep(c) ==
  \/ FirstClientPlays(c) \/ NextClientPlays(c) \/ IngesterStarted(c)
  \/ Refused(c) \/ Plays(c) \/ Leaves(c)
  \/ LastLeaves(c) \/ IngesterJoined(c) \/ Unpublished(c)

------------------------------------------------------------------------------
(* The ingester *)

\* Mutant of Connects: cycle() is entered without the test of loop.
ConnectsAnyway(h) == Moves(h, "none", "connecting") /\ conn' = h

\* connect_server() closes the socket and frees the client of the last round,
\* whoever opened it, and opens new ones before it blocks.
Connects(h) ==
  IF loop THEN Moves(h, "none", "connecting") /\ conn' = h
          ELSE UNCHANGED <<at, conn>>

IngesterRuns(h) ==
  /\ Thread!ThreadRuns(h) \/ Thread!SleepEnds(h)
  /\ Connects(h)
  /\ UNCHANGED <<state, pc, published, aborted, history>>

\* An st_usleep() inside cycle() swallows a pending interrupt; a blocking socket
\* call fails on it, whatever else happened meanwhile.
Slept(h) == IF h \in intr THEN Thread!InterruptEaten(h) ELSE UNCHANGED threadVars
Returns(h) == IF h \in intr THEN Thread!CycleInterrupted(h) ELSE Thread!CycleReturns(h)

\* A socket call of cycle() fails, times out or is interrupted.
IoFails(h, from) == Returns(h) /\ Moves(h, from, "none")

ConnectFails(h) == IoFails(h, "connecting") /\ UNCHANGED <<state, pc, conn, published, aborted, history>>

\* on_ingest_play() and the head of ingest(): while (can_loop()) st_usleep(0).
\* on_ingest_play() asserts that the state is Play, or already IngestConnected.
EntersIngest(h, from) ==
  /\ aborted' = (aborted \/ state = "Init")
  /\ state' = "IngestConnected"
  /\ Moves(h, from, IF loop THEN "usleep" ELSE "none")

\* play() succeeded.  SrsSource::on_publish starts forwarders if there are any.
OriginPlays(h) ==
  /\ h \notin intr
  /\ published' = TRUE
  /\ UNCHANGED <<pc, conn, history>>
  /\ IF HasForwarders
       THEN Moves(h, "connecting", "publishing") /\ UNCHANGED <<state, aborted, threadVars>>
       ELSE /\ EntersIngest(h, "connecting")
            /\ IF loop THEN UNCHANGED threadVars ELSE Thread!CycleReturns(h)

\* SrsSource::on_publish fails (forward loop, hls, dvr) after it has cleared
\* _can_publish.
PublishFails(h) ==
  /\ h \notin intr
  /\ Moves(h, "connecting", "none")
  /\ Thread!CycleReturns(h)
  /\ published' = TRUE
  /\ UNCHANGED <<state, pc, conn, aborted, history>>

\* The forwarders are started (st_usleep in SrsThread::start).
ForwardersStarted(h) ==
  /\ EntersIngest(h, "publishing")
  /\ IF loop THEN Slept(h) ELSE Returns(h)
  /\ UNCHANGED <<pc, conn, published, history>>

\* A later forwarder, the hls or the dvr fails: on_publish() fails, and neither
\* on_ingest_play() nor ingest() is reached.
ForwarderFails(h) ==
  IoFails(h, "publishing") /\ UNCHANGED <<state, pc, conn, published, aborted, history>>

Receives(h) ==
  /\ Moves(h, "usleep", "recv")
  /\ Slept(h)
  /\ UNCHANGED <<state, pc, conn, published, aborted, history>>

\* A message is handed to the source, without a switch.
Ingests(h) ==
  /\ h \notin intr
  /\ Moves(h, "recv", IF loop THEN "usleep" ELSE "none")
  /\ IF loop THEN UNCHANGED threadVars ELSE Thread!CycleReturns(h)
  /\ UNCHANGED <<state, pc, conn, published, aborted, history>>

RecvFails(h) == IoFails(h, "recv") /\ UNCHANGED <<state, pc, conn, published, aborted, history>>

IngesterStep(h) ==
  \/ IngesterRuns(h) \/ ConnectFails(h) \/ OriginPlays(h) \/ PublishFails(h)
  \/ ForwardersStarted(h) \/ ForwarderFails(h) \/ Receives(h) \/ Ingests(h) \/ RecvFails(h)

Next == (\E c \in Client : ClientStep(c)) \/ (\E h \in Handle : IngesterStep(h))

Spec == Init /\ [][Next]_vars

\* Runnable coroutines run, and every blocking call of the ingester ends, since
\* each has a timeout.  Clients need not come, nor leave.
Fairness ==
  /\ \A c \in Client :
       WF_vars(IngesterStarted(c) \/ IngesterJoined(c) \/ Unpublished(c))
  /\ \A h \in Handle : WF_vars(IngesterStep(h))

FairSpec == Spec /\ Fairness

------------------------------------------------------------------------------
(* A client that came while the edge was not being stopped has an ingester that
   goes on pulling for it: the edge comes back to Init, or its thread is
   stopped, only "when all client stopped play". *)
PlayersKeepIngester ==
  ~overlapped /\ consumers \ late # {} => tid # NoTid /\ loop /\ th[tid] \in Thread!Live

(* Once nobody is stopping the edge any more, every client that plays has an
   ingester, however it came. *)
PlayersHaveIngester ==
  consumers # {} /\ ~Stopping => tid # NoTid /\ loop /\ th[tid] \in Thread!Live

(* on_ingest_play() is only reached in a state it asserts, Play or, when the
   ingester reconnected, IngestConnected, as long as one client at a time
   stops the edge. *)
IngestPlayAsserts == ~overlapped => ~aborted

(* The client object an ingester coroutine is working on inside cycle() has
   not been freed by SrsEdgeIngester::stop or by another coroutine's
   connect_server(). *)
IngesterOwnsItsClient == ~overlapped => \A h \in Handle : at[h] # "none" => conn = h

(* When the stops are over, however they overlapped, an edge that lost its
   ingester is back in Init, so that the next client starts a new one; and if
   they did not overlap, the source of an edge in Init is not left published:
   nobody would unpublish it. *)
StopResetsEdge ==
  ~Stopping =>
    /\ ~aborted /\ tid = NoTid => state = "Init"
    /\ ~overlapped /\ state = "Init" => ~published

(* Neither the edge nor a client stopping it ever holds a reaped st-thread. *)
HandlesValid == Thread!NoReapedHandle

(* A client that stays sees the ingester try the origin again and again. *)
PlayersAreServed ==
  \A c \in Client : pc[c] = "playing" /\ c \notin late ~>
    (pc[c] # "playing" \/ overlapped \/ \E h \in Handle : h = tid /\ at[h] # "none")
==============================================================================
