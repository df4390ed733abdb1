----------------------------- MODULE PublishEdge -----------------------------
(***************************************************************************)
(* Publishing on an edge server (app/srs_app_edge.cpp, SrsPublishEdge and  *)
(* SrsEdgeForwarder): the publisher's coroutine connects to the origin,    *)
(* then proxies its messages into a queue that a forwarder thread sends.   *)
(* Composes SrsThread with the publish branches of                         *)
(* SrsRtmpConn::stream_service_cycle for an edge vhost.                    *)
(***************************************************************************)
EXTENDS Naturals, FiniteSets

CONSTANTS
  Publisher,      \* encoders that publish the stream: each may come again
  Handle, NoTid,  \* as in SrsThread
  NoPublisher

ASSUME PublishEdgeAssumption == NoTid \notin Handle /\ NoPublisher \notin Publisher

VARIABLES
  tid, loop, named, th, intr, starting, joining, refused,  \* the forwarder's SrsThread
  state,      \* SrsPublishEdge::state
  pc,         \* where each publisher is
  at,         \* where each forwarder st-thread is inside cycle()
  conn,       \* publisher whose start() opened the current client, io and stfd
  queue,      \* publishers with messages in SrsEdgeForwarder::queue
  batch,      \* publishers with messages in the array cycle() is sending
  sendError,  \* send_error_code != ERROR_SUCCESS
  met         \* history: whether a publisher got in while another one was there

Thread == INSTANCE SrsThread WITH Owner <- Publisher

threadVars == <<tid, loop, named, th, intr, starting, joining, refused>>
queueVars == <<queue, batch, met>>
vars == <<threadVars, state, pc, at, conn, queueVars, sendError>>

TypeOK ==
  /\ Thread!TypeOK
  /\ state \in {"Init", "Publish"}
  /\ pc \in [Publisher -> {"out", "connecting", "starting", "started", "publishing", "stopping"}]
  /\ at \in [Handle -> {"none", "usleep", "errsleep", "recv", "send"}]
  /\ conn \in Publisher \cup {NoPublisher}
  /\ queue \subseteq Publisher
  /\ batch \in [Handle -> SUBSET Publisher]
  /\ sendError \in BOOLEAN
  /\ met \in BOOLEAN
  /\ \A h \in Handle : at[h] # "none" => th[h] = "cycle"
  /\ \A p \in Publisher : (pc[p] = "starting") = (p \in starting)
                       /\ (pc[p] = "stopping") = (joining[p] # NoTid)

Init ==
  /\ Thread!Init
  /\ state = "Init"
  /\ pc = [p \in Publisher |-> "out"]
  /\ at = [h \in Handle |-> "none"]
  /\ conn = NoPublisher
  /\ queue = {}
  /\ batch = [h \in Handle |-> {}]
  /\ sendError = FALSE
  /\ met = FALSE

Goes(p, from, to) == pc[p] = from /\ pc' = [pc EXCEPT ![p] = to]
Moves(h, from, to) == at[h] = from /\ at' = [at EXCEPT ![h] = to]

------------------------------------------------------------------------------
(* Publishers *)

\* on_client_publish in state Publish: ERROR_RTMP_EDGE_PUBLISH_STATE.
Rejected(p) == pc[p] = "out" /\ state # "Init" /\ UNCHANGED vars

\* on_client_publish in state Init, SrsEdgeForwarder::start: connect_server()
\* frees the client it finds and opens a new one, then blocks.
Connects(p) ==
  /\ met' = (met \/ \E q \in Publisher : pc[q] # "out")
  /\ state = "Init"
  /\ Goes(p, "out", "connecting")
  /\ sendError' = FALSE
  /\ conn' = p
  /\ UNCHANGED <<threadVars, state, at, queue, batch>>

\* A call to the origin fails: on_client_publish returns, the socket stays open.
ConnectFails(p) ==
  /\ Goes(p, "connecting", "out")
  /\ UNCHANGED <<threadVars, state, at, conn, queueVars, sendError>>

\* The origin accepted the stream: the forwarder thread is started, and the
\* state set when start() has returned.
Connected(p) ==
  /\ Thread!Start(p)
  /\ IF p \in starting'
       THEN Goes(p, "connecting", "starting") /\ UNCHANGED state
       ELSE Goes(p, "connecting", "started") /\ state' = "Publish"
  /\ UNCHANGED <<at, conn, queueVars, sendError>>

Started(p) ==
  /\ Thread!StartReturns(p)
  /\ Goes(p, "starting", "started")
  /\ state' = "Publish"
  /\ UNCHANGED <<at, conn, queueVars, sendError>>

\* start_fmle_publish(), start_flash_publish() or the on_publish hook fails:
\* stream_service_cycle returns without on_edge_proxy_unpublish().
ServiceFails(p) ==
  /\ Goes(p, "started", "out")
  /\ UNCHANGED <<threadVars, state, at, conn, queueVars, sendError>>

Publishes(p) ==
  /\ Goes(p, "started", "publishing")
  /\ UNCHANGED <<threadVars, state, at, conn, queueVars, sendError>>

\* Why a publisher leaves fmle_publish() or flash_publish(): the peer is gone,
\* unpublishes or is silent for too long, or Proxies fails.
\* A publisher the publish refer rejects leaves before its first message.
CanLeave(p) == pc[p] \in {"started", "publishing"}

\* The rest of SrsEdgeForwarder::stop and on_proxy_unpublish().
StopForwarder(p) ==
  /\ conn' = NoPublisher
  /\ state' = "Init"
  /\ pc' = [pc EXCEPT ![p] = "out"]
  /\ UNCHANGED <<at, queueVars, sendError>>

\* Mutant of Unpublishes: on_proxy_unpublish() does not stop the forwarder.
UnpublishesOnly(p) ==
  /\ CanLeave(p)
  /\ state = "Publish"
  /\ StopForwarder(p)
  /\ UNCHANGED threadVars

\* on_proxy_unpublish in state Publish stops the forwarder.
Unpublishes(p) ==
  /\ CanLeave(p)
  /\ state = "Publish"
  /\ \/ /\ Thread!StopWaits(p)
        /\ pc' = [pc EXCEPT ![p] = "stopping"]
        /\ UNCHANGED <<state, at, conn, queueVars, sendError>>
     \/ /\ Thread!StopUnjoined(p) \/ Thread!StopAgain(p)
        /\ StopForwarder(p)

\* on_proxy_unpublish in state Init only sets it again.
UnpublishesInit(p) ==
  /\ CanLeave(p)
  /\ state = "Init"
  /\ pc' = [pc EXCEPT ![p] = "out"]
  /\ UNCHANGED <<threadVars, state, at, conn, queueVars, sendError>>

\* Mutant of Proxies: proxy() does not look at send_error_code.
ProxiesAnyway(p) ==
  /\ pc[p] = "publishing"
  /\ queue' = queue \cup {p}
  /\ UNCHANGED <<threadVars, state, pc, at, conn, batch, met, sendError>>

\* SrsEdgeForwarder::proxy: a message with a payload is queued.  After an error of
\* the forwarder proxy() returns it, and the publisher unpublishes at once.
Proxies(p) ==
  /\ pc[p] = "publishing"
  /\ \/ /\ ~sendError
        /\ queue' = queue \cup {p}
        /\ UNCHANGED <<threadVars, state, pc, at, conn, batch, met, sendError>>
     \/ sendError /\ (Unpublishes(p) \/ UnpublishesInit(p))

ForwarderJoined(p) ==
  /\ pc[p] = "stopping"
  /\ Thread!JoinReturns(p)
  /\ StopForwarder(p)

PublisherStep(p) ==
  \/ Rejected(p) \/ Connects(p) \/ ConnectFails(p) \/ Connected(p) \/ Started(p)
  \/ ServiceFails(p) \/ Publishes(p) \/ Proxies(p)
  \/ Unpublishes(p) \/ UnpublishesInit(p) \/ ForwarderJoined(p)

------------------------------------------------------------------------------
(* The forwarder thread *)

Slept(h) == IF h \in intr THEN Thread!InterruptEaten(h) ELSE UNCHANGED threadVars
Returns(h) == IF h \in intr THEN Thread!CycleInterrupted(h) ELSE Thread!CycleReturns(h)

\* Mutant of LoopTest: the loop does not ask can_loop().
LoopTestForever(h, from) == Moves(h, from, "usleep") /\ Slept(h)

\* while (can_loop()) { st_usleep(0); ... }, reached from the place named by from.
LoopTest(h, from) ==
  /\ Moves(h, from, IF loop THEN "usleep" ELSE "none")
  /\ IF loop THEN Slept(h) ELSE Returns(h)

\* Mutant of ForwarderRuns: cycle() is entered without the test of loop.
ForwarderRunsAnyway(h) ==
  /\ Thread!ThreadRuns(h) \/ Thread!SleepEnds(h)
  /\ Moves(h, "none", "usleep")
  /\ UNCHANGED <<state, pc, conn, queueVars, sendError>>

ForwarderRuns(h) ==
  /\ Thread!ThreadRuns(h) \/ Thread!SleepEnds(h)
  /\ IF loop THEN Moves(h, "none", "usleep") ELSE UNCHANGED at
  /\ UNCHANGED <<state, pc, conn, queueVars, sendError>>

\* After an error the thread only waits to be stopped.
WaitsForQuit(h) ==
  /\ sendError
  /\ Moves(h, "usleep", "errsleep")
  /\ Slept(h)
  /\ UNCHANGED <<state, pc, conn, queueVars, sendError>>

WaitedForQuit(h) == LoopTest(h, "errsleep") /\ UNCHANGED <<state, pc, conn, queueVars, sendError>>

Receives(h) ==
  /\ ~sendError
  /\ Moves(h, "usleep", "recv")
  /\ Slept(h)
  /\ UNCHANGED <<state, pc, conn, queueVars, sendError>>

\* recv_message() fails with anything but a timeout, an interrupt included.
RecvFails(h) ==
  /\ sendError' = TRUE
  /\ LoopTest(h, "recv")
  /\ UNCHANGED <<state, pc, conn, queueVars>>

\* A message of the origin is dropped, or the pulse timeout is over; there is
\* nothing to forward.
NothingToForward(h) ==
  /\ h \notin intr
  /\ queue = {}
  /\ LoopTest(h, "recv")
  /\ UNCHANGED <<state, pc, conn, queueVars, sendError>>

\* All queued messages are taken at once, then sent one by one.
Takes(h) ==
  /\ h \notin intr
  /\ queue # {}
  /\ Moves(h, "recv", "send")
  /\ batch' = [batch EXCEPT ![h] = queue]
  /\ queue' = {}
  /\ UNCHANGED <<threadVars, state, pc, conn, met, sendError>>

Sent(h) ==
  /\ h \notin intr
  /\ LoopTest(h, "send")
  /\ batch' = [batch EXCEPT ![h] = {}]
  /\ UNCHANGED <<state, pc, conn, queue, met, sendError>>

\* A send fails: cycle() returns the error, which thread_cycle() ignores, and
\* send_error_code stays as it is; the rest of the array is freed.
SendFails(h) ==
  /\ Moves(h, "send", "none")
  /\ Returns(h)
  /\ batch' = [batch EXCEPT ![h] = {}]
  /\ UNCHANGED <<state, pc, conn, queue, met, sendError>>

ForwarderStep(h) ==
  \/ ForwarderRuns(h) \/ WaitsForQuit(h) \/ WaitedForQuit(h) \/ Receives(h)
  \/ RecvFails(h) \/ NothingToForward(h) \/ Takes(h) \/ Sent(h) \/ SendFails(h)

Next == (\E p \in Publisher : PublisherStep(p)) \/ (\E h \in Handle : ForwarderStep(h))

Spec == Init /\ [][Next]_vars

\* Every blocking call has a timeout, and a publisher goes on sending or leaves,
\* after the receive timeout at the latest; the thread runs whenever it can.
Fairness ==
  /\ \A p \in Publisher :
       /\ WF_vars(ConnectFails(p) \/ Connected(p))
       /\ WF_vars(Started(p) \/ ForwarderJoined(p))
       /\ WF_vars(Proxies(p))
  /\ \A h \in Handle : WF_vars(ForwarderStep(h))

FairSpec == Spec /\ Fairness

------------------------------------------------------------------------------
\* Coroutines that are inside a call on the current client.
fdUsers == {p \in Publisher : pc[p] = "connecting"} \cup
           {h \in Handle : at[h] \in {"recv", "send"}}

(* As long as publishers come one at a time, "we must ensure one thread one fd
   principle, that is, a fd must be write/read by the one thread". *)
OneThreadOneFd == ~met => Cardinality(fdUsers) <= 1

(* The same of publishers that may meet. The code does not keep it (README.md): two
   that are inside start() together both use the client that the later one opened. *)
FdHasOneUser == Cardinality(fdUsers) <= 1

(* The forwarder only runs for an edge in state Publish, or on its way there
   or back: an edge in Init has no forwarder left over. *)
InitHasNoForwarder ==
  (~met /\ state = "Init" /\ \A p \in Publisher : pc[p] \notin {"starting", "stopping"})
    => Thread!LiveThreads = {}

(* An edge without a publisher accepts the next one. *)
EdgeIsReleased == (\A p \in Publisher : pc[p] = "out") => state = "Init"

(* Once the forwarder has reported an error, the publisher is turned away. *)
ErrorEndsPublish ==
  \A p \in Publisher : (sendError /\ pc[p] = "publishing") ~> (pc[p] # "publishing" \/ met)

(* Nothing is done to the handle of a forwarder thread that was reaped, even
   when several publishers stop the forwarder at once. *)
HandlesValid == Thread!NoReapedHandle

(* A publisher gets out of SrsEdgeForwarder::start(), even when another one
   stops the thread it waits for, and out of SrsEdgeForwarder::stop(), unless
   another one starts the thread again under it. *)
CallsFinish ==
  \A p \in Publisher :
    /\ pc[p] = "starting" ~> pc[p] # "starting"
    /\ pc[p] = "stopping" ~> (pc[p] = "out" \/ refused)
==============================================================================
