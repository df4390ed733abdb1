---------------------------- MODULE PlayEdge_proofs ----------------------------
(***************************************************************************)
(* What TLAPS proves of PlayEdge, for any number of clients and handles:   *)
(* the edge drives its ingester's SrsThread by its calls only, so that the *)
(* theorems of SrsThread hold here too; on them rest the invariants that   *)
(* relate the clients, the state of the edge and the ingester.             *)
(***************************************************************************)
EXTENDS PlayEdge, TLAPS

ThreadTheorems == INSTANCE SrsThread_proofs WITH Owner <- Client

LEMMA ClientKeepsThread ==
  ASSUME NEW c \in Client, ClientStep(c) PROVE [Thread!Next]_Thread!vars
<1> USE DEF Thread!vars, Thread!Next, Thread!OwnerStep, Thread!Start, Thread!Stop
<1>1. CASE FirstClientPlays(c)
  BY <1>1 DEF FirstClientPlays
<1>2. CASE NextClientPlays(c) \/ Refused(c) \/ Plays(c) \/ Leaves(c) \/ Unpublished(c)
  BY <1>2 DEF NextClientPlays, Refused, Plays, Leaves, Unpublished, threadVars
<1>3. CASE IngesterStarted(c)
  BY <1>3 DEF IngesterStarted
<1>4. CASE LastLeaves(c)
  BY <1>4 DEF LastLeaves
<1>5. CASE IngesterJoined(c)
  BY <1>5 DEF IngesterJoined
<1> QED
  BY <1>1, <1>2, <1>3, <1>4, <1>5 DEF ClientStep

LEMMA IngesterKeepsThread ==
  ASSUME NEW h \in Handle, IngesterStep(h) PROVE [Thread!Next]_Thread!vars
<1> USE DEF Thread!vars, Thread!Next, Thread!ThreadStep, threadVars
<1>1. ASSUME Slept(h) PROVE [Thread!Next]_Thread!vars
  BY <1>1 DEF Slept
<1>2. ASSUME Returns(h) PROVE [Thread!Next]_Thread!vars
  BY <1>2 DEF Returns
<1>3. CASE IngesterRuns(h)
  BY <1>3 DEF IngesterRuns
<1>4. CASE ConnectFails(h) \/ ForwarderFails(h) \/ RecvFails(h)
  BY <1>2, <1>4 DEF ConnectFails, ForwarderFails, RecvFails, IoFails
<1>5. CASE OriginPlays(h) \/ PublishFails(h) \/ Ingests(h)
  BY <1>5 DEF OriginPlays, PublishFails, Ingests
<1>6. CASE ForwardersStarted(h) \/ Receives(h)
  BY <1>1, <1>2, <1>6 DEF ForwardersStarted, Receives
<1> QED
  BY <1>3, <1>4, <1>5, <1>6 DEF IngesterStep

(* The edge drives its ingester's SrsThread by that object's own calls only:
   each step of the edge is one of SrsThread's or does not touch it. *)
THEOREM RefinesThread == Spec => Thread!Spec
<1>1. Init => Thread!Init
  BY DEF Init
<1>2. [Next]_vars => [Thread!Next]_Thread!vars
  <2>1. CASE UNCHANGED vars
    BY <2>1 DEF vars, threadVars, Thread!vars
  <2> QED
    BY <2>1, ClientKeepsThread, IngesterKeepsThread DEF Next
<1> QED
  BY <1>1, <1>2, PTL DEF Spec, Thread!Spec

\* What the invariants below take from the thread: until a join is refused, it is
\* one, it is held, and it runs on while nobody joins it.
ThreadFacts ==
  /\ Thread!TypeOK
  /\ ~refused => /\ Thread!OneThread /\ Thread!QuietWhenStopped
                 /\ tid # NoTid /\ ~Thread!Joined(tid) => loop /\ th[tid] \in Thread!Live

\* The two instances of SrsThread, the one of the edge and the one its theorems
\* are about, are the same.
LEMMA SameThread ==
  /\ Thread!Init => ThreadTheorems!Init
  /\ [Thread!Next]_Thread!vars => [ThreadTheorems!Next]_ThreadTheorems!vars
  /\ ThreadTheorems!NoReapedHandle => Thread!NoReapedHandle
  /\ ThreadTheorems!JoinInv => ThreadFacts
<1>1. Thread!Init => ThreadTheorems!Init
  BY DEF Thread!Init, ThreadTheorems!Init
<1>2. [Thread!Next]_Thread!vars => [ThreadTheorems!Next]_ThreadTheorems!vars
  BY DEF
    Thread!vars, ThreadTheorems!vars, Thread!objectVars, ThreadTheorems!objectVars,
    Thread!ownerVars, ThreadTheorems!ownerVars, Thread!Next, ThreadTheorems!Next,
    Thread!OwnerStep, ThreadTheorems!OwnerStep, Thread!ThreadStep,
    ThreadTheorems!ThreadStep, Thread!Start, ThreadTheorems!Start,
    Thread!StartAgain, ThreadTheorems!StartAgain, Thread!CreateThread,
    ThreadTheorems!CreateThread, Thread!StartReturns, ThreadTheorems!StartReturns,
    Thread!Stop, ThreadTheorems!Stop, Thread!StopAgain, ThreadTheorems!StopAgain,
    Thread!StopWaits, ThreadTheorems!StopWaits, Thread!StopUnjoined,
    ThreadTheorems!StopUnjoined, Thread!AskToStop, ThreadTheorems!AskToStop,
    Thread!JoinReturns, ThreadTheorems!JoinReturns, Thread!Joined,
    ThreadTheorems!Joined, Thread!Idle, ThreadTheorems!Idle, Thread!NextRound,
    ThreadTheorems!NextRound, Thread!EndCycle, ThreadTheorems!EndCycle,
    Thread!ThreadRuns, ThreadTheorems!ThreadRuns, Thread!CycleReturns,
    ThreadTheorems!CycleReturns, Thread!CycleInterrupted,
    ThreadTheorems!CycleInterrupted, Thread!InterruptEaten,
    ThreadTheorems!InterruptEaten, Thread!SleepEnds, ThreadTheorems!SleepEnds
<1>3. ThreadTheorems!NoReapedHandle => Thread!NoReapedHandle
  BY DEF Thread!NoReapedHandle, ThreadTheorems!NoReapedHandle
<1>4. ThreadTheorems!JoinInv => Thread!TypeOK
  BY DEF ThreadTheorems!JoinInv, ThreadTheorems!TypeOK, Thread!TypeOK,
         ThreadTheorems!State, Thread!State, ThreadTheorems!Live, Thread!Live
<1>5. ASSUME ThreadTheorems!JoinInv, ~refused
      PROVE  /\ Thread!OneThread /\ Thread!QuietWhenStopped
             /\ tid # NoTid /\ ~Thread!Joined(tid) => loop /\ th[tid] \in Thread!Live
  <2>1. ThreadTheorems!OneThreadInv /\ Thread!TypeOK
    BY <1>4, <1>5 DEF ThreadTheorems!JoinInv
  <2>2. Thread!OneThread /\ Thread!QuietWhenStopped
    BY <2>1, PlayEdgeAssumption
       DEF ThreadTheorems!OneThreadInv, Thread!OneThread, Thread!QuietWhenStopped,
           Thread!LiveThreads, Thread!Live
  <2>3. tid # NoTid /\ ~Thread!Joined(tid) => loop /\ th[tid] \in Thread!Live
    BY <2>1 DEF ThreadTheorems!OneThreadInv, Thread!TypeOK, Thread!State, Thread!Live,
                Thread!Joined, ThreadTheorems!Joined
  <2> QED
    BY <2>2, <2>3
<1> QED
  BY <1>1, <1>2, <1>3, <1>4, <1>5 DEF ThreadFacts

(* Neither the edge nor a client stopping it ever holds a reaped st-thread,
   however the clients' stops overlap. *)
THEOREM IngesterHandlesValid == Spec => []HandlesValid
<1>1. ThreadTheorems!Spec => []ThreadTheorems!NoReapedHandle
  BY PlayEdgeAssumption, ThreadTheorems!HandlesStayValid
<1>2. Thread!Spec => ThreadTheorems!Spec
  BY SameThread, PTL DEF Thread!Spec, ThreadTheorems!Spec
<1> QED
  BY <1>1, <1>2, SameThread, RefinesThread, PTL DEF HandlesValid

LEMMA ThreadFactsHold == Spec => []ThreadFacts
<1>1. ThreadTheorems!Spec => []ThreadTheorems!JoinInv
  BY PlayEdgeAssumption, ThreadTheorems!JoinInvariance
<1>2. Thread!Spec => ThreadTheorems!Spec
  BY SameThread, PTL DEF Thread!Spec, ThreadTheorems!Spec
<1> QED
  BY <1>1, <1>2, SameThread, RefinesThread, PTL DEF ThreadFacts

------------------------------------------------------------------------------
\* A call of start() or stop() moves its caller in and out of the two wait loops
\* and nobody else, and no st-thread in or out of cycle().
LEMMA OwnerStepFrame ==
  ASSUME TypeOK, NEW c \in Client, Thread!OwnerStep(c)
  PROVE  /\ \A d \in Client : d # c => /\ (d \in starting') = (d \in starting)
                                          /\ joining'[d] = joining[d]
         /\ \A h \in Handle : (th[h] = "cycle") => (th'[h] = "cycle")
<1> USE PlayEdgeAssumption DEF TypeOK, Thread!TypeOK
<1>1. CASE Thread!StartAgain(c) \/ Thread!StopAgain(c)
  BY <1>1 DEF Thread!StartAgain, Thread!StopAgain, Thread!vars
<1>2. ASSUME NEW h \in Handle, Thread!CreateThread(c, h)
      PROVE  /\ \A d \in Client : d # c => /\ (d \in starting') = (d \in starting)
                                              /\ joining'[d] = joining[d]
             /\ \A g \in Handle : (th[g] = "cycle") => (th'[g] = "cycle")
  BY <1>2 DEF Thread!CreateThread
<1>3. CASE Thread!StartReturns(c)
  BY <1>3 DEF Thread!StartReturns
<1>4. CASE Thread!StopWaits(c) \/ Thread!StopUnjoined(c)
  BY <1>4 DEF Thread!StopWaits, Thread!StopUnjoined, Thread!AskToStop
<1>5. CASE Thread!JoinReturns(c)
  BY <1>5 DEF Thread!JoinReturns
<1> QED
  BY <1>1, <1>2, <1>3, <1>4, <1>5 DEF Thread!OwnerStep, Thread!Start, Thread!Stop

\* Where a call leaves its caller.
LEMMA CallerMoves ==
  ASSUME TypeOK, NEW c \in Client
  PROVE  /\ Thread!Start(c) \/ Thread!StopAgain(c) \/ Thread!StopUnjoined(c)
              => c \notin starting /\ joining[c] = NoTid /\ joining'[c] = NoTid
         /\ Thread!StopAgain(c) \/ Thread!StopUnjoined(c) => c \notin starting'
         /\ Thread!StartReturns(c) => c \notin starting' /\ joining' = joining
         /\ Thread!StopWaits(c) => joining'[c] # NoTid /\ c \notin starting'
         /\ Thread!JoinReturns(c) => joining'[c] = NoTid /\ starting' = starting
                                     /\ joining[c] # NoTid
<1> USE PlayEdgeAssumption DEF TypeOK, Thread!TypeOK, Thread!Idle
<1>1. Thread!StartAgain(c) \/ Thread!StopAgain(c)
        => c \notin starting /\ joining[c] = NoTid /\ joining' = joining /\ starting' = starting
  BY DEF Thread!StartAgain, Thread!StopAgain, Thread!vars
<1>2. ASSUME NEW h \in Handle, Thread!CreateThread(c, h)
      PROVE  c \notin starting /\ joining[c] = NoTid /\ joining' = joining
  BY <1>2 DEF Thread!CreateThread
<1>3. Thread!StopUnjoined(c)
        => c \notin starting /\ joining[c] = NoTid /\ joining' = joining /\ starting' = starting
  BY DEF Thread!StopUnjoined, Thread!AskToStop
<1>4. Thread!StartReturns(c) => c \notin starting' /\ joining' = joining
  BY DEF Thread!StartReturns
<1>5. Thread!StopWaits(c) => joining'[c] # NoTid /\ c \notin starting'
  BY DEF Thread!StopWaits, Thread!AskToStop
<1>6. Thread!JoinReturns(c) => joining'[c] = NoTid /\ starting' = starting /\ joining[c] # NoTid
  BY DEF Thread!JoinReturns
<1> QED
  BY <1>1, <1>2, <1>3, <1>4, <1>5, <1>6 DEF Thread!Start

\* What a step of the ingester changes: where its own st-thread is, which stays in
\* handler->cycle() until it is at no place of it; it takes the client object when
\* it enters cycle(), and the state to IngestConnected, never from Init unnoticed.
LEMMA IngesterStepFrame ==
  ASSUME TypeOK, NEW h \in Handle, IngesterStep(h)
  PROVE  /\ UNCHANGED <<tid, loop, starting, joining, refused, pc, late, overlapped>>
         /\ \A g \in Handle : g # h => at'[g] = at[g] /\ th'[g] = th[g]
         /\ at'[h] # "none" => th'[h] = "cycle"
         /\ at' \in [Handle -> {"none", "connecting", "publishing", "usleep", "recv"}]
         /\ th[h] \in Thread!Live
         /\ conn' = conn \/ conn' = h
         /\ at'[h] # "none" => conn' = h \/ (at[h] # "none" /\ conn' = conn)
         /\ \/ state' = state /\ aborted' = aborted
            \/ state # "Init" /\ state' = "IngestConnected" /\ aborted' = aborted
            \/ state = "Init" /\ state' = "IngestConnected" /\ aborted' = TRUE
         /\ state' \in {"Init", "Play", "IngestConnected"}
         /\ aborted' \in BOOLEAN
         /\ published' = published \/ (at[h] # "none" /\ published' = TRUE)
<1> DEFINE Same == UNCHANGED <<tid, loop, starting, joining, refused>>
           Others == \A g \in Handle : g # h => th'[g] = th[g]
           Place == at' \in [Handle -> {"none", "connecting", "publishing", "usleep", "recv"}]
                    /\ (\A g \in Handle : g # h => at'[g] = at[g])
                    /\ (at'[h] # "none" => th'[h] = "cycle")
           Marks == \/ state' = state /\ aborted' = aborted
                    \/ state # "Init" /\ state' = "IngestConnected" /\ aborted' = aborted
                    \/ state = "Init" /\ state' = "IngestConnected" /\ aborted' = TRUE
           Alive == th[h] \in Thread!Live
<1> USE DEF TypeOK, Thread!TypeOK, Thread!objectVars, Thread!ownerVars, threadVars, history,
            Thread!Live
<1>1. ASSUME Slept(h) PROVE Same /\ th' = th
  BY <1>1 DEF Slept, Thread!InterruptEaten
<1>2. ASSUME Returns(h) PROVE Same /\ Others /\ Alive
  BY <1>2 DEF Returns, Thread!CycleInterrupted, Thread!CycleReturns, Thread!EndCycle
<1>3. ASSUME NEW from \in {"connecting", "publishing", "recv"}, IoFails(h, from)
      PROVE  Same /\ Others /\ Alive /\ Place
  <2>1. Same /\ Others /\ Alive
    BY <1>2, <1>3 DEF IoFails
  <2> QED
    BY <1>3, <2>1 DEF IoFails, Moves
<1>4. CASE IngesterRuns(h)
  <2>1. Same /\ Others /\ Alive /\ th[h] # "cycle" /\ (loop => th'[h] = "cycle")
    BY <1>4 DEF IngesterRuns, Thread!ThreadRuns, Thread!SleepEnds, Thread!NextRound
  <2>2. Place /\ (conn' = conn \/ conn' = h) /\ (at'[h] # "none" => conn' = h)
    <3>1. at[h] = "none"
      BY <2>1
    <3> QED
      BY <1>4, <2>1, <3>1 DEF IngesterRuns, Connects, Moves
  <2>3. UNCHANGED <<state, pc, published, aborted, late, overlapped>>
    BY <1>4 DEF IngesterRuns
  <2> QED
    BY <2>1, <2>2, <2>3
<1>5. CASE ConnectFails(h) \/ ForwarderFails(h) \/ RecvFails(h)
  <2>1. UNCHANGED <<state, pc, conn, published, aborted, late, overlapped>>
    BY <1>5 DEF ConnectFails, ForwarderFails, RecvFails
  <2>2. Same /\ Others /\ Alive /\ Place /\ at[h] # "none"
    BY <1>3, <1>5 DEF ConnectFails, ForwarderFails, RecvFails, IoFails, Moves
  <2> QED
    BY <2>1, <2>2
<1>6. ASSUME NEW from \in {"connecting", "publishing"}, EntersIngest(h, from)
      PROVE  Marks
  BY <1>6 DEF EntersIngest
<1>7. CASE OriginPlays(h)
  <2>1. UNCHANGED <<pc, conn, late, overlapped>> /\ published' = TRUE /\ at[h] # "none"
    BY <1>7 DEF OriginPlays, EntersIngest, Moves
  <2>2. CASE HasForwarders
    BY <1>7, <2>1, <2>2 DEF OriginPlays, Moves
  <2>3. CASE ~HasForwarders
    <3>1. Marks
      BY <1>6, <1>7, <2>3 DEF OriginPlays
    <3>2. Same /\ Others /\ Alive
      BY <1>7, <2>1, <2>3 DEF OriginPlays, Thread!CycleReturns, Thread!EndCycle
    <3>3. Place
      BY <1>7, <2>3, <3>2 DEF OriginPlays, EntersIngest, Moves
    <3> QED
      BY <2>1, <3>1, <3>2, <3>3
  <2> QED
    BY <2>2, <2>3
<1>8. CASE PublishFails(h)
  <2>1. Same /\ Others /\ Alive
    BY <1>8 DEF PublishFails, Thread!CycleReturns, Thread!EndCycle
  <2>2. Place /\ at[h] # "none"
    BY <1>8 DEF PublishFails, Moves
  <2> QED
    BY <1>8, <2>1, <2>2 DEF PublishFails
<1>9. CASE ForwardersStarted(h)
  <2>1. Marks
    BY <1>6, <1>9 DEF ForwardersStarted
  <2>2. Same /\ Others /\ Alive
    BY <1>1, <1>2, <1>9 DEF ForwardersStarted, EntersIngest, Moves
  <2>3. Place /\ at[h] # "none"
    BY <1>1, <1>2, <1>9 DEF ForwardersStarted, EntersIngest, Moves
  <2>4. UNCHANGED <<pc, conn, published, late, overlapped>>
    BY <1>9 DEF ForwardersStarted
  <2> QED
    BY <2>1, <2>2, <2>3, <2>4
<1>10. CASE Receives(h)
  <2>1. Same /\ Others /\ Alive /\ Place /\ at[h] # "none"
    BY <1>1, <1>10 DEF Receives, Moves
  <2> QED
    BY <1>10, <2>1 DEF Receives
<1>11. CASE Ingests(h)
  <2>1. Same /\ Others /\ Alive
    BY <1>11 DEF Ingests, Moves, Thread!CycleReturns, Thread!EndCycle
  <2>2. Place /\ at[h] # "none"
    BY <1>11, <2>1 DEF Ingests, Moves
  <2> QED
    BY <1>11, <2>1, <2>2 DEF Ingests
<1> QED
  BY <1>4, <1>5, <1>7, <1>8, <1>9, <1>10, <1>11 DEF IngesterStep

LEMMA TypeStep == TypeOK /\ Thread!TypeOK' /\ [Next]_vars => TypeOK'
<1> SUFFICES ASSUME TypeOK, Thread!TypeOK', [Next]_vars PROVE TypeOK'
  OBVIOUS
<1> USE PlayEdgeAssumption
<1> DEFINE Waits == \A c \in Client : (pc[c] = "starting") = (c \in starting)
                                   /\ (pc[c] = "stopping") = (joining[c] # NoTid)
           InCycle == \A h \in Handle : at[h] # "none" => th[h] = "cycle"
           Places == {"out", "starting", "accepted", "playing", "stopping", "unpublishing"}
           History == late' \subseteq Client /\ overlapped' \in BOOLEAN
<1>1. ASSUME NEW c \in Client, ClientStep(c) PROVE TypeOK'
  <2> USE DEF Goes, Thread!OwnerStep, Thread!Stop
  <2>1. History
    BY <1>1 DEF ClientStep, FirstClientPlays, NextClientPlays, IngesterStarted, Refused, Plays,
                Leaves, LastLeaves, IngesterJoined, Unpublished, Arrives, LastGoes, history, TypeOK
  <2>2. CASE FirstClientPlays(c)
    <3>1. Thread!OwnerStep(c)
      BY <2>2 DEF FirstClientPlays
    <3>2. InCycle'
      BY <2>2, <3>1, OwnerStepFrame DEF FirstClientPlays, TypeOK
    <3>3. Waits'
      BY <2>2, <3>1, OwnerStepFrame, CallerMoves DEF FirstClientPlays, TypeOK
    <3> QED
      BY <2>1, <2>2, <3>2, <3>3 DEF FirstClientPlays, TypeOK
  <2>3. CASE NextClientPlays(c) \/ Refused(c) \/ Plays(c) \/ Leaves(c) \/ Unpublished(c)
    <3>1. UNCHANGED <<threadVars, at, conn, aborted>> /\ published' \in BOOLEAN
          /\ state' \in {"Init", "Play", "IngestConnected"}
      BY <2>3 DEF NextClientPlays, Refused, Plays, Leaves, Unpublished, TypeOK
    <3>2. pc[c] \in {"out", "accepted", "playing", "unpublishing"}
          /\ \E to \in {"out", "accepted", "playing"} : pc' = [pc EXCEPT ![c] = to]
      BY <2>3 DEF NextClientPlays, Refused, Plays, Leaves, Unpublished
    <3>3. Waits' /\ InCycle' /\ pc' \in [Client -> Places]
      BY <3>1, <3>2 DEF threadVars, TypeOK
    <3> QED
      BY <2>1, <3>1, <3>3 DEF threadVars, TypeOK
  <2>4. CASE IngesterStarted(c)
    <3>1. Thread!OwnerStep(c)
      BY <2>4 DEF IngesterStarted
    <3>2. InCycle'
      BY <2>4, <3>1, OwnerStepFrame DEF IngesterStarted, TypeOK
    <3>3. Waits'
      BY <2>4, <3>1, OwnerStepFrame, CallerMoves DEF IngesterStarted, TypeOK
    <3> QED
      BY <2>1, <2>4, <3>2, <3>3 DEF IngesterStarted, TypeOK
  <2>5. CASE LastLeaves(c)
    <3>1. Thread!OwnerStep(c)
      BY <2>5 DEF LastLeaves
    <3>2. InCycle'
      BY <2>5, <3>1, OwnerStepFrame DEF LastLeaves, StopIngester, TypeOK
    <3>3. Waits'
      BY <2>5, <3>1, OwnerStepFrame, CallerMoves DEF LastLeaves, StopIngester, TypeOK
    <3> QED
      BY <2>1, <2>5, <3>2, <3>3 DEF LastLeaves, StopIngester, TypeOK
  <2>6. CASE IngesterJoined(c)
    <3>1. Thread!OwnerStep(c)
      BY <2>6 DEF IngesterJoined
    <3>2. InCycle'
      BY <2>6, <3>1, OwnerStepFrame DEF IngesterJoined, StopIngester, TypeOK
    <3>3. Waits'
      BY <2>6, <3>1, OwnerStepFrame, CallerMoves DEF IngesterJoined, StopIngester, TypeOK
    <3> QED
      BY <2>1, <2>6, <3>2, <3>3 DEF IngesterJoined, StopIngester, TypeOK
  <2> QED
    BY <1>1, <2>2, <2>3, <2>4, <2>5, <2>6 DEF ClientStep
<1>2. ASSUME NEW h \in Handle, IngesterStep(h) PROVE TypeOK'
  <2>1. UNCHANGED <<pc, starting, joining, late, overlapped>> /\ InCycle'
    BY <1>2, IngesterStepFrame DEF TypeOK
  <2>2. /\ at' \in [Handle -> {"none", "connecting", "publishing", "usleep", "recv"}]
        /\ state' \in {"Init", "Play", "IngestConnected"}
        /\ conn' \in Handle \cup {NoTid}
    BY <1>2, IngesterStepFrame DEF TypeOK
  <2>3. aborted' \in BOOLEAN /\ published' \in BOOLEAN
    BY <1>2, IngesterStepFrame DEF TypeOK
  <2> QED
    BY <2>1, <2>2, <2>3 DEF TypeOK
<1>3. CASE UNCHANGED vars
  BY <1>3 DEF vars, threadVars, history, TypeOK, Thread!TypeOK
<1> QED
  BY <1>1, <1>2, <1>3 DEF Next

(* Every variable keeps its type, an st-thread is at a place of cycle() only
   while it is in it, and a client is in the wait loop of start() or the join of
   stop() exactly when its own call is there. *)
THEOREM TypeCorrect == Spec => []TypeOK
<1>1. Init => TypeOK
  <2>1. Init => Thread!TypeOK
    BY DEF Init, Thread!Init, Thread!TypeOK, Thread!State, Thread!Live
  <2>2. Init => \A c \in Client : (pc[c] = "starting") = (c \in starting)
                               /\ (pc[c] = "stopping") = (joining[c] # NoTid)
    BY DEF Init, Thread!Init
  <2> QED
    BY <2>1, <2>2 DEF Init, TypeOK
<1>2. TypeOK /\ ThreadFacts' /\ [Next]_vars => TypeOK'
  BY TypeStep DEF ThreadFacts
<1> QED
  BY <1>1, <1>2, ThreadFactsHold, PTL DEF Spec

------------------------------------------------------------------------------
\* However the stops overlap, an edge in another state than Init holds its
\* ingester or is being stopped, unless an assertion failed.
LostIsReset == ~aborted /\ state # "Init" => tid # NoTid \/ Stopping

StepFacts == TypeOK /\ TypeOK' /\ ThreadFacts /\ ThreadFacts'

\* A client that comes, stays or goes as a player moves from one place to another
\* that is no place of on_all_client_stop().
LEMMA ClientMoves ==
  ASSUME TypeOK, NEW c \in Client,
         NextClientPlays(c) \/ Refused(c) \/ Plays(c) \/ Leaves(c) \/ IngesterStarted(c)
  PROVE  /\ UNCHANGED <<tid, refused, state, at, conn, published, aborted, overlapped>>
         /\ pc[c] \in {"out", "starting", "accepted", "playing"}
         /\ \E to \in {"out", "accepted", "playing"} : pc' = [pc EXCEPT ![c] = to]
         /\ Stopping' = Stopping
<1>1. /\ UNCHANGED <<tid, refused, state, at, conn, published, aborted, overlapped>>
      /\ pc[c] \in {"out", "starting", "accepted", "playing"}
      /\ \E to \in {"out", "accepted", "playing"} : pc' = [pc EXCEPT ![c] = to]
  BY DEF NextClientPlays, Refused, Plays, Leaves, IngesterStarted, Goes, Arrives, history,
         threadVars, Thread!StartReturns, Thread!objectVars
<1>2. \A d \in Client : (pc'[d] \in {"stopping", "unpublishing"})
                           <=> (pc[d] \in {"stopping", "unpublishing"})
  BY <1>1 DEF TypeOK
<1> QED
  BY <1>1, <1>2 DEF Stopping

\* The first client of an edge in Init leaves it with an ingester.
LEMMA FirstClientMoves ==
  ASSUME TypeOK, NEW c \in Client, FirstClientPlays(c)
  PROVE  /\ tid' # NoTid /\ refused' = refused
         /\ state = "Init" /\ state' = "Play"
         /\ UNCHANGED <<at, conn, published, aborted, overlapped>>
         /\ pc[c] = "out" /\ (\E to \in {"starting", "accepted"} : pc' = [pc EXCEPT ![c] = to])
         /\ Stopping' = Stopping
<1>1. /\ state = "Init" /\ state' = "Play"
      /\ UNCHANGED <<at, conn, published, aborted, overlapped>>
      /\ pc[c] = "out" /\ (\E to \in {"starting", "accepted"} : pc' = [pc EXCEPT ![c] = to])
  BY DEF FirstClientPlays, Goes, Arrives
<1>2. tid' # NoTid /\ refused' = refused
  BY PlayEdgeAssumption DEF FirstClientPlays, Thread!Start, Thread!StartAgain,
     Thread!CreateThread, Thread!vars
<1>3. \A d \in Client : (pc'[d] \in {"stopping", "unpublishing"})
                           <=> (pc[d] \in {"stopping", "unpublishing"})
  BY <1>1 DEF TypeOK
<1> QED
  BY <1>1, <1>2, <1>3 DEF Stopping

\* What SrsEdgeIngester::stop leaves behind once its SrsThread::stop is through.
LEMMA StopIngesterOutcome ==
  ASSUME TypeOK, NEW c \in Client, NEW from, StopIngester(c, from)
  PROVE  /\ conn' = NoTid /\ at' = at /\ aborted' = aborted /\ pc[c] = from
         /\ \/ pc' = [pc EXCEPT ![c] = "unpublishing"] /\ state' = state /\ Stopping'
            \/ pc' = [pc EXCEPT ![c] = "out"] /\ state' = "Init" /\ ~published'
  BY DEF StopIngester, Goes, Stopping, TypeOK

LEMMA LostIsResetNext ==
  ASSUME TypeOK, LostIsReset, [Next]_vars PROVE LostIsReset'
<1> USE PlayEdgeAssumption
<1>1. ASSUME NEW c \in Client, ClientStep(c) PROVE LostIsReset'
  <2>1. CASE FirstClientPlays(c)
    BY <2>1, FirstClientMoves DEF LostIsReset
  <2>2. CASE NextClientPlays(c) \/ Refused(c) \/ Plays(c) \/ Leaves(c) \/ IngesterStarted(c)
    BY <2>2, ClientMoves DEF LostIsReset
  <2>3. CASE LastLeaves(c)
    <3>1. CASE StopIngester(c, "playing")
      BY <3>1, StopIngesterOutcome DEF LostIsReset
    <3>2. CASE pc' = [pc EXCEPT ![c] = "stopping"]
      BY <3>2 DEF LostIsReset, Stopping, TypeOK
    <3> QED
      BY <2>3, <3>1, <3>2 DEF LastLeaves, Goes
  <2>4. CASE IngesterJoined(c)
    BY <2>4, StopIngesterOutcome DEF IngesterJoined, LostIsReset
  <2>5. CASE Unpublished(c)
    BY <2>5 DEF Unpublished, LostIsReset
  <2> QED
    BY <1>1, <2>1, <2>2, <2>3, <2>4, <2>5 DEF ClientStep
<1>2. ASSUME NEW h \in Handle, IngesterStep(h) PROVE LostIsReset'
  BY <1>2, IngesterStepFrame DEF LostIsReset, Stopping
<1>3. CASE UNCHANGED vars
  BY <1>3 DEF vars, threadVars, history, LostIsReset, Stopping
<1> QED
  BY <1>1, <1>2, <1>3 DEF Next

LEMMA LostIsResetHolds == Spec => []LostIsReset
<1>1. Init => LostIsReset
  BY DEF Init, LostIsReset
<1> QED
  BY <1>1, LostIsResetNext, TypeCorrect, PTL DEF Spec

------------------------------------------------------------------------------
\* Until two clients stop the edge at once: no join is refused and no assertion
\* fails; an edge that holds an ingester or is being stopped is not in Init, and
\* while its source is unpublished it holds none; an edge in Init is unpublished.
OneStops ==
  \A c, d \in Client :
    pc[c] \in {"stopping", "unpublishing"} /\ pc[d] \in {"stopping", "unpublishing"} => c = d

StateFollows ==
  /\ tid # NoTid \/ Stopping => state # "Init"
  /\ (\E c \in Client : pc[c] = "unpublishing") => tid = NoTid
  /\ state = "Init" => ~published

OwnsItsClient == \A h \in Handle : at[h] # "none" => conn = h

InTime == \E c \in Client : pc[c] \in {"starting", "accepted", "playing"} /\ c \notin late

EdgeInv ==
  ~overlapped => /\ ~refused /\ ~aborted
                 /\ OneStops /\ StateFollows /\ OwnsItsClient
                 /\ InTime => ~Stopping /\ tid # NoTid

\* A client step that leaves the last consumer nothing to do: somebody comes, stays
\* or goes as a player.
LEMMA VisitKeepsEdge ==
  ASSUME StepFacts, LostIsReset, EdgeInv, NEW c \in Client,
         \/ FirstClientPlays(c) \/ NextClientPlays(c) \/ IngesterStarted(c)
         \/ Refused(c) \/ Plays(c) \/ Leaves(c)
  PROVE  EdgeInv'
<1> USE PlayEdgeAssumption
<1> SUFFICES ASSUME ~overlapped'
             PROVE  (~refused /\ ~aborted /\ OneStops /\ StateFollows /\ OwnsItsClient
                     /\ (InTime => ~Stopping /\ tid # NoTid))'
  BY DEF EdgeInv
<1> USE DEF StepFacts
<1>1. /\ UNCHANGED <<at, conn, published, aborted, overlapped, refused>>
      /\ pc[c] \in {"out", "starting", "accepted", "playing"}
      /\ \E to \in {"out", "starting", "accepted", "playing"} : pc' = [pc EXCEPT ![c] = to]
      /\ Stopping' = Stopping
  BY ClientMoves, FirstClientMoves
<1>2. ~refused /\ ~aborted /\ OneStops /\ StateFollows /\ OwnsItsClient
      /\ (InTime => ~Stopping /\ tid # NoTid)
  BY <1>1 DEF EdgeInv
<1>3. \/ tid' = tid /\ state' = state
      \/ FirstClientPlays(c) /\ state = "Init" /\ state' = "Play" /\ tid' # NoTid
  BY ClientMoves, FirstClientMoves
<1>4. OneStops'
  BY <1>1, <1>2 DEF OneStops, TypeOK
<1>5. \A d \in Client : pc'[d] = "unpublishing" => pc[d] = "unpublishing"
  BY <1>1 DEF TypeOK
<1>6. StateFollows'
  BY <1>1, <1>2, <1>3, <1>5 DEF StateFollows, Stopping
<1>7. OwnsItsClient'
  BY <1>1, <1>2 DEF OwnsItsClient
<1>8. ASSUME InTime' PROVE ~Stopping' /\ tid' # NoTid
  <2>1. CASE InTime
    BY <1>1, <1>2, <1>3, <2>1 DEF InTime
  <2>2. CASE ~InTime
    <3>1. PICK d \in Client : pc'[d] \in {"starting", "accepted", "playing"} /\ d \notin late'
      BY <1>8 DEF InTime
    <3>2. FirstClientPlays(c) \/ NextClientPlays(c)
      <4>1. SUFFICES ASSUME IngesterStarted(c) \/ Refused(c) \/ Plays(c) \/ Leaves(c)
                     PROVE  FALSE
        OBVIOUS
      <4>2. late' = late /\ (pc[c] \in {"starting", "accepted"} \/ pc' = [pc EXCEPT ![c] = "out"])
        BY <4>1 DEF IngesterStarted, Refused, Plays, Leaves, Goes, history
      <4> QED
        BY <1>1, <2>2, <3>1, <4>2 DEF InTime, TypeOK
    <3>3. Arrives(c) /\ pc[c] = "out"
      BY <3>2 DEF FirstClientPlays, NextClientPlays, Goes
    <3>4. d = c
      BY <1>1, <2>2, <3>1, <3>3 DEF Arrives, InTime, TypeOK
    <3>5. ~Stopping
      BY <3>1, <3>3, <3>4 DEF Arrives
    <3> QED
      <4>1. CASE FirstClientPlays(c)
        BY <1>1, <3>5, <4>1, FirstClientMoves
      <4>2. CASE NextClientPlays(c)
        BY <1>1, <1>2, <1>3, <3>5, <4>2 DEF NextClientPlays, LostIsReset
      <4> QED
        BY <3>2, <4>1, <4>2
  <2> QED
    BY <2>1, <2>2
<1> QED
  BY <1>1, <1>2, <1>4, <1>6, <1>7, <1>8

\* The last consumer's destruction stops the ingester.
LEMMA StopKeepsEdge ==
  ASSUME StepFacts, LostIsReset, EdgeInv, NEW c \in Client,
         LastLeaves(c) \/ IngesterJoined(c) \/ Unpublished(c)
  PROVE  EdgeInv'
<1> USE PlayEdgeAssumption
<1> SUFFICES ASSUME ~overlapped'
             PROVE  (~refused /\ ~aborted /\ OneStops /\ StateFollows /\ OwnsItsClient
                     /\ (InTime => ~Stopping /\ tid # NoTid))'
  BY DEF EdgeInv
<1> USE DEF StepFacts
<1>1. ~overlapped /\ (~Stopping \/ pc[c] \in {"stopping", "unpublishing"})
  <2>1. CASE LastLeaves(c)
    BY <2>1 DEF LastLeaves, LastGoes
  <2>2. CASE IngesterJoined(c) \/ Unpublished(c)
    BY <2>2 DEF IngesterJoined, StopIngester, Unpublished, Goes, history
  <2> QED
    BY <2>1, <2>2
<1>2. ~refused /\ ~aborted /\ OneStops /\ StateFollows /\ OwnsItsClient
      /\ (InTime => ~Stopping /\ tid # NoTid)
  BY <1>1 DEF EdgeInv
<1>3. CASE LastLeaves(c)
  <2>1. ~Stopping /\ pc[c] = "playing" /\ state # "Init"
    BY <1>3 DEF LastLeaves, LastGoes, StopIngester, Goes
  <2>2. tid # NoTid
    BY <1>2, <2>1 DEF LostIsReset
  <2>3. ~Thread!Joined(tid)
    BY <2>1, <2>2 DEF Thread!Joined, Stopping, TypeOK
  <2>4. ~Thread!StopUnjoined(c) /\ ~Thread!StopAgain(c)
    BY <2>2, <2>3 DEF Thread!StopUnjoined, Thread!StopAgain
  <2>5. Thread!StopWaits(c) /\ pc' = [pc EXCEPT ![c] = "stopping"]
        /\ UNCHANGED <<state, at, conn, published, aborted>>
    BY <1>3, <2>4 DEF LastLeaves, Goes
  <2>6. tid' = tid /\ refused' = refused
    BY <2>5 DEF Thread!StopWaits
  <2>7. ~InTime'
    <3>1. ASSUME NEW d \in Client, pc'[d] \in {"starting", "accepted", "playing"}
          PROVE  d \in late'
      <4>1. d # c /\ pc'[d] = pc[d]
        BY <2>5, <3>1 DEF TypeOK
      <4>2. pc[d] # "playing"
        BY <1>3, <4>1 DEF LastLeaves, consumers
      <4> QED
        BY <1>3, <3>1, <4>1, <4>2 DEF LastLeaves, LastGoes
    <3> QED
      BY <3>1 DEF InTime
  <2>8. OneStops'
    BY <2>1, <2>5 DEF OneStops, Stopping, TypeOK
  <2>9. \A d \in Client : pc'[d] # "unpublishing"
    BY <2>1, <2>5 DEF Stopping, TypeOK
  <2>10. StateFollows'
    BY <1>2, <2>1, <2>5, <2>6, <2>9 DEF StateFollows
  <2>11. OwnsItsClient'
    BY <1>2, <2>5 DEF OwnsItsClient
  <2> QED
    BY <1>2, <2>5, <2>6, <2>7, <2>8, <2>10, <2>11
<1>4. CASE IngesterJoined(c)
  <2>1. pc[c] = "stopping" /\ Stopping /\ state # "Init" /\ late' = late
    BY <1>2, <1>4 DEF IngesterJoined, StopIngester, Goes, Stopping, StateFollows, history
  <2>2. \A d \in Client : d # c => pc[d] \notin {"stopping", "unpublishing"}
    BY <1>2, <2>1 DEF OneStops
  <2>3. /\ conn' = NoTid /\ at' = at /\ aborted' = aborted
        /\ \/ pc' = [pc EXCEPT ![c] = "unpublishing"] /\ state' = state
           \/ pc' = [pc EXCEPT ![c] = "out"] /\ state' = "Init" /\ ~published'
    BY <1>4, StopIngesterOutcome DEF IngesterJoined
  <2>4. tid' = NoTid /\ refused' = refused
    BY <1>4 DEF IngesterJoined, Thread!JoinReturns
  <2>5. \A h \in Handle : at'[h] = "none"
    BY <1>2, <2>4 DEF ThreadFacts, Thread!QuietWhenStopped, Thread!LiveThreads, Thread!Live, TypeOK
  <2>6. ~InTime'
    BY <1>2, <2>1, <2>3 DEF InTime, TypeOK
  <2>7. OneStops'
    BY <2>2, <2>3 DEF OneStops, TypeOK
  <2>8. pc' = [pc EXCEPT ![c] = "out"] => ~Stopping'
    BY <2>2 DEF Stopping, TypeOK
  <2>9. StateFollows'
    BY <2>1, <2>3, <2>4, <2>8 DEF StateFollows
  <2>10. OwnsItsClient'
    BY <2>5 DEF OwnsItsClient
  <2> QED
    BY <1>2, <2>3, <2>4, <2>6, <2>7, <2>9, <2>10
<1>5. CASE Unpublished(c)
  <2>1. /\ pc[c] = "unpublishing" /\ pc' = [pc EXCEPT ![c] = "out"]
        /\ state' = "Init" /\ ~published' /\ late' = late
        /\ UNCHANGED <<tid, refused, at, conn, aborted>>
    BY <1>5 DEF Unpublished, Goes, threadVars, history
  <2>2. Stopping /\ tid = NoTid
    BY <1>2, <2>1 DEF StateFollows, Stopping
  <2>3. ~Stopping'
    BY <1>2, <2>1 DEF OneStops, Stopping, TypeOK
  <2>4. OneStops'
    BY <2>3 DEF OneStops, Stopping
  <2>5. StateFollows'
    BY <2>1, <2>2, <2>3 DEF StateFollows, Stopping
  <2>6. OwnsItsClient'
    BY <1>2, <2>1 DEF OwnsItsClient
  <2>7. ~InTime'
    BY <1>2, <2>1, <2>2 DEF InTime, TypeOK
  <2> QED
    BY <1>2, <2>1, <2>4, <2>5, <2>6, <2>7
<1> QED
  BY <1>3, <1>4, <1>5

LEMMA IngesterKeepsEdge ==
  ASSUME StepFacts, EdgeInv, NEW h \in Handle, IngesterStep(h) PROVE EdgeInv'
<1> USE PlayEdgeAssumption
<1> SUFFICES ASSUME ~overlapped'
             PROVE  (~refused /\ ~aborted /\ OneStops /\ StateFollows /\ OwnsItsClient
                     /\ (InTime => ~Stopping /\ tid # NoTid))'
  BY DEF EdgeInv
<1> USE DEF StepFacts
<1>1. UNCHANGED <<tid, refused, pc, late, overlapped>> /\ th[h] \in Thread!Live
  BY IngesterStepFrame
<1>2. ~refused /\ ~aborted /\ OneStops /\ StateFollows /\ OwnsItsClient
      /\ (InTime => ~Stopping /\ tid # NoTid)
  BY <1>1 DEF EdgeInv
<1>3. tid # NoTid /\ \A g \in Handle : th[g] \in Thread!Live => g = h
  BY <1>1, <1>2 DEF ThreadFacts, Thread!OneThread, Thread!QuietWhenStopped, Thread!LiveThreads
<1>4. state # "Init"
  BY <1>2, <1>3 DEF StateFollows
<1>5. aborted' = aborted /\ state' # "Init"
  BY <1>4, IngesterStepFrame
<1>6. \A g \in Handle : g # h => at'[g] = "none"
  BY <1>3, IngesterStepFrame DEF TypeOK, Thread!Live
<1>7. OwnsItsClient'
  BY <1>2, <1>6, IngesterStepFrame DEF OwnsItsClient
<1>8. StateFollows'
  BY <1>1, <1>2, <1>5 DEF StateFollows, Stopping
<1> QED
  BY <1>1, <1>2, <1>5, <1>7, <1>8 DEF OneStops, InTime, Stopping

LEMMA EdgeInvariance == Spec => []EdgeInv
<1>1. Init => EdgeInv
  BY DEF Init, Thread!Init, EdgeInv, OneStops, StateFollows, OwnsItsClient, InTime, Stopping
<1>2. ASSUME StepFacts, LostIsReset, EdgeInv, [Next]_vars PROVE EdgeInv'
  <2>1. CASE UNCHANGED vars
    BY <1>2, <2>1 DEF vars, threadVars, history, EdgeInv, OneStops, StateFollows, OwnsItsClient,
                      InTime, Stopping
  <2> QED
    BY <1>2, <2>1, VisitKeepsEdge, StopKeepsEdge, IngesterKeepsEdge DEF Next, ClientStep
<1>3. TypeOK /\ TypeOK' /\ ThreadFacts /\ ThreadFacts' => StepFacts
  BY DEF StepFacts
<1> QED
  BY <1>1, <1>2, <1>3, TypeCorrect, ThreadFactsHold, LostIsResetHolds, PTL DEF Spec

(* Until two clients stop the edge at once, the client object that an ingester is
   working on inside cycle() is its own: it was not freed under it. *)
THEOREM IngesterHasItsClient == Spec => []IngesterOwnsItsClient
<1>1. EdgeInv => IngesterOwnsItsClient
  BY DEF EdgeInv, OwnsItsClient, IngesterOwnsItsClient
<1> QED
  BY <1>1, EdgeInvariance, PTL

(* Until then, the assertion of on_ingest_play() on the state holds. *)
THEOREM AssertionHolds == Spec => []IngestPlayAsserts
<1>1. EdgeInv => IngestPlayAsserts
  BY DEF EdgeInv, IngestPlayAsserts
<1> QED
  BY <1>1, EdgeInvariance, PTL

(* Until then, clients that came while nobody was stopping the edge keep an
   ingester that is not asked to stop. *)
THEOREM PlayersAreKept == Spec => []PlayersKeepIngester
<1>1. ASSUME TypeOK, ThreadFacts, EdgeInv, ~overlapped, consumers \ late # {}
      PROVE  tid # NoTid /\ loop /\ th[tid] \in Thread!Live
  <2>1. InTime
    BY <1>1 DEF InTime, consumers
  <2>2. ~Stopping /\ tid # NoTid /\ ~refused
    BY <1>1, <2>1 DEF EdgeInv
  <2>3. ~Thread!Joined(tid)
    BY <1>1, <2>2 DEF Thread!Joined, Stopping, TypeOK
  <2> QED
    BY <1>1, <2>2, <2>3 DEF ThreadFacts
<1> QED
  BY <1>1, TypeCorrect, ThreadFactsHold, EdgeInvariance, PTL DEF PlayersKeepIngester

(* However the stops overlap, once they are over an edge without an ingester is
   back in Init; and an edge in Init is unpublished if they did not overlap. *)
THEOREM StopsReset == Spec => []StopResetsEdge
<1>1. LostIsReset /\ EdgeInv => StopResetsEdge
  BY DEF LostIsReset, EdgeInv, StateFollows, StopResetsEdge
<1> QED
  BY <1>1, LostIsResetHolds, EdgeInvariance, PTL
================================================================================
