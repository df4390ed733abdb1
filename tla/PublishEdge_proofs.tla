-------------------------- MODULE PublishEdge_proofs --------------------------
(***************************************************************************)
(* What TLAPS proves of PublishEdge, for any number of publishers and of   *)
(* handles: the edge drives its forwarder's SrsThread by its calls only,   *)
(* so that the theorems of SrsThread hold here too; on them rests that the *)
(* connection has one user and that an edge in Init has no forwarder.      *)
(***************************************************************************)
EXTENDS PublishEdge, FiniteSetTheorems, TLAPS

ThreadTheorems == INSTANCE SrsThread_proofs WITH Owner <- Publisher

LEMMA PublisherKeepsThread ==
  ASSUME NEW p \in Publisher, PublisherStep(p) PROVE [Thread!Next]_Thread!vars
<1> USE DEF Thread!vars, Thread!Next, Thread!OwnerStep, Thread!Start, Thread!Stop, threadVars
<1>1. ASSUME Unpublishes(p) \/ UnpublishesInit(p) PROVE [Thread!Next]_Thread!vars
  BY <1>1 DEF Unpublishes, UnpublishesInit
<1>2. CASE Rejected(p)
  BY <1>2 DEF Rejected, vars
<1>3. CASE Connects(p) \/ ConnectFails(p) \/ ServiceFails(p) \/ Publishes(p)
  BY <1>3 DEF Connects, ConnectFails, ServiceFails, Publishes
<1>4. CASE Connected(p) \/ Started(p)
  BY <1>4 DEF Connected, Started
<1>5. CASE Proxies(p)
  BY <1>1, <1>5 DEF Proxies
<1>6. CASE ForwarderJoined(p)
  BY <1>6 DEF ForwarderJoined
<1> QED
  BY <1>1, <1>2, <1>3, <1>4, <1>5, <1>6 DEF PublisherStep

LEMMA ForwarderKeepsThread ==
  ASSUME NEW h \in Handle, ForwarderStep(h) PROVE [Thread!Next]_Thread!vars
<1> USE DEF Thread!vars, Thread!Next, Thread!ThreadStep, threadVars
<1>1. ASSUME Slept(h) PROVE [Thread!Next]_Thread!vars
  BY <1>1 DEF Slept
<1>2. ASSUME Returns(h) PROVE [Thread!Next]_Thread!vars
  BY <1>2 DEF Returns
<1>3. ASSUME NEW from, LoopTest(h, from) PROVE [Thread!Next]_Thread!vars
  BY <1>1, <1>2, <1>3 DEF LoopTest
<1>4. CASE ForwarderRuns(h)
  BY <1>4 DEF ForwarderRuns
<1>5. CASE WaitsForQuit(h) \/ Receives(h)
  BY <1>1, <1>5 DEF WaitsForQuit, Receives
<1>6. CASE WaitedForQuit(h) \/ RecvFails(h) \/ NothingToForward(h) \/ Sent(h)
  BY <1>3, <1>6 DEF WaitedForQuit, RecvFails, NothingToForward, Sent
<1>7. CASE Takes(h)
  BY <1>7 DEF Takes
<1>8. CASE SendFails(h)
  BY <1>2, <1>8 DEF SendFails
<1> QED
  BY <1>4, <1>5, <1>6, <1>7, <1>8 DEF ForwarderStep

(* The edge drives its forwarder's SrsThread by that object's own calls only:
   each step of the edge is one of SrsThread's or does not touch it. *)
THEOREM RefinesThread == Spec => Thread!Spec
<1>1. Init => Thread!Init
  BY DEF Init
<1>2. [Next]_vars => [Thread!Next]_Thread!vars
  <2>1. CASE UNCHANGED vars
    BY <2>1 DEF vars, threadVars, Thread!vars
  <2> QED
    BY <2>1, PublisherKeepsThread, ForwarderKeepsThread DEF Next
<1> QED
  BY <1>1, <1>2, PTL DEF Spec, Thread!Spec

\* The two instances of SrsThread, the one of the edge and the one its theorems
\* are about, are the same.
LEMMA SameThread ==
  /\ Thread!Init => ThreadTheorems!Init
  /\ [Thread!Next]_Thread!vars => [ThreadTheorems!Next]_ThreadTheorems!vars
  /\ ThreadTheorems!NoReapedHandle => Thread!NoReapedHandle
  /\ ThreadTheorems!JoinInv => Thread!TypeOK /\ (~refused => Thread!OneThread
                                                  /\ Thread!QuietWhenStopped)
<1>1. Thread!Init => ThreadTheorems!Init
  BY DEF Thread!Init, ThreadTheorems!Init
<1>2. [Thread!Next]_Thread!vars => [ThreadTheorems!Next]_ThreadTheorems!vars
  BY DEF
    Thread!vars, ThreadTheorems!vars, Thread!objectVars, ThreadTheorems!objectVars,
    Thread!ownerVars, ThreadTheorems!ownerVars, Thread!Next, ThreadTheorems!Next,
    Thread!OwnerStep, ThreadTheorems!OwnerStep, Thread!ThreadStep,
    ThreadTheorems!ThreadStep, Thread!Start, ThreadTheorems!Start,
    Thread!StartAgain, ThreadTheorems!StartAgain, Thread!CreateThread,
    ThreadTheorems!CreateThread, Thread!StartReturns, ThreadTheorems!StartReturns,
    Thread!Stop, ThreadTheorems!Stop, Thread!StopAgain, ThreadTheorems!StopAgain,
    Thread!StopWaits, ThreadTheorems!StopWaits, Thread!StopUnjoined,
    ThreadTheorems!StopUnjoined, Thread!AskToStop, ThreadTheorems!AskToStop,
    Thread!JoinReturns, ThreadTheorems!JoinReturns, Thread!Joined,
    ThreadTheorems!Joined, Thread!Idle, ThreadTheorems!Idle, Thread!NextRound,
    ThreadTheorems!NextRound, Thread!EndCycle, ThreadTheorems!EndCycle,
    Thread!ThreadRuns, ThreadTheorems!ThreadRuns, Thread!CycleReturns,
    ThreadTheorems!CycleReturns, Thread!CycleInterrupted,
    ThreadTheorems!CycleInterrupted, Thread!InterruptEaten,
    ThreadTheorems!InterruptEaten, Thread!SleepEnds, ThreadTheorems!SleepEnds
<1>3. ThreadTheorems!NoReapedHandle => Thread!NoReapedHandle
  BY DEF Thread!NoReapedHandle, ThreadTheorems!NoReapedHandle
<1>4. ThreadTheorems!JoinInv => Thread!TypeOK
  BY DEF ThreadTheorems!JoinInv, ThreadTheorems!TypeOK, Thread!TypeOK,
         ThreadTheorems!State, Thread!State, ThreadTheorems!Live, Thread!Live
<1>5. ASSUME ThreadTheorems!JoinInv, ~refused
      PROVE  Thread!OneThread /\ Thread!QuietWhenStopped
  BY <1>5, PublishEdgeAssumption
     DEF ThreadTheorems!JoinInv, ThreadTheorems!OneThreadInv, Thread!OneThread,
         Thread!QuietWhenStopped, Thread!LiveThreads, Thread!Live
<1> QED
  BY <1>1, <1>2, <1>3, <1>4, <1>5

(* Neither the forwarder nor a publisher stopping it ever holds a reaped
   st-thread, however many publishers are inside start() and stop(). *)
THEOREM ForwarderHandlesValid == Spec => []HandlesValid
<1>1. ThreadTheorems!Spec => []ThreadTheorems!NoReapedHandle
  BY PublishEdgeAssumption, ThreadTheorems!HandlesStayValid
<1>2. Thread!Spec => ThreadTheorems!Spec
  BY SameThread, PTL DEF Thread!Spec, ThreadTheorems!Spec
<1> QED
  BY <1>1, <1>2, SameThread, RefinesThread, PTL DEF HandlesValid
\* What the invariants below take from the thread.
ThreadFacts == Thread!TypeOK /\ (~refused => Thread!OneThread /\ Thread!QuietWhenStopped)

LEMMA ThreadFactsHold == Spec => []ThreadFacts
<1>1. ThreadTheorems!Spec => []ThreadTheorems!JoinInv
  BY PublishEdgeAssumption, ThreadTheorems!JoinInvariance
<1>2. Thread!Spec => ThreadTheorems!Spec
  BY SameThread, PTL DEF Thread!Spec, ThreadTheorems!Spec
<1> QED
  BY <1>1, <1>2, SameThread, RefinesThread, PTL DEF ThreadFacts

------------------------------------------------------------------------------
\* A call of start() or stop() moves its caller in and out of the two wait loops
\* and nobody else, and no st-thread in or out of cycle().
LEMMA OwnerStepFrame ==
  ASSUME TypeOK, NEW p \in Publisher, Thread!OwnerStep(p)
  PROVE  /\ \A q \in Publisher : q # p => /\ (q \in starting') = (q \in starting)
                                          /\ joining'[q] = joining[q]
         /\ \A h \in Handle : (th[h] = "cycle") => (th'[h] = "cycle")
<1> USE PublishEdgeAssumption DEF TypeOK, Thread!TypeOK
<1>1. CASE Thread!StartAgain(p) \/ Thread!StopAgain(p)
  BY <1>1 DEF Thread!StartAgain, Thread!StopAgain, Thread!vars
<1>2. ASSUME NEW h \in Handle, Thread!CreateThread(p, h)
      PROVE  /\ \A q \in Publisher : q # p => /\ (q \in starting') = (q \in starting)
                                              /\ joining'[q] = joining[q]
             /\ \A g \in Handle : (th[g] = "cycle") => (th'[g] = "cycle")
  BY <1>2 DEF Thread!CreateThread
<1>3. CASE Thread!StartReturns(p)
  BY <1>3 DEF Thread!StartReturns
<1>4. CASE Thread!StopWaits(p) \/ Thread!StopUnjoined(p)
  BY <1>4 DEF Thread!StopWaits, Thread!StopUnjoined, Thread!AskToStop
<1>5. CASE Thread!JoinReturns(p)
  BY <1>5 DEF Thread!JoinReturns
<1> QED
  BY <1>1, <1>2, <1>3, <1>4, <1>5 DEF Thread!OwnerStep, Thread!Start, Thread!Stop

\* Where a call leaves its caller.
LEMMA CallerMoves ==
  ASSUME TypeOK, NEW p \in Publisher
  PROVE  /\ Thread!Start(p) \/ Thread!StopAgain(p) \/ Thread!StopUnjoined(p)
              => p \notin starting /\ joining[p] = NoTid /\ joining'[p] = NoTid
         /\ Thread!StopAgain(p) \/ Thread!StopUnjoined(p) => p \notin starting'
         /\ Thread!StartReturns(p) => p \notin starting' /\ joining' = joining
         /\ Thread!StopWaits(p) => joining'[p] # NoTid /\ p \notin starting'
         /\ Thread!JoinReturns(p) => joining'[p] = NoTid /\ starting' = starting
                                     /\ joining[p] # NoTid
<1> USE PublishEdgeAssumption DEF TypeOK, Thread!TypeOK, Thread!Idle
<1>1. Thread!StartAgain(p) \/ Thread!StopAgain(p)
        => p \notin starting /\ joining[p] = NoTid /\ joining' = joining /\ starting' = starting
  BY DEF Thread!StartAgain, Thread!StopAgain, Thread!vars
<1>2. ASSUME NEW h \in Handle, Thread!CreateThread(p, h)
      PROVE  p \notin starting /\ joining[p] = NoTid /\ joining' = joining
  BY <1>2 DEF Thread!CreateThread
<1>3. Thread!StopUnjoined(p)
        => p \notin starting /\ joining[p] = NoTid /\ joining' = joining /\ starting' = starting
  BY DEF Thread!StopUnjoined, Thread!AskToStop
<1>4. Thread!StartReturns(p) => p \notin starting' /\ joining' = joining
  BY DEF Thread!StartReturns
<1>5. Thread!StopWaits(p) => joining'[p] # NoTid /\ p \notin starting'
  BY DEF Thread!StopWaits, Thread!AskToStop
<1>6. Thread!JoinReturns(p) => joining'[p] = NoTid /\ starting' = starting /\ joining[p] # NoTid
  BY DEF Thread!JoinReturns
<1> QED
  BY <1>1, <1>2, <1>3, <1>4, <1>5, <1>6 DEF Thread!Start

\* What a step of the forwarder changes: where its own st-thread is, which stays
\* in handler->cycle() until it is at no place of it, the queue and the error.
LEMMA ForwarderStepFrame ==
  ASSUME TypeOK, NEW h \in Handle, ForwarderStep(h)
  PROVE  /\ UNCHANGED <<tid, loop, starting, joining, refused, state, pc, conn, met>>
         /\ \A g \in Handle : g # h => at'[g] = at[g] /\ th'[g] = th[g]
         /\ at'[h] # "none" => th'[h] = "cycle"
         /\ at' \in [Handle -> {"none", "usleep", "errsleep", "recv", "send"}]
         /\ queue' \subseteq Publisher /\ batch' \in [Handle -> SUBSET Publisher]
         /\ sendError' \in BOOLEAN
<1> DEFINE Same == UNCHANGED <<tid, loop, starting, joining, refused>>
           Others == \A g \in Handle : g # h => th'[g] = th[g]
           Place == at' \in [Handle -> {"none", "usleep", "errsleep", "recv", "send"}]
                    /\ (\A g \in Handle : g # h => at'[g] = at[g])
                    /\ (at'[h] # "none" => th'[h] = "cycle")
           Rest == UNCHANGED <<state, pc, conn, met>> /\ queue' \subseteq Publisher
                   /\ batch' \in [Handle -> SUBSET Publisher] /\ sendError' \in BOOLEAN
<1> USE DEF TypeOK, Thread!TypeOK, Thread!objectVars, Thread!ownerVars, threadVars, queueVars
<1>1. ASSUME Slept(h) PROVE Same /\ th' = th
  BY <1>1 DEF Slept, Thread!InterruptEaten
<1>2. ASSUME Returns(h) PROVE Same /\ Others
  BY <1>2 DEF Returns, Thread!CycleInterrupted, Thread!CycleReturns, Thread!EndCycle
<1>3. ASSUME NEW from \in {"errsleep", "recv", "send"}, LoopTest(h, from)
      PROVE  Same /\ Others /\ Place
  BY <1>1, <1>2, <1>3 DEF LoopTest, Moves
<1>4. CASE ForwarderRuns(h)
  <2>1. Same /\ Others /\ th[h] # "cycle" /\ (loop => th'[h] = "cycle")
    BY <1>4 DEF ForwarderRuns, Thread!ThreadRuns, Thread!SleepEnds, Thread!NextRound
  <2>2. Place
    BY <1>4, <2>1 DEF ForwarderRuns, Moves
  <2> QED
    BY <1>4, <2>1, <2>2 DEF ForwarderRuns
<1>5. CASE WaitsForQuit(h) \/ Receives(h)
  <2>1. Place /\ Same /\ Others
    BY <1>1, <1>5 DEF WaitsForQuit, Receives, Moves
  <2> QED
    BY <1>5, <2>1 DEF WaitsForQuit, Receives
<1>6. CASE WaitedForQuit(h) \/ RecvFails(h) \/ NothingToForward(h) \/ Sent(h)
  <2>1. Rest
    BY <1>6 DEF WaitedForQuit, RecvFails, NothingToForward, Sent
  <2> QED
    BY <1>3, <1>6, <2>1 DEF WaitedForQuit, RecvFails, NothingToForward, Sent
<1>7. CASE Takes(h)
  <2>1. Place /\ Same /\ Others
    BY <1>7 DEF Takes, Moves
  <2> QED
    BY <1>7, <2>1 DEF Takes
<1>8. CASE SendFails(h)
  <2>1. Rest
    BY <1>8 DEF SendFails
  <2>2. Place
    BY <1>8 DEF SendFails, Moves
  <2> QED
    BY <1>2, <1>8, <2>1, <2>2 DEF SendFails
<1> QED
  BY <1>4, <1>5, <1>6, <1>7, <1>8 DEF ForwarderStep

LEMMA TypeStep == TypeOK /\ Thread!TypeOK' /\ [Next]_vars => TypeOK'
<1> SUFFICES ASSUME TypeOK, Thread!TypeOK', [Next]_vars PROVE TypeOK'
  OBVIOUS
<1> USE PublishEdgeAssumption
<1> DEFINE Waits == \A p \in Publisher : (pc[p] = "starting") = (p \in starting)
                                      /\ (pc[p] = "stopping") = (joining[p] # NoTid)
           InCycle == \A h \in Handle : at[h] # "none" => th[h] = "cycle"
<1>1. ASSUME NEW p \in Publisher, PublisherStep(p) PROVE TypeOK'
  <2> USE DEF Goes, Thread!OwnerStep, Thread!Stop
  <2>1. ASSUME Unpublishes(p) \/ UnpublishesInit(p) PROVE TypeOK'
    <3>1. CASE UnpublishesInit(p)
      BY <3>1 DEF UnpublishesInit, CanLeave, TypeOK, Thread!TypeOK, threadVars, queueVars
    <3>2. CASE Unpublishes(p)
      <4>1. Thread!OwnerStep(p)
        BY <3>2 DEF Unpublishes
      <4>2. InCycle'
        BY <3>2, <4>1, OwnerStepFrame DEF Unpublishes, StopForwarder, TypeOK
      <4>3. pc' \in [Publisher -> {"out", "connecting", "starting", "started", "publishing", "stopping"}]
        BY <3>2 DEF Unpublishes, StopForwarder, TypeOK
      <4>4. Waits'
        BY <3>2, <4>1, OwnerStepFrame, CallerMoves DEF Unpublishes, StopForwarder, CanLeave, TypeOK
      <4> QED
        BY <3>2, <4>2, <4>3, <4>4 DEF Unpublishes, StopForwarder, TypeOK, queueVars
    <3> QED
      BY <2>1, <3>1, <3>2
  <2>2. CASE Rejected(p)
    BY <2>2 DEF Rejected, vars, threadVars, queueVars, TypeOK, Thread!TypeOK
  <2>3. CASE Connects(p)
    <3>1. met' \in BOOLEAN
      BY <2>3 DEF Connects
    <3>2. Waits'
      BY <2>3 DEF Connects, threadVars, TypeOK
    <3>3. InCycle' /\ conn' \in Publisher
      BY <2>3 DEF Connects, threadVars, TypeOK
    <3> QED
      BY <2>3, <3>1, <3>2, <3>3 DEF Connects, TypeOK
  <2>8. CASE ConnectFails(p) \/ ServiceFails(p) \/ Publishes(p)
    BY <2>8 DEF ConnectFails, ServiceFails, Publishes, threadVars, queueVars, TypeOK,
                Thread!TypeOK
  <2>4. CASE Connected(p)
    <3>1. Thread!OwnerStep(p)
      BY <2>4 DEF Connected
    <3>2. InCycle'
      BY <2>4, <3>1, OwnerStepFrame DEF Connected, TypeOK
    <3>3. Waits'
      BY <2>4, <3>1, OwnerStepFrame, CallerMoves DEF Connected, TypeOK
    <3> QED
      BY <2>4, <3>2, <3>3 DEF Connected, TypeOK, queueVars
  <2>5. CASE Started(p)
    <3>1. Thread!OwnerStep(p)
      BY <2>5 DEF Started
    <3>2. InCycle'
      BY <2>5, <3>1, OwnerStepFrame DEF Started, TypeOK
    <3>3. Waits'
      BY <2>5, <3>1, OwnerStepFrame, CallerMoves DEF Started, TypeOK
    <3> QED
      BY <2>5, <3>2, <3>3 DEF Started, TypeOK, queueVars
  <2>6. CASE Proxies(p)
    BY <2>1, <2>6 DEF Proxies, threadVars, TypeOK, Thread!TypeOK
  <2>7. CASE ForwarderJoined(p)
    <3>1. Thread!OwnerStep(p)
      BY <2>7 DEF ForwarderJoined
    <3>2. InCycle'
      BY <2>7, <3>1, OwnerStepFrame DEF ForwarderJoined, StopForwarder, TypeOK
    <3>3. Waits'
      BY <2>7, <3>1, OwnerStepFrame, CallerMoves DEF ForwarderJoined, StopForwarder, TypeOK
    <3> QED
      BY <2>7, <3>2, <3>3 DEF ForwarderJoined, StopForwarder, TypeOK, queueVars
  <2> QED
    BY <1>1, <2>1, <2>2, <2>3, <2>4, <2>5, <2>6, <2>7, <2>8 DEF PublisherStep
<1>2. ASSUME NEW h \in Handle, ForwarderStep(h) PROVE TypeOK'
  BY <1>2, ForwarderStepFrame DEF TypeOK
<1>3. CASE UNCHANGED vars
  BY <1>3 DEF vars, threadVars, queueVars, TypeOK, Thread!TypeOK
<1> QED
  BY <1>1, <1>2, <1>3 DEF Next

(* Every variable keeps its type, an st-thread is at a place of cycle() only
   while it is in it, and a publisher is in the wait loop of start() or the join
   of stop() exactly when its own call is there. *)
THEOREM TypeCorrect == Spec => []TypeOK
<1>1. Init => TypeOK
  <2>1. Init => Thread!TypeOK
    BY DEF Init, Thread!Init, Thread!TypeOK, Thread!State, Thread!Live
  <2>2. Init => batch \in [Handle -> SUBSET Publisher] /\ queue \subseteq Publisher
    BY DEF Init
  <2>3. Init => \A p \in Publisher : (pc[p] = "starting") = (p \in starting)
                                  /\ (pc[p] = "stopping") = (joining[p] # NoTid)
    BY DEF Init, Thread!Init
  <2> QED
    BY <2>1, <2>2, <2>3 DEF Init, TypeOK
<1>2. TypeOK /\ ThreadFacts' /\ [Next]_vars => TypeOK'
  BY TypeStep DEF ThreadFacts
<1> QED
  BY <1>1, <1>2, ThreadFactsHold, PTL DEF Spec

------------------------------------------------------------------------------
\* Until two publishers met: no join is refused, one publisher is inside at a
\* time, the state follows it, and the forwarder's thread is held by an edge in
\* state Publish, or on its way there.
Alone == \A p, q \in Publisher : pc[p] # "out" /\ pc[q] # "out" => p = q

StateFollows ==
  \A p \in Publisher : /\ pc[p] \in {"connecting", "starting"} => state = "Init"
                       /\ pc[p] \in {"started", "publishing", "stopping"} => state = "Publish"

HeldByEdge == tid # NoTid => state = "Publish" \/ \E p \in Publisher : pc[p] = "starting"

EdgeInv == ~met => ~refused /\ Alone /\ StateFollows /\ HeldByEdge

LEMMA PublisherKeepsEdge ==
  ASSUME TypeOK, TypeOK', EdgeInv, NEW p \in Publisher, PublisherStep(p) PROVE EdgeInv'
<1> USE PublishEdgeAssumption DEF Goes
<1> DEFINE Inv == ~refused /\ Alone /\ StateFollows /\ HeldByEdge
<1> SUFFICES ASSUME ~met' PROVE Inv'
  BY DEF EdgeInv
<1>1. CASE Connects(p)
  <2>1. ~met /\ (\A q \in Publisher : pc[q] = "out") /\ state = "Init"
    BY <1>1 DEF Connects
  <2>2. UNCHANGED <<tid, refused, state>> /\ pc' = [pc EXCEPT ![p] = "connecting"]
    BY <1>1 DEF Connects, threadVars
  <2> QED
    BY <2>1, <2>2 DEF EdgeInv, Alone, StateFollows, HeldByEdge, TypeOK
<1> SUFFICES ASSUME ~Connects(p) PROVE Inv'
  BY <1>1
<1>2. met' = met
  BY DEF PublisherStep, Rejected, ConnectFails, Connected, Started, ServiceFails, Publishes,
         Proxies, Unpublishes, UnpublishesInit, ForwarderJoined, StopForwarder, vars, queueVars
<1>3. Inv
  BY <1>2 DEF EdgeInv
<1>4. ASSUME Unpublishes(p) \/ UnpublishesInit(p) PROVE Inv'
  <2>1. ~UnpublishesInit(p)
    BY <1>3 DEF UnpublishesInit, CanLeave, StateFollows
  <2>2. Unpublishes(p) /\ pc[p] # "out" /\ pc[p] # "stopping"
    BY <1>4, <2>1 DEF Unpublishes, CanLeave
  <2>3. ~Thread!StopUnjoined(p)
    BY <1>3, <2>2 DEF Thread!StopUnjoined, Thread!Joined, Thread!AskToStop, TypeOK, Alone
  <2>4. CASE Thread!StopAgain(p) /\ StopForwarder(p)
    BY <1>3, <2>2, <2>4 DEF Thread!StopAgain, Thread!vars, StopForwarder, Alone, StateFollows,
                     HeldByEdge, TypeOK
  <2>5. CASE Thread!StopWaits(p) /\ pc' = [pc EXCEPT ![p] = "stopping"] /\ state' = state
    BY <1>3, <2>2, <2>5 DEF Unpublishes, Thread!StopWaits, Thread!AskToStop, Alone, StateFollows,
                     HeldByEdge, TypeOK
  <2> QED
    BY <2>2, <2>3, <2>4, <2>5 DEF Unpublishes
<1>5. CASE Rejected(p)
  BY <1>3, <1>5 DEF Rejected, vars, threadVars, Alone, StateFollows, HeldByEdge
<1>6. CASE ConnectFails(p)
  <2>1. UNCHANGED <<tid, refused, state>> /\ pc[p] = "connecting" /\ pc' = [pc EXCEPT ![p] = "out"]
    BY <1>6 DEF ConnectFails, threadVars
  <2> QED
    BY <1>3, <2>1 DEF Alone, StateFollows, HeldByEdge, TypeOK
<1>7. CASE Connected(p)
  <2>1. tid = NoTid
    BY <1>3, <1>7 DEF Connected, HeldByEdge, StateFollows, Alone
  <2>2. PICK h \in Handle : Thread!CreateThread(p, h)
    BY <1>7, <2>1 DEF Connected, Thread!Start, Thread!StartAgain
  <2>3. refused' = refused
    BY <2>2 DEF Thread!CreateThread
  <2> QED
    BY <1>3, <1>7, <2>3 DEF Connected, Alone, StateFollows, HeldByEdge, TypeOK
<1>8. CASE Started(p)
  BY <1>3, <1>8 DEF Started, Thread!StartReturns, Alone, StateFollows, HeldByEdge, TypeOK
<1>9. CASE ServiceFails(p) \/ Publishes(p)
  <2>1. UNCHANGED <<tid, refused, state>> /\ pc[p] = "started"
        /\ \E to \in {"out", "publishing"} : pc' = [pc EXCEPT ![p] = to]
    BY <1>9 DEF ServiceFails, Publishes, threadVars
  <2> QED
    BY <1>3, <2>1 DEF Alone, StateFollows, HeldByEdge, TypeOK
<1>10. CASE Proxies(p)
  BY <1>3, <1>4, <1>10 DEF Proxies, threadVars, Alone, StateFollows, HeldByEdge
<1>11. CASE ForwarderJoined(p)
  BY <1>3, <1>11 DEF ForwarderJoined, Thread!JoinReturns, StopForwarder, Alone, StateFollows,
                     HeldByEdge, TypeOK
<1> QED
  BY <1>4, <1>5, <1>6, <1>7, <1>8, <1>9, <1>10, <1>11 DEF PublisherStep

LEMMA EdgeInvariance == Spec => []EdgeInv
<1>1. Init => EdgeInv
  BY DEF Init, Thread!Init, EdgeInv, Alone, StateFollows, HeldByEdge
<1>2. ASSUME TypeOK, TypeOK', EdgeInv, [Next]_vars PROVE EdgeInv'
  <2>1. ASSUME NEW h \in Handle, ForwarderStep(h) PROVE EdgeInv'
    BY <1>2, <2>1, ForwarderStepFrame DEF EdgeInv, Alone, StateFollows, HeldByEdge
  <2>2. CASE UNCHANGED vars
    BY <1>2, <2>2 DEF vars, threadVars, queueVars, EdgeInv, Alone, StateFollows, HeldByEdge
  <2> QED
    BY <1>2, <2>1, <2>2, PublisherKeepsEdge DEF Next
<1> QED
  BY <1>1, <1>2, TypeCorrect, PTL DEF Spec

(* As long as publishers come one at a time, an edge in state Init has no
   forwarder running: each way out of a publish that began stops it. *)
THEOREM NoForwarderInInit == Spec => []InitHasNoForwarder
<1>1. ThreadFacts /\ EdgeInv => InitHasNoForwarder
  BY DEF ThreadFacts, EdgeInv, HeldByEdge, InitHasNoForwarder, Thread!QuietWhenStopped
<1> QED
  BY <1>1, ThreadFactsHold, EdgeInvariance, PTL

(* As long as publishers come one at a time, the connection to the origin has
   one user: the publisher that opens it, or the forwarder's one st-thread. *)
THEOREM OneThreadUsesFd == Spec => []OneThreadOneFd
<1>1. ASSUME TypeOK, ThreadFacts, EdgeInv, ~met PROVE Cardinality(fdUsers) <= 1
  <2>1. \A g, h \in Handle : at[g] # "none" /\ at[h] # "none" => g = h
    BY <1>1 DEF TypeOK, ThreadFacts, EdgeInv, Thread!OneThread, Thread!LiveThreads, Thread!Live
  <2>2. CASE \E p \in Publisher : pc[p] = "connecting"
    <3>1. PICK p \in Publisher : pc[p] = "connecting"
      BY <2>2
    <3>2. Thread!LiveThreads = {}
      BY <1>1, <3>1 DEF EdgeInv, Alone, StateFollows, HeldByEdge, ThreadFacts, Thread!QuietWhenStopped
    <3>3. \A h \in Handle : at[h] = "none"
      BY <1>1, <3>2 DEF TypeOK, Thread!LiveThreads, Thread!Live
    <3>4. fdUsers = {p}
      BY <1>1, <3>1, <3>3 DEF fdUsers, EdgeInv, Alone
    <3> QED
      BY <3>4, FS_Singleton
  <2>3. CASE \A p \in Publisher : pc[p] # "connecting"
    <3>1. CASE \E h \in Handle : at[h] \in {"recv", "send"}
      <4>1. PICK h \in Handle : at[h] \in {"recv", "send"}
        BY <3>1
      <4>2. fdUsers = {h}
        BY <2>1, <2>3, <4>1 DEF fdUsers
      <4> QED
        BY <4>2, FS_Singleton
    <3>2. CASE fdUsers = {}
      BY <3>2, FS_EmptySet
    <3> QED
      BY <2>3, <3>1, <3>2 DEF fdUsers
  <2> QED
    BY <2>2, <2>3
<1> QED
  BY <1>1, TypeCorrect, ThreadFactsHold, EdgeInvariance, PTL DEF OneThreadOneFd
==============================================================================
