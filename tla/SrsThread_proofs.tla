--------------------------- MODULE SrsThread_proofs ---------------------------
(***************************************************************************)
(* What TLAPS proves of SrsThread, for any number of owners and handles.   *)
(***************************************************************************)
EXTENDS SrsThread, TLAPS

(* Every variable keeps its type, whatever the owners do. *)
THEOREM TypeCorrect == Spec => []TypeOK
<1>1. Init => TypeOK
  BY DEF Init, TypeOK, State, Live
<1>2. TypeOK /\ [Next]_vars => TypeOK'
  <2> SUFFICES ASSUME TypeOK, [Next]_vars PROVE TypeOK'
    OBVIOUS
  <2>1. ASSUME NEW o \in Owner, OwnerStep(o) PROVE TypeOK'
    <3>1. CASE StartAgain(o) \/ StopAgain(o)
      BY <3>1 DEF StartAgain, StopAgain, vars, TypeOK
    <3>2. ASSUME NEW h \in Handle, CreateThread(o, h) PROVE TypeOK'
      BY <3>2 DEF CreateThread, TypeOK, State, Live
    <3>3. CASE StartReturns(o)
      BY <3>3 DEF StartReturns, objectVars, TypeOK
    <3>4. CASE StopWaits(o)
      BY <3>4 DEF StopWaits, AskToStop, TypeOK
    <3>5. CASE StopUnjoined(o)
      BY <3>5 DEF StopUnjoined, AskToStop, TypeOK
    <3>6. CASE JoinReturns(o)
      BY <3>6 DEF JoinReturns, TypeOK, State
    <3> QED
      BY <2>1, <3>1, <3>2, <3>3, <3>4, <3>5, <3>6 DEF OwnerStep, Start, Stop
  <2>2. ASSUME NEW h \in Handle, ThreadStep(h) PROVE TypeOK'
    <3>1. CASE ThreadRuns(h)
      BY <3>1 DEF ThreadRuns, NextRound, ownerVars, TypeOK, State, Live
    <3>2. CASE CycleReturns(h)
      BY <3>2 DEF CycleReturns, EndCycle, objectVars, ownerVars, TypeOK, State, Live
    <3>3. CASE CycleInterrupted(h)
      BY <3>3 DEF CycleInterrupted, EndCycle, objectVars, ownerVars, TypeOK, State, Live
    <3>4. CASE InterruptEaten(h)
      BY <3>4 DEF InterruptEaten, objectVars, ownerVars, TypeOK
    <3>5. CASE SleepEnds(h)
      BY <3>5 DEF SleepEnds, NextRound, objectVars, ownerVars, TypeOK, State, Live
    <3> QED
      BY <2>2, <3>1, <3>2, <3>3, <3>4, <3>5 DEF ThreadStep
  <2>3. CASE UNCHANGED vars
    BY <2>3 DEF vars, TypeOK
  <2> QED
    BY <2>1, <2>2, <2>3 DEF Next
<1> QED
  BY <1>1, <1>2, PTL DEF Spec

------------------------------------------------------------------------------
\* What a step of a thread leaves alone: it never touches the handle, the loop
\* flag or the owners, and neither frees nor revives an st-thread.
LEMMA ThreadStepFrame ==
  ASSUME TypeOK, NEW h \in Handle, ThreadStep(h)
  PROVE  /\ tid' = tid /\ starting' = starting /\ joining' = joining
         /\ th[h] \in Live
         /\ \A g \in Handle : g # h => th'[g] = th[g]
         /\ th'[h] \in Live \cup {"zombie"}
<1>1. CASE ThreadRuns(h)
  BY <1>1 DEF ThreadRuns, NextRound, ownerVars, TypeOK, Live
<1>2. CASE CycleReturns(h)
  BY <1>2 DEF CycleReturns, EndCycle, objectVars, ownerVars, TypeOK, Live
<1>3. CASE CycleInterrupted(h)
  BY <1>3 DEF CycleInterrupted, EndCycle, objectVars, ownerVars, TypeOK, Live
<1>4. CASE InterruptEaten(h)
  BY <1>4 DEF InterruptEaten, objectVars, ownerVars, TypeOK, Live
<1>5. CASE SleepEnds(h)
  BY <1>5 DEF SleepEnds, NextRound, objectVars, ownerVars, TypeOK, Live
<1> QED
  BY <1>1, <1>2, <1>3, <1>4, <1>5 DEF ThreadStep

\* Two owners never wait for the same st-thread: the second join is refused.
OneJoiner == \A o, p \in Owner :
               (joining[o] # NoTid /\ joining[o] = joining[p]) => o = p

HandleInv == TypeOK /\ NoReapedHandle /\ OneJoiner

LEMMA HandleInvariance == Spec => []HandleInv
<1>1. Init => HandleInv
  BY DEF Init, HandleInv, TypeOK, State, Live, NoReapedHandle, OneJoiner
<1>2. HandleInv /\ TypeOK' /\ [Next]_vars => HandleInv'
  <2> SUFFICES ASSUME HandleInv, TypeOK', [Next]_vars PROVE HandleInv'
    OBVIOUS
  <2> USE HandleAssumption
  <2>1. ASSUME NEW o \in Owner, OwnerStep(o) PROVE NoReapedHandle' /\ OneJoiner'
    <3>1. CASE StartAgain(o) \/ StopAgain(o)
      BY <3>1 DEF StartAgain, StopAgain, vars, HandleInv, NoReapedHandle, OneJoiner
    <3>2. ASSUME NEW h \in Handle, CreateThread(o, h) PROVE NoReapedHandle' /\ OneJoiner'
      BY <3>2 DEF CreateThread, HandleInv, TypeOK, NoReapedHandle, OneJoiner
    <3>3. CASE StartReturns(o)
      BY <3>3 DEF StartReturns, objectVars, HandleInv, NoReapedHandle, OneJoiner
    <3>4. CASE StopWaits(o)
      BY <3>4 DEF StopWaits, AskToStop, Joined, HandleInv, TypeOK, NoReapedHandle, OneJoiner
    <3>5. CASE StopUnjoined(o)
      BY <3>5 DEF StopUnjoined, AskToStop, HandleInv, TypeOK, NoReapedHandle, OneJoiner
    <3>6. CASE JoinReturns(o)
      BY <3>6 DEF JoinReturns, HandleInv, TypeOK, NoReapedHandle, OneJoiner
    <3> QED
      BY <2>1, <3>1, <3>2, <3>3, <3>4, <3>5, <3>6 DEF OwnerStep, Start, Stop
  <2>2. ASSUME NEW h \in Handle, ThreadStep(h) PROVE NoReapedHandle' /\ OneJoiner'
    BY <2>2, ThreadStepFrame DEF HandleInv, TypeOK, NoReapedHandle, OneJoiner, Live
  <2>3. CASE UNCHANGED vars
    BY <2>3 DEF vars, HandleInv, NoReapedHandle, OneJoiner
  <2> QED
    BY <2>1, <2>2, <2>3 DEF Next, HandleInv, vars
<1> QED
  BY <1>1, <1>2, TypeCorrect, PTL DEF Spec

(* No owner ever holds or joins an st-thread that was already reaped, however
   the owners' calls overlap: the refusal of a second joiner and the
   unconditional reset of tid after a join are what keeps it so. *)
THEOREM HandlesStayValid == Spec => []NoReapedHandle
<1>1. HandleInv => NoReapedHandle
  BY DEF HandleInv
<1> QED
  BY <1>1, HandleInvariance, PTL

------------------------------------------------------------------------------
\* Until a join is refused: the only st-thread there is is the one in tid, its
\* loop flag is off exactly while an owner joins it, and it only ends then.
OneThreadInv ==
  /\ \A h \in Handle : th[h] # "free" => h = tid
  /\ tid # NoTid => th[tid] # "free"
  /\ \A o \in Owner : joining[o] # NoTid => joining[o] = tid
  /\ (tid # NoTid /\ th[tid] = "zombie") => ~loop
  /\ (tid # NoTid /\ ~loop) => Joined(tid)

JoinInv == TypeOK /\ OneJoiner /\ (~refused => OneThreadInv)

LEMMA JoinInvInit == Init => JoinInv
  BY DEF Init, JoinInv, OneThreadInv, OneJoiner, TypeOK, State, Live

LEMMA JoinInvNext ==
  ASSUME JoinInv, TypeOK', OneJoiner', [Next]_vars PROVE JoinInv'
<1> USE HandleAssumption
<1> SUFFICES ASSUME ~refused' PROVE OneThreadInv'
  BY DEF JoinInv
<1>1. ASSUME NEW o \in Owner, OwnerStep(o) PROVE OneThreadInv'
  <2>1. CASE StartAgain(o) \/ StopAgain(o)
    BY <2>1 DEF StartAgain, StopAgain, vars, JoinInv, OneThreadInv, Joined
  <2>2. ASSUME NEW h \in Handle, CreateThread(o, h) PROVE OneThreadInv'
    BY <2>2 DEF CreateThread, JoinInv, OneThreadInv, TypeOK, Joined
  <2>3. CASE StartReturns(o)
    BY <2>3 DEF StartReturns, objectVars, JoinInv, OneThreadInv, Joined
  <2>4. CASE StopWaits(o)
    BY <2>4 DEF StopWaits, AskToStop, JoinInv, OneThreadInv, TypeOK, Joined
  <2>5. CASE StopUnjoined(o)
    BY <2>5 DEF StopUnjoined
  <2>6. CASE JoinReturns(o)
    BY <2>6 DEF JoinReturns, JoinInv, OneThreadInv, OneJoiner, TypeOK, Joined
  <2> QED
    BY <1>1, <2>1, <2>2, <2>3, <2>4, <2>5, <2>6 DEF OwnerStep, Start, Stop
<1>2. ASSUME NEW h \in Handle, ThreadStep(h) PROVE OneThreadInv'
  <2>1. loop' = loop /\ refused' = refused /\ (th'[h] = "zombie" => ~loop)
    BY <1>2 DEF ThreadStep, ThreadRuns, CycleReturns, CycleInterrupted, InterruptEaten, SleepEnds,
                NextRound, EndCycle, objectVars, ownerVars, JoinInv, TypeOK
  <2> QED
    BY <1>2, <2>1, ThreadStepFrame DEF JoinInv, OneThreadInv, TypeOK, Joined, Live
<1>3. CASE UNCHANGED vars
  BY <1>3 DEF vars, JoinInv, OneThreadInv, Joined
<1> QED
  BY <1>1, <1>2, <1>3 DEF Next

LEMMA JoinInvariance == Spec => []JoinInv
<1>1. JoinInv /\ TypeOK' /\ HandleInv' /\ [Next]_vars => JoinInv'
  BY JoinInvNext DEF HandleInv
<1> QED
  BY JoinInvInit, <1>1, TypeCorrect, HandleInvariance, PTL DEF Spec

(* Two st-threads of one object never run together, until a join is refused. *)
THEOREM OneThreadAtATime == Spec => []OneThread
<1>1. JoinInv => OneThread
  BY DEF JoinInv, OneThreadInv, OneThread, LiveThreads, Live
<1> QED
  BY <1>1, JoinInvariance, PTL

(* A stopped object has no thread left, until a join is refused. *)
THEOREM StoppedIsQuiet == Spec => []QuietWhenStopped
<1>1. JoinInv => QuietWhenStopped
  BY HandleAssumption DEF JoinInv, OneThreadInv, QuietWhenStopped, LiveThreads, Live
<1> QED
  BY <1>1, JoinInvariance, PTL

(* A stop() whose join is not refused gives up the handle only of a thread
   that has terminated: "stop the thread, wait for the thread to terminate". *)
THEOREM JoinedStopWaitsForExit ==
  Spec => [][(~refused' /\ tid # NoTid /\ tid' = NoTid) => th'[tid] \notin Live]_vars
<1> USE HandleAssumption
<1>1. ASSUME JoinInv, [Next]_vars, ~refused', tid # NoTid, tid' = NoTid
      PROVE  th'[tid] \notin Live
  <2>1. PICK o \in Owner : OwnerStep(o)
    BY <1>1, ThreadStepFrame DEF Next, vars, JoinInv
  <2>2. CASE StartAgain(o) \/ StopAgain(o) \/ StartReturns(o) \/ StopWaits(o)
    BY <1>1, <2>2 DEF StartAgain, StopAgain, StartReturns, StopWaits, vars, objectVars
  <2>3. CASE \E h \in Handle : CreateThread(o, h)
    BY <1>1, <2>3 DEF CreateThread
  <2>4. CASE StopUnjoined(o)
    BY <1>1, <2>4 DEF StopUnjoined
  <2>5. CASE JoinReturns(o)
    BY <1>1, <2>5 DEF JoinReturns, JoinInv, OneThreadInv, TypeOK, Live
  <2> QED
    BY <2>1, <2>2, <2>3, <2>4, <2>5 DEF OwnerStep, Start, Stop
<1>2. JoinInv /\ [Next]_vars
        => [(~refused' /\ tid # NoTid /\ tid' = NoTid) => th'[tid] \notin Live]_vars
  BY <1>1
<1> QED
  BY <1>2, JoinInvariance, PTL DEF Spec

------------------------------------------------------------------------------
\* A service step, or one the service does not see.
ServiceStep == [Service!ServiceNext]_Service!svars

\* What an owner does to the service.
LEMMA OwnerRefines ==
  ASSUME JoinInv, JoinInv', NEW o \in Owner, OwnerStep(o) PROVE ServiceStep
<1> USE HandleAssumption
<1> USE DEF ServiceStep, Service!svars, phase
<1>1. CASE StartAgain(o) \/ StopAgain(o)
  BY <1>1 DEF StartAgain, StopAgain, vars, LiveThreads, Joined
<1>2. CASE refused
  <2>1. refused'
    BY <1>2 DEF OwnerStep, Start, Stop, StartAgain, StopAgain, CreateThread, StartReturns,
                StopWaits, StopUnjoined, JoinReturns, vars
  <2> QED
    BY <1>2, <2>1
<1>3. ASSUME ~refused, NEW h \in Handle, CreateThread(o, h) PROVE Service!Begin
  <2>1. h \in LiveThreads' /\ LiveThreads = {}
    BY <1>3 DEF CreateThread, LiveThreads, Live, JoinInv, OneThreadInv, TypeOK
  <2>2. ~Joined(tid)'
    BY <1>3 DEF CreateThread, Joined, JoinInv, OneThreadInv, TypeOK
  <2> QED
    BY <1>3, <2>1, <2>2 DEF CreateThread, Service!Begin, JoinInv, TypeOK
<1>4. CASE ~refused /\ StartReturns(o)
  BY <1>4 DEF StartReturns, objectVars, LiveThreads, Joined
<1>5. ASSUME ~refused, StopWaits(o) PROVE Service!Ask
  <2>1. Joined(tid)' /\ tid' = tid /\ tid # NoTid /\ ~Joined(tid) /\ ~refused'
    BY <1>5 DEF StopWaits, AskToStop, Joined, JoinInv, TypeOK
  <2>2. LiveThreads' = LiveThreads
    BY <1>5 DEF StopWaits, AskToStop, LiveThreads
  <2> QED
    BY <1>5, <2>1, <2>2 DEF Service!Ask
<1>6. ASSUME ~refused, StopUnjoined(o) PROVE Service!Forget
  BY <1>6 DEF StopUnjoined, AskToStop, Service!Forget
<1>7. ASSUME ~refused, JoinReturns(o) PROVE Service!Return
  <2>1. tid # NoTid /\ Joined(tid) /\ tid' = NoTid /\ th[tid] = "zombie" /\ ~refused'
    BY <1>7 DEF JoinReturns, Joined, JoinInv, OneThreadInv, TypeOK
  <2>2. LiveThreads = {} /\ LiveThreads' = {}
    BY <2>1, <1>7 DEF JoinReturns, LiveThreads, Live, JoinInv, OneThreadInv, TypeOK
  <2> QED
    BY <1>7, <2>1, <2>2 DEF Service!Return
<1> QED
  BY <1>1, <1>2, <1>3, <1>4, <1>5, <1>6, <1>7 DEF OwnerStep, Start, Stop, Service!ServiceNext

\* What an st-thread does to the service.
LEMMA ThreadRefines ==
  ASSUME JoinInv, JoinInv', NEW h \in Handle, ThreadStep(h) PROVE ServiceStep
<1> USE HandleAssumption
<1> USE DEF ServiceStep, Service!svars, phase
<1>1. tid' = tid /\ joining' = joining /\ loop' = loop /\ refused' = refused
  BY DEF ThreadStep, ThreadRuns, CycleReturns, CycleInterrupted, InterruptEaten, SleepEnds,
         objectVars, ownerVars
<1>2. CASE refused
  BY <1>1, <1>2
<1>3. CASE ~refused
  <2>1. h = tid /\ tid # NoTid /\ LiveThreads = {tid}
    BY <1>3, ThreadStepFrame DEF JoinInv, OneThreadInv, LiveThreads, Live
  <2>2. CASE th'[h] \in Live
    <3>1. LiveThreads' = {tid}
      BY <1>1, <1>3, <2>1, <2>2 DEF JoinInv, OneThreadInv, LiveThreads, Live
    <3> QED
      BY <1>1, <2>1, <3>1 DEF Joined
  <2>3. CASE th'[h] = "zombie"
    <3>1. LiveThreads' = {}
      BY <1>1, <1>3, <2>1, <2>3 DEF JoinInv, OneThreadInv, LiveThreads, Live
    <3>2. Joined(tid) /\ Joined(tid)'
      BY <1>1, <1>3, <2>1, <2>3 DEF JoinInv, OneThreadInv, Joined
    <3> QED
      BY <1>1, <1>3, <2>1, <3>1, <3>2 DEF Service!ServiceNext, Service!Finish
  <2> QED
    BY <2>2, <2>3, ThreadStepFrame DEF JoinInv
<1> QED
  BY <1>2, <1>3

(* SrsThread implements the safety part of ThreadService: every step is a step
   of the service or invisible to it, a refused join being its way out. *)
THEOREM RefinesService ==
  Spec => Service!ServiceInit /\ [][Service!ServiceNext]_Service!svars
<1>1. Init => Service!ServiceInit
  BY DEF Init, Service!ServiceInit, phase, LiveThreads, Live
<1>2. ASSUME JoinInv, JoinInv', [Next]_vars PROVE ServiceStep
  <2>1. CASE UNCHANGED vars
    BY <2>1 DEF vars, ServiceStep, Service!svars, phase, LiveThreads, Joined
  <2> QED
    BY <1>2, <2>1, OwnerRefines, ThreadRefines DEF Next
<1>3. JoinInv /\ JoinInv' /\ [Next]_vars => [Service!ServiceNext]_Service!svars
  BY <1>2 DEF ServiceStep
<1> QED
  BY <1>1, <1>3, JoinInvariance, PTL DEF Spec
==============================================================================
