------------------------------ MODULE SrsThread ------------------------------
(***************************************************************************)
(* SrsThread (app/srs_app_thread.cpp): a restartable service thread on top *)
(* of one st-thread at a time.  Coroutines that call start() and stop() on *)
(* the object are its Owners, and nothing keeps their calls apart; every   *)
(* action runs from one switch point of                                    *)
(* st-threads (usleep, join, I/O, exit) to the next.  The objects modelled *)
(* are the joinable ones, whose handlers never call stop_loop(); the       *)
(* st-threads half (create, interrupt, join, exit) is taken from           *)
(* win/lib/st/sched_win.c.                                                 *)
(***************************************************************************)
EXTENDS Naturals, FiniteSets

CONSTANTS
  Owner,      \* coroutines that start and stop the object
  Handle,     \* st-threads: the bound on those alive at one time
  NoTid       \* the NULL st_thread_t

ASSUME HandleAssumption == NoTid \notin Handle

VARIABLES
  tid,       \* SrsThread::tid
  loop,      \* SrsThread::loop
  named,     \* whether SrsThread::_cid was set; it is never reset
  th,        \* where each st-thread is
  intr,      \* st-threads whose interrupt flag is set
  starting,  \* owners in the wait loop of start()
  joining,   \* the st-thread an owner inside stop() waits for, or NoTid
  refused    \* history: whether a join was refused, a stop() overtaking another

objectVars == <<tid, loop, named>>
ownerVars == <<starting, joining, refused>>
vars == <<tid, loop, named, th, intr, starting, joining, refused>>

\* "created": never scheduled; "cycle": in handler->cycle(); "sleep": in the
\* interval sleep of thread_cycle(); "zombie": exited, not joined.
Live == {"created", "cycle", "sleep"}
State == Live \cup {"free", "zombie"}

TypeOK ==
  /\ tid \in Handle \cup {NoTid}
  /\ loop \in BOOLEAN
  /\ named \in BOOLEAN
  /\ th \in [Handle -> State]
  /\ intr \subseteq Handle
  /\ starting \subseteq Owner
  /\ joining \in [Owner -> Handle \cup {NoTid}]
  /\ refused \in BOOLEAN

Init ==
  /\ tid = NoTid
  /\ loop = FALSE
  /\ named = FALSE
  /\ th = [h \in Handle |-> "free"]
  /\ intr = {}
  /\ starting = {}
  /\ joining = [o \in Owner |-> NoTid]
  /\ refused = FALSE

Idle(o) == o \notin starting /\ joining[o] = NoTid

------------------------------------------------------------------------------
(* start() *)

\* "thread already running".
StartAgain(o) == Idle(o) /\ tid # NoTid /\ UNCHANGED vars

\* Mutants of CreateThread: start() without its test of tid, and one that does
\* not set loop.
CreateThreadUnchecked(o, h) ==
  /\ Idle(o)
  /\ th[h] = "free"
  /\ tid' = h
  /\ loop' = TRUE
  /\ th' = [th EXCEPT ![h] = "created"]
  /\ starting' = IF named THEN starting ELSE starting \cup {o}
  /\ UNCHANGED <<named, intr, joining, refused>>

CreateThreadNoLoop(o, h) ==
  /\ Idle(o)
  /\ tid = NoTid
  /\ th[h] = "free"
  /\ tid' = h
  /\ th' = [th EXCEPT ![h] = "created"]
  /\ starting' = IF named THEN starting ELSE starting \cup {o}
  /\ UNCHANGED <<loop, named, intr, joining, refused>>

\* A thread is created; start() then waits for its cid unless an earlier one
\* set it.  Created threads run at the creator's next switch point.
CreateThread(o, h) ==
  /\ Idle(o)
  /\ tid = NoTid
  /\ th[h] = "free"
  /\ tid' = h
  /\ loop' = TRUE
  /\ th' = [th EXCEPT ![h] = "created"]
  /\ starting' = IF named THEN starting ELSE starting \cup {o}
  /\ UNCHANGED <<named, intr, joining, refused>>

Start(o) == StartAgain(o) \/ \E h \in Handle : CreateThread(o, h)

\* while (_cid < 0 && loop) st_usleep(10ms);
StartReturns(o) ==
  /\ o \in starting
  /\ named \/ ~loop
  /\ starting' = starting \ {o}
  /\ UNCHANGED <<objectVars, th, intr, joining, refused>>

------------------------------------------------------------------------------
(* stop() *)

StopAgain(o) == Idle(o) /\ tid = NoTid /\ UNCHANGED vars

\* Mutant of AskToStop: stop() without its test of tid.
AskToStopUnchecked(o) ==
  /\ Idle(o)
  /\ loop' = FALSE
  /\ intr' = intr \cup {tid}
  /\ UNCHANGED <<named, th, starting>>

\* The common part: clear loop, interrupt the thread.
AskToStop(o) ==
  /\ Idle(o)
  /\ tid # NoTid
  /\ loop' = FALSE
  /\ intr' = intr \cup {tid}
  /\ UNCHANGED <<named, th, starting>>

Joined(h) == \E p \in Owner : joining[p] = h

\* Mutant of StopWaits: stop() that does not join the thread.
StopWithoutJoin(o) ==
  /\ AskToStop(o)
  /\ tid' = NoTid
  /\ UNCHANGED <<joining, refused>>

\* st_thread_join() waits.
StopWaits(o) ==
  /\ AskToStop(o)
  /\ ~Joined(tid)
  /\ joining' = [joining EXCEPT ![o] = tid]
  /\ UNCHANGED <<tid, refused>>

\* "Multiple threads can't wait on the same joinable thread": the join fails
\* with EINVAL at once, stop() does not look at it and forgets the thread.
StopUnjoined(o) ==
  /\ AskToStop(o)
  /\ Joined(tid)
  /\ tid' = NoTid
  /\ refused' = TRUE
  /\ UNCHANGED joining

Stop(o) == StopAgain(o) \/ StopWaits(o) \/ StopUnjoined(o)

\* Mutant of JoinReturns: stop() keeps tid.
JoinReturnsKeepingTid(o) ==
  /\ joining[o] # NoTid
  /\ th[joining[o]] = "zombie"
  /\ th' = [th EXCEPT ![joining[o]] = "free"]
  /\ intr' = intr \ {joining[o]}
  /\ joining' = [joining EXCEPT ![o] = NoTid]
  /\ UNCHANGED <<tid, loop, named, starting, refused>>

\* The joined thread is a zombie: it is reaped, and tid is cleared whatever
\* thread it names by now.
JoinReturns(o) ==
  /\ joining[o] # NoTid
  /\ th[joining[o]] = "zombie"
  /\ th' = [th EXCEPT ![joining[o]] = "free"]
  /\ intr' = intr \ {joining[o]}
  /\ joining' = [joining EXCEPT ![o] = NoTid]
  /\ tid' = NoTid
  /\ UNCHANGED <<loop, named, starting, refused>>

------------------------------------------------------------------------------
(* thread_cycle() *)

\* The loop test: another handler->cycle(), or the thread exits.
NextRound(h) == th' = [th EXCEPT ![h] = IF loop THEN "cycle" ELSE "zombie"]

\* Mutant of ThreadRuns: the thread does not set _cid.
ThreadRunsNameless(h) ==
  /\ th[h] = "created"
  /\ NextRound(h)
  /\ UNCHANGED <<tid, loop, named, intr, ownerVars>>

ThreadRuns(h) ==
  /\ th[h] = "created"
  /\ named' = TRUE
  /\ NextRound(h)
  /\ UNCHANGED <<tid, loop, intr, ownerVars>>

\* Mutant of EndCycle: an error of handler->cycle() ends the thread.
EndCycleForGood(h) == th' = [th EXCEPT ![h] = "zombie"]

\* "failed:" and the interval sleep, after any return of handler->cycle().
EndCycle(h) == th' = [th EXCEPT ![h] = IF loop THEN "sleep" ELSE "zombie"]

\* handler->cycle() comes back by itself, with an error or because it saw
\* can_loop() false.
CycleReturns(h) ==
  /\ th[h] = "cycle"
  /\ EndCycle(h)
  /\ UNCHANGED <<objectVars, intr, ownerVars>>

\* The interrupt makes the socket call of handler->cycle() fail.
CycleInterrupted(h) ==
  /\ th[h] = "cycle"
  /\ h \in intr
  /\ intr' = intr \ {h}
  /\ EndCycle(h)
  /\ UNCHANGED <<objectVars, ownerVars>>

\* The interrupt hits an st_usleep() of handler->cycle(), which ignores it.
InterruptEaten(h) ==
  /\ th[h] = "cycle"
  /\ h \in intr
  /\ intr' = intr \ {h}
  /\ UNCHANGED <<objectVars, th, ownerVars>>

\* The interval sleep is over, or interrupted.
SleepEnds(h) ==
  /\ th[h] = "sleep"
  /\ intr' = intr \ {h}
  /\ NextRound(h)
  /\ UNCHANGED <<objectVars, ownerVars>>

ThreadStep(h) == ThreadRuns(h) \/ CycleReturns(h) \/ CycleInterrupted(h)
                 \/ InterruptEaten(h) \/ SleepEnds(h)

OwnerStep(o) == Start(o) \/ StartReturns(o) \/ Stop(o) \/ JoinReturns(o)

Next == (\E o \in Owner : OwnerStep(o)) \/ (\E h \in Handle : ThreadStep(h))

Spec == Init /\ [][Next]_vars

\* The st scheduler runs every runnable coroutine.  A handler's cycle() is only
\* bound to come back once can_loop() is false: every blocking call of the
\* handlers has a timeout and their loops test can_loop().
ThreadFairness(h) ==
  /\ WF_vars(ThreadRuns(h))
  /\ WF_vars(~loop /\ CycleReturns(h))
  /\ WF_vars(SleepEnds(h))

OwnerFairness(o) == WF_vars(StartReturns(o)) /\ WF_vars(JoinReturns(o))

FairSpec == /\ Spec
            /\ \A h \in Handle : ThreadFairness(h)
            /\ \A o \in Owner : OwnerFairness(o)

------------------------------------------------------------------------------
LiveThreads == {h \in Handle : th[h] \in Live}

(* Until a join is refused, an SrsThread never runs two st-threads at once: the
   handler's cycle() is not written for two coroutines. *)
OneThread == ~refused => \A g, h \in LiveThreads : g = h

(* Until then, a stopped object has no thread running: one it lost sight of
   could never be stopped again. *)
QuietWhenStopped == (~refused /\ tid = NoTid) => LiveThreads = {}

(* The handle kept in tid, or being joined, is never one that st-threads has
   already reaped and may have given to somebody else; refused joins included. *)
NoReapedHandle ==
  /\ tid # NoTid => th[tid] # "free"
  /\ \A o \in Owner : joining[o] # NoTid => th[joining[o]] # "free"

(* Every call comes back: the wait of start() for the cid ends, whoever stops the
   object meanwhile, and the join of stop() does, unless another one is refused
   the join and the object can be started under the first. *)
CallsComplete ==
  \A o \in Owner :
    /\ o \in starting ~> o \notin starting
    /\ joining[o] # NoTid ~> (joining[o] = NoTid \/ refused)

\* The service the object provides: asked to stop is a waiting joiner.
phase == IF refused THEN "forgotten"
         ELSE IF tid = NoTid THEN "off"
         ELSE IF Joined(tid) THEN "stopping" ELSE "on"

Service == INSTANCE ThreadService WITH body <- ~refused /\ LiveThreads # {}

(* SrsThread provides the service of ThreadService. *)
ImplementsService == Service!ServiceSpec
==============================================================================
