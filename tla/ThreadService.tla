---------------------------- MODULE ThreadService ----------------------------
(***************************************************************************)
(* What the callers of SrsThread rely on, without st-threads: one object   *)
(* runs at most one body, start() begins it, stop() asks it to end and     *)
(* comes back once it has ended ("stop the thread, wait for the thread to  *)
(* terminate").  The one way out of it: a second stop() while the first is *)
(* waiting forgets the body, and from then on nothing is promised.         *)
(***************************************************************************)
VARIABLES
  phase,  \* what the object was last asked to do, or "forgotten"
  body    \* whether a thread body of the object is running

svars == <<phase, body>>

ServiceTypeOK == phase \in {"off", "on", "stopping", "forgotten"} /\ body \in BOOLEAN

ServiceInit == phase = "off" /\ body = FALSE

\* start() on a stopped object.
Begin == phase = "off" /\ phase' = "on" /\ body' = TRUE

\* stop() on a started object: it asks, and waits.
Ask == phase = "on" /\ phase' = "stopping" /\ UNCHANGED body

\* The body ends, and only because it was asked to.
Finish == phase = "stopping" /\ body /\ body' = FALSE /\ UNCHANGED phase

\* stop() returns.
Return == phase = "stopping" /\ ~body /\ phase' = "off" /\ UNCHANGED body

\* A second stop() does not wait.
Forget == phase = "stopping" /\ phase' = "forgotten" /\ body' = FALSE

ServiceNext == Begin \/ Ask \/ Finish \/ Return \/ Forget

\* A stop() that was called completes.
ServiceSpec == /\ ServiceInit /\ [][ServiceNext]_svars
               /\ WF_svars(Finish) /\ WF_svars(Return)
==============================================================================
