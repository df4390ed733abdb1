----------------------------- MODULE MCLiveSource -----------------------------
(***************************************************************************)
(* LiveSource beside SrsMessageQueue statement by statement: enqueue()     *)
(* calls shrink() until the queue is not full, and shrink() removes up to  *)
(* the next key frame.  MediaQueue says in one step what this loop comes   *)
(* to; here the two are compared on the queues that a source's peers have. *)
(***************************************************************************)
EXTENDS LiveSource

\* shrink(): the index of the first key frame behind the first message.
IFrames(q) == {i \in 2..Len(q.msgs) : IsKeyframe(q.msgs[i])}

Shrink(q) ==
  IF IFrames(q) = {} THEN NewQueue
  ELSE LET iframe == Min(IFrames(q)) IN
         [q EXCEPT !.msgs = SubSeq(@, iframe, Len(@)),
                   !.av_start_time = q.msgs[iframe].time]

\* while (av_end_time - av_start_time > queue_size_ms) shrink();  Each round removes
\* a message, or the first was the last round.
ShrinkLoop(q, size) ==
  LET rounds[n \in 0..Len(q.msgs)] ==
        IF n = 0 THEN q
        ELSE LET last == rounds[n - 1]
             IN IF IsFull(last, size) THEN Shrink(last) ELSE last
  IN rounds[Len(q.msgs)]

\* What may come next at a peer, in order or not.
Incoming(s) ==
  [kind : Published, time : 0..(pipe[s].queue.av_end_time + CONST_MAX_JITTER_MS), sh : {0}]

(* One step of Enqueue leaves what the loop over shrink() leaves, for messages
   of any kind and time that come to any queue of a peer; and then the loop ends. *)
EnqueueIsShrinkLoop ==
  \A s \in Peer : \A m \in Incoming(s) :
    LET q == ShrinkLoop(Pushed(pipe[s].queue, m), queueSize) IN
      q = Enqueue(pipe[s].queue, m, queueSize) /\ ~IsFull(q, queueSize)
==============================================================================
