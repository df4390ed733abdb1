------------------------------ MODULE MediaQueue ------------------------------
(***************************************************************************)
(* What a media message goes through on its way to one peer of a source    *)
(* (app/srs_app_source.cpp): SrsRtmpJitter::correct, which rewrites its    *)
(* time, and SrsMessageQueue, which drops from the front when it is full.  *)
(* A message is a record of its kind, its time in ms and, for video, the   *)
(* sequence header it was encoded under.  Times and counts stay far below  *)
(* 2^31, the widths of the code are not modelled.                          *)
(***************************************************************************)
EXTENDS Integers, Sequences, FiniteSetsExt

CONSTANTS
  CONST_MAX_JITTER_MS,   \* a larger difference of two times is a jitter
  DEFAULT_FRAME_TIME_MS  \* the difference that replaces it

ASSUME JitterAssumption ==
  /\ CONST_MAX_JITTER_MS \in Nat
  /\ DEFAULT_FRAME_TIME_MS \in 0..CONST_MAX_JITTER_MS

\* Metadata, the AAC and H.264 sequence headers, raw audio, key and other frames.
Kinds == {"meta", "ash", "vsh", "audio", "key", "inter"}

IsVideo(m) == m.kind \in {"vsh", "key", "inter"}
IsAudio(m) == m.kind \in {"ash", "audio"}
IsAV(m) == IsVideo(m) \/ IsAudio(m)
IsFrame(m) == m.kind \in {"audio", "key", "inter"}

\* SrsFlvCodec::video_is_keyframe looks at the frame type only, which a sequence
\* header has in common with a key frame.
IsKeyframe(m) == m.kind \in {"vsh", "key"}

------------------------------------------------------------------------------
(* SrsRtmpJitter *)

NewJitter == [last_pkt_time |-> 0, last_pkt_correct_time |-> 0]

\* (int64_t)(a / b), which rounds towards zero.
Truncated(a, b) == IF a >= 0 THEN a \div b ELSE -((-a) \div b)

Valid(delta) == 0 <= delta /\ delta <= CONST_MAX_JITTER_MS

\* The delta tried for a jitter: by the sample rate of audio, the frame rate of
\* video, where the metadata gave one.
Rescaled(m, delta, tba, tbv) ==
  IF IsAudio(m) /\ tba > 0 THEN Truncated(delta * 1000, tba)
  ELSE IF IsVideo(m) /\ tbv > 0 THEN Truncated(delta, tbv)
  ELSE DEFAULT_FRAME_TIME_MS

\* Mutant of Delta: the rescaled delta is not looked at again.
DeltaUnchecked(j, m, tba, tbv) ==
  LET delta == m.time - j.last_pkt_time
  IN IF Valid(delta) THEN delta ELSE Rescaled(m, delta, tba, tbv)

Delta(j, m, tba, tbv) ==
  LET delta == m.time - j.last_pkt_time
      scaled == Rescaled(m, delta, tba, tbv)
  IN IF Valid(delta) THEN delta
     ELSE IF Valid(scaled) THEN scaled
     ELSE DEFAULT_FRAME_TIME_MS

Corrected(j, m, tba, tbv) ==
  IF ~IsAV(m) THEN j
  ELSE [last_pkt_time |-> m.time,
        last_pkt_correct_time |->
          Max({0, j.last_pkt_correct_time + Delta(j, m, tba, tbv)})]

\* The time correct() leaves in the message, j being the jitter it leaves.
Retimed(j, m) == [m EXCEPT !.time = IF IsAV(m) THEN j.last_pkt_correct_time ELSE 0]

------------------------------------------------------------------------------
(* SrsMessageQueue *)

NewQueue == [msgs |-> <<>>, av_start_time |-> -1, av_end_time |-> -1]

Pushed(q, m) ==
  [msgs |-> Append(q.msgs, m),
   av_start_time |-> IF IsAV(m) /\ q.av_start_time = -1 THEN m.time ELSE q.av_start_time,
   av_end_time |-> IF IsAV(m) THEN m.time ELSE q.av_end_time]

IsFull(q, size) == q.av_end_time - q.av_start_time > size

\* Mutant of Cuts: the first message counts.
CutsFromFirst(q, size) ==
  {i \in 1..Len(q.msgs) :
     IsKeyframe(q.msgs[i]) /\ q.av_end_time - q.msgs[i].time <= size}

\* The key frames behind the first message from which the queue is not full.
Cuts(q, size) ==
  {i \in 2..Len(q.msgs) :
     IsKeyframe(q.msgs[i]) /\ q.av_end_time - q.msgs[i].time <= size}

\* enqueue(), its loop over shrink() included: the queue goes on from the first
\* cut, and is cleared when there is none.
Enqueue(q, m, size) ==
  LET p == Pushed(q, m)
      cut == Min(Cuts(p, size))
  IN IF ~IsFull(p, size) THEN p
     ELSE IF Cuts(p, size) = {} THEN NewQueue
     ELSE [msgs |-> SubSeq(p.msgs, cut, Len(p.msgs)),
           av_start_time |-> p.msgs[cut].time,
           av_end_time |-> p.av_end_time]

\* get_packets(0, ...), the only form that is called: everything is taken.
TakenAll(q) ==
  IF q.msgs = <<>> THEN q
  ELSE [q EXCEPT !.msgs = <<>>, !.av_start_time = q.msgs[Len(q.msgs)].time]
==============================================================================
