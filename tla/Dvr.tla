--------------------------------- MODULE Dvr ---------------------------------
(***************************************************************************)
(* The flv recorder of a source: SrsDvrPlan and its three kinds. The       *)
(* session plan records one file per publish, the segment plan cuts at     *)
(* dvr_duration and keeps its file over publishes, and so does the hss     *)
(* plan, which counts the time of the stream and not of the file. As in    *)
(* Hls, a call is an operator from the recorder d and the failing file     *)
(* calls f to what it leaves and whether it succeeded. Files have numbers  *)
(* for names: two are never opened in the same millisecond.                *)
(***************************************************************************)
EXTENDS Integers, Sequences

CONSTANT DvrDuration   \* dvr_duration

ASSUME DvrAssumption == DvrDuration \in Nat \ {0}

Plans == {"session", "segment", "hss"}
DvrFaults == {"open_flv", "header_flv", "write_flv", "rename_flv"}

\* A file: renamed from its .tmp; the sessions whose frames it holds.
NewFile == [done |-> FALSE, sessions |-> {}]

\* A plan and the files: dvr_enabled; the file fs writes to (0: closed), the file
\* segment->path names; segment->duration, stream_duration and whether there is a
\* stream_previous_pkt_time; how many times hss has set expect_reap_time.
NewPlan(plan, files) ==
  [plan |-> plan, enabled |-> FALSE, fs |-> 0, path |-> 0, duration |-> 0,
   stream_duration |-> 0, previous |-> FALSE, expected |-> 0, files |-> files]

DvrRecorder ==
  [plan : Plans, enabled : BOOLEAN, fs : Nat, path : Nat, duration : Nat,
   stream_duration : Nat, previous : BOOLEAN, expected : Nat,
   files : Seq([done : BOOLEAN, sessions : SUBSET Nat])]

Done(r) == [rec |-> r, ok |-> TRUE]
Broken(r) == [rec |-> r, ok |-> FALSE]

\* flv_open(): an open file stream is not opened again, and one whose header cannot be
\* written stays open, the path being the old one. hss writes no header.
FlvOpen(d, f) ==
  LET reset == [d EXCEPT !.duration = 0]
      opened == [reset EXCEPT !.files = Append(@, NewFile), !.fs = Len(d.files) + 1]
  IN IF d.fs # 0 \/ "open_flv" \in f THEN Broken(reset)
     ELSE IF d.plan # "hss" /\ "header_flv" \in f THEN Broken(opened)
     ELSE Done([opened EXCEPT !.path = opened.fs])

OpenNewSegment(d, f) ==
  LET opened == FlvOpen(d, f)
  IN IF opened.ok THEN Done([opened.rec EXCEPT !.enabled = TRUE]) ELSE opened

\* Mutant of FlvClose: the file is left open.
FlvCloseOpen(d, f) ==
  IF "rename_flv" \in f \/ d.path = 0 \/ d.files[d.path].done THEN Broken(d)
  ELSE Done([d EXCEPT !.files[d.path].done = TRUE])

\* flv_close(): the file that is renamed is the one of the path.
FlvClose(d, f) ==
  LET closed == [d EXCEPT !.fs = 0] IN
  IF "rename_flv" \in f \/ d.path = 0 \/ d.files[d.path].done THEN Broken(closed)
  ELSE Done([closed EXCEPT !.files[d.path].done = TRUE])

\* SrsDvrPlan::on_publish
StartsPlan(d, configured, f) ==
  IF d.enabled \/ ~configured THEN Done(d)
  ELSE OpenNewSegment([d EXCEPT !.stream_duration = 0, !.previous = FALSE], f)

\* on_publish() of the plans: segment and hss go on with a file that is open, and hss
\* sets when to cut.
DvrOnPublish(d, configured, f) ==
  LET started == StartsPlan(d, configured, f)
  IN IF d.plan # "session" /\ d.fs # 0 THEN Done([d EXCEPT !.enabled = TRUE])
     ELSE IF started.ok /\ d.plan = "hss" THEN Done([started.rec EXCEPT !.expected = 1])
     ELSE started

\* on_unpublish(): the session plan closes its file, the others keep it.
DvrOnUnpublish(d, f) ==
  IF d.enabled /\ d.plan = "session"
  THEN [FlvClose(d, f).rec EXCEPT !.enabled = FALSE]
  ELSE [d EXCEPT !.enabled = FALSE]

\* Mutant of Reap: the file is closed and keeps its .tmp name.
ReapUnrenamed(d, f) == OpenNewSegment([d EXCEPT !.fs = 0, !.enabled = FALSE], f)

\* A file is closed and the next one opened.
Reap(d, f) ==
  LET closed == FlvClose(d, f) IN
  IF ~closed.ok THEN Broken([closed.rec EXCEPT !.duration = 0])
  ELSE OpenNewSegment([closed.rec EXCEPT !.enabled = FALSE], f)

\* SrsDvrPlan::update_duration
Lasts(d, step) ==
  LET passed == IF d.previous THEN step ELSE 0
  IN [d EXCEPT !.duration = @ + passed, !.stream_duration = @ + passed, !.previous = TRUE]

\* update_duration() of the segment plan, which measures the file, and of the hss plan,
\* which measures the stream.
LastsSegment(d, f) == IF d.duration > DvrDuration THEN Reap(d, f) ELSE Done(d)

LastsHss(d, f) ==
  IF d.expected > 0 /\ d.stream_duration > d.expected * DvrDuration
  THEN Reap([d EXCEPT !.expected = @ + 1], f)
  ELSE Done(d)

UpdateDuration(d, step, f) ==
  LET updated == Lasts(d, step)
  IN CASE d.plan = "session" -> Done(updated)
       [] d.plan = "segment" -> LastsSegment(updated, f)
       [] d.plan = "hss" -> LastsHss(updated, f)

\* on_audio() and on_video(): a message of the session is written, and the duration
\* updated.
DvrOnMedia(d, session, step, f) ==
  LET written == [d EXCEPT !.files[d.fs].sessions = @ \cup {session}] IN
  IF ~d.enabled THEN Done(d)
  ELSE IF d.fs = 0 \/ "write_flv" \in f THEN Broken(d)
  ELSE UpdateDuration(written, step, f)

\* SrsSource::on_dvr_request_sh: the sequence headers the source has cached are sent as
\* media are. The jitter gives each a time of its own, and each may cut the file.
OnDvrRequestSh(d, session, headers, lag, f) ==
  LET video == IF "video" \in headers THEN DvrOnMedia(d, session, lag, f) ELSE Done(d)
  IN IF video.ok /\ "audio" \in headers
     THEN DvrOnMedia(video.rec, session, lag, f) ELSE video

\* hss asks for the headers before a key frame.
Asks(d, key) == key /\ d.enabled /\ d.plan = "hss"

DvrOnVideo(d, session, key, headers, lag, step, f) ==
  LET asked == IF Asks(d, key) THEN OnDvrRequestSh(d, session, headers, lag, f) ELSE Done(d)
  IN IF asked.ok THEN DvrOnMedia(asked.rec, session, step, f) ELSE asked

\* on_meta_data(): hss writes a file of its own for it, recording or not.
DvrOnMetaData(d, f) ==
  IF "write_flv" \in f /\ (d.enabled \/ d.plan = "hss") THEN Broken(d) ELSE Done(d)
==============================================================================
