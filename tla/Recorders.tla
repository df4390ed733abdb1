------------------------------ MODULE Recorders ------------------------------
(***************************************************************************)
(* The recorders of a source, HLS and DVR, as SrsSource drives them:       *)
(* publishing starts HLS and then DVR, media go to HLS and then to DVR, a  *)
(* recorder that fails on media is stopped and the stream goes on, one     *)
(* that fails to start ends the publish, and a reload of the configuration *)
(* stops and starts a recorder at any time, with or without a publisher.   *)
(* File calls may fail at any place, and HLS may refuse a message that it  *)
(* cannot decode; what a failure of one call does is seen in the calls of  *)
(* the sessions after it.                                                  *)
(*                                                                         *)
(* The encoder sends the sequence header of a codec before its frames.     *)
(***************************************************************************)
EXTENDS Integers, Sequences, FiniteSets, SequencesExt, Hls, Dvr

CONSTANTS
  Vhosts,       \* what may be configured: [hls : BOOLEAN, dvr : Plans \cup {"off"}]
  Replaces,     \* whether rename() may replace a file
  Steps,        \* how far the clock of the stream moves between frames
  MaxClock,     \* bound: the clock of the stream, for each vhost
  MaxSessions,  \* bound: publishes
  MaxReloads,   \* bound: reloads
  MaxFaults     \* bound: calls in which a file call fails or HLS refuses a message

ASSUME RecordersAssumption ==
  /\ Vhosts \subseteq [hls : BOOLEAN, dvr : Plans \cup {"off"}]
  /\ Replaces \subseteq BOOLEAN /\ Steps \subseteq Nat
  /\ MaxClock \in [Vhosts -> Nat]
  /\ {MaxSessions, MaxReloads, MaxFaults} \subseteq Nat

VARIABLES
  vhost,     \* what the configuration had at the start
  config,    \* whether the configuration has hls and dvr enabled now
  hls,       \* SrsSource::hls
  dvr,       \* SrsSource::dvr, with the plan in it
  publish,   \* "none", "on", or "failed": on_unpublish() is next
  session,   \* publishes so far
  headers,   \* cache_sh_audio and cache_sh_video: those there are
  clock,     \* of the stream, over all publishes
  faults,    \* history: the recorders in which something failed, and
  faulty,    \* in how many calls
  reloads    \* history: what was reloaded, and whether nobody published

source == <<publish, session, headers, clock>>
history == <<faults, faulty, reloads>>
vars == <<vhost, config, hls, dvr, source, history>>

Init ==
  /\ vhost \in Vhosts
  /\ config = [hls |-> vhost.hls, dvr |-> vhost.dvr # "off"]
  /\ \E r \in Replaces : hls = NewHls(r)
  /\ dvr = NewPlan(IF vhost.dvr = "off" THEN "session" ELSE vhost.dvr, <<>>)
  /\ publish = "none" /\ session = 0 /\ headers = {}
  /\ clock = 0 /\ faults = {} /\ faulty = 0 /\ reloads = <<>>

------------------------------------------------------------------------------

\* One thing fails in a recorder the vhost has, or nothing.
Faults == (IF vhost.hls THEN HlsFaults ELSE {}) \cup (IF vhost.dvr # "off" THEN DvrFaults ELSE {})
Fault == {{}} \cup {{x} : x \in Faults}

\* A call of the source in which f fails.
Call(f) ==
  /\ f # {} => faulty < MaxFaults
  /\ faulty' = IF f = {} THEN faulty ELSE faulty + 1
  /\ faults' = faults \cup (IF f \cap HlsFaults # {} THEN {"hls"} ELSE {})
                      \cup (IF f \cap DvrFaults # {} THEN {"dvr"} ELSE {})

\* SrsSource::on_publish: after a failure DVR is not started, and the connection
\* unpublishes.
OnPublish(f) ==
  LET h == HlsOnPublish(hls, config.hls, headers, f)
      d == DvrOnPublish(dvr, config.dvr, f)
  IN /\ Call(f) /\ publish = "none" /\ session < MaxSessions
     /\ hls' = h.rec
     /\ dvr' = IF h.ok THEN d.rec ELSE dvr
     /\ publish' = IF h.ok /\ d.ok THEN "on" ELSE "failed"
     /\ session' = session + 1
     /\ UNCHANGED <<vhost, config, headers, clock, reloads>>

\* SrsSource::on_unpublish
OnUnpublish(f) ==
  /\ Call(f) /\ publish # "none"
  /\ hls' = HlsOnUnpublish(hls, f)
  /\ dvr' = DvrOnUnpublish(dvr, f)
  /\ publish' = "none" /\ headers' = {}
  /\ UNCHANGED <<vhost, config, session, clock, reloads>>

\* Mutant of Recorded: a recorder that failed goes on.
RecordedOn(h, d, f) ==
  /\ hls' = h.rec
  /\ dvr' = d.rec

\* What the recorders made of a message: one that failed is stopped, and in that
\* call the same fails again or does not.
Recorded(h, d, f) ==
  \E again \in {{}, f} :
    /\ hls' = IF h.ok THEN h.rec ELSE HlsOnUnpublish(h.rec, again)
    /\ dvr' = IF d.ok THEN d.rec ELSE DvrOnUnpublish(d.rec, again)

Ticks(step) == clock + step <= MaxClock[vhost] /\ clock' = clock + step

\* SrsSource::on_audio and on_video with a sequence header.
OnHeader(media, step, f) ==
  /\ Call(f) /\ publish = "on" /\ Ticks(step)
  /\ Recorded(HlsOnHeader(hls, media, f), DvrOnMedia(dvr, session, step, f), f)
  /\ headers' = headers \cup {media}
  /\ UNCHANGED <<vhost, config, publish, session, reloads>>

\* SrsSource::on_audio and on_video with a frame. The headers hss asks for take time of
\* its stream as well.
OnAudio(step, full, f) ==
  /\ Call(f) /\ publish = "on" /\ "audio" \in headers /\ Ticks(step)
  /\ Recorded(HlsOnAudio(hls, step, full, f), DvrOnMedia(dvr, session, step, f), f)
  /\ UNCHANGED <<vhost, config, publish, session, headers, reloads>>

OnVideo(step, key, lag, f) ==
  /\ Call(f) /\ publish = "on" /\ "video" \in headers
  /\ Ticks(step + (IF Asks(dvr, key) THEN lag * Cardinality(headers) ELSE 0))
  /\ Recorded(HlsOnVideo(hls, step, key, f),
              DvrOnVideo(dvr, session, key, headers, lag, step, f), f)
  /\ UNCHANGED <<vhost, config, publish, session, headers, reloads>>

\* SrsSource::on_meta_data: a failure of DVR ends the publish.
OnMetaData(f) ==
  /\ Call(f) /\ publish = "on"
  /\ publish' = IF DvrOnMetaData(dvr, f).ok THEN publish ELSE "failed"
  /\ UNCHANGED <<vhost, config, hls, dvr, session, headers, clock, reloads>>

Reloads(recorder) ==
  /\ Len(reloads) < MaxReloads
  /\ reloads' = Append(reloads, [of |-> recorder, idle |-> publish = "none"])

\* SrsSource::on_reload_vhost_hls
ReloadHls(on, f) ==
  LET stopped == HlsOnUnpublish(hls, f) IN
  /\ Call(f) /\ vhost.hls /\ Reloads("hls")
  /\ config' = [config EXCEPT !.hls = on]
  /\ hls' = HlsOnPublish(stopped, on, headers, f).rec
  /\ UNCHANGED <<vhost, dvr, source>>

\* SrsSource::on_reload_vhost_dvr: the plan is freed, and its file with it.
ReloadDvr(plan, on, f) ==
  LET stopped == DvrOnUnpublish(dvr, f) IN
  /\ Call(f) /\ vhost.dvr # "off" /\ Reloads("dvr")
  /\ config' = [config EXCEPT !.dvr = on]
  /\ dvr' = DvrOnPublish(NewPlan(plan, stopped.files), on, f).rec
  /\ UNCHANGED <<vhost, hls, source>>

Next ==
  \E f \in Fault :
    \/ OnPublish(f) \/ OnUnpublish(f) \/ OnMetaData(f)
    \/ \E media \in {"audio", "video"}, step \in Steps : OnHeader(media, step, f)
    \/ \E step \in Steps, full \in BOOLEAN : OnAudio(step, full, f)
    \/ \E step, lag \in Steps, key \in BOOLEAN : OnVideo(step, key, lag, f)
    \/ \E on \in BOOLEAN : ReloadHls(on, f)
    \/ \E plan \in Plans, on \in BOOLEAN : ReloadDvr(plan, on, f)

Spec == Init /\ [][Next]_vars

------------------------------------------------------------------------------

DvrReloaded == \E i \in DOMAIN reloads : reloads[i].of = "dvr"

\* Types of the state.
TypeOK ==
  /\ vhost \in Vhosts
  /\ config \in [hls : BOOLEAN, dvr : BOOLEAN]
  /\ hls \in HlsRecorder
  /\ dvr \in DvrRecorder /\ {dvr.fs, dvr.path} \subseteq 0..Len(dvr.files)
  /\ publish \in {"none", "on", "failed"} /\ session \in Nat
  /\ headers \subseteq {"audio", "video"} /\ clock \in Nat
  /\ faults \subseteq {"hls", "dvr"} /\ faulty \in Nat
  /\ reloads \in Seq([of : {"hls", "dvr"}, idle : BOOLEAN])

\* A recorder that takes media has a file to write them to: the assertions of the
\* muxer hold, and the flv encoder is never used without its file.
EnabledHasFile ==
  /\ hls.enabled => hls.current # NoSegment
  /\ dvr.enabled => dvr.fs # 0

\* The segments of the list and the one being written have successive numbers, over
\* dropped segments, failures, sessions and reloads: a player that follows the m3u8
\* by its first number finds each segment under its own.
Successive(h) ==
  LET n == Len(h.segments)
      open == IF h.current = NoSegment THEN 0 ELSE 1
  IN /\ \A i \in 1..n : h.segments[i].seq = h.sequence_no - open - n + i - 1
     /\ open = 1 => h.current.seq = h.sequence_no - 1

NumbersAreSuccessive == Successive(hls)

\* Every file the m3u8 lists is there, and all the segments but the oldest are less
\* than a second longer than the window, which is compared with whole seconds, as long
\* as rename() replaces the old m3u8 and nothing has failed in HLS.
PlaylistIsServed ==
  hls.replaces /\ "hls" \notin faults =>
    /\ Range(hls.m3u8) \subseteq hls.ts
    /\ hls.segments # <<>> => Duration(Tail(hls.segments)) < (HlsWindow + 1) * HlsSecond

\* The first segment of a publish or a reload is marked as a discontinuity, since the
\* timestamps and the codec headers of another run of the recorder end there, as long
\* as nothing has failed in HLS.
DiscontinuitiesAreMarked ==
  "hls" \notin faults =>
    \A i \in DOMAIN hls.segments : hls.segments[i].first => hls.segments[i].sh

\* As long as no file call of a recorder fails, and HLS can decode each message, which
\* it can of well formed AAC and H.264 only, the recorder records whenever the stream
\* is published and the configuration has it enabled: over sessions, reloads and the
\* cutting of files no step of it blocks the next one.  HLS needs a rename() that
\* replaces the m3u8.  Between publishes a recorder is off and no segment is open, and
\* the session plan has no file open, unless a reload without a publisher has started
\* one.
RecordersFollowPublisher ==
  /\ publish = "on" =>
       /\ config.hls /\ hls.replaces /\ "hls" \notin faults => hls.enabled
       /\ config.dvr /\ "dvr" \notin faults => dvr.enabled
  /\ publish = "none" /\ (\A i \in DOMAIN reloads : ~reloads[i].idle) =>
       /\ ~hls.enabled /\ ~dvr.enabled
       /\ faults = {} => /\ hls.current = NoSegment
                         /\ dvr.plan = "session" => dvr.fs = 0

\* "publish stream event, continue to write the m3u8": each segment that is closed gets
\* into the m3u8, as long as nothing has failed in HLS. The code keeps it only with a
\* rename() that replaces the file (README.md).
PlaylistGoesOn == "hls" \notin faults => hls.m3u8 = Numbers(hls.segments)

\* "start to record to file when encoder publish": not for a reload without one. The
\* code does not keep it (README.md).
IdleIsNotRecorded == publish = "none" => ~dvr.enabled

\* The file stream: "if close, the flv is reap and closed", over the reloads that free
\* the plan as well. The code does not keep it as it stands (README.md).
FilesAreReaped ==
  "dvr" \notin faults => \A i \in DOMAIN dvr.files : dvr.files[i].done \/ i = dvr.fs

\* "session plan: reap flv when session complete(unpublish)", whatever failed: no file
\* stream is left open, with which the plan could never record again. The code does
\* not keep it (README.md).
SessionIsReaped ==
  dvr.plan = "session" /\ publish = "none" /\ reloads = <<>> => dvr.fs = 0

\* Without failures each file is open or has got its name, a session plan without
\* reloads has one session in a file, and one of the segment plan ends soon after
\* dvr_duration.
RecordingsAreKept ==
  "dvr" \notin faults =>
    /\ DvrReloaded \/ FilesAreReaped
    /\ dvr.plan = "session" /\ ~DvrReloaded =>
         \A i \in DOMAIN dvr.files : Cardinality(dvr.files[i].sessions) <= 1
    /\ dvr.plan = "segment" => dvr.duration <= DvrDuration
==============================================================================
