--------------------------------- MODULE Hls ---------------------------------
(***************************************************************************)
(* The HLS recorder of a source: SrsHls, SrsHlsCache and SrsHlsMuxer,      *)
(* which cut the stream into ts files with rising numbers and keep the     *)
(* m3u8 that lists the last of them.  All of it runs inside one call of    *)
(* the source, so each call is an operator from the recorder h and the     *)
(* set f of what goes wrong meanwhile to what it leaves and whether it     *)
(* succeeded.  Times are in units of the shortest segment that is kept,    *)
(* and the configuration is in seconds, of HlsSecond units.                *)
(***************************************************************************)
EXTENDS Integers, Sequences, SequencesExt

CONSTANTS
  HlsSecond,       \* a second
  HlsFragment,     \* hls_fragment, in seconds
  HlsWindow        \* hls_window, in seconds

ASSUME HlsAssumption == {HlsSecond, HlsFragment} \subseteq Nat \ {0} /\ HlsWindow \in Nat

MinDuration == 1   \* SRS_AUTO_HLS_SEGMENT_MIN_DURATION_MS
NoSegment == [seq |-> -1, start |-> 0, dur |-> 0, sh |-> FALSE, open |-> FALSE, first |-> FALSE]
NoAudio == -1

\* What can go wrong: a file call fails, or the message cannot be decoded: its codec or
\* format is refused, or it is found malformed when a part of it has been kept.
HlsFaults == {"mkdir", "open_ts", "header_ts", "write_ts", "rename_ts",
              "open_m3u8", "write_m3u8", "rename_m3u8", "refused", "malformed"}

\* hls_enabled; current, segments, _sequence_no; video_count # 0; the start of the
\* audio in the cache ab, af->pts; stream_dts; the codecs whose header is known; the
\* files: whether there is an m3u8, the numbers it lists, the ts files there are.
\* replaces is what rename() does with a name that exists: POSIX replaces the file,
\* Windows refuses.
NewHls(replaces) ==
  [enabled |-> FALSE, current |-> NoSegment, segments |-> <<>>, sequence_no |-> 0,
   video |-> FALSE, ab |-> NoAudio, af |-> 0, stream_dts |-> 0, known |-> {},
   made |-> FALSE, m3u8 |-> <<>>, ts |-> {}, replaces |-> replaces]

Segment ==
  [seq : Nat, start : Nat, dur : Nat, sh : BOOLEAN, open : BOOLEAN, first : BOOLEAN]

HlsRecorder ==
  [enabled : BOOLEAN, current : Segment \cup {NoSegment}, segments : Seq(Segment),
   sequence_no : Nat, video : BOOLEAN, ab : Nat \cup {NoAudio}, af : Nat, stream_dts : Nat,
   known : SUBSET {"audio", "video"}, made : BOOLEAN, m3u8 : Seq(Nat), ts : SUBSET Nat,
   replaces : BOOLEAN]

Ok(r) == [rec |-> r, ok |-> TRUE]
Failed(r) == [rec |-> r, ok |-> FALSE]

\* Mutant of Reached: a segment may be reached by a time before its start.
ReachedEarlier(s, dts) == [s EXCEPT !.dur = dts - s.start]

\* SrsHlsSegment::update_duration
Reached(s, dts) == IF dts < s.start THEN s ELSE [s EXCEPT !.dur = dts - s.start]

\* SrsHlsMuxer::segment_open; first: for a publish, not after another segment. A
\* segment whose file cannot be opened stays the current one, and one whose ts header
\* cannot be written has its file open.
SegmentOpen(h, dts, first, f) ==
  IF h.current # NoSegment THEN Ok(h)
  ELSE IF "mkdir" \in f THEN Failed(h)
  ELSE LET opened == [h EXCEPT !.sequence_no = @ + 1,
             !.current = [seq |-> h.sequence_no, start |-> dts, dur |-> 0, sh |-> FALSE,
                          open |-> "open_ts" \notin f, first |-> first]]
       IN [rec |-> opened, ok |-> {"open_ts", "header_ts"} \cap f = {}]

\* A write to the current segment; its duration is updated before.
WriteTs(h, dts, f) ==
  [rec |-> [h EXCEPT !.current = Reached(@, dts)],
   ok |-> h.current.open /\ "write_ts" \notin f]

FlushAudio(h, f) ==
  LET written == WriteTs(h, h.af, f) IN
  IF h.current = NoSegment \/ h.ab = NoAudio THEN Ok(h)
  ELSE IF written.ok THEN Ok([written.rec EXCEPT !.ab = NoAudio])
  ELSE written

FlushVideo(h, dts, f) == IF h.current = NoSegment THEN Ok(h) ELSE WriteTs(h, dts, f)

Duration(s) == FoldLeft(LAMBDA sum, x : sum + x.dur, 0, s)

\* The segments that stay: the one with which the whole seconds of the list exceed the
\* window is the oldest of them.
Seconds(s) == Duration(s) \div HlsSecond
Beyond(s) == {i \in DOMAIN s : Seconds(SubSeq(s, i, Len(s))) > HlsWindow}
Shrunk(s) == IF Beyond(s) = {} THEN s ELSE SubSeq(s, Max(Beyond(s)), Len(s))

Numbers(s) == [i \in DOMAIN s |-> s[i].seq]

\* refresh_m3u8(): a file that could not be written to its end is renamed as well.
RefreshM3u8(h, f) ==
  IF h.segments = <<>> THEN Ok(h)
  ELSE IF "open_m3u8" \in f THEN Failed(h)
  ELSE IF "rename_m3u8" \in f \/ (h.made /\ ~h.replaces) THEN Failed(h)
  ELSE IF "write_m3u8" \in f
    THEN Failed([h EXCEPT !.made = TRUE, !.m3u8 = Front(Numbers(h.segments))])
  ELSE Ok([h EXCEPT !.made = TRUE, !.m3u8 = Numbers(h.segments)])

\* The list is shrunk, the m3u8 written without what was removed, and then the
\* files of the removed segments are deleted, also when writing it failed.
Publishes(h, f) ==
  LET kept == Shrunk(h.segments)
      gone == {h.segments[i].seq : i \in 1..Len(h.segments) - Len(kept)}
      refreshed == RefreshM3u8([h EXCEPT !.segments = kept], f)
  IN [refreshed EXCEPT !.rec.ts = @ \ gone]

\* Mutants of SegmentClose: the number of a dropped segment is not used again; the
\* list is shrunk behind the refresh.
SegmentCloseSkips(h, f) ==
  LET s == h.current
      closed == [h EXCEPT !.current = NoSegment]
      listed == [closed EXCEPT !.segments = Append(@, s)]
  IN IF s = NoSegment THEN Ok(h)
     ELSE IF s.dur < MinDuration THEN Publishes(closed, f)
     ELSE IF ~s.open \/ "rename_ts" \in f THEN Failed(listed)
     ELSE Publishes([listed EXCEPT !.ts = @ \cup {s.seq}], f)

SegmentCloseLate(h, f) ==
  LET s == h.current
      closed == [h EXCEPT !.current = NoSegment]
      listed == [closed EXCEPT !.segments = Append(@, s)]
      kept == Shrunk(listed.segments)
      gone == {listed.segments[i].seq : i \in 1..Len(listed.segments) - Len(kept)}
      refreshed == RefreshM3u8([listed EXCEPT !.ts = @ \cup {s.seq}], f)
  IN IF s = NoSegment THEN Ok(h)
     ELSE IF s.dur < MinDuration THEN Publishes([closed EXCEPT !.sequence_no = @ - 1], f)
     ELSE IF ~s.open \/ "rename_ts" \in f THEN Failed(listed)
     ELSE [refreshed EXCEPT !.rec.ts = @ \ gone, !.rec.segments = kept]

\* SrsHlsMuxer::segment_close: a segment is listed before its file is renamed, and a
\* short one is dropped and gives its number back.
SegmentClose(h, f) ==
  LET s == h.current
      closed == [h EXCEPT !.current = NoSegment]
      listed == [closed EXCEPT !.segments = Append(@, s)]
  IN IF s = NoSegment THEN Ok(h)
     ELSE IF s.dur < MinDuration THEN Publishes([closed EXCEPT !.sequence_no = @ - 1], f)
     ELSE IF ~s.open \/ "rename_ts" \in f THEN Failed(listed)
     ELSE Publishes([listed EXCEPT !.ts = @ \cup {s.seq}], f)

\* SrsHlsCache::reap_segment
ReapSegment(h, dts, f) ==
  LET closed == SegmentClose(h, f)
      opened == SegmentOpen(closed.rec, dts, FALSE, f)
  IN IF ~closed.ok THEN closed ELSE IF ~opened.ok THEN opened ELSE FlushAudio(opened.rec, f)

IsSegmentOverflow(h) == h.current.dur >= HlsFragment * HlsSecond

\* SrsHlsCache::write_audio; pts starts the cache, also when the frame is not kept;
\* full: the cache is flushed, for its size or its delay. Audio reaps while the session
\* had no video.
WriteAudio(h, pts, full, f) ==
  LET cached == IF h.ab = NoAudio THEN [h EXCEPT !.ab = pts, !.af = pts] ELSE h
      flushed == IF full THEN FlushAudio(cached, f) ELSE Ok(cached)
      reaps == ~flushed.rec.video /\ IsSegmentOverflow(flushed.rec)
  IN IF "malformed" \in f THEN Failed([h EXCEPT !.af = IF h.ab = NoAudio THEN pts ELSE @])
     ELSE IF flushed.ok /\ reaps THEN ReapSegment(flushed.rec, flushed.rec.af, f) ELSE flushed

\* SrsHlsCache::write_video: key frames reap.
WriteVideo(h, dts, key, f) ==
  LET seen == [h EXCEPT !.video = TRUE]
      reaped == IF key /\ IsSegmentOverflow(seen) THEN ReapSegment(seen, dts, f) ELSE Ok(seen)
  IN IF "malformed" \in f THEN Failed(seen)
     ELSE IF reaped.ok THEN FlushVideo(reaped.rec, dts, f) ELSE reaped

\* on_sequence_header(): the current segment starts after a discontinuity.
OnSequenceHeader(h, media) ==
  [h EXCEPT !.known = @ \cup {media}, !.current.sh = TRUE]

\* SrsHls::on_audio and on_video of a sequence header.
HlsOnHeader(h, media, f) ==
  IF ~h.enabled THEN Ok(h)
  ELSE IF "refused" \in f THEN Failed(h)
  ELSE IF "malformed" \in f THEN Failed([h EXCEPT !.known = @ \cup {media}])
  ELSE Ok(OnSequenceHeader(h, media))

\* SrsSource::on_hls_start: the sequence headers the source has cached are pushed.
OnHlsStart(h, headers, f) ==
  LET video == IF "video" \in headers THEN HlsOnHeader(h, "video", f) ELSE Ok(h)
  IN IF video.ok /\ "audio" \in headers THEN HlsOnHeader(video.rec, "audio", f) ELSE video

\* Mutant of HlsOnPublish: the source is not asked for its sequence headers.
HlsOnPublishUnasked(h, configured, headers, f) ==
  LET opened == SegmentOpen([h EXCEPT !.video = FALSE], h.stream_dts, TRUE, f) IN
  IF h.enabled \/ ~configured THEN Ok(h)
  ELSE IF ~opened.ok THEN opened
  ELSE Ok([opened.rec EXCEPT !.enabled = TRUE])

\* SrsHls::on_publish
HlsOnPublish(h, configured, headers, f) ==
  LET opened == SegmentOpen([h EXCEPT !.video = FALSE], h.stream_dts, TRUE, f) IN
  IF h.enabled \/ ~configured THEN Ok(h)
  ELSE IF ~opened.ok THEN opened
  ELSE OnHlsStart([opened.rec EXCEPT !.enabled = TRUE], headers, f)

\* SrsHls::on_unpublish: a failure leaves the segment open, or the list not shrunk.
HlsOnUnpublish(h, f) ==
  IF ~h.enabled THEN h
  ELSE LET flushed == FlushAudio(h, f)
           closed == IF flushed.ok THEN SegmentClose(flushed.rec, f) ELSE flushed
       IN [closed.rec EXCEPT !.enabled = FALSE]

\* SrsHls::on_audio and on_video of a frame: those of a codec whose header is not known
\* cannot be decoded.
HlsOnAudio(h, step, full, f) ==
  LET dts == h.stream_dts + step IN
  IF ~h.enabled THEN Ok(h)
  ELSE IF "audio" \notin h.known \/ "refused" \in f THEN Failed(h)
  ELSE WriteAudio([h EXCEPT !.stream_dts = dts], dts, full, f)

HlsOnVideo(h, step, key, f) ==
  LET dts == h.stream_dts + step IN
  IF ~h.enabled THEN Ok(h)
  ELSE IF "video" \notin h.known \/ "refused" \in f THEN Failed(h)
  ELSE WriteVideo([h EXCEPT !.stream_dts = dts], dts, key, f)
==============================================================================
