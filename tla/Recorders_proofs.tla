--------------------------- MODULE Recorders_proofs ---------------------------
(***************************************************************************)
(* What TLAPS proves of the recorders, for any vhosts, durations, bounds   *)
(* and numbers of sessions and reloads.  Whatever fails: the types, the    *)
(* numbers of the segments, and that a recorder that takes media has its   *)
(* file.  Of a recorder in which nothing fails: that the playlist is       *)
(* served, that discontinuities are marked, that it follows the publisher, *)
(* and that recordings are kept.  Each call of a recorder has a lemma of   *)
(* its own, each action of Recorders a step.                               *)
(***************************************************************************)
EXTENDS Recorders, DataInduction, FiniteSetTheorems, SequenceTheorems, TLAPS

\* A recorder whatever a failure left of it, and one that may take media.
HlsSound(h) == h \in HlsRecorder /\ Successive(h)
HlsGood(h) == HlsSound(h) /\ (h.enabled => h.current # NoSegment)

\* What a call on media promises: a failure leaves the recorder sound, and success
\* leaves it good.
HlsCall(r) == HlsSound(r.rec) /\ (r.ok => HlsGood(r.rec))

------------------------------------------------------------------------------
(* The window of the playlist *)

\* What shrinking keeps is an end of the list.
LEMMA ShrunkIsSuffix ==
  ASSUME NEW s \in Seq(Segment)
  PROVE  /\ Shrunk(s) \in Seq(Segment)
         /\ Len(Shrunk(s)) <= Len(s)
         /\ \A i \in 1..Len(Shrunk(s)) :
              /\ Len(s) - Len(Shrunk(s)) + i \in 1..Len(s)
              /\ Shrunk(s)[i] = s[Len(s) - Len(Shrunk(s)) + i]
<1>1. CASE Beyond(s) = {}
  BY <1>1 DEF Shrunk
<1>2. CASE Beyond(s) # {}
  <2> DEFINE k == Max(Beyond(s))
             t == SubSeq(s, k, Len(s))
  <2>1. Len(s) \in Nat /\ Beyond(s) \in SUBSET (1..Len(s))
    BY DEF Beyond
  <2>2. k \in 1..Len(s)
    BY <1>2, <2>1, MaxIsMember
  <2> HIDE DEF k
  <2>3. t \in Seq(Segment) /\ Len(t) = Len(s) - k + 1
    BY <2>1, <2>2
  <2>4. \A i \in 1..Len(t) : t[i] = s[k + i - 1]
    BY <2>1, <2>2
  <2>5. Shrunk(s) = t
    BY <1>2 DEF Shrunk, k
  <2>6. \A i \in 1..Len(t) : Len(s) - Len(t) + i = k + i - 1 /\ k + i - 1 \in 1..Len(s)
    BY <2>1, <2>2, <2>3
  <2> HIDE DEF t
  <2>7. Len(t) <= Len(s)
    BY <2>1, <2>2, <2>3
  <2>8. \A i \in 1..Len(t) : t[i] = s[Len(s) - Len(t) + i]
    BY <2>4, <2>6
  <2> QED
    BY <2>3, <2>5, <2>6, <2>7, <2>8
<1> QED
  BY <1>1, <1>2

------------------------------------------------------------------------------
(* The calls of HLS *)

\* The fields the invariant is about.
LEMMA HlsFields ==
  ASSUME NEW h \in HlsRecorder
  PROVE  /\ h.enabled \in BOOLEAN /\ h.current \in Segment \cup {NoSegment}
         /\ h.segments \in Seq(Segment) /\ h.sequence_no \in Nat
         /\ h.ab \in Nat \cup {NoAudio} /\ h.af \in Nat /\ h.stream_dts \in Nat
         /\ h.ts \in SUBSET Nat /\ h.m3u8 \in Seq(Nat)
         /\ Len(h.segments) \in Nat
BY DEF HlsRecorder

LEMMA NumbersAreNumbers ==
  ASSUME NEW s \in Seq(Segment)
  PROVE  Numbers(s) \in Seq(Nat) /\ Len(Numbers(s)) = Len(s)
<1>1. \A i \in DOMAIN s : s[i].seq \in Nat
  <2>1. \A i \in DOMAIN s : s[i] \in Segment
    BY ElementOfSeq
  <2> QED
    BY <2>1 DEF Segment
<1>2. DOMAIN s = 1..Len(s) /\ Len(s) \in Nat
  OBVIOUS
<1>3. Numbers(s) \in [1..Len(s) -> Nat]
  BY <1>1, <1>2 DEF Numbers
<1> QED
  BY <1>2, <1>3, SeqDef

LEMMA NoSegmentIsNone == NoSegment \notin Segment
BY DEF NoSegment, Segment

LEMMA SegmentOpenKeeps ==
  ASSUME NEW h, HlsSound(h), NEW dts \in Nat, NEW first \in BOOLEAN, NEW f
  PROVE  LET r == SegmentOpen(h, dts, first, f) IN
           /\ HlsSound(r.rec) /\ r.rec.enabled = h.enabled
           /\ r.ok => r.rec.current # NoSegment
<1> DEFINE new == [seq |-> h.sequence_no, start |-> dts, dur |-> 0, sh |-> FALSE,
                   open |-> "open_ts" \notin f, first |-> first]
           g == [h EXCEPT !.sequence_no = @ + 1, !.current = new]
<1>1. h \in HlsRecorder /\ Successive(h)
  BY DEF HlsSound
<1>2. CASE h.current # NoSegment
  BY <1>1, <1>2 DEF SegmentOpen, HlsSound, Ok
<1>3. CASE h.current = NoSegment /\ "mkdir" \in f
  BY <1>1, <1>3 DEF SegmentOpen, HlsSound, Failed
<1>4. CASE h.current = NoSegment /\ "mkdir" \notin f
  <2>1. SegmentOpen(h, dts, first, f) = [rec |-> g, ok |-> {"open_ts", "header_ts"} \cap f = {}]
    BY <1>4 DEF SegmentOpen
  <2>2. new \in Segment
    BY <1>1, HlsFields DEF Segment
  <2>3. new # NoSegment
    BY <2>2, NoSegmentIsNone
  <2> HIDE DEF new
  <2>4. /\ g \in HlsRecorder /\ g.enabled = h.enabled /\ g.current = new
        /\ g.segments = h.segments /\ g.sequence_no = h.sequence_no + 1
    <3>1. h.sequence_no + 1 \in Nat
      BY <1>1, HlsFields
    <3>2. g = [h EXCEPT !.sequence_no = h.sequence_no + 1, !.current = new]
      OBVIOUS
    <3>3. g \in HlsRecorder
      BY <1>1, <2>2, <3>1, <3>2 DEF HlsRecorder
    <3>4. /\ g.enabled = h.enabled /\ g.current = new
          /\ g.segments = h.segments /\ g.sequence_no = h.sequence_no + 1
      BY <1>1, <3>2 DEF HlsRecorder
    <3> QED
      BY <3>3, <3>4
  <2>5. new.seq = h.sequence_no
    BY DEF new
  <2>6. Successive(g)
    BY <1>1, <1>4, <2>3, <2>4, <2>5, HlsFields DEF Successive
  <2> HIDE DEF g
  <2> QED
    BY <2>1, <2>3, <2>4, <2>6 DEF HlsSound
<1> QED
  BY <1>2, <1>3, <1>4

LEMMA WriteTsKeeps ==
  ASSUME NEW h, HlsSound(h), h.current # NoSegment, NEW dts \in Nat, NEW f
  PROVE  LET r == WriteTs(h, dts, f) IN
           /\ HlsSound(r.rec) /\ r.rec.enabled = h.enabled
           /\ r.rec.current # NoSegment
<1> DEFINE s == Reached(h.current, dts)
           g == [h EXCEPT !.current = s]
<1>1. h \in HlsRecorder /\ Successive(h)
  BY DEF HlsSound
<1>2. h.current \in Segment
  BY <1>1, HlsFields
<1>3. s \in Segment /\ s.seq = h.current.seq
  <2>1. CASE dts < h.current.start
    BY <1>2, <2>1 DEF Reached
  <2>2. CASE ~(dts < h.current.start)
    <3>1. dts - h.current.start \in Nat
      BY <1>2, <2>2 DEF Segment
    <3> QED
      BY <1>2, <2>2, <3>1 DEF Reached, Segment
  <2> QED
    BY <2>1, <2>2
<1>4. s # NoSegment
  BY <1>3, NoSegmentIsNone
<1> HIDE DEF s
<1>5. g \in HlsRecorder
  BY <1>1, <1>3 DEF HlsRecorder
<1>6. /\ g.enabled = h.enabled /\ g.current = s
      /\ g.segments = h.segments /\ g.sequence_no = h.sequence_no
  BY <1>1 DEF HlsRecorder
<1>7. WriteTs(h, dts, f).rec = g
  BY DEF WriteTs, s
<1> HIDE DEF g
<1>8. Successive(g)
  BY <1>1, <1>3, <1>4, <1>6 DEF Successive
<1> QED
  BY <1>4, <1>5, <1>6, <1>7, <1>8 DEF HlsSound

LEMMA FlushAudioKeeps ==
  ASSUME NEW h, HlsSound(h), NEW f
  PROVE  LET r == FlushAudio(h, f) IN
           /\ HlsSound(r.rec) /\ r.rec.enabled = h.enabled
           /\ (r.rec.current = NoSegment) = (h.current = NoSegment)
<1> DEFINE w == WriteTs(h, h.af, f)
           g == [w.rec EXCEPT !.ab = NoAudio]
<1>1. CASE h.current = NoSegment \/ h.ab = NoAudio
  BY <1>1 DEF FlushAudio, Ok
<1>2. CASE h.current # NoSegment /\ h.ab # NoAudio
  <2>1. h.af \in Nat
    BY HlsFields DEF HlsSound
  <2>2. HlsSound(w.rec) /\ w.rec.enabled = h.enabled /\ w.rec.current # NoSegment
    BY <1>2, <2>1, WriteTsKeeps
  <2>3. FlushAudio(h, f) = IF w.ok THEN [rec |-> g, ok |-> TRUE] ELSE w
    BY <1>2 DEF FlushAudio, Ok
  <2> HIDE DEF w
  <2>4. g \in HlsRecorder
    BY <2>2 DEF HlsSound, HlsRecorder
  <2>5. /\ g.enabled = w.rec.enabled /\ g.current = w.rec.current
        /\ g.segments = w.rec.segments /\ g.sequence_no = w.rec.sequence_no
    BY <2>2 DEF HlsSound, HlsRecorder
  <2> HIDE DEF g
  <2>6. Successive(g)
    BY <2>2, <2>5 DEF HlsSound, Successive
  <2>7. CASE w.ok
    BY <1>2, <2>2, <2>3, <2>4, <2>5, <2>6, <2>7 DEF HlsSound
  <2>8. CASE ~w.ok
    BY <1>2, <2>2, <2>3, <2>8
  <2> QED
    BY <2>7, <2>8
<1> QED
  BY <1>1, <1>2

LEMMA FlushVideoKeeps ==
  ASSUME NEW h, HlsSound(h), NEW dts \in Nat, NEW f
  PROVE  LET r == FlushVideo(h, dts, f) IN
           /\ HlsSound(r.rec) /\ r.rec.enabled = h.enabled
           /\ (r.rec.current = NoSegment) = (h.current = NoSegment)
BY WriteTsKeeps DEF FlushVideo, Ok

\* The list is shrunk and the m3u8 written between two segments.
LEMMA PublishesKeeps ==
  ASSUME NEW h, HlsSound(h), h.current = NoSegment, NEW f
  PROVE  LET r == Publishes(h, f) IN
           /\ HlsSound(r.rec) /\ r.rec.enabled = h.enabled
           /\ r.rec.current = NoSegment
<1> DEFINE kept == Shrunk(h.segments)
           gone == {h.segments[i].seq : i \in 1..Len(h.segments) - Len(kept)}
           k == [h EXCEPT !.segments = kept]
           r == RefreshM3u8(k, f)
<1>1. h \in HlsRecorder /\ Successive(h)
  BY DEF HlsSound
<1>2. kept \in Seq(Segment) /\ Len(kept) \in Nat
  BY <1>1, HlsFields, ShrunkIsSuffix
<1>3. \A i \in 1..Len(kept) : kept[i].seq = h.sequence_no - Len(kept) + i - 1
  <2> SUFFICES ASSUME NEW i \in 1..Len(kept)
               PROVE  kept[i].seq = h.sequence_no - Len(kept) + i - 1
    OBVIOUS
  <2> DEFINE j == Len(h.segments) - Len(kept) + i
  <2>1. j \in 1..Len(h.segments) /\ kept[i] = h.segments[j]
    BY <1>1, HlsFields, ShrunkIsSuffix
  <2>2. h.segments[j].seq = h.sequence_no - 0 - Len(h.segments) + j - 1
    BY <1>1, <2>1 DEF Successive
  <2>3. Len(h.segments) \in Nat /\ h.sequence_no \in Nat
    BY <1>1, HlsFields
  <2>4. h.sequence_no - 0 - Len(h.segments) + j - 1 = h.sequence_no - Len(kept) + i - 1
    <3> HIDE DEF kept
    <3> QED
      BY <1>2, <2>3
  <2> QED
    BY <2>1, <2>2, <2>4
<1> HIDE DEF kept
<1>4. k \in HlsRecorder
  BY <1>1, <1>2 DEF HlsRecorder
<1>5. /\ k.enabled = h.enabled /\ k.current = NoSegment
      /\ k.segments = kept /\ k.sequence_no = h.sequence_no
  BY <1>1 DEF HlsRecorder
<1> HIDE DEF k
<1>6. /\ r.rec \in HlsRecorder
      /\ r.rec.enabled = k.enabled /\ r.rec.current = k.current
      /\ r.rec.segments = k.segments /\ r.rec.sequence_no = k.sequence_no
      /\ r = [rec |-> r.rec, ok |-> r.ok]
  <2>1. Numbers(k.segments) \in Seq(Nat)
    BY <1>2, <1>5, NumbersAreNumbers
  <2>2. k.segments # <<>> => Front(Numbers(k.segments)) \in Seq(Nat)
    BY <1>4, <2>1, HlsFields DEF Front, Numbers
  <2> DEFINE part == [k EXCEPT !.made = TRUE, !.m3u8 = Front(Numbers(k.segments))]
             whole == [k EXCEPT !.made = TRUE, !.m3u8 = Numbers(k.segments)]
  <2>3. /\ whole \in HlsRecorder
        /\ whole.enabled = k.enabled /\ whole.current = k.current
        /\ whole.segments = k.segments /\ whole.sequence_no = k.sequence_no
    BY <1>4, <2>1 DEF HlsRecorder
  <2>4. k.segments # <<>> =>
        /\ part \in HlsRecorder
        /\ part.enabled = k.enabled /\ part.current = k.current
        /\ part.segments = k.segments /\ part.sequence_no = k.sequence_no
    BY <1>4, <2>2 DEF HlsRecorder
  <2>5. \/ r = [rec |-> k, ok |-> TRUE] \/ r = [rec |-> k, ok |-> FALSE]
        \/ k.segments # <<>> /\ r = [rec |-> part, ok |-> FALSE]
        \/ r = [rec |-> whole, ok |-> TRUE]
    BY DEF RefreshM3u8, Ok, Failed
  <2> HIDE DEF part, whole, r
  <2> QED
    BY <1>4, <2>3, <2>4, <2>5
<1> HIDE DEF r
<1> DEFINE g == [r.rec EXCEPT !.ts = @ \ gone]
<1>7. Publishes(h, f).rec = g
  BY <1>6 DEF Publishes, k, kept, r
<1> HIDE DEF gone
<1>8. g \in HlsRecorder
  BY <1>6 DEF HlsRecorder
<1>9. /\ g.enabled = h.enabled /\ g.current = NoSegment
      /\ g.segments = kept /\ g.sequence_no = h.sequence_no
  BY <1>5, <1>6 DEF HlsRecorder
<1> HIDE DEF g
<1>10. Successive(g)
  BY <1>1, <1>2, <1>3, <1>9, HlsFields DEF Successive
<1> QED
  BY <1>7, <1>8, <1>9, <1>10 DEF HlsSound

LEMMA SegmentCloseKeeps ==
  ASSUME NEW h, HlsSound(h), NEW f
  PROVE  LET r == SegmentClose(h, f) IN
           /\ HlsSound(r.rec) /\ r.rec.enabled = h.enabled
           /\ r.rec.current = NoSegment
<1> DEFINE s == h.current
           closed == [h EXCEPT !.current = NoSegment]
           listed == [closed EXCEPT !.segments = Append(@, s)]
           dropped == [closed EXCEPT !.sequence_no = @ - 1]
           renamed == [listed EXCEPT !.ts = @ \cup {s.seq}]
<1>1. h \in HlsRecorder /\ Successive(h)
  BY DEF HlsSound
<1>2. CASE s = NoSegment
  BY <1>2 DEF SegmentClose, Ok
<1>3. CASE s # NoSegment
  <2>1. s \in Segment /\ s.seq \in Nat /\ s.seq = h.sequence_no - 1
    <3>1. s \in Segment
      BY <1>1, <1>3, HlsFields
    <3> QED
      BY <1>1, <1>3, <3>1 DEF Successive, Segment
  <2> HIDE DEF s
  <2>2. closed \in HlsRecorder
    BY <1>1 DEF HlsRecorder
  <2>3. /\ closed.enabled = h.enabled /\ closed.current = NoSegment
        /\ closed.segments = h.segments /\ closed.sequence_no = h.sequence_no
        /\ closed.ts = h.ts
    BY <1>1 DEF HlsRecorder
  <2> HIDE DEF closed
  <2>4. h.sequence_no - 1 \in Nat /\ Append(h.segments, s) \in Seq(Segment)
    BY <1>1, <2>1, HlsFields
  <2>5. listed = [closed EXCEPT !.segments = Append(h.segments, s)]
    BY <2>3
  <2>6. dropped = [closed EXCEPT !.sequence_no = h.sequence_no - 1]
    BY <2>3
  <2>7. /\ dropped \in HlsRecorder /\ dropped.enabled = h.enabled
        /\ dropped.current = NoSegment /\ dropped.segments = h.segments
        /\ dropped.sequence_no = h.sequence_no - 1
    BY <2>2, <2>3, <2>4, <2>6 DEF HlsRecorder
  <2>8. /\ listed \in HlsRecorder /\ listed.enabled = h.enabled
        /\ listed.current = NoSegment /\ listed.segments = Append(h.segments, s)
        /\ listed.sequence_no = h.sequence_no /\ listed.ts = h.ts
    BY <2>2, <2>3, <2>4, <2>5 DEF HlsRecorder
  <2> HIDE DEF dropped, listed
  <2>9. /\ renamed \in HlsRecorder /\ renamed.enabled = h.enabled
        /\ renamed.current = NoSegment /\ renamed.segments = Append(h.segments, s)
        /\ renamed.sequence_no = h.sequence_no
    BY <2>1, <2>8, HlsFields DEF HlsRecorder
  <2> HIDE DEF renamed
  <2>10. \A i \in 1..Len(h.segments) :
           h.segments[i].seq = h.sequence_no - 1 - Len(h.segments) + i - 1
    BY <1>1, <1>3 DEF Successive, s
  <2>11. Successive(dropped)
    BY <1>1, <2>7, <2>10, HlsFields DEF Successive
  <2>12. /\ Len(Append(h.segments, s)) = Len(h.segments) + 1
         /\ \A i \in 1..Len(h.segments) : Append(h.segments, s)[i] = h.segments[i]
         /\ Append(h.segments, s)[Len(h.segments) + 1] = s
    BY <1>1, <2>1, HlsFields, AppendProperties
  <2>13. \A i \in 1..Len(Append(h.segments, s)) :
           Append(h.segments, s)[i].seq
             = h.sequence_no - 0 - Len(Append(h.segments, s)) + i - 1
    <3> DEFINE n == Len(h.segments)
               a == Append(h.segments, s)
    <3>1. n \in Nat /\ h.sequence_no \in Nat
      BY <1>1, HlsFields
    <3>2. \A i \in 1..n + 1 : i \in 1..n \/ i = n + 1
      BY <3>1
    <3>3. Len(a) = n + 1 /\ (\A i \in 1..n : a[i] = h.segments[i]) /\ a[n + 1] = s
      BY <2>12
    <3>4. \A i \in 1..n : h.segments[i].seq = h.sequence_no - 1 - n + i - 1
      BY <2>10
    <3> HIDE DEF a, n
    <3>5. ASSUME NEW i \in 1..n PROVE a[i].seq = h.sequence_no - 0 - (n + 1) + i - 1
      <4>1. a[i].seq = h.sequence_no - 1 - n + i - 1
        BY <3>3, <3>4
      <4> QED
        BY <3>1, <4>1
    <3>6. a[n + 1].seq = h.sequence_no - 0 - (n + 1) + (n + 1) - 1
      BY <2>1, <3>1, <3>3
    <3>7. \A i \in 1..Len(a) : a[i].seq = h.sequence_no - 0 - Len(a) + i - 1
      BY <3>2, <3>3, <3>5, <3>6
    <3> QED
      BY <3>7 DEF a
  <2>14. Successive(listed) /\ Successive(renamed)
    BY <2>8, <2>9, <2>13 DEF Successive
  <2>15. HlsSound(dropped) /\ HlsSound(listed) /\ HlsSound(renamed)
    BY <2>7, <2>8, <2>9, <2>11, <2>14 DEF HlsSound
  <2>16. \/ SegmentClose(h, f) = Publishes(dropped, f)
         \/ SegmentClose(h, f) = [rec |-> listed, ok |-> FALSE]
         \/ SegmentClose(h, f) = Publishes(renamed, f)
    BY <1>3 DEF SegmentClose, Failed, s, closed, listed, dropped, renamed
  <2> QED
    BY <2>7, <2>8, <2>9, <2>15, <2>16, PublishesKeeps
<1> QED
  BY <1>2, <1>3

LEMMA ReapSegmentKeeps ==
  ASSUME NEW h, HlsSound(h), NEW dts \in Nat, NEW f
  PROVE  LET r == ReapSegment(h, dts, f) IN
           /\ HlsSound(r.rec) /\ r.rec.enabled = h.enabled
           /\ r.ok => r.rec.current # NoSegment
<1> DEFINE closed == SegmentClose(h, f)
           opened == SegmentOpen(closed.rec, dts, FALSE, f)
           flushed == FlushAudio(opened.rec, f)
<1>1. HlsSound(closed.rec) /\ closed.rec.enabled = h.enabled
  BY SegmentCloseKeeps
<1>2. /\ HlsSound(opened.rec) /\ opened.rec.enabled = h.enabled
      /\ opened.ok => opened.rec.current # NoSegment
  <2> HIDE DEF closed
  <2>1. LET r == SegmentOpen(closed.rec, dts, FALSE, f) IN
          /\ HlsSound(r.rec) /\ r.rec.enabled = closed.rec.enabled
          /\ r.ok => r.rec.current # NoSegment
    BY <1>1, SegmentOpenKeeps, Zenon
  <2> QED
    BY <1>1, <2>1
<1>3. /\ HlsSound(flushed.rec) /\ flushed.rec.enabled = h.enabled
      /\ opened.ok => flushed.rec.current # NoSegment
  <2> HIDE DEF opened
  <2> QED
    BY <1>2, FlushAudioKeeps
<1>4. \/ ReapSegment(h, dts, f) = closed /\ ~closed.ok
      \/ ReapSegment(h, dts, f) = opened /\ ~opened.ok
      \/ ReapSegment(h, dts, f) = flushed /\ opened.ok
  BY DEF ReapSegment
<1> HIDE DEF closed, opened, flushed
<1> QED
  BY <1>1, <1>2, <1>3, <1>4

\* An update of the fields the numbers do not depend on.
LEMMA OtherFieldsKeep ==
  ASSUME NEW h, HlsSound(h), NEW g \in HlsRecorder,
         g.current = h.current, g.segments = h.segments, g.sequence_no = h.sequence_no
  PROVE  HlsSound(g)
BY DEF HlsSound, Successive

LEMMA WriteAudioKeeps ==
  ASSUME NEW h, HlsSound(h), h.current # NoSegment, NEW pts \in Nat,
         NEW full \in BOOLEAN, NEW f
  PROVE  LET r == WriteAudio(h, pts, full, f) IN
           /\ HlsSound(r.rec) /\ r.rec.enabled = h.enabled
           /\ r.ok => r.rec.current # NoSegment
<1> DEFINE cached == IF h.ab = NoAudio THEN [h EXCEPT !.ab = pts, !.af = pts] ELSE h
           flushed == IF full THEN FlushAudio(cached, f) ELSE Ok(cached)
           reaped == ReapSegment(flushed.rec, flushed.rec.af, f)
<1>1. HlsSound(cached) /\ cached.enabled = h.enabled /\ cached.current = h.current
  <2> DEFINE g == [h EXCEPT !.ab = pts, !.af = pts]
  <2>1. g \in HlsRecorder
    BY DEF HlsSound, HlsRecorder
  <2>2. /\ g.enabled = h.enabled /\ g.current = h.current
        /\ g.segments = h.segments /\ g.sequence_no = h.sequence_no
    BY DEF HlsSound, HlsRecorder
  <2> HIDE DEF g
  <2>3. HlsSound(g)
    BY <2>1, <2>2, OtherFieldsKeep
  <2>4. cached = g \/ cached = h
    BY DEF g
  <2> QED
    BY <2>2, <2>3, <2>4
<1>2. HlsSound(flushed.rec) /\ flushed.rec.enabled = h.enabled /\ flushed.rec.current # NoSegment
  <2> HIDE DEF cached
  <2> QED
    BY <1>1, FlushAudioKeeps DEF Ok
<1>3. /\ HlsSound(reaped.rec) /\ reaped.rec.enabled = h.enabled
      /\ reaped.ok => reaped.rec.current # NoSegment
  <2> HIDE DEF flushed
  <2>1. flushed.rec.af \in Nat
    BY <1>2, HlsFields DEF HlsSound
  <2> QED
    BY <1>2, <2>1, ReapSegmentKeeps
<1> DEFINE lost == [h EXCEPT !.af = IF h.ab = NoAudio THEN pts ELSE @]
<1>4. HlsSound(lost) /\ lost.enabled = h.enabled
  <2>1. lost \in HlsRecorder
    BY DEF HlsSound, HlsRecorder
  <2>2. /\ lost.enabled = h.enabled /\ lost.current = h.current
        /\ lost.segments = h.segments /\ lost.sequence_no = h.sequence_no
    BY DEF HlsSound, HlsRecorder
  <2> HIDE DEF lost
  <2> QED
    BY <2>1, <2>2, OtherFieldsKeep
<1>5. \/ WriteAudio(h, pts, full, f) = reaped
      \/ WriteAudio(h, pts, full, f) = flushed
      \/ WriteAudio(h, pts, full, f) = [rec |-> lost, ok |-> FALSE]
  BY DEF WriteAudio, Failed
<1> HIDE DEF flushed, reaped, lost
<1> QED
  BY <1>2, <1>3, <1>4, <1>5

LEMMA WriteVideoKeeps ==
  ASSUME NEW h, HlsSound(h), h.current # NoSegment, NEW dts \in Nat,
         NEW key \in BOOLEAN, NEW f
  PROVE  LET r == WriteVideo(h, dts, key, f) IN
           /\ HlsSound(r.rec) /\ r.rec.enabled = h.enabled
           /\ r.ok => r.rec.current # NoSegment
<1> DEFINE seen == [h EXCEPT !.video = TRUE]
           reaped == IF key /\ IsSegmentOverflow(seen) THEN ReapSegment(seen, dts, f)
                     ELSE Ok(seen)
           flushed == FlushVideo(reaped.rec, dts, f)
<1>1. HlsSound(seen) /\ seen.enabled = h.enabled /\ seen.current = h.current
  <2>1. seen \in HlsRecorder
    BY DEF HlsSound, HlsRecorder
  <2>2. /\ seen.enabled = h.enabled /\ seen.current = h.current
        /\ seen.segments = h.segments /\ seen.sequence_no = h.sequence_no
    BY DEF HlsSound, HlsRecorder
  <2> HIDE DEF seen
  <2> QED
    BY <2>1, <2>2, OtherFieldsKeep
<1>2. /\ HlsSound(reaped.rec) /\ reaped.rec.enabled = h.enabled
      /\ reaped.ok => reaped.rec.current # NoSegment
  <2> HIDE DEF seen
  <2> QED
    BY <1>1, ReapSegmentKeeps DEF Ok
<1>3. /\ HlsSound(flushed.rec) /\ flushed.rec.enabled = h.enabled
      /\ reaped.ok => flushed.rec.current # NoSegment
  <2> HIDE DEF reaped
  <2> QED
    BY <1>2, FlushVideoKeeps
<1>4. \/ WriteVideo(h, dts, key, f) = flushed /\ reaped.ok
      \/ WriteVideo(h, dts, key, f) = reaped /\ ~reaped.ok
      \/ WriteVideo(h, dts, key, f) = [rec |-> seen, ok |-> FALSE]
  BY DEF WriteVideo, Failed
<1> HIDE DEF seen, reaped, flushed
<1> QED
  BY <1>1, <1>2, <1>3, <1>4

\* The calls of SrsSource.  The header comes only to a recorder that is enabled: the
\* assertion of the muxer that there is a segment to mark holds.
LEMMA MarkedKeeps ==
  ASSUME NEW h, HlsSound(h), h.current # NoSegment, NEW sh \in BOOLEAN,
         NEW k \in SUBSET {"audio", "video"}, NEW e \in BOOLEAN
  PROVE  LET g == [h EXCEPT !.enabled = e, !.known = k, !.current.sh = sh] IN
           HlsSound(g) /\ g.current # NoSegment
<1> DEFINE s == [h.current EXCEPT !.sh = sh]
           g == [h EXCEPT !.enabled = e, !.known = k, !.current = s]
<1>1. h \in HlsRecorder /\ Successive(h)
  BY DEF HlsSound
<1>2. h.current \in Segment
  BY <1>1, HlsFields
<1>3. s \in Segment /\ s.seq = h.current.seq
  BY <1>2 DEF Segment
<1>4. s # NoSegment
  BY <1>3, NoSegmentIsNone
<1>5. g = [h EXCEPT !.enabled = e, !.known = k, !.current.sh = sh]
  BY <1>1 DEF HlsRecorder
<1> HIDE DEF s
<1>6. g \in HlsRecorder
  BY <1>1, <1>3 DEF HlsRecorder
<1>7. /\ g.current = s
      /\ g.segments = h.segments /\ g.sequence_no = h.sequence_no
  BY <1>1 DEF HlsRecorder
<1> HIDE DEF g
<1>8. Successive(g)
  BY <1>1, <1>3, <1>4, <1>7 DEF Successive
<1> QED
  BY <1>4, <1>5, <1>6, <1>7, <1>8 DEF HlsSound

LEMMA HlsOnHeaderKeeps ==
  ASSUME NEW h, HlsGood(h), NEW media \in {"audio", "video"}, NEW f
  PROVE  HlsGood(HlsOnHeader(h, media, f).rec)
<1> DEFINE k == h.known \cup {media}
           g == [h EXCEPT !.enabled = h.enabled, !.known = k, !.current.sh = TRUE]
           lost == [h EXCEPT !.known = k]
<1>1. h \in HlsRecorder /\ HlsSound(h)
  BY DEF HlsGood, HlsSound
<1>2. k \in SUBSET {"audio", "video"} /\ h.enabled \in BOOLEAN
  BY <1>1 DEF HlsRecorder
<1>3. CASE ~h.enabled \/ "refused" \in f
  BY <1>3 DEF HlsOnHeader, Ok, Failed
<1>4. CASE h.enabled /\ "refused" \notin f /\ "malformed" \in f
  <2>1. HlsOnHeader(h, media, f).rec = lost
    BY <1>4 DEF HlsOnHeader, Failed
  <2>2. lost \in HlsRecorder
    BY <1>1, <1>2 DEF HlsRecorder
  <2>3. /\ lost.enabled = h.enabled /\ lost.current = h.current
        /\ lost.segments = h.segments /\ lost.sequence_no = h.sequence_no
    BY <1>1 DEF HlsRecorder
  <2> HIDE DEF lost
  <2>4. HlsSound(lost)
    BY <1>1, <2>2, <2>3, OtherFieldsKeep
  <2> QED
    BY <2>1, <2>3, <2>4 DEF HlsGood
<1>5. CASE h.enabled /\ "refused" \notin f /\ "malformed" \notin f
  <2>1. HlsSound(g) /\ g.current # NoSegment
    BY <1>5, <1>2, MarkedKeeps DEF HlsGood
  <2>2. OnSequenceHeader(h, media) = g
    BY <1>1 DEF OnSequenceHeader, HlsRecorder
  <2>3. HlsOnHeader(h, media, f).rec = g
    BY <1>5, <2>2 DEF HlsOnHeader, Ok
  <2> HIDE DEF g
  <2> QED
    BY <2>1, <2>3 DEF HlsGood
<1> QED
  BY <1>3, <1>4, <1>5

LEMMA OnHlsStartKeeps ==
  ASSUME NEW h, HlsGood(h), NEW cached, NEW f
  PROVE  HlsGood(OnHlsStart(h, cached, f).rec)
<1> DEFINE video == IF "video" \in cached THEN HlsOnHeader(h, "video", f) ELSE Ok(h)
           audio == HlsOnHeader(video.rec, "audio", f)
<1>1. HlsGood(video.rec)
  BY HlsOnHeaderKeeps DEF Ok
<1>2. OnHlsStart(h, cached, f) = audio \/ OnHlsStart(h, cached, f) = video
  BY DEF OnHlsStart
<1> HIDE DEF video
<1>3. HlsGood(audio.rec)
  BY <1>1, HlsOnHeaderKeeps
<1> QED
  BY <1>1, <1>2, <1>3

LEMMA HlsOnPublishKeeps ==
  ASSUME NEW h, HlsGood(h), NEW configured \in BOOLEAN,
         NEW known \in SUBSET {"audio", "video"}, NEW f
  PROVE  HlsGood(HlsOnPublish(h, configured, known, f).rec)
<1> DEFINE started == [h EXCEPT !.video = FALSE]
           opened == SegmentOpen(started, h.stream_dts, TRUE, f)
           g == [opened.rec EXCEPT !.enabled = TRUE]
<1>1. h \in HlsRecorder /\ HlsSound(h)
  BY DEF HlsGood, HlsSound
<1>2. CASE h.enabled \/ ~configured
  BY <1>2 DEF HlsOnPublish, Ok
<1>3. CASE ~h.enabled /\ configured
  <2>1. HlsSound(started) /\ started.enabled = FALSE
    <3>1. started \in HlsRecorder
      BY <1>1 DEF HlsRecorder
    <3>2. /\ started.enabled = h.enabled /\ started.current = h.current
          /\ started.segments = h.segments /\ started.sequence_no = h.sequence_no
      BY <1>1 DEF HlsRecorder
    <3> HIDE DEF started
    <3> QED
      BY <1>1, <1>3, <3>1, <3>2, OtherFieldsKeep, HlsFields
  <2>2. /\ HlsSound(opened.rec) /\ ~opened.rec.enabled
        /\ opened.ok => opened.rec.current # NoSegment
    <3>1. h.stream_dts \in Nat
      BY <1>1, HlsFields
    <3> HIDE DEF started
    <3> QED
      BY <2>1, <3>1, SegmentOpenKeeps
  <2>3. HlsOnPublish(h, configured, known, f)
          = IF opened.ok THEN OnHlsStart(g, known, f) ELSE opened
    BY <1>3 DEF HlsOnPublish
  <2> HIDE DEF opened
  <2>4. CASE opened.ok
    <3>1. g \in HlsRecorder
      BY <2>2 DEF HlsSound, HlsRecorder
    <3>2. /\ g.current = opened.rec.current /\ g.segments = opened.rec.segments
          /\ g.sequence_no = opened.rec.sequence_no
      BY <2>2 DEF HlsSound, HlsRecorder
    <3> HIDE DEF g
    <3>3. HlsGood(g)
      BY <2>2, <2>4, <3>1, <3>2, OtherFieldsKeep DEF HlsGood
    <3> QED
      BY <2>3, <2>4, <3>3, OnHlsStartKeeps
  <2>5. CASE ~opened.ok
    BY <2>2, <2>3, <2>5 DEF HlsGood
  <2> QED
    BY <2>4, <2>5
<1> QED
  BY <1>2, <1>3

\* Whatever a failure left, a stopped recorder is good again.
LEMMA HlsOnUnpublishKeeps ==
  ASSUME NEW h, HlsSound(h), NEW f
  PROVE  LET g == HlsOnUnpublish(h, f) IN HlsGood(g) /\ ~g.enabled
<1> DEFINE flushed == FlushAudio(h, f)
           closed == IF flushed.ok THEN SegmentClose(flushed.rec, f) ELSE flushed
           g == [closed.rec EXCEPT !.enabled = FALSE]
<1>1. CASE ~h.enabled
  BY <1>1 DEF HlsOnUnpublish, HlsGood
<1>2. CASE h.enabled
  <2>1. HlsSound(flushed.rec)
    BY FlushAudioKeeps
  <2>2. HlsSound(closed.rec)
    <3> HIDE DEF flushed
    <3> QED
      BY <2>1, SegmentCloseKeeps
  <2>3. HlsOnUnpublish(h, f) = g
    BY <1>2 DEF HlsOnUnpublish
  <2> HIDE DEF closed
  <2>4. /\ g \in HlsRecorder /\ g.enabled = FALSE
        /\ g.current = closed.rec.current /\ g.segments = closed.rec.segments
        /\ g.sequence_no = closed.rec.sequence_no
    BY <2>2 DEF HlsSound, HlsRecorder
  <2> HIDE DEF g
  <2>5. HlsSound(g)
    BY <2>2, <2>4, OtherFieldsKeep
  <2> QED
    BY <2>3, <2>4, <2>5 DEF HlsGood
<1> QED
  BY <1>1, <1>2

LEMMA HlsClockKeeps ==
  ASSUME NEW h, HlsSound(h), NEW dts \in Nat
  PROVE  LET g == [h EXCEPT !.stream_dts = dts] IN
           HlsSound(g) /\ g.enabled = h.enabled /\ g.current = h.current
<1> DEFINE g == [h EXCEPT !.stream_dts = dts]
<1>1. /\ g \in HlsRecorder /\ g.enabled = h.enabled /\ g.current = h.current
      /\ g.segments = h.segments /\ g.sequence_no = h.sequence_no
  BY DEF HlsSound, HlsRecorder
<1> HIDE DEF g
<1>2. HlsSound(g)
  BY <1>1, OtherFieldsKeep
<1> QED
  BY <1>1, <1>2 DEF g

LEMMA HlsOnAudioKeeps ==
  ASSUME NEW h, HlsGood(h), NEW step \in Nat, NEW full \in BOOLEAN, NEW f
  PROVE  HlsCall(HlsOnAudio(h, step, full, f))
<1> DEFINE dts == h.stream_dts + step
           g == [h EXCEPT !.stream_dts = dts]
           r == WriteAudio(g, dts, full, f)
<1>1. CASE ~h.enabled
  BY <1>1 DEF HlsOnAudio, HlsCall, HlsGood, Ok
<1>2. CASE h.enabled /\ ("audio" \notin h.known \/ "refused" \in f)
  BY <1>2 DEF HlsOnAudio, HlsCall, HlsGood, Failed
<1>3. CASE h.enabled /\ "audio" \in h.known /\ "refused" \notin f
  <2>1. dts \in Nat
    BY HlsFields DEF HlsGood, HlsSound
  <2>2. HlsOnAudio(h, step, full, f) = r
    BY <1>3 DEF HlsOnAudio
  <2> HIDE DEF dts
  <2>3. HlsSound(g) /\ g.current # NoSegment
    BY <1>3, <2>1, HlsClockKeeps DEF HlsGood
  <2> HIDE DEF g
  <2>4. HlsSound(r.rec) /\ (r.ok => r.rec.current # NoSegment)
    BY <2>1, <2>3, WriteAudioKeeps
  <2> HIDE DEF r
  <2> QED
    BY <2>2, <2>4 DEF HlsCall, HlsGood
<1> QED
  BY <1>1, <1>2, <1>3

LEMMA HlsOnVideoKeeps ==
  ASSUME NEW h, HlsGood(h), NEW step \in Nat, NEW key \in BOOLEAN, NEW f
  PROVE  HlsCall(HlsOnVideo(h, step, key, f))
<1> DEFINE dts == h.stream_dts + step
           g == [h EXCEPT !.stream_dts = dts]
           r == WriteVideo(g, dts, key, f)
<1>1. CASE ~h.enabled
  BY <1>1 DEF HlsOnVideo, HlsCall, HlsGood, Ok
<1>2. CASE h.enabled /\ ("video" \notin h.known \/ "refused" \in f)
  BY <1>2 DEF HlsOnVideo, HlsCall, HlsGood, Failed
<1>3. CASE h.enabled /\ "video" \in h.known /\ "refused" \notin f
  <2>1. dts \in Nat
    BY HlsFields DEF HlsGood, HlsSound
  <2>2. HlsOnVideo(h, step, key, f) = r
    BY <1>3 DEF HlsOnVideo
  <2> HIDE DEF dts
  <2>3. HlsSound(g) /\ g.current # NoSegment
    BY <1>3, <2>1, HlsClockKeeps DEF HlsGood
  <2> HIDE DEF g
  <2>4. HlsSound(r.rec) /\ (r.ok => r.rec.current # NoSegment)
    BY <2>1, <2>3, WriteVideoKeeps
  <2> HIDE DEF r
  <2> QED
    BY <2>2, <2>4 DEF HlsCall, HlsGood
<1> QED
  BY <1>1, <1>2, <1>3

------------------------------------------------------------------------------
(* The calls of DVR *)

File == [done : BOOLEAN, sessions : SUBSET Nat]

DvrSound(d) == d \in DvrRecorder /\ {d.fs, d.path} \subseteq 0..Len(d.files)
DvrGood(d) == DvrSound(d) /\ (d.enabled => d.fs # 0)
DvrCall(r) == DvrSound(r.rec) /\ (r.ok => DvrGood(r.rec))

LEMMA DvrFields ==
  ASSUME NEW d, DvrSound(d)
  PROVE  /\ d \in DvrRecorder /\ d.files \in Seq(File) /\ Len(d.files) \in Nat
         /\ d.fs \in 0..Len(d.files) /\ d.path \in 0..Len(d.files)
         /\ d.enabled \in BOOLEAN /\ d.duration \in Nat /\ d.stream_duration \in Nat
         /\ d.expected \in Nat
BY DEF DvrSound, DvrRecorder, File

LEMMA FileUpdate ==
  ASSUME NEW s \in Seq(File), NEW i \in 1..Len(s), NEW x \in File
  PROVE  [s EXCEPT ![i] = x] \in Seq(File) /\ Len([s EXCEPT ![i] = x]) = Len(s)
BY ExceptSeq

LEMMA OpenNewSegmentKeeps ==
  ASSUME NEW d, DvrSound(d), NEW f
  PROVE  LET r == OpenNewSegment(d, f) IN
           /\ DvrCall(r)
           /\ ~r.ok => r.rec.enabled = d.enabled
<1> DEFINE reset == [d EXCEPT !.duration = 0]
           opened == [reset EXCEPT !.files = Append(@, NewFile), !.fs = Len(d.files) + 1]
           g == [opened EXCEPT !.path = opened.fs, !.enabled = TRUE]
<1>1. /\ reset \in DvrRecorder /\ reset.files = d.files /\ reset.fs = d.fs
      /\ reset.path = d.path /\ reset.enabled = d.enabled
  BY DEF DvrSound, DvrRecorder
<1>2. DvrSound(reset)
  BY <1>1 DEF DvrSound
<1> HIDE DEF reset
<1>3. /\ Append(d.files, NewFile) \in Seq(File)
      /\ Len(Append(d.files, NewFile)) = Len(d.files) + 1
  <2>1. NewFile \in File
    BY DEF NewFile, File
  <2> QED
    BY <2>1, DvrFields, AppendProperties
<1>4. opened = [reset EXCEPT !.files = Append(d.files, NewFile), !.fs = Len(d.files) + 1]
  BY <1>1
<1>5. /\ opened \in DvrRecorder /\ opened.files = Append(d.files, NewFile)
      /\ opened.fs = Len(d.files) + 1 /\ opened.path = d.path /\ opened.enabled = d.enabled
  <2>1. Len(d.files) + 1 \in Nat
    BY DvrFields
  <2> QED
    BY <1>1, <1>3, <1>4, <2>1 DEF DvrRecorder, File
<1> HIDE DEF opened
<1>6. DvrSound(opened) /\ opened.fs # 0
  BY <1>3, <1>5, DvrFields DEF DvrSound
<1>7. /\ g \in DvrRecorder /\ g.files = opened.files /\ g.fs = opened.fs
      /\ g.path = opened.fs
  BY <1>5 DEF DvrRecorder
<1> HIDE DEF g
<1>8. DvrGood(g)
  BY <1>6, <1>7 DEF DvrSound, DvrGood
<1>9. \/ OpenNewSegment(d, f) = [rec |-> reset, ok |-> FALSE]
      \/ OpenNewSegment(d, f) = [rec |-> opened, ok |-> FALSE]
      \/ OpenNewSegment(d, f) = [rec |-> g, ok |-> TRUE]
  <2> DEFINE named == [opened EXCEPT !.path = opened.fs]
  <2>1. g = [named EXCEPT !.enabled = TRUE]
    BY <1>5 DEF g, DvrRecorder
  <2>2. \/ FlvOpen(d, f) = [rec |-> reset, ok |-> FALSE]
        \/ FlvOpen(d, f) = [rec |-> opened, ok |-> FALSE]
        \/ FlvOpen(d, f) = [rec |-> named, ok |-> TRUE]
    BY DEF FlvOpen, Done, Broken, opened, reset
  <2> HIDE DEF named
  <2>3. FlvOpen(d, f).ok => OpenNewSegment(d, f) = Done([FlvOpen(d, f).rec EXCEPT !.enabled = TRUE])
    BY Zenon DEF OpenNewSegment
  <2>4. ~FlvOpen(d, f).ok => OpenNewSegment(d, f) = FlvOpen(d, f)
    BY Zenon DEF OpenNewSegment
  <2>5. CASE FlvOpen(d, f) = [rec |-> named, ok |-> TRUE]
    BY <2>1, <2>3, <2>5 DEF Done
  <2>6. CASE FlvOpen(d, f) \in {[rec |-> reset, ok |-> FALSE], [rec |-> opened, ok |-> FALSE]}
    BY <2>4, <2>6
  <2> QED
    BY <2>2, <2>5, <2>6
<1> QED
  BY <1>1, <1>2, <1>5, <1>6, <1>8, <1>9 DEF DvrCall, DvrGood

LEMMA FlvCloseKeeps ==
  ASSUME NEW d, DvrSound(d), NEW f
  PROVE  LET r == FlvClose(d, f) IN DvrSound(r.rec) /\ r.rec.enabled = d.enabled
<1> DEFINE closed == [d EXCEPT !.fs = 0]
           x == [d.files[d.path] EXCEPT !.done = TRUE]
           renamed == [closed EXCEPT !.files = [d.files EXCEPT ![d.path] = x]]
<1>1. /\ closed \in DvrRecorder /\ closed.files = d.files /\ closed.fs = 0
      /\ closed.path = d.path /\ closed.enabled = d.enabled
  BY DEF DvrSound, DvrRecorder
<1>2. DvrSound(closed)
  BY <1>1, DvrFields DEF DvrSound
<1>3. \/ FlvClose(d, f) = [rec |-> closed, ok |-> FALSE]
      \/ d.path # 0 /\ FlvClose(d, f) = [rec |-> renamed, ok |-> TRUE]
  <2>1. renamed = [closed EXCEPT !.files[d.path].done = TRUE]
    BY <1>1
  <2> QED
    BY <2>1 DEF FlvClose, Done, Broken
<1> HIDE DEF closed
<1>4. CASE d.path # 0
  <2>1. d.path \in 1..Len(d.files) /\ d.files[d.path] \in File
    BY <1>4, DvrFields, ElementOfSeq
  <2>2. x \in File
    BY <2>1 DEF File
  <2> HIDE DEF x
  <2>3. /\ [d.files EXCEPT ![d.path] = x] \in Seq(File)
        /\ Len([d.files EXCEPT ![d.path] = x]) = Len(d.files)
    BY <2>1, <2>2, DvrFields, FileUpdate
  <2>4. /\ renamed \in DvrRecorder /\ renamed.files = [d.files EXCEPT ![d.path] = x]
        /\ renamed.fs = 0 /\ renamed.path = d.path /\ renamed.enabled = d.enabled
    BY <1>1, <2>3 DEF DvrRecorder, File
  <2> HIDE DEF renamed
  <2>5. DvrSound(renamed)
    BY <2>3, <2>4, DvrFields DEF DvrSound
  <2> QED
    BY <1>1, <1>2, <1>3, <2>4, <2>5
<1>5. CASE d.path = 0
  BY <1>1, <1>2, <1>3, <1>5
<1> QED
  BY <1>4, <1>5

\* Without its file a recorder is not enabled, whatever else is written.
LEMMA DisabledIsGood ==
  ASSUME NEW d, DvrSound(d)
  PROVE  DvrGood([d EXCEPT !.enabled = FALSE]) /\ DvrSound([d EXCEPT !.duration = 0])
<1> DEFINE g == [d EXCEPT !.enabled = FALSE]
           h == [d EXCEPT !.duration = 0]
<1>1. /\ g \in DvrRecorder /\ g.files = d.files /\ g.fs = d.fs /\ g.path = d.path
      /\ g.enabled = FALSE
  BY DEF DvrSound, DvrRecorder
<1>2. h \in DvrRecorder /\ h.files = d.files /\ h.fs = d.fs /\ h.path = d.path
  BY DEF DvrSound, DvrRecorder
<1> HIDE DEF g, h
<1>3. DvrGood(g) /\ DvrSound(h)
  BY <1>1, <1>2 DEF DvrSound, DvrGood
<1> QED
  BY <1>3 DEF g, h

LEMMA DvrOnUnpublishKeeps ==
  ASSUME NEW d, DvrSound(d), NEW f
  PROVE  DvrGood(DvrOnUnpublish(d, f))
<1>1. DvrSound(FlvClose(d, f).rec)
  BY FlvCloseKeeps
<1> QED
  BY <1>1, DisabledIsGood DEF DvrOnUnpublish

LEMMA ReapKeeps ==
  ASSUME NEW d, DvrSound(d), NEW f
  PROVE  DvrCall(Reap(d, f))
<1> DEFINE closed == FlvClose(d, f)
           off == [closed.rec EXCEPT !.enabled = FALSE]
<1>1. DvrSound(closed.rec)
  BY FlvCloseKeeps
<1>2. Reap(d, f) = IF ~closed.ok THEN [rec |-> [closed.rec EXCEPT !.duration = 0], ok |-> FALSE]
                   ELSE OpenNewSegment(off, f)
  BY DEF Reap, Broken
<1> HIDE DEF closed
<1>3. DvrSound(off) /\ DvrSound([closed.rec EXCEPT !.duration = 0])
  BY <1>1, DisabledIsGood DEF DvrGood
<1> HIDE DEF off
<1>4. DvrCall(OpenNewSegment(off, f))
  BY <1>3, OpenNewSegmentKeeps
<1>5. CASE closed.ok
  BY <1>2, <1>4, <1>5
<1>6. CASE ~closed.ok
  BY <1>2, <1>3, <1>6 DEF DvrCall
<1> QED
  BY <1>5, <1>6

\* An update of what neither names a file nor says whether there is one.
LEMMA DvrOtherFieldsKeep ==
  ASSUME NEW d, DvrSound(d), NEW g \in DvrRecorder,
         g.fs = d.fs, g.path = d.path, Len(g.files) = Len(d.files)
  PROVE  /\ DvrSound(g)
         /\ DvrGood(d) /\ (g.enabled => d.enabled) => DvrGood(g)
BY DEF DvrSound, DvrGood

LEMMA DvrOnPublishKeeps ==
  ASSUME NEW d, DvrGood(d), NEW configured \in BOOLEAN, NEW f
  PROVE  DvrGood(DvrOnPublish(d, configured, f).rec)
<1> DEFINE started == [d EXCEPT !.stream_duration = 0, !.previous = FALSE]
           opened == OpenNewSegment(started, f)
           resumed == [d EXCEPT !.enabled = TRUE]
           counted == [opened.rec EXCEPT !.expected = 1]
<1>1. DvrSound(d)
  BY DEF DvrGood
<1>2. CASE d.plan # "session" /\ d.fs # 0
  <2>1. /\ resumed \in DvrRecorder /\ resumed.files = d.files /\ resumed.fs = d.fs
        /\ resumed.path = d.path
    BY <1>1 DEF DvrSound, DvrRecorder
  <2>2. DvrOnPublish(d, configured, f) = [rec |-> resumed, ok |-> TRUE]
    BY <1>2 DEF DvrOnPublish, Done
  <2> HIDE DEF resumed
  <2> QED
    BY <1>1, <1>2, <2>1, <2>2 DEF DvrSound, DvrGood
<1>3. CASE ~(d.plan # "session" /\ d.fs # 0) /\ (d.enabled \/ ~configured)
  <2> DEFINE later == [d EXCEPT !.expected = 1]
  <2>1. /\ later \in DvrRecorder /\ later.files = d.files /\ later.fs = d.fs
        /\ later.path = d.path /\ later.enabled = d.enabled
    BY <1>1 DEF DvrSound, DvrRecorder
  <2>2. \/ DvrOnPublish(d, configured, f) = [rec |-> later, ok |-> TRUE]
        \/ DvrOnPublish(d, configured, f) = [rec |-> d, ok |-> TRUE]
    BY <1>3 DEF DvrOnPublish, StartsPlan, Done
  <2> HIDE DEF later
  <2> QED
    BY <1>1, <2>1, <2>2, DvrOtherFieldsKeep
<1>4. CASE ~(d.plan # "session" /\ d.fs # 0) /\ ~d.enabled /\ configured
  <2>1. started \in DvrRecorder /\ started.files = d.files /\ started.fs = d.fs
        /\ started.path = d.path /\ started.enabled = d.enabled
    BY <1>1 DEF DvrSound, DvrRecorder
  <2> HIDE DEF started
  <2>2. DvrSound(started)
    BY <1>1, <2>1, DvrOtherFieldsKeep
  <2>3. DvrCall(opened) /\ (~opened.ok => opened.rec.enabled = started.enabled)
    BY <2>2, OpenNewSegmentKeeps
  <2>4. \/ DvrOnPublish(d, configured, f) = [rec |-> counted, ok |-> TRUE] /\ opened.ok
        \/ DvrOnPublish(d, configured, f) = opened
    BY <1>4 DEF DvrOnPublish, StartsPlan, Done, started
  <2> HIDE DEF opened
  <2>5. DvrGood(opened.rec)
    BY <1>4, <2>1, <2>3 DEF DvrCall, DvrGood
  <2>6. /\ counted \in DvrRecorder /\ counted.files = opened.rec.files
        /\ counted.fs = opened.rec.fs /\ counted.path = opened.rec.path
        /\ counted.enabled = opened.rec.enabled
    BY <2>5 DEF DvrGood, DvrSound, DvrRecorder
  <2> HIDE DEF counted
  <2>7. DvrGood(counted)
    BY <2>5, <2>6 DEF DvrGood, DvrSound
  <2> QED
    BY <2>4, <2>5, <2>7
<1> QED
  BY <1>2, <1>3, <1>4

LEMMA UpdateDurationKeeps ==
  ASSUME NEW d, DvrGood(d), NEW step \in Nat, NEW f
  PROVE  DvrCall(UpdateDuration(d, step, f))
<1> DEFINE passed == IF d.previous THEN step ELSE 0
           dur == d.duration + passed
           total == d.stream_duration + passed
           updated == [d EXCEPT !.duration = dur, !.stream_duration = total,
                                !.previous = TRUE]
           counted == [updated EXCEPT !.expected = @ + 1]
<1>1. d \in DvrRecorder /\ DvrSound(d)
  BY DEF DvrGood, DvrSound
<1>2. dur \in Nat /\ total \in Nat
  BY <1>1, DvrFields
<1>3. updated = [d EXCEPT !.duration = @ + passed, !.stream_duration = @ + passed,
                          !.previous = TRUE]
  OBVIOUS
<1>4. \/ UpdateDuration(d, step, f) = Reap(updated, f)
      \/ UpdateDuration(d, step, f) = Reap(counted, f)
      \/ UpdateDuration(d, step, f) = [rec |-> updated, ok |-> TRUE]
  <2>1. Lasts(d, step) = updated
    BY <1>3 DEF Lasts
  <2>2. d.plan \in Plans
    BY <1>1 DEF DvrRecorder
  <2>3. LastsSegment(updated, f) \in {Reap(updated, f), [rec |-> updated, ok |-> TRUE]}
    BY DEF LastsSegment, Done
  <2>4. LastsHss(updated, f) \in {Reap(counted, f), [rec |-> updated, ok |-> TRUE]}
    BY DEF LastsHss, Done
  <2> HIDE DEF updated, counted
  <2> QED
    BY <2>1, <2>2, <2>3, <2>4 DEF UpdateDuration, Plans, Done
<1> HIDE DEF dur, total
<1>5. /\ updated \in DvrRecorder /\ updated.files = d.files /\ updated.fs = d.fs
      /\ updated.path = d.path /\ updated.enabled = d.enabled
  BY <1>1, <1>2 DEF DvrRecorder
<1> HIDE DEF updated
<1>6. DvrGood(updated) /\ DvrSound(updated)
  BY <1>1, <1>5, DvrOtherFieldsKeep DEF DvrGood
<1>7. counted \in DvrRecorder /\ counted.files = updated.files /\ counted.fs = updated.fs
      /\ counted.path = updated.path
  <2>1. updated.expected + 1 \in Nat
    BY <1>6, DvrFields
  <2> QED
    BY <1>5, <2>1 DEF DvrRecorder
<1> HIDE DEF counted
<1>8. DvrSound(counted)
  BY <1>6, <1>7, DvrOtherFieldsKeep
<1> QED
  BY <1>4, <1>6, <1>8, ReapKeeps DEF DvrCall

LEMMA DvrOnMediaKeeps ==
  ASSUME NEW d, DvrGood(d), NEW n \in Nat, NEW step \in Nat, NEW f
  PROVE  DvrCall(DvrOnMedia(d, n, step, f))
<1> DEFINE x == [d.files[d.fs] EXCEPT !.sessions = @ \cup {n}]
           written == [d EXCEPT !.files = [d.files EXCEPT ![d.fs] = x]]
<1>1. DvrSound(d)
  BY DEF DvrGood
<1>2. CASE ~d.enabled
  BY <1>2 DEF DvrOnMedia, DvrCall, DvrGood, Done
<1>3. CASE d.enabled /\ (d.fs = 0 \/ "write_flv" \in f)
  BY <1>1, <1>3 DEF DvrOnMedia, DvrCall, Broken
<1>4. CASE d.enabled /\ ~(d.fs = 0 \/ "write_flv" \in f)
  <2>1. d.fs \in 1..Len(d.files) /\ d.files[d.fs] \in File
    BY <1>1, <1>4, DvrFields, ElementOfSeq
  <2>2. x \in File
    BY <2>1 DEF File
  <2>3. DvrOnMedia(d, n, step, f) = UpdateDuration(written, step, f)
    <3>1. written = [d EXCEPT !.files[d.fs].sessions = @ \cup {n}]
      BY <1>1 DEF DvrSound, DvrRecorder
    <3> QED
      BY <1>4, <3>1 DEF DvrOnMedia
  <2> HIDE DEF x
  <2>4. /\ [d.files EXCEPT ![d.fs] = x] \in Seq(File)
        /\ Len([d.files EXCEPT ![d.fs] = x]) = Len(d.files)
    BY <2>1, <2>2, <1>1, DvrFields, FileUpdate
  <2>5. /\ written \in DvrRecorder /\ written.files = [d.files EXCEPT ![d.fs] = x]
        /\ written.fs = d.fs /\ written.path = d.path /\ written.enabled = d.enabled
    BY <1>1, <2>4 DEF DvrSound, DvrRecorder, File
  <2> HIDE DEF written
  <2>6. DvrGood(written)
    BY <1>1, <2>4, <2>5, DvrOtherFieldsKeep
  <2> QED
    BY <2>3, <2>6, UpdateDurationKeeps
<1> QED
  BY <1>2, <1>3, <1>4

LEMMA OnDvrRequestShKeeps ==
  ASSUME NEW d, DvrGood(d), NEW n \in Nat, NEW cached, NEW lag \in Nat, NEW f
  PROVE  DvrCall(OnDvrRequestSh(d, n, cached, lag, f))
<1> DEFINE video == IF "video" \in cached THEN DvrOnMedia(d, n, lag, f) ELSE Done(d)
           audio == DvrOnMedia(video.rec, n, lag, f)
<1>1. DvrCall(video)
  BY DvrOnMediaKeeps DEF DvrCall, DvrGood, Done
<1>2. \/ OnDvrRequestSh(d, n, cached, lag, f) = audio /\ video.ok
      \/ OnDvrRequestSh(d, n, cached, lag, f) = video
  BY DEF OnDvrRequestSh
<1> HIDE DEF video
<1>3. video.ok => DvrCall(audio)
  BY <1>1, DvrOnMediaKeeps DEF DvrCall
<1> QED
  BY <1>1, <1>2, <1>3

LEMMA DvrOnVideoKeeps ==
  ASSUME NEW d, DvrGood(d), NEW n \in Nat, NEW key \in BOOLEAN, NEW cached,
         NEW lag \in Nat, NEW step \in Nat, NEW f
  PROVE  DvrCall(DvrOnVideo(d, n, key, cached, lag, step, f))
<1> DEFINE asked == IF Asks(d, key) THEN OnDvrRequestSh(d, n, cached, lag, f) ELSE Done(d)
           sent == DvrOnMedia(asked.rec, n, step, f)
<1>1. DvrCall(asked)
  BY OnDvrRequestShKeeps DEF DvrCall, DvrGood, Done
<1>2. DvrOnVideo(d, n, key, cached, lag, step, f) = IF asked.ok THEN sent ELSE asked
  BY DEF DvrOnVideo
<1> HIDE DEF asked
<1>3. asked.ok => DvrCall(sent)
  BY <1>1, DvrOnMediaKeeps DEF DvrCall
<1> QED
  BY <1>1, <1>2, <1>3

LEMMA NewPlanIsGood ==
  ASSUME NEW plan \in Plans, NEW files \in Seq(File)
  PROVE  DvrGood(NewPlan(plan, files))
BY DEF NewPlan, DvrGood, DvrSound, DvrRecorder, File

LEMMA NewHlsIsGood ==
  ASSUME NEW replaces \in BOOLEAN
  PROVE  HlsGood(NewHls(replaces))
BY DEF NewHls, HlsGood, HlsSound, HlsRecorder, Successive, NoAudio

------------------------------------------------------------------------------
(* The source *)

\* What TypeOK says of the source, the configuration and the history.
SourceOK ==
  /\ vhost \in Vhosts
  /\ config \in [hls : BOOLEAN, dvr : BOOLEAN]
  /\ publish \in {"none", "on", "failed"} /\ session \in Nat
  /\ headers \subseteq {"audio", "video"} /\ clock \in Nat
  /\ faults \subseteq {"hls", "dvr"} /\ faulty \in Nat
  /\ reloads \in Seq([of : {"hls", "dvr"}, idle : BOOLEAN])

\* The inductive invariant: the three are needed together, since a header marks
\* the current segment, and media go to the current file.
RecInv == SourceOK /\ HlsGood(hls) /\ DvrGood(dvr)

LEMMA RecInvMeaning == RecInv <=> TypeOK /\ NumbersAreSuccessive /\ EnabledHasFile
BY DEF RecInv, SourceOK, HlsGood, HlsSound, DvrGood, DvrSound, TypeOK, NumbersAreSuccessive,
       EnabledHasFile

LEMMA RecordersInit == Init => RecInv
<1> SUFFICES ASSUME Init PROVE RecInv
  OBVIOUS
<1> USE RecordersAssumption
<1>1. vhost.dvr \in Plans \cup {"off"} /\ vhost.hls \in BOOLEAN
  BY DEF Init
<1>2. HlsGood(hls)
  BY NewHlsIsGood DEF Init
<1>3. DvrGood(dvr)
  <2>1. (IF vhost.dvr = "off" THEN "session" ELSE vhost.dvr) \in Plans
    BY <1>1 DEF Plans
  <2>2. <<>> \in Seq(File)
    OBVIOUS
  <2> QED
    BY <2>1, <2>2, NewPlanIsGood DEF Init
<1>4. SourceOK
  BY <1>1 DEF Init, SourceOK
<1> QED
  BY <1>2, <1>3, <1>4 DEF RecInv

LEMMA CallKeeps ==
  ASSUME RecInv, NEW f, Call(f)
  PROVE  faults' \subseteq {"hls", "dvr"} /\ faulty' \in Nat
BY DEF RecInv, SourceOK, Call

\* The time the headers take that hss asks for.
LEMMA LagIsNumber ==
  ASSUME RecInv, NEW lag \in Nat, NEW step \in Nat, NEW key \in BOOLEAN
  PROVE  step + (IF Asks(dvr, key) THEN lag * Cardinality(headers) ELSE 0) \in Nat
<1>1. Cardinality(headers) \in Nat
  <2>1. IsFiniteSet({"audio", "video"})
    <3>1. IsFiniteSet({"audio"}) /\ IsFiniteSet({"video"})
      BY FS_Singleton
    <3>2. IsFiniteSet({"audio"} \cup {"video"})
      BY <3>1, FS_Union
    <3>3. {"audio"} \cup {"video"} = {"audio", "video"}
      OBVIOUS
    <3> QED
      BY <3>2, <3>3
  <2> QED
    BY <2>1, FS_Subset, FS_CardinalityType DEF RecInv, SourceOK
<1>2. lag * Cardinality(headers) \in Nat
  BY <1>1
<1> QED
  BY <1>2

LEMMA RecordedKeeps ==
  ASSUME NEW h, HlsCall(h), NEW d, DvrCall(d), NEW f, Recorded(h, d, f)
  PROVE  HlsGood(hls') /\ DvrGood(dvr')
<1>1. PICK again \in {{}, f} :
        /\ hls' = IF h.ok THEN h.rec ELSE HlsOnUnpublish(h.rec, again)
        /\ dvr' = IF d.ok THEN d.rec ELSE DvrOnUnpublish(d.rec, again)
  BY DEF Recorded
<1>2. HlsGood(hls')
  BY <1>1, HlsOnUnpublishKeeps DEF HlsCall
<1>3. DvrGood(dvr')
  BY <1>1, DvrOnUnpublishKeeps DEF DvrCall
<1> QED
  BY <1>2, <1>3

LEMMA ReloadsKeeps ==
  ASSUME RecInv, NEW r \in {"hls", "dvr"}, Reloads(r)
  PROVE  reloads' \in Seq([of : {"hls", "dvr"}, idle : BOOLEAN])
<1>1. [of |-> r, idle |-> publish = "none"] \in [of : {"hls", "dvr"}, idle : BOOLEAN]
  OBVIOUS
<1> QED
  BY <1>1, AppendProperties DEF RecInv, SourceOK, Reloads

LEMMA RecordersStep == RecInv /\ [Next]_vars => RecInv'
<1> SUFFICES ASSUME RecInv, [Next]_vars PROVE RecInv'
  OBVIOUS
<1> USE RecordersAssumption
<1>0. SourceOK /\ HlsGood(hls) /\ DvrGood(dvr)
  BY DEF RecInv
<1>1. ASSUME NEW f \in Fault, OnPublish(f) PROVE RecInv'
  <2> DEFINE h == HlsOnPublish(hls, config.hls, headers, f)
             d == DvrOnPublish(dvr, config.dvr, f)
  <2>1. config.hls \in BOOLEAN /\ config.dvr \in BOOLEAN
    BY <1>0 DEF SourceOK
  <2>2. HlsGood(h.rec)
    BY <1>0, <2>1, HlsOnPublishKeeps DEF SourceOK
  <2>3. DvrGood(d.rec)
    BY <1>0, <2>1, DvrOnPublishKeeps
  <2>4. /\ hls' = h.rec /\ dvr' = IF h.ok THEN d.rec ELSE dvr
        /\ publish' = IF h.ok /\ d.ok THEN "on" ELSE "failed"
        /\ session' = session + 1 /\ UNCHANGED <<vhost, config, headers, clock, reloads>>
    BY <1>1 DEF OnPublish
  <2> HIDE DEF h, d
  <2>5. SourceOK'
    BY <1>0, <1>1, <2>4, CallKeeps DEF SourceOK, OnPublish
  <2> QED
    BY <1>0, <2>2, <2>3, <2>4, <2>5 DEF RecInv
<1>2. ASSUME NEW f \in Fault, OnUnpublish(f) PROVE RecInv'
  <2>1. HlsGood(hls')
    BY <1>0, <1>2, HlsOnUnpublishKeeps DEF OnUnpublish, HlsGood
  <2>2. DvrGood(dvr')
    BY <1>0, <1>2, DvrOnUnpublishKeeps DEF OnUnpublish, DvrGood
  <2>3. SourceOK'
    BY <1>0, <1>2, CallKeeps DEF SourceOK, OnUnpublish
  <2> QED
    BY <2>1, <2>2, <2>3 DEF RecInv
<1>3. ASSUME NEW f \in Fault, OnMetaData(f) PROVE RecInv'
  <2>1. SourceOK'
    BY <1>0, <1>3, CallKeeps DEF SourceOK, OnMetaData
  <2> QED
    BY <1>0, <1>3, <2>1 DEF RecInv, OnMetaData
<1>4. ASSUME NEW f \in Fault, NEW media \in {"audio", "video"}, NEW step \in Steps,
             OnHeader(media, step, f)
      PROVE  RecInv'
  <2>1. HlsCall(HlsOnHeader(hls, media, f))
    BY <1>0, HlsOnHeaderKeeps DEF HlsCall, HlsGood
  <2>2. DvrCall(DvrOnMedia(dvr, session, step, f))
    BY <1>0, DvrOnMediaKeeps DEF SourceOK
  <2>3. HlsGood(hls') /\ DvrGood(dvr')
    BY <1>4, <2>1, <2>2, RecordedKeeps DEF OnHeader
  <2>4. SourceOK'
    BY <1>0, <1>4, CallKeeps DEF SourceOK, OnHeader, Ticks
  <2> QED
    BY <2>3, <2>4 DEF RecInv
<1>5. ASSUME NEW f \in Fault, NEW step \in Steps, NEW full \in BOOLEAN,
             OnAudio(step, full, f)
      PROVE  RecInv'
  <2>1. HlsCall(HlsOnAudio(hls, step, full, f))
    BY <1>0, HlsOnAudioKeeps
  <2>2. DvrCall(DvrOnMedia(dvr, session, step, f))
    BY <1>0, DvrOnMediaKeeps DEF SourceOK
  <2>3. HlsGood(hls') /\ DvrGood(dvr')
    BY <1>5, <2>1, <2>2, RecordedKeeps DEF OnAudio
  <2>4. SourceOK'
    BY <1>0, <1>5, CallKeeps DEF SourceOK, OnAudio, Ticks
  <2> QED
    BY <2>3, <2>4 DEF RecInv
<1>6. ASSUME NEW f \in Fault, NEW step \in Steps, NEW key \in BOOLEAN, NEW lag \in Steps,
             OnVideo(step, key, lag, f)
      PROVE  RecInv'
  <2>1. HlsCall(HlsOnVideo(hls, step, key, f))
    BY <1>0, HlsOnVideoKeeps
  <2>2. DvrCall(DvrOnVideo(dvr, session, key, headers, lag, step, f))
    BY <1>0, DvrOnVideoKeeps DEF SourceOK
  <2>3. HlsGood(hls') /\ DvrGood(dvr')
    BY <1>6, <2>1, <2>2, RecordedKeeps DEF OnVideo
  <2>4. clock' \in Nat
    <3> DEFINE took == step + (IF Asks(dvr, key) THEN lag * Cardinality(headers) ELSE 0)
    <3>1. took \in Nat
      BY LagIsNumber
    <3>2. clock' = clock + took
      BY <1>6 DEF OnVideo, Ticks
    <3> HIDE DEF took
    <3> QED
      BY <1>0, <3>1, <3>2 DEF SourceOK
  <2>5. SourceOK'
    BY <1>0, <1>6, <2>4, CallKeeps DEF SourceOK, OnVideo
  <2> QED
    BY <2>3, <2>5 DEF RecInv
<1>7. ASSUME NEW f \in Fault, NEW on \in BOOLEAN, ReloadHls(on, f) PROVE RecInv'
  <2> DEFINE stopped == HlsOnUnpublish(hls, f)
  <2>1. HlsGood(stopped)
    BY <1>0, HlsOnUnpublishKeeps DEF HlsGood
  <2>2. hls' = HlsOnPublish(stopped, on, headers, f).rec /\ dvr' = dvr
    BY <1>7 DEF ReloadHls
  <2> HIDE DEF stopped
  <2>3. HlsGood(hls')
    BY <1>0, <2>1, <2>2, HlsOnPublishKeeps DEF SourceOK
  <2>4. SourceOK'
    BY <1>0, <1>7, CallKeeps, ReloadsKeeps DEF SourceOK, ReloadHls, source
  <2> QED
    BY <1>0, <2>2, <2>3, <2>4 DEF RecInv
<1>8. ASSUME NEW f \in Fault, NEW plan \in Plans, NEW on \in BOOLEAN, ReloadDvr(plan, on, f)
      PROVE  RecInv'
  <2> DEFINE stopped == DvrOnUnpublish(dvr, f)
             new == NewPlan(plan, stopped.files)
  <2>1. DvrGood(stopped)
    BY <1>0, DvrOnUnpublishKeeps DEF DvrGood
  <2>2. dvr' = DvrOnPublish(new, on, f).rec /\ hls' = hls
    BY <1>8 DEF ReloadDvr
  <2> HIDE DEF stopped
  <2>3. DvrGood(new)
    BY <2>1, DvrFields, NewPlanIsGood DEF DvrGood
  <2> HIDE DEF new
  <2>4. DvrGood(dvr')
    BY <2>2, <2>3, DvrOnPublishKeeps
  <2>5. SourceOK'
    BY <1>0, <1>8, CallKeeps, ReloadsKeeps DEF SourceOK, ReloadDvr, source
  <2> QED
    BY <1>0, <2>2, <2>4, <2>5 DEF RecInv
<1>9. CASE UNCHANGED vars
  BY <1>0, <1>9 DEF RecInv, SourceOK, vars, source, history
<1> QED
  BY <1>1, <1>2, <1>3, <1>4, <1>5, <1>6, <1>7, <1>8, <1>9 DEF Next

LEMMA RecordersInvariant == Spec => []RecInv
<1>1. RecInv /\ [Next]_vars => RecInv'
  BY RecordersStep
<1> QED
  BY <1>1, RecordersInit, PTL DEF Spec

(* Every reachable state is well typed: lengths do not become negative and no path
   names a file that was never opened, whatever file calls fail. *)
THEOREM TypeCorrect == Spec => []TypeOK
BY RecordersInvariant, RecInvMeaning, PTL

(* The segments have successive numbers over dropped segments, failures, sessions
   and reloads, for any fragment, window and number of them. *)
THEOREM SegmentNumbers == Spec => []NumbersAreSuccessive
BY RecordersInvariant, RecInvMeaning, PTL

(* A recorder that takes media has a segment, or a file, to write them to. *)
THEOREM RecordersHaveFiles == Spec => []EnabledHasFile
BY RecordersInvariant, RecInvMeaning, PTL

------------------------------------------------------------------------------
(* DVR while nothing fails in it *)

NoDvr(f) == f \cap DvrFaults = {}

\* The open file is the one that close will rename, the session plan has one open only
\* while it is enabled, and a segment has not outlasted dvr_duration.
DvrFine(d) ==
  /\ d.fs # 0 => d.path = d.fs /\ ~d.files[d.fs].done
  /\ d.plan = "session" /\ d.fs # 0 => d.enabled
  /\ d.plan = "segment" => d.duration <= DvrDuration

AllNamed(d) == \A i \in DOMAIN d.files : d.files[i].done \/ i = d.fs

\* Each file holds one session, the open one holds session n.
OneSession(d, n) ==
  /\ \A i \in DOMAIN d.files : \E k \in Nat : d.files[i].sessions \subseteq {k}
  /\ d.fs # 0 => d.files[d.fs].sessions \subseteq {n}

\* What a call without failures preserves of the files.
FilesKept(d, e, n) ==
  /\ e.plan = d.plan
  /\ AllNamed(d) => AllNamed(e)
  /\ OneSession(d, n) => OneSession(e, n)

LEMMA FlvCloseSucceeds ==
  ASSUME NEW d, DvrSound(d), d.fs # 0, d.path = d.fs, ~d.files[d.fs].done,
         NEW f, NoDvr(f), NEW n
  PROVE  LET r == FlvClose(d, f) IN
           /\ r.ok /\ DvrSound(r.rec) /\ r.rec.fs = 0 /\ r.rec.duration = d.duration
           /\ r.rec.stream_duration = d.stream_duration
           /\ r.rec.expected = d.expected /\ r.rec.enabled = d.enabled
           /\ FilesKept(d, r.rec, n)
<1> DEFINE x == [d.files[d.fs] EXCEPT !.done = TRUE]
           files == [d.files EXCEPT ![d.fs] = x]
           g == [d EXCEPT !.fs = 0, !.files = files]
<1>1. d \in DvrRecorder /\ d.files \in Seq(File) /\ d.fs \in 1..Len(d.files)
  BY DvrFields
<1>2. d.files[d.fs] \in File
  BY <1>1, ElementOfSeq
<1>3. x \in File /\ x.done /\ x.sessions = d.files[d.fs].sessions
  BY <1>2 DEF File
<1>4. FlvClose(d, f) = [rec |-> g, ok |-> TRUE]
  <2> DEFINE closed == [d EXCEPT !.fs = 0]
  <2>1. closed.files = d.files
    BY <1>1 DEF DvrRecorder
  <2>2. "rename_flv" \notin f
    BY DEF NoDvr, DvrFaults
  <2>3. FlvClose(d, f) = [rec |-> [closed EXCEPT !.files[d.path].done = TRUE], ok |-> TRUE]
    BY <1>1, <2>2 DEF FlvClose, Done
  <2>4. [closed EXCEPT !.files[d.path].done = TRUE] = g
    BY <1>1, <2>1 DEF DvrRecorder
  <2> QED
    BY <2>3, <2>4
<1> HIDE DEF x
<1>5. /\ files \in Seq(File) /\ Len(files) = Len(d.files)
      /\ \A i \in 1..Len(d.files) : files[i] = IF i = d.fs THEN x ELSE d.files[i]
  BY <1>1, <1>3, ExceptSeq
<1> HIDE DEF files
<1>6. /\ g \in DvrRecorder /\ g.plan = d.plan /\ g.fs = 0 /\ g.files = files
      /\ g.path = d.path /\ g.duration = d.duration /\ g.expected = d.expected
      /\ g.enabled = d.enabled /\ g.stream_duration = d.stream_duration
  BY <1>1, <1>5 DEF DvrRecorder, File
<1> HIDE DEF g
<1>7. DvrSound(g)
  BY <1>1, <1>5, <1>6, DvrFields DEF DvrSound
<1>8. DOMAIN files = 1..Len(d.files) /\ DOMAIN d.files = 1..Len(d.files)
  BY <1>1, <1>5
<1>9. FilesKept(d, g, n)
  BY <1>1, <1>3, <1>5, <1>6, <1>8 DEF FilesKept, AllNamed, OneSession
<1> QED
  BY <1>4, <1>6, <1>7, <1>9

LEMMA OpenNewSegmentSucceeds ==
  ASSUME NEW d, DvrSound(d), d.fs = 0, NEW f, NoDvr(f), NEW n
  PROVE  LET r == OpenNewSegment(d, f) IN
           /\ r.ok /\ DvrGood(r.rec) /\ DvrFine(r.rec) /\ r.rec.enabled
           /\ FilesKept(d, r.rec, n)
<1> DEFINE files == Append(d.files, NewFile)
           k == Len(d.files) + 1
           g == [d EXCEPT !.duration = 0, !.files = files, !.fs = k, !.path = k,
                          !.enabled = TRUE]
<1>1. d \in DvrRecorder /\ d.files \in Seq(File) /\ Len(d.files) \in Nat
  BY DvrFields
<1>2. NewFile \in File /\ ~NewFile.done /\ NewFile.sessions = {}
  BY DEF NewFile, File
<1>3. /\ files \in Seq(File) /\ Len(files) = k
      /\ \A i \in 1..Len(d.files) : files[i] = d.files[i]
      /\ files[k] = NewFile
  BY <1>1, <1>2, AppendProperties
<1>4. OpenNewSegment(d, f) = [rec |-> g, ok |-> TRUE]
  <2>1. "open_flv" \notin f /\ "header_flv" \notin f
    BY DEF NoDvr, DvrFaults
  <2> DEFINE reset == [d EXCEPT !.duration = 0]
             opened == [reset EXCEPT !.files = Append(@, NewFile), !.fs = k]
             named == [opened EXCEPT !.path = opened.fs]
  <2>2. FlvOpen(d, f) = [rec |-> named, ok |-> TRUE]
    BY <1>1, <2>1 DEF FlvOpen, Done
  <2>3. OpenNewSegment(d, f) = [rec |-> [named EXCEPT !.enabled = TRUE], ok |-> TRUE]
    <3> HIDE DEF named
    <3> QED
      BY <2>2 DEF OpenNewSegment, Done
  <2>4. [named EXCEPT !.enabled = TRUE] = g
    <3> HIDE DEF k
    <3> QED
      BY <1>1 DEF DvrRecorder
  <2> QED
    BY <2>3, <2>4
<1>5. k \in Nat /\ k # 0
  BY <1>1
<1> HIDE DEF files
<1>6. /\ g \in DvrRecorder /\ g.plan = d.plan /\ g.fs = k /\ g.files = files
      /\ g.path = k /\ g.duration = 0 /\ g.enabled = TRUE
  BY <1>1, <1>3, <1>5 DEF DvrRecorder, File
<1> HIDE DEF g
<1>7. DvrGood(g) /\ DvrFine(g)
  BY <1>2, <1>3, <1>5, <1>6, DvrAssumption DEF DvrSound, DvrGood, DvrFine
<1>8. DOMAIN files = 1..k /\ DOMAIN d.files = 1..Len(d.files)
  BY <1>1, <1>3
<1>9. \A i \in 1..k : i \in 1..Len(d.files) \/ i = k
  BY <1>1
<1> HIDE DEF k
<1>10. FilesKept(d, g, n)
  <2>1. AllNamed(d) => AllNamed(g)
    <3> SUFFICES ASSUME AllNamed(d), NEW i \in 1..k PROVE g.files[i].done \/ i = g.fs
      BY <1>6, <1>8 DEF AllNamed
    <3> QED
      BY <1>3, <1>6, <1>8, <1>9 DEF AllNamed
  <2>2. OneSession(d, n) => OneSession(g, n)
    <3> SUFFICES ASSUME OneSession(d, n) PROVE OneSession(g, n)
      OBVIOUS
    <3>1. \A i \in 1..k : \E j \in Nat : files[i].sessions \subseteq {j}
      BY <1>2, <1>3, <1>8, <1>9 DEF OneSession
    <3> QED
      BY <1>2, <1>3, <1>6, <1>8, <3>1 DEF OneSession
  <2> QED
    BY <1>6, <2>1, <2>2 DEF FilesKept
<1> QED
  BY <1>4, <1>6, <1>7, <1>10

LEMMA FilesKeptTransitive ==
  ASSUME NEW d, NEW e, NEW g, NEW n, FilesKept(d, e, n), FilesKept(e, g, n)
  PROVE  FilesKept(d, g, n)
BY DEF FilesKept

\* An update of what neither names files nor says which is open.
LEMMA SameFilesKept ==
  ASSUME NEW d, NEW e, NEW n, e.plan = d.plan, e.files = d.files, e.fs = d.fs
  PROVE  FilesKept(d, e, n)
BY DEF FilesKept, AllNamed, OneSession

LEMMA ReapSucceeds ==
  ASSUME NEW d, DvrSound(d), d.fs # 0, d.path = d.fs, ~d.files[d.fs].done,
         NEW f, NoDvr(f), NEW n
  PROVE  LET r == Reap(d, f) IN
           /\ r.ok /\ DvrGood(r.rec) /\ DvrFine(r.rec) /\ r.rec.enabled
           /\ FilesKept(d, r.rec, n)
<1> DEFINE closed == FlvClose(d, f)
           off == [closed.rec EXCEPT !.enabled = FALSE]
<1>1. closed.ok /\ DvrSound(closed.rec) /\ closed.rec.fs = 0 /\ FilesKept(d, closed.rec, n)
  BY FlvCloseSucceeds
<1>2. Reap(d, f) = OpenNewSegment(off, f)
  BY <1>1 DEF Reap
<1> HIDE DEF closed
<1>3. DvrSound(off)
  BY <1>1, DisabledIsGood DEF DvrGood
<1>4. off.fs = 0 /\ off.files = closed.rec.files /\ off.plan = closed.rec.plan
  BY <1>1 DEF DvrSound, DvrRecorder
<1>5. FilesKept(closed.rec, off, n)
  BY <1>1, <1>4, SameFilesKept
<1> HIDE DEF off
<1>6. LET r == OpenNewSegment(off, f) IN
        /\ r.ok /\ DvrGood(r.rec) /\ DvrFine(r.rec) /\ r.rec.enabled
        /\ FilesKept(off, r.rec, n)
  BY <1>3, <1>4, OpenNewSegmentSucceeds
<1>7. FilesKept(d, OpenNewSegment(off, f).rec, n)
  BY <1>1, <1>5, <1>6, FilesKeptTransitive
<1> QED
  BY <1>2, <1>6, <1>7

LEMMA DvrOnMediaSucceeds ==
  ASSUME NEW d, DvrGood(d), DvrFine(d), NEW n \in Nat, NEW step \in Nat, NEW f, NoDvr(f)
  PROVE  LET r == DvrOnMedia(d, n, step, f) IN
           /\ r.ok /\ DvrFine(r.rec) /\ r.rec.enabled = d.enabled
           /\ FilesKept(d, r.rec, n)
<1> DEFINE x == [d.files[d.fs] EXCEPT !.sessions = @ \cup {n}]
           files == [d.files EXCEPT ![d.fs] = x]
           written == [d EXCEPT !.files = files]
           passed == IF d.previous THEN step ELSE 0
           dur == d.duration + passed
           total == d.stream_duration + passed
           updated == [written EXCEPT !.duration = dur, !.stream_duration = total,
                                      !.previous = TRUE]
           counted == [updated EXCEPT !.expected = @ + 1]
<1>1. DvrSound(d) /\ d \in DvrRecorder /\ d.enabled \in BOOLEAN
  BY DvrFields DEF DvrGood
<1>2. CASE ~d.enabled
  <2>1. DvrOnMedia(d, n, step, f) = [rec |-> d, ok |-> TRUE]
    BY <1>2 DEF DvrOnMedia, Done
  <2> QED
    BY <2>1, SameFilesKept
<1>3. CASE d.enabled
  <2>1. d.fs \in 1..Len(d.files) /\ d.files \in Seq(File) /\ d.files[d.fs] \in File
    BY <1>1, <1>3, DvrFields, ElementOfSeq DEF DvrGood
  <2>2. d.path = d.fs /\ ~d.files[d.fs].done
    BY <1>3 DEF DvrFine, DvrGood
  <2>3. x \in File /\ x.done = d.files[d.fs].done
        /\ x.sessions = d.files[d.fs].sessions \cup {n}
    BY <2>1 DEF File
  <2> HIDE DEF x
  <2>4. /\ files \in Seq(File) /\ Len(files) = Len(d.files)
        /\ \A i \in 1..Len(d.files) : files[i] = IF i = d.fs THEN x ELSE d.files[i]
    BY <2>1, <2>3, ExceptSeq
  <2>5. DOMAIN files = 1..Len(d.files) /\ DOMAIN d.files = 1..Len(d.files)
    BY <2>1, <2>4
  <2> HIDE DEF files
  <2>6. dur \in Nat /\ total \in Nat
    BY <1>1, DvrFields
  <2>7. updated = [d EXCEPT !.files = files, !.duration = dur, !.stream_duration = total,
                            !.previous = TRUE]
    BY <1>1 DEF DvrRecorder
  <2> HIDE DEF dur, total
  <2>8. /\ updated \in DvrRecorder /\ updated.plan = d.plan /\ updated.fs = d.fs
        /\ updated.path = d.path /\ updated.files = files /\ updated.enabled = d.enabled
        /\ updated.duration = dur /\ updated.expected = d.expected
    BY <1>1, <2>4, <2>6, <2>7 DEF DvrRecorder, File
  <2>9. DvrOnMedia(d, n, step, f) = UpdateDuration(written, step, f)
    <3>1. "write_flv" \notin f
      BY DEF NoDvr, DvrFaults
    <3>2. d.fs # 0
      BY <2>1, <1>1, DvrFields
    <3>3. written = [d EXCEPT !.files[d.fs].sessions = @ \cup {n}]
      BY <1>1, <2>1 DEF DvrRecorder, files, x
    <3> QED
      BY <1>3, <3>1, <3>2, <3>3 DEF DvrOnMedia
  <2>10. Lasts(written, step) = updated
    <3>1. /\ written.duration = d.duration /\ written.stream_duration = d.stream_duration
          /\ written.previous = d.previous
      BY <1>1 DEF DvrRecorder
    <3> HIDE DEF written
    <3> QED
      BY <3>1 DEF Lasts, dur, total
  <2>11. written.plan = d.plan /\ d.plan \in Plans
    BY <1>1 DEF DvrRecorder
  <2> HIDE DEF written, updated
  <2>12. /\ counted \in DvrRecorder /\ counted.plan = d.plan /\ counted.fs = d.fs
         /\ counted.path = d.path /\ counted.files = files
    <3>1. updated.expected + 1 \in Nat
      BY <1>1, <2>8, DvrFields
    <3> QED
      BY <2>8, <3>1 DEF DvrRecorder
  <2>13. DvrSound(updated) /\ DvrSound(counted)
    BY <1>1, <2>4, <2>8, <2>12, DvrFields DEF DvrSound
  <2>14. FilesKept(d, updated, n) /\ FilesKept(d, counted, n)
    <3>1. AllNamed(d) => AllNamed(updated) /\ AllNamed(counted)
      BY <2>3, <2>4, <2>5, <2>8, <2>12 DEF AllNamed
    <3>2. OneSession(d, n) => \A i \in 1..Len(d.files) : \E k \in Nat : files[i].sessions \subseteq {k}
      <4> SUFFICES ASSUME OneSession(d, n), NEW i \in 1..Len(d.files)
                   PROVE  \E k \in Nat : files[i].sessions \subseteq {k}
        OBVIOUS
      <4>1. CASE i = d.fs
        <5>1. files[i].sessions \subseteq {n}
          BY <1>3, <2>3, <2>4, <4>1 DEF OneSession, DvrGood
        <5> QED
          BY <5>1
      <4>2. CASE i # d.fs
        BY <2>4, <2>5, <4>2 DEF OneSession
      <4> QED
        BY <4>1, <4>2
    <3>3. OneSession(d, n) => files[d.fs].sessions \subseteq {n}
      BY <1>3, <2>1, <2>3, <2>4 DEF OneSession, DvrGood
    <3>4. OneSession(d, n) => OneSession(updated, n) /\ OneSession(counted, n)
      BY <2>5, <2>8, <2>12, <3>2, <3>3 DEF OneSession
    <3> QED
      BY <2>8, <2>12, <3>1, <3>4 DEF FilesKept
  <2>15. updated.fs # 0 /\ ~files[d.fs].done
    BY <1>3, <2>1, <2>2, <2>3, <2>4, <2>8 DEF DvrGood
  <2>16. CASE UpdateDuration(written, step, f) = Reap(updated, f)
    <3>1. LET r == Reap(updated, f) IN
            r.ok /\ DvrFine(r.rec) /\ r.rec.enabled /\ FilesKept(updated, r.rec, n)
      BY <2>2, <2>8, <2>13, <2>15, ReapSucceeds
    <3> QED
      BY <1>3, <2>9, <2>14, <2>16, <3>1, FilesKeptTransitive
  <2>17. CASE UpdateDuration(written, step, f) = Reap(counted, f)
    <3>1. LET r == Reap(counted, f) IN
            r.ok /\ DvrFine(r.rec) /\ r.rec.enabled /\ FilesKept(counted, r.rec, n)
      BY <2>2, <2>8, <2>12, <2>13, <2>15, ReapSucceeds
    <3>2. FilesKept(d, counted, n) /\ FilesKept(counted, Reap(counted, f).rec, n)
      BY <2>14, <3>1
    <3> HIDE DEF counted
    <3>3. FilesKept(d, Reap(counted, f).rec, n)
      BY <3>2, FilesKeptTransitive
    <3> QED
      BY <1>3, <2>9, <2>17, <3>1, <3>3
  <2>18. CASE UpdateDuration(written, step, f) = [rec |-> updated, ok |-> TRUE]
              /\ (d.plan = "segment" => ~(dur > DvrDuration))
    <3>1. updated.plan = "segment" => updated.duration <= DvrDuration
      BY <2>6, <2>8, <2>18, DvrAssumption
    <3>2. DvrFine(updated)
      BY <1>3, <2>2, <2>8, <2>15, <3>1 DEF DvrFine
    <3>3. DvrOnMedia(d, n, step, f) = [rec |-> updated, ok |-> TRUE]
      BY <2>9, <2>18
    <3> QED
      BY <2>8, <2>14, <3>2, <3>3
  <2>19. \/ UpdateDuration(written, step, f) = Reap(updated, f)
         \/ UpdateDuration(written, step, f) = Reap(counted, f)
         \/ /\ UpdateDuration(written, step, f) = [rec |-> updated, ok |-> TRUE]
            /\ d.plan = "segment" => ~(dur > DvrDuration)
    <3>1. CASE d.plan = "session"
      BY <2>10, <2>11, <2>8, <3>1 DEF UpdateDuration, Done
    <3>2. CASE d.plan = "segment"
      <4>1. UpdateDuration(written, step, f) = LastsSegment(updated, f)
        <5>1. written.plan = "segment"
          BY <2>11, <3>2
        <5> QED
          BY <2>10, <5>1 DEF UpdateDuration
      <4> QED
        BY <2>8, <3>2, <4>1 DEF LastsSegment, Done
    <3>3. CASE d.plan = "hss"
      <4>1. UpdateDuration(written, step, f) = LastsHss(updated, f)
        <5>1. written.plan = "hss"
          BY <2>11, <3>3
        <5> QED
          BY <2>10, <5>1 DEF UpdateDuration
      <4> HIDE DEF counted
      <4>2. LastsHss(updated, f) \in {Reap(counted, f), [rec |-> updated, ok |-> TRUE]}
        BY DEF LastsHss, Done, counted
      <4> QED
        BY <3>3, <4>1, <4>2
    <3> QED
      BY <2>11, <3>1, <3>2, <3>3 DEF Plans
  <2> QED
    BY <2>16, <2>17, <2>18, <2>19
<1> QED
  BY <1>1, <1>2, <1>3

\* What a message of session n makes of a DVR without failures.
DvrTakes(d, r, n) ==
  /\ r.ok /\ DvrGood(r.rec) /\ DvrFine(r.rec)
  /\ r.rec.enabled = d.enabled /\ FilesKept(d, r.rec, n)

LEMMA DvrMediaTaken ==
  ASSUME NEW d, DvrGood(d), DvrFine(d), NEW n \in Nat, NEW step \in Nat, NEW f, NoDvr(f)
  PROVE  DvrTakes(d, DvrOnMedia(d, n, step, f), n)
BY DvrOnMediaSucceeds, DvrOnMediaKeeps DEF DvrCall, DvrTakes

LEMMA NothingTaken ==
  ASSUME NEW d, DvrGood(d), DvrFine(d), NEW n
  PROVE  DvrTakes(d, Done(d), n)
BY SameFilesKept DEF DvrTakes, Done

LEMMA DvrTakesTransitive ==
  ASSUME NEW d, NEW r, NEW q, NEW n, DvrTakes(d, r, n), DvrTakes(r.rec, q, n)
  PROVE  DvrTakes(d, q, n)
BY FilesKeptTransitive DEF DvrTakes

LEMMA OnDvrRequestShTaken ==
  ASSUME NEW d, DvrGood(d), DvrFine(d), NEW n \in Nat, NEW cached, NEW lag \in Nat,
         NEW f, NoDvr(f)
  PROVE  DvrTakes(d, OnDvrRequestSh(d, n, cached, lag, f), n)
<1> DEFINE video == IF "video" \in cached THEN DvrOnMedia(d, n, lag, f) ELSE Done(d)
           audio == DvrOnMedia(video.rec, n, lag, f)
<1>1. DvrTakes(d, video, n)
  BY DvrMediaTaken, NothingTaken
<1>2. OnDvrRequestSh(d, n, cached, lag, f) \in {video, audio}
  BY DEF OnDvrRequestSh
<1> HIDE DEF video
<1>3. DvrTakes(video.rec, audio, n)
  BY <1>1, DvrMediaTaken DEF DvrTakes
<1> HIDE DEF audio
<1> QED
  BY <1>1, <1>2, <1>3, DvrTakesTransitive

LEMMA DvrVideoTaken ==
  ASSUME NEW d, DvrGood(d), DvrFine(d), NEW n \in Nat, NEW key \in BOOLEAN, NEW cached,
         NEW lag \in Nat, NEW step \in Nat, NEW f, NoDvr(f)
  PROVE  DvrTakes(d, DvrOnVideo(d, n, key, cached, lag, step, f), n)
<1> DEFINE asked == IF Asks(d, key) THEN OnDvrRequestSh(d, n, cached, lag, f) ELSE Done(d)
           sent == DvrOnMedia(asked.rec, n, step, f)
<1>1. DvrTakes(d, asked, n)
  BY OnDvrRequestShTaken, NothingTaken
<1>2. DvrOnVideo(d, n, key, cached, lag, step, f) = IF asked.ok THEN sent ELSE asked
  BY DEF DvrOnVideo
<1> HIDE DEF asked
<1>3. DvrTakes(asked.rec, sent, n)
  BY <1>1, DvrMediaTaken DEF DvrTakes
<1> HIDE DEF sent
<1>4. DvrTakes(d, sent, n)
  BY <1>1, <1>3, DvrTakesTransitive
<1> QED
  BY <1>1, <1>2, <1>4

LEMMA DvrOnUnpublishSucceeds ==
  ASSUME NEW d, DvrGood(d), DvrFine(d), NEW f, NoDvr(f), NEW n
  PROVE  LET g == DvrOnUnpublish(d, f) IN
           DvrFine(g) /\ g.enabled = FALSE /\ FilesKept(d, g, n)
<1> DEFINE closed == FlvClose(d, f).rec
           off == [closed EXCEPT !.enabled = FALSE]
           g == [d EXCEPT !.enabled = FALSE]
<1>1. d \in DvrRecorder /\ DvrSound(d) /\ d.enabled \in BOOLEAN
  BY DvrFields DEF DvrGood, DvrSound
<1>2. CASE d.enabled /\ d.plan = "session"
  <2>1. DvrSound(closed) /\ closed.fs = 0 /\ FilesKept(d, closed, n)
    BY <1>1, <1>2, FlvCloseSucceeds DEF DvrGood, DvrFine
  <2>2. DvrOnUnpublish(d, f) = off
    BY <1>2 DEF DvrOnUnpublish
  <2> HIDE DEF closed
  <2>3. /\ off.fs = 0 /\ off.enabled = FALSE /\ off.files = closed.files
        /\ off.plan = closed.plan
    BY <2>1 DEF DvrSound, DvrRecorder
  <2> HIDE DEF off
  <2>4. FilesKept(d, off, n)
    <3>1. FilesKept(closed, off, n)
      BY <2>1, <2>3, SameFilesKept
    <3> QED
      BY <2>1, <3>1, FilesKeptTransitive
  <2>5. off.plan = "session"
    BY <1>2, <2>4 DEF FilesKept
  <2>6. DvrFine(off)
    BY <2>3, <2>5 DEF DvrFine
  <2> QED
    BY <2>2, <2>3, <2>4, <2>6
<1>3. CASE ~(d.enabled /\ d.plan = "session")
  <2>1. DvrOnUnpublish(d, f) = g
    BY <1>3 DEF DvrOnUnpublish
  <2>2. /\ g.fs = d.fs /\ g.enabled = FALSE /\ g.files = d.files /\ g.path = d.path
        /\ g.plan = d.plan /\ g.duration = d.duration
    BY <1>1 DEF DvrRecorder
  <2> HIDE DEF g
  <2>3. DvrFine(g)
    BY <1>3, <2>2 DEF DvrFine
  <2> QED
    BY <2>1, <2>2, <2>3, SameFilesKept
<1> QED
  BY <1>2, <1>3

LEMMA DvrOnPublishSucceeds ==
  ASSUME NEW d, DvrGood(d), DvrFine(d), NEW configured \in BOOLEAN, NEW f, NoDvr(f), NEW n
  PROVE  LET r == DvrOnPublish(d, configured, f) IN
           /\ r.ok /\ DvrFine(r.rec) /\ FilesKept(d, r.rec, n)
           /\ configured => r.rec.enabled
<1> DEFINE resumed == [d EXCEPT !.enabled = TRUE]
           started == [d EXCEPT !.stream_duration = 0, !.previous = FALSE]
           opened == OpenNewSegment(started, f)
           counted == [opened.rec EXCEPT !.expected = 1]
           later == [d EXCEPT !.expected = 1]
           r == DvrOnPublish(d, configured, f)
<1>1. d \in DvrRecorder /\ DvrSound(d) /\ d.enabled \in BOOLEAN
  BY DvrFields DEF DvrGood, DvrSound
<1>2. CASE d.plan # "session" /\ d.fs # 0
  <2>1. r = [rec |-> resumed, ok |-> TRUE]
    BY <1>2 DEF DvrOnPublish, Done
  <2>2. /\ resumed.fs = d.fs /\ resumed.enabled = TRUE /\ resumed.files = d.files
        /\ resumed.path = d.path /\ resumed.plan = d.plan /\ resumed.duration = d.duration
    BY <1>1 DEF DvrRecorder
  <2> HIDE DEF resumed
  <2>3. DvrFine(resumed)
    BY <2>2 DEF DvrFine
  <2> QED
    BY <2>1, <2>2, <2>3, SameFilesKept
<1>3. CASE ~(d.plan # "session" /\ d.fs # 0) /\ (d.enabled \/ ~configured)
  <2>1. r = [rec |-> later, ok |-> TRUE] \/ r = [rec |-> d, ok |-> TRUE]
    BY <1>3 DEF DvrOnPublish, StartsPlan, Done
  <2>2. /\ later.fs = d.fs /\ later.enabled = d.enabled /\ later.files = d.files
        /\ later.path = d.path /\ later.plan = d.plan /\ later.duration = d.duration
    BY <1>1 DEF DvrRecorder
  <2> HIDE DEF later
  <2>3. DvrFine(later)
    BY <2>2 DEF DvrFine
  <2>4. FilesKept(d, later, n) /\ FilesKept(d, d, n)
    BY <2>2, SameFilesKept
  <2> HIDE DEF r
  <2> QED
    BY <1>3, <2>1, <2>2, <2>3, <2>4 DEF r
<1>4. CASE ~(d.plan # "session" /\ d.fs # 0) /\ ~d.enabled /\ configured
  <2>1. d.fs = 0
    BY <1>4 DEF DvrFine
  <2>2. /\ started \in DvrRecorder /\ started.files = d.files /\ started.fs = d.fs
        /\ started.path = d.path /\ started.plan = d.plan
    BY <1>1 DEF DvrRecorder
  <2>3. StartsPlan(d, configured, f) = opened
    BY <1>4 DEF StartsPlan
  <2> HIDE DEF started
  <2>4. DvrSound(started) /\ FilesKept(d, started, n)
    BY <1>1, <2>2, DvrOtherFieldsKeep, SameFilesKept
  <2>5. /\ opened.ok /\ DvrGood(opened.rec) /\ DvrFine(opened.rec) /\ opened.rec.enabled
        /\ FilesKept(started, opened.rec, n)
    BY <2>1, <2>2, <2>4, OpenNewSegmentSucceeds
  <2> HIDE DEF opened
  <2>6. r = [rec |-> counted, ok |-> TRUE] \/ r = opened
    BY <2>1, <2>3, <2>5 DEF DvrOnPublish, Done
  <2>7. /\ counted.fs = opened.rec.fs /\ counted.enabled = opened.rec.enabled
        /\ counted.files = opened.rec.files /\ counted.path = opened.rec.path
        /\ counted.plan = opened.rec.plan /\ counted.duration = opened.rec.duration
    BY <2>5 DEF DvrGood, DvrSound, DvrRecorder
  <2> HIDE DEF counted
  <2>8. DvrFine(counted) /\ FilesKept(opened.rec, counted, n)
    BY <2>5, <2>7, SameFilesKept DEF DvrFine
  <2>9. FilesKept(d, opened.rec, n) /\ FilesKept(d, counted, n)
    <3>1. FilesKept(d, opened.rec, n)
      BY <2>4, <2>5, FilesKeptTransitive
    <3> QED
      BY <2>8, <3>1, FilesKeptTransitive
  <2>10. CASE r = opened
    BY <2>5, <2>9, <2>10
  <2>11. CASE r = [rec |-> counted, ok |-> TRUE]
    <3>1. r.rec = counted /\ r.ok
      BY <2>11
    <3>2. counted.enabled
      BY <2>5, <2>7
    <3> HIDE DEF r
    <3>3. r.ok /\ DvrFine(r.rec) /\ FilesKept(d, r.rec, n) /\ r.rec.enabled
      BY <2>8, <2>9, <3>1, <3>2
    <3> QED
      BY <3>3 DEF r
  <2> QED
    BY <2>6, <2>10, <2>11
<1> QED
  BY <1>2, <1>3, <1>4

LEMMA NewPlanIsFine ==
  ASSUME NEW plan \in Plans, NEW files
  PROVE  DvrFine(NewPlan(plan, files))
BY DvrAssumption DEF NewPlan, DvrFine

------------------------------------------------------------------------------
(* The sum of the durations and the window *)

\* The sum of the durations is a number, and that of no segment is none.
LEMMA DurationIsNumber ==
  ASSUME NEW s \in Seq(Segment)
  PROVE  Duration(s) \in Nat /\ (s = <<>> => Duration(s) = 0)
<1> DEFINE n == Len(s)
           Sums(g) == g = [t \in SUBSET (DOMAIN s) |->
                             IF t = {} THEN 0 ELSE g[t \ {Max(t)}] + s[Max(t)].dur]
           sum == CHOOSE g : Sums(g)
           G == [i \in 1..n |-> [v \in Nat |-> v + s[i].dur]]
<1>1. Duration(s) = sum[DOMAIN s]
  BY DEF Duration, FoldLeft, MapThenFoldSet
<1>2. n \in Nat /\ DOMAIN s = 1..n
  OBVIOUS
<1>3. \A i \in 1..n : s[i].dur \in Nat
  <2>1. \A i \in 1..n : s[i] \in Segment
    BY <1>2, ElementOfSeq
  <2> QED
    BY <2>1 DEF Segment
<1>4. G \in [1..n -> [Nat -> Nat]]
  BY <1>3
<1>5. PICK h \in FoldTables(n, Nat, 0, G) : TRUE
  <2>1. n \in Nat /\ 0 \in Nat /\ G \in [1..n -> [Nat -> Nat]]
    BY <1>2, <1>4
  <2> HIDE DEF G, n
  <2> QED
    BY <2>1, FoldTableExists
<1>6. /\ h \in [SUBSET (1..n) -> Nat]
       /\ \A t \in SUBSET (1..n) :
            h[t] = IF t = {} THEN 0 ELSE G[Max(t)][h[t \ {Max(t)}]]
  BY <1>5 DEF FoldTables
<1>7. \A t \in SUBSET (1..n) :
        h[t] = IF t = {} THEN 0 ELSE h[t \ {Max(t)}] + s[Max(t)].dur
  <2> SUFFICES ASSUME NEW t \in SUBSET (1..n), t # {}
               PROVE  h[t] = h[t \ {Max(t)}] + s[Max(t)].dur
    BY <1>6
  <2>1. Max(t) \in 1..n
    BY <1>2, MaxIsMember
  <2>2. h[t \ {Max(t)}] \in Nat
    BY <1>6
  <2>3. h[t] = G[Max(t)][h[t \ {Max(t)}]]
    BY <1>6
  <2> HIDE DEF n
  <2> QED
    BY <2>1, <2>2, <2>3
<1>8. Sums(h)
  BY <1>2, <1>6, <1>7
<1>9. Sums(sum)
  BY <1>8
<1> HIDE DEF sum
<1>10. \A t \in SUBSET (1..n) :
        sum[t] = IF t = {} THEN 0 ELSE sum[t \ {Max(t)}] + s[Max(t)].dur
  BY <1>2, <1>9
<1> DEFINE P == {k \in Nat : k <= n => sum[1..k] \in Nat}
<1>11. sum[{}] = 0
  BY <1>10
<1>12. n \in P
  <2>1. 0 \in P
    <3>1. 1..0 = {}
      OBVIOUS
    <3> QED
      BY <1>11, <3>1
  <2>2. ASSUME NEW k \in Nat, k + 1 <= n, sum[1..k] \in Nat PROVE sum[1..(k + 1)] \in Nat
    <3>1. 1..(k + 1) \in SUBSET (1..n) /\ k + 1 \in 1..n
      BY <1>2, <2>2
    <3>2. sum[1..(k + 1)] = sum[1..k] + s[k + 1].dur
      <4>1. /\ 1..(k + 1) # {} /\ Max(1..(k + 1)) = k + 1
            /\ (1..(k + 1)) \ {k + 1} = 1..k
        BY IntervalStep
      <4>2. sum[1..(k + 1)] = sum[(1..(k + 1)) \ {Max(1..(k + 1))}] + s[Max(1..(k + 1))].dur
        BY <1>10, <3>1, <4>1
      <4> QED
        BY <4>1, <4>2
    <3>3. s[k + 1].dur \in Nat
      BY <1>3, <3>1
    <3>4. \A a, b \in Nat : a + b \in Nat
      OBVIOUS
    <3> QED
      BY <2>2, <3>2, <3>3, <3>4, Zenon
  <2>3. \A k \in Nat : k \in P => k + 1 \in P
    BY <1>2, <2>2
  <2> HIDE DEF P
  <2> QED
    BY <1>2, <2>1, <2>3, NatIsInductive
<1>13. sum[DOMAIN s] \in Nat
  BY <1>2, <1>12
<1>14. s = <<>> => DOMAIN s = {}
  OBVIOUS
<1> QED
  BY <1>1, <1>11, <1>13, <1>14

LEMMA SecondsIsNumber ==
  ASSUME NEW s \in Seq(Segment)
  PROVE  Seconds(s) \in Nat /\ (s = <<>> => Seconds(s) = 0)
<1>1. Duration(s) \in Nat /\ (s = <<>> => Duration(s) = 0)
  BY DurationIsNumber
<1>2. HlsSecond \in Nat /\ HlsSecond > 0
  BY HlsAssumption
<1>3. \A a, b \in Nat : b > 0 => a \div b \in Nat /\ (a = 0 => a \div b = 0)
  OBVIOUS
<1> QED
  BY <1>1, <1>2, <1>3 DEF Seconds

\* What fits the window in whole seconds is less than a second longer.
LEMMA WholeSeconds ==
  ASSUME NEW d \in Nat, NEW s \in Nat \ {0}, NEW w \in Nat, d \div s <= w
  PROVE  d < (w + 1) * s
<1>1. d \div s \in Nat /\ d % s \in 0..(s - 1)
  OBVIOUS
<1>2. d = s * (d \div s) + (d % s)
  OBVIOUS
<1> DEFINE q == d \div s
<1>3. q \in Int /\ q <= w
  BY <1>1
<1>4. d < s * q + s
  BY <1>1, <1>2
<1> HIDE DEF q
<1>5. s * q <= s * w
  BY <1>3
<1>6. (w + 1) * s = s * w + s
  OBVIOUS
<1> QED
  BY <1>3, <1>4, <1>5, <1>6

\* All the segments that stay but the oldest fit the window, in whole seconds.
LEMMA ShrunkFits ==
  ASSUME NEW s \in Seq(Segment)
  PROVE  /\ s = <<>> <=> Shrunk(s) = <<>>
         /\ Shrunk(s) # <<>> => Seconds(Tail(Shrunk(s))) <= HlsWindow
<1> DEFINE n == Len(s)
           fits(k) == Seconds(SubSeq(s, k, n)) <= HlsWindow
<1>1. n \in Nat /\ DOMAIN s = 1..n /\ Beyond(s) \in SUBSET (1..n)
  BY DEF Beyond
<1>2. \A k \in 1..n + 1 : SubSeq(s, k, n) \in Seq(Segment) /\ Seconds(SubSeq(s, k, n)) \in Nat
  <2> SUFFICES ASSUME NEW k \in 1..n + 1
               PROVE  SubSeq(s, k, n) \in Seq(Segment) /\ Seconds(SubSeq(s, k, n)) \in Nat
    OBVIOUS
  <2>1. SubSeq(s, k, n) \in Seq(Segment)
    BY <1>1
  <2> QED
    BY <2>1, SecondsIsNumber
<1>3. \A k \in 1..n : k \notin Beyond(s) => fits(k)
  BY <1>1, <1>2, HlsAssumption DEF Beyond
<1>4. fits(n + 1)
  <2>1. SubSeq(s, n + 1, n) = <<>>
    BY <1>1
  <2>2. <<>> \in Seq(Segment)
    OBVIOUS
  <2>3. Seconds(SubSeq(s, n + 1, n)) = 0
    BY <2>1, <2>2, SecondsIsNumber
  <2> QED
    BY <2>3, HlsAssumption
<1> HIDE DEF fits
<1>5. CASE Beyond(s) = {}
  <2>1. Shrunk(s) = s
    BY <1>5 DEF Shrunk
  <2>2. ASSUME s # <<>> PROVE Seconds(Tail(s)) <= HlsWindow
    <3>1. Tail(s) = SubSeq(s, 2, n) /\ 2 \in 1..n + 1
      BY <1>1, <2>2, TailIsSubSeq, EmptySeq
    <3>2. fits(2)
      <4>1. 2 \in 1..n \/ 2 = n + 1
        BY <1>1, <3>1
      <4> QED
        BY <1>3, <1>4, <1>5, <4>1
    <3> QED
      BY <3>1, <3>2 DEF fits
  <2> QED
    BY <2>1, <2>2
<1>6. CASE Beyond(s) # {}
  <2> DEFINE k == Max(Beyond(s))
  <2>1. k \in Beyond(s) /\ \A j \in Beyond(s) : j <= k
    BY <1>1, <1>6, MaxIsMember
  <2>2. Shrunk(s) = SubSeq(s, k, n)
    BY <1>6 DEF Shrunk
  <2> HIDE DEF k
  <2>3. k \in 1..n /\ s # <<>> /\ SubSeq(s, k, n) # <<>>
    <3>1. k \in 1..n
      BY <1>1, <2>1
    <3>2. Len(SubSeq(s, k, n)) = n - k + 1 /\ n - k + 1 # 0 /\ n # 0
      BY <1>1, <3>1
    <3>3. \A t : Len(t) # 0 => t # <<>>
      OBVIOUS
    <3>4. SubSeq(s, k, n) # <<>> /\ s # <<>>
      BY <1>1, <3>1, <3>2, <3>3, Zenon
    <3> QED
      BY <3>1, <3>4
  <2>4. Tail(SubSeq(s, k, n)) = SubSeq(s, k + 1, n)
    BY <1>1, <2>3, HeadTailOfSubSeq
  <2>5. fits(k + 1)
    <3>1. k + 1 \in 1..n \/ k + 1 = n + 1
      BY <1>1, <2>3
    <3>2. k + 1 \notin Beyond(s)
      BY <1>1, <2>1
    <3> QED
      BY <1>3, <1>4, <3>1, <3>2
  <2> QED
    BY <2>2, <2>3, <2>4, <2>5 DEF fits
<1> QED
  BY <1>5, <1>6

------------------------------------------------------------------------------
(* HLS while nothing goes wrong in it *)

NoHls(f) == f \cap HlsFaults = {}

\* The current segment is the first one of a publish and not yet a discontinuity.
Unmarked(h) == h.current.first /\ ~h.current.sh

\* The m3u8 lists the segments, their files are there, and all but the oldest fit the
\* window.
Served(h) ==
  /\ h.m3u8 = Numbers(h.segments)
  /\ \A i \in DOMAIN h.segments : h.segments[i].seq \in h.ts
  /\ h.segments # <<>> => Seconds(Tail(h.segments)) <= HlsWindow

ListWell(h) ==
  /\ \A i \in DOMAIN h.segments : h.segments[i].first => h.segments[i].sh
  /\ h.replaces => Served(h)

\* What is written to an unmarked segment is not later than its start, so that it is
\* dropped when it is closed.
CurrentWell(h) ==
  /\ h.current # NoSegment => h.current.open
  /\ h.af <= h.stream_dts
  /\ Unmarked(h) => h.current.dur = 0 /\ h.af <= h.current.start

HlsWell(h) == ListWell(h) /\ CurrentWell(h)

\* What every call on media keeps, and what it promises without failures.
HlsKept(h, g) ==
  /\ g.enabled = h.enabled /\ g.replaces = h.replaces
  /\ g.known = h.known /\ g.stream_dts = h.stream_dts

HlsFair(h, r) == HlsWell(r.rec) /\ HlsKept(h, r.rec) /\ (h.replaces => r.ok)

SameList(h, g) ==
  /\ g.segments = h.segments /\ g.m3u8 = h.m3u8 /\ g.ts = h.ts /\ g.replaces = h.replaces

LEMMA SameListWell ==
  ASSUME NEW h, ListWell(h), NEW g, SameList(h, g)
  PROVE  ListWell(g)
BY DEF ListWell, SameList, Served

LEMMA SegmentOpenFair ==
  ASSUME NEW h, HlsSound(h), HlsWell(h), h.current = NoSegment, NEW dts \in Nat,
         NEW first \in BOOLEAN, first => h.af <= dts, NEW f, NoHls(f)
  PROVE  LET r == SegmentOpen(h, dts, first, f) IN
           /\ HlsFair(h, r) /\ r.ok
           /\ r.rec.current \in Segment /\ r.rec.current.first = first
           /\ r.rec.current.sh = FALSE /\ r.rec.af = h.af
<1> DEFINE new == [seq |-> h.sequence_no, start |-> dts, dur |-> 0, sh |-> FALSE,
                   open |-> "open_ts" \notin f, first |-> first]
           g == [h EXCEPT !.sequence_no = @ + 1, !.current = new]
<1>1. h \in HlsRecorder
  BY DEF HlsSound
<1>2. "mkdir" \notin f /\ "open_ts" \notin f /\ "header_ts" \notin f
  BY DEF NoHls, HlsFaults
<1>3. SegmentOpen(h, dts, first, f) = [rec |-> g, ok |-> TRUE]
  <2>1. {"open_ts", "header_ts"} \cap f = {}
    BY <1>2
  <2> QED
    BY <1>2, <2>1 DEF SegmentOpen
<1>4. new \in Segment
  BY <1>1, HlsFields DEF Segment
<1>5. /\ new.open = TRUE /\ new.first = first /\ new.sh = FALSE /\ new.dur = 0
      /\ new.start = dts
  BY <1>2
<1> HIDE DEF new
<1>6. /\ g.current = new /\ g.af = h.af /\ SameList(h, g) /\ HlsKept(h, g)
  BY <1>1 DEF HlsRecorder, SameList, HlsKept
<1> HIDE DEF g
<1>7. ListWell(g)
  BY <1>6, SameListWell DEF HlsWell
<1>8. CurrentWell(g)
  BY <1>5, <1>6 DEF HlsWell, CurrentWell, Unmarked, HlsKept
<1> QED
  BY <1>3, <1>4, <1>5, <1>6, <1>7, <1>8 DEF HlsFair, HlsWell

LEMMA WriteTsFair ==
  ASSUME NEW h, HlsSound(h), HlsWell(h), h.current # NoSegment, NEW dts \in Nat,
         Unmarked(h) => dts <= h.current.start, NEW f, NoHls(f)
  PROVE  LET r == WriteTs(h, dts, f) IN
           /\ HlsFair(h, r) /\ r.ok
           /\ Unmarked(r.rec) = Unmarked(h) /\ r.rec.af = h.af
<1> DEFINE s == Reached(h.current, dts)
           g == [h EXCEPT !.current = s]
<1>1. h \in HlsRecorder /\ h.current \in Segment
  BY HlsFields DEF HlsSound
<1>2. /\ s.first = h.current.first /\ s.sh = h.current.sh /\ s.open = h.current.open
      /\ s.start = h.current.start /\ s.dur \in {h.current.dur, dts - h.current.start}
      /\ dts <= h.current.start => s.dur \in {h.current.dur, 0}
  <2>1. CASE dts < h.current.start
    BY <1>1, <2>1 DEF Reached
  <2>2. CASE ~(dts < h.current.start)
    <3>1. Reached(h.current, dts) = [h.current EXCEPT !.dur = dts - h.current.start]
      BY <2>2 DEF Reached
    <3>2. h.current.start \in Nat
      BY <1>1 DEF Segment
    <3>3. dts <= h.current.start => dts - h.current.start = 0
      BY <2>2, <3>2
    <3> QED
      BY <1>1, <3>1, <3>3 DEF Segment
  <2> QED
    BY <2>1, <2>2
<1> HIDE DEF s
<1>3. /\ g.current = s /\ g.af = h.af /\ SameList(h, g) /\ HlsKept(h, g)
  BY <1>1 DEF HlsRecorder, SameList, HlsKept
<1>4. WriteTs(h, dts, f) = [rec |-> g, ok |-> TRUE]
  <2>1. "write_ts" \notin f
    BY DEF NoHls, HlsFaults
  <2>2. h.current.open = TRUE
    BY <1>1 DEF HlsWell, CurrentWell, Segment
  <2> QED
    BY <2>1, <2>2 DEF WriteTs, s
<1> HIDE DEF g
<1>5. ListWell(g)
  BY <1>3, SameListWell DEF HlsWell
<1>6. Unmarked(g) = Unmarked(h)
  BY <1>2, <1>3 DEF Unmarked
<1>7. CurrentWell(g)
  <2>1. g.current.open
    BY <1>2, <1>3 DEF HlsWell, CurrentWell
  <2>2. ASSUME Unmarked(g) PROVE g.current.dur = 0 /\ g.af <= g.current.start
    <3>1. Unmarked(h)
      BY <1>6, <2>2
    <3> QED
      BY <1>2, <1>3, <3>1 DEF HlsWell, CurrentWell
  <2> QED
    BY <1>3, <2>1, <2>2 DEF HlsWell, CurrentWell, HlsKept
<1> QED
  BY <1>3, <1>4, <1>5, <1>6, <1>7 DEF HlsFair, HlsWell

LEMMA FlushAudioFair ==
  ASSUME NEW h, HlsSound(h), HlsWell(h), NEW f, NoHls(f)
  PROVE  LET r == FlushAudio(h, f) IN
           /\ HlsFair(h, r) /\ r.ok
           /\ Unmarked(r.rec) = Unmarked(h) /\ r.rec.af = h.af
<1> DEFINE w == WriteTs(h, h.af, f)
           g == [w.rec EXCEPT !.ab = NoAudio]
<1>1. CASE h.current = NoSegment \/ h.ab = NoAudio
  BY <1>1 DEF FlushAudio, Ok, HlsFair, HlsKept
<1>2. CASE h.current # NoSegment /\ h.ab # NoAudio
  <2>1. h.af \in Nat
    BY HlsFields DEF HlsSound
  <2>2. /\ HlsFair(h, w) /\ w.ok /\ Unmarked(w.rec) = Unmarked(h) /\ w.rec.af = h.af
    BY <1>2, <2>1, WriteTsFair DEF HlsWell, CurrentWell
  <2>3. HlsSound(w.rec)
    BY <1>2, <2>1, WriteTsKeeps
  <2>4. FlushAudio(h, f) = [rec |-> g, ok |-> TRUE]
    BY <1>2, <2>2 DEF FlushAudio, Ok
  <2> HIDE DEF w
  <2>5. /\ g.current = w.rec.current /\ g.af = w.rec.af /\ SameList(w.rec, g)
        /\ HlsKept(w.rec, g)
    BY <2>3 DEF HlsSound, HlsRecorder, SameList, HlsKept
  <2> HIDE DEF g
  <2>6. ListWell(g)
    BY <2>2, <2>5, SameListWell DEF HlsFair, HlsWell
  <2>7. Unmarked(g) = Unmarked(w.rec)
    BY <2>5 DEF Unmarked
  <2>8. CurrentWell(g)
    BY <2>2, <2>5, <2>7 DEF HlsFair, HlsWell, CurrentWell, HlsKept
  <2>9. HlsKept(h, g)
    BY <2>2, <2>5 DEF HlsFair, HlsKept
  <2> QED
    BY <2>2, <2>4, <2>5, <2>6, <2>7, <2>8, <2>9 DEF HlsFair, HlsWell
<1> QED
  BY <1>1, <1>2

\* What the list must be before it is shrunk.
Listed(h) ==
  /\ \A i \in DOMAIN h.segments : h.segments[i].first => h.segments[i].sh
  /\ h.replaces => /\ \A i \in DOMAIN h.segments : h.segments[i].seq \in h.ts
                   /\ h.segments = <<>> => h.m3u8 = <<>>

LEMMA PublishesFair ==
  ASSUME NEW h, HlsSound(h), h.current = NoSegment, Listed(h), NEW f, NoHls(f)
  PROVE  LET r == Publishes(h, f) IN
           /\ ListWell(r.rec) /\ HlsKept(h, r.rec) /\ (h.replaces => r.ok)
           /\ r.rec.af = h.af
<1> DEFINE kept == Shrunk(h.segments)
           n == Len(h.segments)
           gone == {h.segments[i].seq : i \in 1..n - Len(kept)}
           k == [h EXCEPT !.segments = kept]
           r == RefreshM3u8(k, f)
           whole == [k EXCEPT !.made = TRUE, !.m3u8 = Numbers(kept)]
           g == [r.rec EXCEPT !.ts = @ \ gone]
<1>1. h \in HlsRecorder /\ Successive(h) /\ h.segments \in Seq(Segment) /\ n \in Nat
  BY HlsFields DEF HlsSound
<1>2. /\ kept \in Seq(Segment) /\ Len(kept) \in Nat /\ Len(kept) <= n
      /\ \A i \in 1..Len(kept) : n - Len(kept) + i \in 1..n /\ kept[i] = h.segments[n - Len(kept) + i]
  <2>1. h.segments \in Seq(Segment)
    BY <1>1
  <2>2. kept \in Seq(Segment)
    BY <2>1, ShrunkIsSuffix
  <2>3. /\ Len(kept) <= n
        /\ \A i \in 1..Len(kept) :
             n - Len(kept) + i \in 1..n /\ kept[i] = h.segments[n - Len(kept) + i]
    BY <2>1, ShrunkIsSuffix
  <2> HIDE DEF kept
  <2> QED
    BY <2>2, <2>3
<1>3. /\ h.segments = <<>> <=> kept = <<>>
      /\ kept # <<>> => Seconds(Tail(kept)) <= HlsWindow
  BY <1>1, ShrunkFits
<1> HIDE DEF kept
<1>4. /\ DOMAIN kept = 1..Len(kept) /\ DOMAIN h.segments = 1..n
  BY <1>1, <1>2
<1>5. \A i \in 1..Len(kept) : kept[i].first => kept[i].sh
  BY <1>2, <1>4 DEF Listed
<1>6. h.replaces => \A i \in 1..Len(kept) : kept[i].seq \in h.ts \ gone
  <2> SUFFICES ASSUME h.replaces, NEW i \in 1..Len(kept)
               PROVE  kept[i].seq \in h.ts /\ kept[i].seq \notin gone
    OBVIOUS
  <2>1. kept[i].seq \in h.ts
    BY <1>2, <1>4 DEF Listed
  <2>2. ASSUME NEW j \in 1..n - Len(kept) PROVE h.segments[j].seq # kept[i].seq
    <3> DEFINE l == n - Len(kept) + i
    <3>1. l \in 1..n /\ j \in 1..n /\ j # l
      BY <1>1, <1>2
    <3>2. kept[i] = h.segments[l]
      BY <1>2
    <3>3. \A m \in 1..n : h.segments[m].seq = h.sequence_no - 0 - n + m - 1
      BY <1>1 DEF Successive
    <3>4. h.sequence_no \in Nat
      BY <1>1, HlsFields
    <3> HIDE DEF l, n
    <3>5. \A a, b \in 1..n : h.sequence_no - 0 - n + a - 1 = h.sequence_no - 0 - n + b - 1 => a = b
      BY <1>1, <3>4
    <3>6. h.segments[l].seq # h.segments[j].seq
      BY <3>1, <3>3, <3>5, Zenon
    <3> QED
      BY <3>2, <3>6
  <2> QED
    BY <2>1, <2>2
<1>7. /\ k.current = h.current /\ k.af = h.af /\ k.segments = kept /\ k.ts = h.ts
      /\ k.m3u8 = h.m3u8 /\ k.replaces = h.replaces /\ HlsKept(h, k) /\ k \in HlsRecorder
  BY <1>1, <1>2 DEF HlsRecorder, HlsKept
<1> HIDE DEF k
<1>8. /\ whole.current = k.current /\ whole.af = k.af /\ whole.segments = kept
      /\ whole.ts = k.ts /\ whole.m3u8 = Numbers(kept) /\ whole.replaces = k.replaces
      /\ HlsKept(k, whole) /\ whole \in HlsRecorder
  BY <1>2, <1>7, NumbersAreNumbers DEF HlsRecorder, HlsKept
<1> HIDE DEF whole
<1>9. \/ kept = <<>> /\ r = [rec |-> k, ok |-> TRUE]
      \/ kept # <<>> /\ h.replaces = FALSE /\ r = [rec |-> k, ok |-> FALSE]
      \/ kept # <<>> /\ r = [rec |-> whole, ok |-> TRUE]
  <2>1. "open_m3u8" \notin f /\ "write_m3u8" \notin f /\ "rename_m3u8" \notin f
    BY DEF NoHls, HlsFaults
  <2>2. h.replaces \in BOOLEAN
    BY <1>1 DEF HlsRecorder
  <2> QED
    BY <1>7, <2>1, <2>2 DEF RefreshM3u8, Ok, Failed, whole
<1>10. Numbers(<<>>) = <<>>
  BY DEF Numbers
<1>11. /\ r.rec \in HlsRecorder /\ r.rec.segments = kept /\ r.rec.ts = h.ts
       /\ r.rec.af = h.af /\ r.rec.replaces = h.replaces /\ HlsKept(h, r.rec)
       /\ h.replaces => r.ok /\ r.rec.m3u8 = Numbers(kept)
       /\ r = [rec |-> r.rec, ok |-> r.ok]
  BY <1>3, <1>7, <1>8, <1>9, <1>10 DEF Listed, HlsKept
<1>12. Publishes(h, f).rec = g /\ Publishes(h, f).ok = r.ok
  <2>1. Publishes(h, f) = [r EXCEPT !.rec.ts = @ \ gone]
    BY DEF Publishes, k, kept, r
  <2> HIDE DEF r, gone
  <2> QED
    BY <1>11, <2>1
<1> HIDE DEF r, gone
<1>13. /\ g.segments = kept /\ g.ts = h.ts \ gone /\ g.af = h.af
       /\ g.replaces = h.replaces /\ HlsKept(h, g) /\ g.m3u8 = r.rec.m3u8
  BY <1>11 DEF HlsRecorder, HlsKept
<1> HIDE DEF g
<1>14. ListWell(g)
  BY <1>3, <1>4, <1>5, <1>6, <1>11, <1>13 DEF ListWell, Served
<1> QED
  BY <1>11, <1>12, <1>13, <1>14

\* With no segment open the list is all there is.
LEMMA NoneIsWell ==
  ASSUME NEW h, h.current = NoSegment, ListWell(h), h.af <= h.stream_dts
  PROVE  HlsWell(h) /\ ~Unmarked(h)
BY DEF HlsWell, CurrentWell, Unmarked, NoSegment

LEMMA SegmentCloseFair ==
  ASSUME NEW h, HlsSound(h), HlsWell(h), NEW f, NoHls(f)
  PROVE  LET r == SegmentClose(h, f) IN
           HlsFair(h, r) /\ ~Unmarked(r.rec) /\ r.rec.af = h.af
<1> DEFINE s == h.current
           closed == [h EXCEPT !.current = NoSegment]
           listed == [closed EXCEPT !.segments = Append(@, s)]
           dropped == [closed EXCEPT !.sequence_no = @ - 1]
           renamed == [listed EXCEPT !.ts = @ \cup {s.seq}]
           r == SegmentClose(h, f)
<1>1. h \in HlsRecorder /\ Successive(h) /\ h.segments \in Seq(Segment)
  BY HlsFields DEF HlsSound
<1>2. CASE s = NoSegment
  <2>1. r = [rec |-> h, ok |-> TRUE]
    BY <1>2 DEF SegmentClose, Ok
  <2> QED
    BY <1>2, <2>1 DEF HlsFair, HlsKept, Unmarked, NoSegment
<1>3. CASE s # NoSegment
  <2>1. s \in Segment /\ s.open /\ "rename_ts" \notin f
    BY <1>1, <1>3, HlsFields DEF NoHls, HlsFaults, HlsWell, CurrentWell
  <2>2. r.rec.current = NoSegment
    BY SegmentCloseKeeps
  <2>3. \/ s.dur < MinDuration /\ r = Publishes(dropped, f)
        \/ ~(s.dur < MinDuration) /\ r = Publishes(renamed, f)
    BY <1>3, <2>1 DEF SegmentClose
  <2>4. DOMAIN h.segments = 1..Len(h.segments) /\ Len(h.segments) \in Nat
    BY <1>1
  <2> DEFINE a == Append(h.segments, s)
  <2>5. /\ a \in Seq(Segment) /\ Len(a) = Len(h.segments) + 1
        /\ \A i \in 1..Len(h.segments) : a[i] = h.segments[i]
        /\ a[Len(h.segments) + 1] = s
        /\ DOMAIN a = 1..Len(h.segments) + 1
    BY <1>1, <2>1, AppendProperties
  <2>6. a # <<>>
    <3>1. Len(a) # 0
      BY <2>4, <2>5
    <3> QED
      BY <3>1
  <2>7. h.replaces => \A i \in DOMAIN h.segments : h.segments[i].seq \in h.ts
    BY DEF HlsWell, ListWell, Served
  <2>8. h.replaces => h.m3u8 = Numbers(h.segments)
    BY DEF HlsWell, ListWell, Served
  <2>9. \A i \in DOMAIN h.segments : h.segments[i].first => h.segments[i].sh
    BY DEF HlsWell, ListWell
  <2>10. Numbers(<<>>) = <<>>
    BY DEF Numbers
  <2> HIDE DEF a
  <2>11. /\ dropped.current = NoSegment /\ dropped.segments = h.segments /\ dropped.ts = h.ts
         /\ dropped.sequence_no = h.sequence_no - 1
         /\ dropped.m3u8 = h.m3u8 /\ dropped.af = h.af /\ HlsKept(h, dropped)
    BY <1>1 DEF HlsRecorder, HlsKept
  <2>12. /\ renamed.current = NoSegment /\ renamed.segments = a
         /\ renamed.ts = h.ts \cup {s.seq} /\ renamed.sequence_no = h.sequence_no
         /\ renamed.af = h.af /\ HlsKept(h, renamed)
    BY <1>1 DEF HlsRecorder, HlsKept, a
  <2>13. dropped \in HlsRecorder /\ renamed \in HlsRecorder
    <3>1. s.seq \in Nat /\ s.seq = h.sequence_no - 1
      BY <1>1, <1>3, <2>1 DEF Successive, Segment
    <3>2. h.ts \cup {s.seq} \in SUBSET Nat /\ h.sequence_no - 1 \in Nat
      BY <1>1, <3>1, HlsFields
    <3>3. dropped = [h EXCEPT !.current = NoSegment, !.sequence_no = h.sequence_no - 1]
      BY <1>1 DEF HlsRecorder
    <3>4. renamed = [h EXCEPT !.current = NoSegment, !.segments = a, !.ts = h.ts \cup {s.seq}]
      BY <1>1 DEF HlsRecorder, a
    <3>5. dropped \in HlsRecorder
      BY <1>1, <3>2, <3>3 DEF HlsRecorder
    <3>6. renamed \in HlsRecorder
      BY <1>1, <2>5, <3>2, <3>4 DEF HlsRecorder
    <3> QED
      BY <3>5, <3>6
  <2> HIDE DEF dropped, renamed
  <2>14. CASE s.dur < MinDuration
    <3>1. Successive(dropped)
      BY <1>1, <1>3, <2>11, HlsFields DEF Successive
    <3>2. Listed(dropped)
      BY <2>7, <2>8, <2>9, <2>10, <2>11 DEF Listed, HlsKept
    <3>3. /\ ListWell(r.rec) /\ HlsKept(dropped, r.rec) /\ (dropped.replaces => r.ok)
          /\ r.rec.af = h.af
      BY <2>3, <2>11, <2>13, <2>14, <3>1, <3>2, PublishesFair DEF HlsSound
    <3> HIDE DEF r
    <3>4. HlsKept(h, r.rec) /\ (h.replaces => r.ok) /\ r.rec.af <= r.rec.stream_dts
      BY <2>11, <3>3 DEF HlsKept, HlsWell, CurrentWell
    <3> QED
      BY <2>2, <3>3, <3>4, NoneIsWell DEF HlsFair, r
  <2>15. CASE ~(s.dur < MinDuration)
    <3>1. s.dur # 0 /\ ~Unmarked(h)
      BY <2>15 DEF MinDuration, HlsWell, CurrentWell
    <3>2. s.first => s.sh
      BY <3>1 DEF Unmarked
    <3>3. \A i \in 1..Len(h.segments) + 1 : i \in 1..Len(h.segments) \/ i = Len(h.segments) + 1
      BY <2>4
    <3>4. Listed(renamed)
      <4>1. \A i \in DOMAIN a : a[i].first => a[i].sh
        BY <2>4, <2>5, <2>9, <3>2, <3>3
      <4>2. h.replaces => \A i \in DOMAIN a : a[i].seq \in h.ts \cup {s.seq}
        BY <2>4, <2>5, <2>7, <3>3
      <4> QED
        BY <2>6, <2>12, <4>1, <4>2 DEF Listed, HlsKept
    <3>5. Successive(renamed)
      <4> DEFINE n == Len(h.segments)
      <4>1. \A i \in 1..n : h.segments[i].seq = h.sequence_no - 1 - n + i - 1
        BY <1>1, <1>3 DEF Successive
      <4>2. s.seq = h.sequence_no - 1 /\ h.sequence_no \in Nat
        BY <1>1, <1>3, HlsFields DEF Successive
      <4>3. n \in Nat /\ h.sequence_no \in Nat
        BY <2>4, <4>2
      <4>4. Len(a) = n + 1 /\ (\A i \in 1..n : a[i] = h.segments[i]) /\ a[n + 1] = s
        BY <2>5
      <4>5. \A i \in 1..n + 1 : i \in 1..n \/ i = n + 1
        BY <4>3
      <4> HIDE DEF n, s
      <4>6. \A i \in 1..n : a[i].seq = h.sequence_no - 0 - (n + 1) + i - 1
        <5>1. \A i \in 1..n : h.sequence_no - 1 - n + i - 1 = h.sequence_no - 0 - (n + 1) + i - 1
          BY <4>3
        <5> QED
          BY <4>1, <4>4, <5>1, Zenon
      <4>7. a[n + 1].seq = h.sequence_no - 0 - (n + 1) + (n + 1) - 1
        BY <4>2, <4>3, <4>4
      <4>8. \A i \in 1..Len(a) : a[i].seq = h.sequence_no - 0 - Len(a) + i - 1
        BY <4>4, <4>5, <4>6, <4>7
      <4> QED
        BY <2>12, <4>8 DEF Successive
    <3>6. /\ ListWell(r.rec) /\ HlsKept(renamed, r.rec) /\ (renamed.replaces => r.ok)
          /\ r.rec.af = h.af
      BY <2>3, <2>12, <2>13, <2>15, <3>4, <3>5, PublishesFair DEF HlsSound
    <3> HIDE DEF r
    <3>7. HlsKept(h, r.rec) /\ (h.replaces => r.ok) /\ r.rec.af <= r.rec.stream_dts
      BY <2>12, <3>6 DEF HlsKept, HlsWell, CurrentWell
    <3> QED
      BY <2>2, <3>6, <3>7, NoneIsWell DEF HlsFair, r
  <2> QED
    BY <2>14, <2>15
<1> QED
  BY <1>2, <1>3

LEMMA ReapSegmentFair ==
  ASSUME NEW h, HlsSound(h), HlsWell(h), NEW dts \in Nat, NEW f, NoHls(f)
  PROVE  LET r == ReapSegment(h, dts, f) IN HlsFair(h, r) /\ ~Unmarked(r.rec)
<1> DEFINE closed == SegmentClose(h, f)
           opened == SegmentOpen(closed.rec, dts, FALSE, f)
           flushed == FlushAudio(opened.rec, f)
<1>1. HlsSound(closed.rec) /\ closed.rec.current = NoSegment
  BY SegmentCloseKeeps
<1>2. HlsFair(h, closed) /\ ~Unmarked(closed.rec)
  BY SegmentCloseFair
<1>3. \/ ReapSegment(h, dts, f) = closed /\ ~closed.ok
      \/ ReapSegment(h, dts, f) = flushed
      \/ ReapSegment(h, dts, f) = opened /\ ~opened.ok
  BY DEF ReapSegment
<1> HIDE DEF closed
<1>4. HlsSound(opened.rec)
  BY <1>1, SegmentOpenKeeps
<1>5. HlsFair(closed.rec, opened) /\ opened.ok /\ opened.rec.current.first = FALSE
  <2>1. HlsWell(closed.rec)
    BY <1>2 DEF HlsFair
  <2> QED
    BY <1>1, <2>1, SegmentOpenFair, ZenonT(30)
<1> HIDE DEF opened
<1>6. HlsFair(opened.rec, flushed) /\ flushed.ok /\ Unmarked(flushed.rec) = Unmarked(opened.rec)
  BY <1>4, <1>5, FlushAudioFair DEF HlsFair
<1> HIDE DEF flushed
<1>7. ~Unmarked(flushed.rec)
  BY <1>5, <1>6 DEF Unmarked
<1>8. HlsFair(h, flushed)
  BY <1>2, <1>5, <1>6 DEF HlsFair, HlsKept
<1> QED
  BY <1>2, <1>3, <1>5, <1>7, <1>8

LEMMA WriteAudioFair ==
  ASSUME NEW h, HlsSound(h), HlsWell(h), ~Unmarked(h), NEW pts \in Nat, pts <= h.stream_dts,
         NEW full \in BOOLEAN, NEW f, NoHls(f)
  PROVE  LET r == WriteAudio(h, pts, full, f) IN HlsFair(h, r) /\ ~Unmarked(r.rec)
<1> DEFINE fresh == [h EXCEPT !.ab = pts, !.af = pts]
           cached == IF h.ab = NoAudio THEN fresh ELSE h
           flushed == IF full THEN FlushAudio(cached, f) ELSE Ok(cached)
           reaped == ReapSegment(flushed.rec, flushed.rec.af, f)
<1>1. h \in HlsRecorder
  BY DEF HlsSound
<1>2. HlsSound(cached) /\ HlsWell(cached) /\ ~Unmarked(cached) /\ HlsKept(h, cached)
  <2>1. /\ fresh \in HlsRecorder /\ fresh.current = h.current /\ fresh.segments = h.segments
        /\ fresh.sequence_no = h.sequence_no /\ fresh.af = pts
        /\ SameList(h, fresh) /\ HlsKept(h, fresh)
    BY <1>1 DEF HlsRecorder, SameList, HlsKept
  <2> HIDE DEF fresh
  <2>2. HlsSound(fresh)
    BY <2>1, OtherFieldsKeep
  <2>3. ListWell(fresh) /\ ~Unmarked(fresh)
    BY <2>1, SameListWell DEF HlsWell, Unmarked
  <2>4. CurrentWell(fresh)
    BY <2>1, <2>3 DEF HlsWell, CurrentWell, HlsKept
  <2>5. HlsKept(h, h)
    BY DEF HlsKept
  <2> QED
    BY <2>1, <2>2, <2>3, <2>4, <2>5 DEF HlsWell
<1>3. WriteAudio(h, pts, full, f) = reaped \/ WriteAudio(h, pts, full, f) = flushed
  <2>1. "malformed" \notin f
    BY DEF NoHls, HlsFaults
  <2> QED
    BY <2>1 DEF WriteAudio
<1> HIDE DEF cached
<1>4. HlsSound(flushed.rec) /\ HlsFair(cached, flushed) /\ ~Unmarked(flushed.rec) /\ flushed.ok
  <2>1. CASE full
    BY <1>2, <2>1, FlushAudioKeeps, FlushAudioFair
  <2>2. CASE ~full
    BY <1>2, <2>2 DEF Ok, HlsFair, HlsKept
  <2> QED
    BY <2>1, <2>2
<1> HIDE DEF flushed
<1>5. HlsFair(flushed.rec, reaped) /\ ~Unmarked(reaped.rec)
  <2>1. flushed.rec.af \in Nat
    BY <1>4, HlsFields DEF HlsSound
  <2> QED
    BY <1>4, <2>1, ReapSegmentFair DEF HlsFair
<1> HIDE DEF reaped
<1>6. HlsFair(h, flushed) /\ HlsFair(h, reaped)
  BY <1>2, <1>4, <1>5 DEF HlsFair, HlsKept
<1> QED
  BY <1>3, <1>4, <1>5, <1>6

LEMMA WriteVideoFair ==
  ASSUME NEW h, HlsSound(h), HlsWell(h), ~Unmarked(h), NEW dts \in Nat,
         NEW key \in BOOLEAN, NEW f, NoHls(f)
  PROVE  LET r == WriteVideo(h, dts, key, f) IN HlsFair(h, r) /\ ~Unmarked(r.rec)
<1> DEFINE seen == [h EXCEPT !.video = TRUE]
           reaped == IF key /\ IsSegmentOverflow(seen) THEN ReapSegment(seen, dts, f)
                     ELSE Ok(seen)
           flushed == FlushVideo(reaped.rec, dts, f)
<1>1. h \in HlsRecorder
  BY DEF HlsSound
<1>2. HlsSound(seen) /\ HlsWell(seen) /\ ~Unmarked(seen) /\ HlsKept(h, seen)
  <2>1. /\ seen \in HlsRecorder /\ seen.current = h.current /\ seen.segments = h.segments
        /\ seen.sequence_no = h.sequence_no /\ seen.af = h.af
        /\ SameList(h, seen) /\ HlsKept(h, seen)
    BY <1>1 DEF HlsRecorder, SameList, HlsKept
  <2> HIDE DEF seen
  <2>2. HlsSound(seen)
    BY <2>1, OtherFieldsKeep
  <2>3. ListWell(seen) /\ ~Unmarked(seen)
    BY <2>1, SameListWell DEF HlsWell, Unmarked
  <2>4. CurrentWell(seen)
    BY <2>1, <2>3 DEF HlsWell, CurrentWell, HlsKept
  <2> QED
    BY <2>1, <2>2, <2>3, <2>4 DEF HlsWell
<1>3. \/ WriteVideo(h, dts, key, f) = flushed
      \/ WriteVideo(h, dts, key, f) = reaped
  <2>1. "malformed" \notin f
    BY DEF NoHls, HlsFaults
  <2> QED
    BY <2>1 DEF WriteVideo
<1> HIDE DEF seen
<1>4. HlsSound(reaped.rec) /\ HlsFair(seen, reaped) /\ ~Unmarked(reaped.rec)
  <2>1. CASE key /\ IsSegmentOverflow(seen)
    BY <1>2, <2>1, ReapSegmentKeeps, ReapSegmentFair
  <2>2. CASE ~(key /\ IsSegmentOverflow(seen))
    BY <1>2, <2>2 DEF Ok, HlsFair, HlsKept
  <2> QED
    BY <2>1, <2>2
<1> HIDE DEF reaped
<1>5. HlsFair(reaped.rec, flushed) /\ ~Unmarked(flushed.rec)
  <2>1. CASE reaped.rec.current = NoSegment
    BY <1>4, <2>1 DEF FlushVideo, Ok, HlsFair, HlsKept
  <2>2. CASE reaped.rec.current # NoSegment
    BY <1>4, <2>2, WriteTsFair DEF FlushVideo, HlsFair
  <2> QED
    BY <2>1, <2>2
<1> HIDE DEF flushed
<1>6. HlsFair(h, reaped)
  BY <1>2, <1>4 DEF HlsFair, HlsKept
<1>7. CASE WriteVideo(h, dts, key, f) = reaped
  BY <1>4, <1>6, <1>7
<1>8. CASE WriteVideo(h, dts, key, f) = flushed /\ reaped.ok
  BY <1>5, <1>6, <1>8 DEF HlsFair, HlsKept
<1>9. WriteVideo(h, dts, key, f) = reaped \/ (WriteVideo(h, dts, key, f) = flushed /\ reaped.ok)
  <2>1. "malformed" \notin f
    BY DEF NoHls, HlsFaults
  <2> QED
    BY <2>1 DEF WriteVideo, flushed, reaped, seen
<1> QED
  BY <1>7, <1>8, <1>9

\* A segment is open only while the recorder takes media.
HlsFine(h) == HlsWell(h) /\ (h.current # NoSegment => h.enabled)

LEMMA HlsOnUnpublishFair ==
  ASSUME NEW h, HlsSound(h), HlsWell(h), h.enabled \/ h.current = NoSegment, NEW f, NoHls(f)
  PROVE  LET g == HlsOnUnpublish(h, f) IN
           /\ HlsFine(g) /\ g.current = NoSegment /\ ~Unmarked(g)
           /\ g.enabled = FALSE /\ g.replaces = h.replaces
<1> DEFINE flushed == FlushAudio(h, f)
           closed == SegmentClose(flushed.rec, f)
           g == [closed.rec EXCEPT !.enabled = FALSE]
<1>1. CASE ~h.enabled
  <2>1. h.enabled = FALSE
    BY <1>1, HlsFields DEF HlsSound
  <2>2. HlsOnUnpublish(h, f) = h
    BY <1>1 DEF HlsOnUnpublish
  <2>3. h.current = NoSegment /\ h.af <= h.stream_dts
    BY <1>1 DEF HlsWell, CurrentWell
  <2> QED
    BY <2>1, <2>2, <2>3, NoneIsWell DEF HlsFine, HlsWell
<1>2. CASE h.enabled
  <2>1. HlsSound(flushed.rec) /\ HlsFair(h, flushed) /\ flushed.ok
    BY FlushAudioKeeps, FlushAudioFair
  <2>2. HlsOnUnpublish(h, f) = g
    BY <1>2, <2>1 DEF HlsOnUnpublish
  <2> HIDE DEF flushed
  <2>3. HlsFair(flushed.rec, closed) /\ HlsSound(closed.rec) /\ closed.rec.current = NoSegment
    BY <2>1, SegmentCloseKeeps, SegmentCloseFair DEF HlsFair
  <2> HIDE DEF closed
  <2>4. /\ g.current = NoSegment /\ g.enabled = FALSE /\ g.replaces = h.replaces
        /\ SameList(closed.rec, g) /\ g.af = closed.rec.af
        /\ g.stream_dts = closed.rec.stream_dts
    BY <2>1, <2>3 DEF HlsFair, HlsKept, HlsSound, HlsRecorder, SameList
  <2> HIDE DEF g
  <2>5. ListWell(g) /\ g.af <= g.stream_dts
    BY <2>3, <2>4, SameListWell DEF HlsFair, HlsWell, CurrentWell
  <2> QED
    BY <2>2, <2>4, <2>5, NoneIsWell DEF HlsFine
<1> QED
  BY <1>1, <1>2

\* What a call on media promises without failures: only a rename() that does not replace
\* makes it fail.
HlsTakes(h, r) ==
  /\ HlsSound(r.rec) /\ HlsWell(r.rec) /\ (r.rec.current # NoSegment => r.rec.enabled)
  /\ r.rec.enabled = h.enabled /\ r.rec.replaces = h.replaces
  /\ h.replaces => r.ok
  /\ h.enabled => ~Unmarked(r.rec)

\* One that is off takes nothing.
LEMMA OffTakes ==
  ASSUME NEW h, HlsGood(h), HlsFine(h), ~h.enabled
  PROVE  HlsTakes(h, Ok(h))
BY DEF HlsTakes, HlsGood, HlsFine, Ok

LEMMA HlsOnHeaderFair ==
  ASSUME NEW h, HlsGood(h), HlsFine(h), NEW media \in {"audio", "video"}, NEW f, NoHls(f)
  PROVE  LET r == HlsOnHeader(h, media, f) IN
           r.ok /\ HlsTakes(h, r) /\ (h.enabled => r.rec.known = h.known \cup {media})
<1> DEFINE s == [h.current EXCEPT !.sh = TRUE]
           g == [h EXCEPT !.known = @ \cup {media}, !.current = s]
           r == HlsOnHeader(h, media, f)
<1>1. h \in HlsRecorder /\ HlsSound(h)
  BY DEF HlsGood, HlsSound
<1>2. CASE ~h.enabled
  BY <1>2, OffTakes DEF HlsOnHeader, Ok
<1>3. CASE h.enabled
  <2>1. h.current \in Segment /\ h.current # NoSegment
    BY <1>1, <1>3, HlsFields DEF HlsGood
  <2>2. r = [rec |-> g, ok |-> TRUE]
    <3>1. OnSequenceHeader(h, media) = g
      BY <1>1 DEF OnSequenceHeader, HlsRecorder
    <3>2. "refused" \notin f /\ "malformed" \notin f
      BY DEF NoHls, HlsFaults
    <3> QED
      BY <1>3, <3>1, <3>2 DEF HlsOnHeader, Ok
  <2>3. HlsSound(r.rec)
    BY HlsOnHeaderKeeps DEF HlsGood
  <2>4. s.sh = TRUE /\ s.open = h.current.open
    BY <2>1 DEF Segment
  <2> HIDE DEF s, r
  <2>5. /\ g.current = s /\ g.enabled = h.enabled /\ g.known = h.known \cup {media}
        /\ SameList(h, g) /\ g.af = h.af /\ g.stream_dts = h.stream_dts
    BY <1>1 DEF HlsRecorder, SameList
  <2> HIDE DEF g
  <2>6. ListWell(g) /\ ~Unmarked(g)
    BY <2>4, <2>5, SameListWell DEF HlsFine, HlsWell, Unmarked
  <2>7. CurrentWell(g)
    BY <2>1, <2>4, <2>5, <2>6 DEF HlsFine, HlsWell, CurrentWell
  <2>8. HlsTakes(h, r)
    BY <1>3, <2>2, <2>3, <2>5, <2>6, <2>7 DEF HlsTakes, HlsWell, SameList
  <2> QED
    BY <2>2, <2>5, <2>8 DEF r
<1> QED
  BY <1>2, <1>3

LEMMA OnHlsStartFair ==
  ASSUME NEW h, HlsGood(h), HlsFine(h), h.enabled,
         NEW cached \in SUBSET {"audio", "video"}, NEW f, NoHls(f)
  PROVE  LET r == OnHlsStart(h, cached, f) IN
           /\ r.ok /\ HlsFine(r.rec) /\ r.rec.replaces = h.replaces /\ r.rec.enabled
           /\ Unmarked(r.rec) => cached = {}
           /\ cached \subseteq r.rec.known
<1> DEFINE video == IF "video" \in cached THEN HlsOnHeader(h, "video", f) ELSE Ok(h)
           audio == IF "audio" \in cached THEN HlsOnHeader(video.rec, "audio", f) ELSE video
<1>1. /\ video.ok /\ HlsGood(video.rec) /\ HlsFine(video.rec) /\ video.rec.enabled
      /\ video.rec.replaces = h.replaces
      /\ "video" \in cached => ~Unmarked(video.rec) /\ "video" \in video.rec.known
  <2>1. CASE "video" \notin cached
    BY <2>1 DEF Ok
  <2>2. CASE "video" \in cached
    <3> DEFINE r == HlsOnHeader(h, "video", f)
    <3>1. r.ok /\ HlsTakes(h, r) /\ r.rec.known = h.known \cup {"video"}
      BY HlsOnHeaderFair
    <3>2. HlsGood(r.rec)
      BY HlsOnHeaderKeeps
    <3>3. video = r
      BY <2>2
    <3> HIDE DEF r, video
    <3> QED
      BY <3>1, <3>2, <3>3 DEF HlsTakes, HlsFine
  <2> QED
    BY <2>1, <2>2
<1>2. OnHlsStart(h, cached, f) = audio
  BY <1>1 DEF OnHlsStart
<1> HIDE DEF video
<1>3. CASE "audio" \notin cached
  <2>1. cached = {} \/ "video" \in cached
    BY <1>3
  <2>2. cached \subseteq {"video"}
    BY <1>3
  <2> QED
    BY <1>1, <1>2, <1>3, <2>1, <2>2
<1>4. CASE "audio" \in cached
  <2> DEFINE r == HlsOnHeader(video.rec, "audio", f)
  <2>1. /\ r.ok /\ HlsTakes(video.rec, r)
        /\ video.rec.enabled => r.rec.known = video.rec.known \cup {"audio"}
    BY <1>1, HlsOnHeaderFair
  <2>2. OnHlsStart(h, cached, f) = r
    BY <1>2, <1>4
  <2> HIDE DEF r
  <2>3. cached \subseteq r.rec.known
    BY <1>1, <2>1
  <2> QED
    BY <1>1, <2>1, <2>2, <2>3 DEF HlsTakes, HlsFine
<1> QED
  BY <1>3, <1>4

LEMMA HlsOnPublishFair ==
  ASSUME NEW h, HlsGood(h), HlsFine(h), NEW configured \in BOOLEAN,
         NEW known \in SUBSET {"audio", "video"}, NEW f, NoHls(f)
  PROVE  LET r == HlsOnPublish(h, configured, known, f) IN
           /\ r.ok /\ HlsFine(r.rec) /\ r.rec.replaces = h.replaces
           /\ configured => r.rec.enabled
           /\ h.enabled \/ ~configured => r.rec = h
           /\ ~h.enabled => (Unmarked(r.rec) => known = {})
                            /\ (r.rec.enabled => known \subseteq r.rec.known)
<1> DEFINE started == [h EXCEPT !.video = FALSE]
           opened == SegmentOpen(started, h.stream_dts, TRUE, f)
           g == [opened.rec EXCEPT !.enabled = TRUE]
<1>1. h \in HlsRecorder /\ HlsSound(h)
  BY DEF HlsGood, HlsSound
<1>2. CASE h.enabled \/ ~configured
  <2>1. HlsOnPublish(h, configured, known, f) = [rec |-> h, ok |-> TRUE]
    BY <1>2 DEF HlsOnPublish, Ok
  <2>2. ~h.enabled => ~Unmarked(h)
    BY DEF HlsFine, Unmarked, NoSegment
  <2> QED
    BY <1>2, <2>1, <2>2
<1>3. CASE ~h.enabled /\ configured
  <2>1. h.current = NoSegment /\ h.af <= h.stream_dts /\ h.stream_dts \in Nat
    BY <1>1, <1>3, HlsFields DEF HlsFine, HlsWell, CurrentWell
  <2>2. /\ started \in HlsRecorder /\ started.current = NoSegment
        /\ started.segments = h.segments /\ started.sequence_no = h.sequence_no
        /\ started.af = h.af /\ SameList(h, started) /\ HlsKept(h, started)
    BY <1>1, <2>1 DEF HlsRecorder, SameList, HlsKept
  <2>3. opened = SegmentOpen(started, h.stream_dts, TRUE, f)
    OBVIOUS
  <2>4. HlsOnPublish(h, configured, known, f)
          = IF ~opened.ok THEN opened ELSE OnHlsStart(g, known, f)
    BY <1>3 DEF HlsOnPublish
  <2> HIDE DEF started
  <2>5. HlsSound(started) /\ HlsWell(started)
    <3>1. ListWell(started) /\ started.af <= started.stream_dts
      BY <2>1, <2>2, SameListWell DEF HlsFine, HlsWell, HlsKept
    <3>2. HlsSound(started)
      BY <1>1, <2>1, <2>2, OtherFieldsKeep
    <3>3. HlsWell(started)
      BY <2>2, <3>1, NoneIsWell
    <3> QED
      BY <3>2, <3>3
  <2>6. /\ HlsFair(started, opened) /\ opened.ok /\ opened.rec.current \in Segment
        /\ opened.rec.current.first = TRUE /\ opened.rec.current.sh = FALSE
    <3>1. started.current = NoSegment /\ started.af <= h.stream_dts /\ TRUE \in BOOLEAN
      BY <2>1, <2>2
    <3>2. h.stream_dts \in Nat /\ (TRUE => started.af <= h.stream_dts)
      BY <2>1, <3>1
    <3> HIDE DEF opened
    <3> QED
      BY <2>3, <2>5, <3>1, <3>2, SegmentOpenFair, ZenonT(20)
  <2>7. HlsSound(opened.rec)
    BY <2>1, <2>5, SegmentOpenKeeps
  <2> HIDE DEF opened
  <2>8. HlsOnPublish(h, configured, known, f) = OnHlsStart(g, known, f)
    BY <2>4, <2>6
  <2>9. /\ g \in HlsRecorder /\ g.current = opened.rec.current /\ g.enabled = TRUE
        /\ g.segments = opened.rec.segments /\ g.sequence_no = opened.rec.sequence_no
        /\ g.replaces = opened.rec.replaces /\ SameList(opened.rec, g)
        /\ g.af = opened.rec.af /\ g.stream_dts = opened.rec.stream_dts
    BY <2>7 DEF HlsSound, HlsRecorder, SameList
  <2> HIDE DEF g
  <2>10. g.current # NoSegment
    BY <2>6, <2>9, NoSegmentIsNone
  <2>11. HlsGood(g)
    BY <2>7, <2>9, <2>10, OtherFieldsKeep DEF HlsGood
  <2>12. ListWell(g)
    BY <2>6, <2>9, SameListWell DEF HlsFair, HlsWell
  <2>13. CurrentWell(g)
    BY <2>6, <2>9 DEF HlsFair, HlsWell, CurrentWell, Unmarked
  <2>14. HlsFine(g)
    BY <2>9, <2>12, <2>13 DEF HlsFine, HlsWell
  <2>15. g.replaces = h.replaces
    BY <2>2, <2>6, <2>9 DEF HlsFair, HlsKept
  <2>16. LET r == OnHlsStart(g, known, f) IN
           /\ r.ok /\ HlsFine(r.rec) /\ r.rec.replaces = g.replaces /\ r.rec.enabled
           /\ Unmarked(r.rec) => known = {}
           /\ known \subseteq r.rec.known
    BY <2>9, <2>11, <2>14, OnHlsStartFair
  <2> QED
    BY <1>3, <2>8, <2>15, <2>16
<1> QED
  BY <1>2, <1>3

\* The clock of the recorder goes on before a frame is written.
LEMMA ClockFair ==
  ASSUME NEW h, HlsSound(h), HlsWell(h), NEW step \in Nat
  PROVE  LET dts == h.stream_dts + step
             g == [h EXCEPT !.stream_dts = dts]
         IN /\ dts \in Nat /\ HlsSound(g) /\ HlsWell(g) /\ Unmarked(g) = Unmarked(h)
            /\ g.current = h.current /\ g.stream_dts = dts /\ g.enabled = h.enabled
            /\ g.replaces = h.replaces /\ g.known = h.known
<1> DEFINE dts == h.stream_dts + step
           g == [h EXCEPT !.stream_dts = dts]
<1>1. h \in HlsRecorder /\ h.stream_dts \in Nat /\ h.af \in Nat
  BY HlsFields DEF HlsSound
<1>2. dts \in Nat /\ (h.af <= h.stream_dts => h.af <= dts)
  BY <1>1
<1>3. HlsSound(g)
  <2> HIDE DEF dts
  <2> QED
    BY <1>2, HlsClockKeeps
<1> HIDE DEF dts
<1>4. /\ g.current = h.current /\ g.stream_dts = dts /\ g.enabled = h.enabled
      /\ g.known = h.known /\ g.af = h.af /\ SameList(h, g)
  BY <1>1 DEF HlsRecorder, SameList
<1> HIDE DEF g
<1>5. ListWell(g) /\ Unmarked(g) = Unmarked(h)
  BY <1>4, SameListWell DEF HlsWell, Unmarked
<1>6. CurrentWell(g)
  BY <1>2, <1>4, <1>5 DEF HlsWell, CurrentWell
<1> QED
  BY <1>2, <1>3, <1>4, <1>5, <1>6 DEF HlsWell, SameList, g, dts

LEMMA HlsOnAudioFair ==
  ASSUME NEW h, HlsGood(h), HlsFine(h), h.enabled => ~Unmarked(h) /\ "audio" \in h.known,
         NEW step \in Nat, NEW full \in BOOLEAN, NEW f, NoHls(f)
  PROVE  LET r == HlsOnAudio(h, step, full, f) IN
           HlsTakes(h, r) /\ (h.enabled => r.rec.known = h.known)
<1> DEFINE dts == h.stream_dts + step
           g == [h EXCEPT !.stream_dts = dts]
           r == WriteAudio(g, dts, full, f)
<1>1. CASE ~h.enabled
  BY <1>1, OffTakes DEF HlsOnAudio
<1>2. CASE h.enabled
  <2>1. HlsOnAudio(h, step, full, f) = r
    <3>1. "refused" \notin f
      BY DEF NoHls, HlsFaults
    <3> QED
      BY <1>2, <3>1 DEF HlsOnAudio
  <2>2. /\ dts \in Nat /\ HlsSound(g) /\ HlsWell(g) /\ Unmarked(g) = Unmarked(h)
        /\ g.current = h.current /\ g.stream_dts = dts /\ g.enabled = h.enabled
        /\ g.replaces = h.replaces /\ g.known = h.known
    BY ClockFair DEF HlsGood, HlsFine
  <2> HIDE DEF dts, g
  <2>3. g.current # NoSegment /\ dts <= g.stream_dts
    BY <1>2, <2>2 DEF HlsGood
  <2>4. HlsFair(g, r) /\ ~Unmarked(r.rec)
    BY <1>2, <2>2, <2>3, WriteAudioFair
  <2>5. HlsSound(r.rec)
    BY <2>2, <2>3, WriteAudioKeeps
  <2> HIDE DEF r
  <2> QED
    BY <1>2, <2>1, <2>2, <2>4, <2>5 DEF HlsTakes, HlsFair, HlsKept
<1> QED
  BY <1>1, <1>2

LEMMA HlsOnVideoFair ==
  ASSUME NEW h, HlsGood(h), HlsFine(h), h.enabled => ~Unmarked(h) /\ "video" \in h.known,
         NEW step \in Nat, NEW key \in BOOLEAN, NEW f, NoHls(f)
  PROVE  LET r == HlsOnVideo(h, step, key, f) IN
           HlsTakes(h, r) /\ (h.enabled => r.rec.known = h.known)
<1> DEFINE dts == h.stream_dts + step
           g == [h EXCEPT !.stream_dts = dts]
           r == WriteVideo(g, dts, key, f)
<1>1. CASE ~h.enabled
  BY <1>1, OffTakes DEF HlsOnVideo
<1>2. CASE h.enabled
  <2>1. HlsOnVideo(h, step, key, f) = r
    <3>1. "refused" \notin f
      BY DEF NoHls, HlsFaults
    <3> QED
      BY <1>2, <3>1 DEF HlsOnVideo
  <2>2. /\ dts \in Nat /\ HlsSound(g) /\ HlsWell(g) /\ Unmarked(g) = Unmarked(h)
        /\ g.current = h.current /\ g.stream_dts = dts /\ g.enabled = h.enabled
        /\ g.replaces = h.replaces /\ g.known = h.known
    BY ClockFair DEF HlsGood, HlsFine
  <2> HIDE DEF dts, g
  <2>3. g.current # NoSegment
    BY <1>2, <2>2 DEF HlsGood
  <2>4. HlsFair(g, r) /\ ~Unmarked(r.rec)
    BY <1>2, <2>2, WriteVideoFair
  <2>5. HlsSound(r.rec)
    BY <2>2, <2>3, WriteVideoKeeps
  <2> HIDE DEF r
  <2> QED
    BY <1>2, <2>1, <2>2, <2>4, <2>5 DEF HlsTakes, HlsFair, HlsKept
<1> QED
  BY <1>1, <1>2

------------------------------------------------------------------------------
(* Between publishes *)

IdleReload(r) == \E i \in DOMAIN reloads : reloads[i].of = r /\ reloads[i].idle

\* With no publisher a recorder is off, unless a reload has started it.
IdleInv ==
  publish = "none" =>
    /\ headers = {}
    /\ ~IdleReload("hls") => ~hls.enabled
    /\ ~IdleReload("dvr") => ~dvr.enabled

LEMMA DvrOnUnpublishStops ==
  ASSUME NEW d, DvrSound(d), NEW f
  PROVE  ~DvrOnUnpublish(d, f).enabled
<1>1. FlvClose(d, f).rec \in DvrRecorder
  BY FlvCloseKeeps DEF DvrSound
<1> QED
  BY <1>1 DEF DvrOnUnpublish, DvrSound, DvrRecorder

\* A reload is remembered, and so are those before it.
LEMMA ReloadsRemembered ==
  ASSUME SourceOK, NEW r \in {"hls", "dvr"}, Reloads(r), NEW q
  PROVE  /\ publish = "none" => IdleReload(r)'
         /\ IdleReload(q) => IdleReload(q)'
         /\ DvrReloaded => DvrReloaded'
         /\ r = "dvr" => DvrReloaded'
<1> DEFINE x == [of |-> r, idle |-> publish = "none"]
           n == Len(reloads)
<1>1. reloads \in Seq([of : {"hls", "dvr"}, idle : BOOLEAN]) /\ n \in Nat
  BY DEF SourceOK
<1>2. reloads' = Append(reloads, x) /\ x \in [of : {"hls", "dvr"}, idle : BOOLEAN]
  BY DEF Reloads
<1>3. /\ DOMAIN reloads = 1..n /\ DOMAIN reloads' = 1..n + 1
      /\ \A i \in 1..n : reloads'[i] = reloads[i] /\ i \in 1..n + 1
      /\ reloads'[n + 1] = x /\ n + 1 \in 1..n + 1
  <2>1. /\ Len(reloads') = n + 1 /\ \A i \in 1..n : reloads'[i] = reloads[i]
        /\ reloads'[n + 1] = x /\ reloads' \in Seq([of : {"hls", "dvr"}, idle : BOOLEAN])
    BY <1>1, <1>2, AppendProperties
  <2> HIDE DEF x, n
  <2>2. DOMAIN reloads' = 1..Len(reloads')
    BY <2>1
  <2>3. DOMAIN reloads = 1..n
    BY <1>1 DEF n
  <2> QED
    BY <1>1, <2>1, <2>2, <2>3
<1>4. x.of = r /\ x.idle = (publish = "none")
  OBVIOUS
<1> HIDE DEF x, n
<1>5. publish = "none" => IdleReload(r)'
  BY <1>3, <1>4 DEF IdleReload
<1>6. IdleReload(q) => IdleReload(q)'
  BY <1>3 DEF IdleReload
<1>7. DvrReloaded => DvrReloaded'
  BY <1>3 DEF DvrReloaded
<1>8. r = "dvr" => DvrReloaded'
  BY <1>3, <1>4 DEF DvrReloaded
<1> QED
  BY <1>5, <1>6, <1>7, <1>8

LEMMA IdleStep ==
  ASSUME RecInv, IdleInv, [Next]_vars
  PROVE  IdleInv'
<1>0. SourceOK /\ HlsGood(hls) /\ DvrGood(dvr)
  BY DEF RecInv
<1>1. ASSUME NEW f \in Fault, OnPublish(f) PROVE IdleInv'
  BY <1>1 DEF OnPublish, IdleInv
<1>2. ASSUME NEW f \in Fault, OnUnpublish(f) PROVE IdleInv'
  BY <1>0, <1>2, HlsOnUnpublishKeeps, DvrOnUnpublishStops
     DEF OnUnpublish, IdleInv, HlsGood, DvrGood
<1>3. ASSUME NEW f \in Fault, OnMetaData(f) PROVE IdleInv'
  BY <1>3 DEF OnMetaData, IdleInv
<1>4. ASSUME NEW f \in Fault, NEW media \in {"audio", "video"}, NEW step \in Steps,
             OnHeader(media, step, f)
      PROVE  IdleInv'
  BY <1>4 DEF OnHeader, IdleInv
<1>5. ASSUME NEW f \in Fault, NEW step \in Steps, NEW full \in BOOLEAN,
             OnAudio(step, full, f)
      PROVE  IdleInv'
  BY <1>5 DEF OnAudio, IdleInv
<1>6. ASSUME NEW f \in Fault, NEW step \in Steps, NEW key \in BOOLEAN, NEW lag \in Steps,
             OnVideo(step, key, lag, f)
      PROVE  IdleInv'
  BY <1>6 DEF OnVideo, IdleInv
<1>7. ASSUME NEW f \in Fault, NEW on \in BOOLEAN, ReloadHls(on, f) PROVE IdleInv'
  <2>1. Reloads("hls") /\ dvr' = dvr /\ publish' = publish /\ headers' = headers
    BY <1>7 DEF ReloadHls, source
  <2>2. /\ publish = "none" => IdleReload("hls")'
        /\ IdleReload("dvr") => IdleReload("dvr")'
    BY <1>0, <2>1, ReloadsRemembered
  <2> QED
    BY <2>1, <2>2 DEF IdleInv
<1>8. ASSUME NEW f \in Fault, NEW plan \in Plans, NEW on \in BOOLEAN, ReloadDvr(plan, on, f)
      PROVE  IdleInv'
  <2>1. Reloads("dvr") /\ hls' = hls /\ publish' = publish /\ headers' = headers
    BY <1>8 DEF ReloadDvr, source
  <2>2. /\ publish = "none" => IdleReload("dvr")'
        /\ IdleReload("hls") => IdleReload("hls")'
    BY <1>0, <2>1, ReloadsRemembered
  <2> QED
    BY <2>1, <2>2 DEF IdleInv
<1>9. CASE UNCHANGED vars
  BY <1>9 DEF IdleInv, IdleReload, vars, source, history
<1> QED
  BY <1>1, <1>2, <1>3, <1>4, <1>5, <1>6, <1>7, <1>8, <1>9 DEF Next

------------------------------------------------------------------------------
(* Without failures *)

DvrInv ==
  "dvr" \notin faults =>
    /\ DvrFine(dvr)
    /\ publish = "on" /\ config.dvr => dvr.enabled
    /\ ~DvrReloaded => AllNamed(dvr) /\ (dvr.plan = "session" => OneSession(dvr, session))

HlsInv ==
  "hls" \notin faults =>
    /\ HlsFine(hls)
    /\ hls.enabled => (Unmarked(hls) => headers = {}) /\ headers \subseteq hls.known
    /\ publish = "on" /\ config.hls /\ hls.replaces => hls.enabled

LEMMA NoFailure ==
  ASSUME NEW f, Call(f)
  PROVE  /\ "dvr" \notin faults' => "dvr" \notin faults /\ NoDvr(f)
         /\ "hls" \notin faults' => "hls" \notin faults /\ NoHls(f)
BY DEF Call, NoDvr, NoHls

\* What DVR makes of a message of the stream.
LEMMA DvrMediaStep ==
  ASSUME RecInv, DvrInv, NEW f, Call(f), NEW h, NEW r, Recorded(h, r, f), publish = "on",
         DvrFine(dvr) /\ NoDvr(f) => DvrTakes(dvr, r, session),
         UNCHANGED <<config, publish, session, reloads>>
  PROVE  DvrInv'
<1> SUFFICES ASSUME "dvr" \notin faults'
             PROVE  /\ DvrFine(dvr') /\ (config.dvr => dvr'.enabled)
                    /\ ~DvrReloaded =>
                         AllNamed(dvr') /\ (dvr'.plan = "session" => OneSession(dvr', session))
  BY DEF DvrInv, DvrReloaded
<1>1. NoDvr(f) /\ "dvr" \notin faults
  BY NoFailure
<1>2. r.ok /\ DvrFine(r.rec) /\ r.rec.enabled = dvr.enabled /\ FilesKept(dvr, r.rec, session)
  BY <1>1 DEF DvrInv, DvrTakes
<1>3. dvr' = r.rec
  BY <1>2 DEF Recorded
<1> QED
  BY <1>1, <1>2, <1>3 DEF DvrInv, FilesKept

LEMMA DvrStep ==
  ASSUME RecInv, IdleInv, DvrInv, [Next]_vars
  PROVE  DvrInv'
<1> USE RecordersAssumption
<1>0. /\ SourceOK /\ DvrGood(dvr) /\ config.dvr \in BOOLEAN /\ config.hls \in BOOLEAN
      /\ session \in Nat
  BY DEF RecInv, SourceOK
<1>1. ASSUME NEW f \in Fault, OnPublish(f) PROVE DvrInv'
  <2> DEFINE h == HlsOnPublish(hls, config.hls, headers, f)
             d == DvrOnPublish(dvr, config.dvr, f)
  <2>1. /\ Call(f) /\ publish = "none" /\ dvr' = IF h.ok THEN d.rec ELSE dvr
        /\ publish' = IF h.ok /\ d.ok THEN "on" ELSE "failed"
        /\ session' = session + 1 /\ UNCHANGED <<config, reloads>>
    BY <1>1 DEF OnPublish
  <2> HIDE DEF h
  <2> SUFFICES ASSUME "dvr" \notin faults'
               PROVE  /\ DvrFine(dvr') /\ (publish' = "on" /\ config.dvr => dvr'.enabled)
                      /\ ~DvrReloaded =>
                           /\ AllNamed(dvr')
                           /\ dvr'.plan = "session" => OneSession(dvr', session + 1)
    BY <2>1 DEF DvrInv, DvrReloaded
  <2>2. NoDvr(f) /\ DvrFine(dvr)
    BY <2>1, NoFailure DEF DvrInv
  <2>3. /\ d.ok /\ DvrFine(d.rec) /\ FilesKept(dvr, d.rec, session + 1)
        /\ config.dvr => d.rec.enabled
    BY <1>0, <2>2, DvrOnPublishSucceeds
  <2> HIDE DEF d
  <2>4. ASSUME ~DvrReloaded
        PROVE  AllNamed(dvr) /\ (dvr.plan = "session" => OneSession(dvr, session + 1))
    <3>1. ~dvr.enabled
      BY <2>1, <2>4 DEF IdleInv, IdleReload, DvrReloaded
    <3>2. dvr.plan = "session" => dvr.fs = 0
      BY <2>2, <3>1 DEF DvrFine
    <3>3. AllNamed(dvr) /\ (dvr.plan = "session" => OneSession(dvr, session))
      BY <2>1, <2>4, NoFailure DEF DvrInv
    <3> QED
      BY <3>2, <3>3 DEF OneSession
  <2>5. CASE h.ok
    BY <2>1, <2>3, <2>4, <2>5 DEF FilesKept
  <2>6. CASE ~h.ok
    BY <2>1, <2>2, <2>4, <2>6
  <2> QED
    BY <2>5, <2>6
<1>2. ASSUME NEW f \in Fault, OnUnpublish(f) PROVE DvrInv'
  <2> DEFINE g == DvrOnUnpublish(dvr, f)
  <2>1. Call(f) /\ dvr' = g /\ publish' = "none" /\ UNCHANGED <<session, reloads>>
    BY <1>2 DEF OnUnpublish
  <2> SUFFICES ASSUME "dvr" \notin faults'
               PROVE  /\ DvrFine(dvr')
                      /\ ~DvrReloaded =>
                           AllNamed(dvr') /\ (dvr'.plan = "session" => OneSession(dvr', session))
    BY <2>1 DEF DvrInv, DvrReloaded
  <2>2. NoDvr(f) /\ "dvr" \notin faults
    BY <2>1, NoFailure
  <2>3. DvrFine(g) /\ FilesKept(dvr, g, session)
    BY <1>0, <2>2, DvrOnUnpublishSucceeds DEF DvrInv
  <2> HIDE DEF g
  <2> QED
    BY <2>1, <2>2, <2>3 DEF DvrInv, FilesKept
<1>3. ASSUME NEW f \in Fault, OnMetaData(f) PROVE DvrInv'
  <2>1. /\ Call(f) /\ publish = "on" /\ UNCHANGED <<config, dvr, session, reloads>>
    BY <1>3 DEF OnMetaData
  <2> QED
    BY <2>1, NoFailure DEF DvrInv, DvrReloaded
<1>4. ASSUME NEW f \in Fault, NEW media \in {"audio", "video"}, NEW step \in Steps,
             OnHeader(media, step, f)
      PROVE  DvrInv'
  <2> DEFINE r == DvrOnMedia(dvr, session, step, f)
  <2>1. DvrFine(dvr) /\ NoDvr(f) => DvrTakes(dvr, r, session)
    BY <1>0, DvrMediaTaken
  <2>2. /\ Call(f) /\ publish = "on" /\ \E h : Recorded(h, r, f)
        /\ UNCHANGED <<config, publish, session, reloads>>
    BY <1>4 DEF OnHeader
  <2> HIDE DEF r
  <2> QED
    BY <2>1, <2>2, DvrMediaStep
<1>5. ASSUME NEW f \in Fault, NEW step \in Steps, NEW full \in BOOLEAN,
             OnAudio(step, full, f)
      PROVE  DvrInv'
  <2> DEFINE r == DvrOnMedia(dvr, session, step, f)
  <2>1. DvrFine(dvr) /\ NoDvr(f) => DvrTakes(dvr, r, session)
    BY <1>0, DvrMediaTaken
  <2>2. /\ Call(f) /\ publish = "on" /\ \E h : Recorded(h, r, f)
        /\ UNCHANGED <<config, publish, session, reloads>>
    BY <1>5 DEF OnAudio
  <2> HIDE DEF r
  <2> QED
    BY <2>1, <2>2, DvrMediaStep
<1>6. ASSUME NEW f \in Fault, NEW step \in Steps, NEW key \in BOOLEAN, NEW lag \in Steps,
             OnVideo(step, key, lag, f)
      PROVE  DvrInv'
  <2> DEFINE r == DvrOnVideo(dvr, session, key, headers, lag, step, f)
  <2>1. DvrFine(dvr) /\ NoDvr(f) => DvrTakes(dvr, r, session)
    BY <1>0, DvrVideoTaken
  <2>2. /\ Call(f) /\ publish = "on" /\ \E h : Recorded(h, r, f)
        /\ UNCHANGED <<config, publish, session, reloads>>
    BY <1>6 DEF OnVideo
  <2> HIDE DEF r
  <2> QED
    BY <2>1, <2>2, DvrMediaStep
<1>7. ASSUME NEW f \in Fault, NEW on \in BOOLEAN, ReloadHls(on, f) PROVE DvrInv'
  <2>1. /\ Call(f) /\ Reloads("hls") /\ dvr' = dvr /\ config'.dvr = config.dvr
        /\ UNCHANGED <<publish, session>>
    BY <1>0, <1>7 DEF ReloadHls, source, SourceOK
  <2>2. DvrReloaded => DvrReloaded'
    BY <1>0, <2>1, ReloadsRemembered
  <2> QED
    BY <2>1, <2>2, NoFailure DEF DvrInv
<1>8. ASSUME NEW f \in Fault, NEW plan \in Plans, NEW on \in BOOLEAN, ReloadDvr(plan, on, f)
      PROVE  DvrInv'
  <2> DEFINE stopped == DvrOnUnpublish(dvr, f)
             new == NewPlan(plan, stopped.files)
             d == DvrOnPublish(new, on, f)
  <2>1. /\ Call(f) /\ Reloads("dvr") /\ dvr' = d.rec /\ config'.dvr = on
    BY <1>0, <1>8 DEF ReloadDvr, SourceOK
  <2>2. DvrReloaded'
    BY <1>0, <2>1, ReloadsRemembered
  <2>3. DvrGood(stopped)
    BY <1>0, DvrOnUnpublishKeeps DEF DvrGood
  <2> HIDE DEF stopped
  <2>4. DvrGood(new) /\ DvrFine(new)
    BY <2>3, DvrFields, NewPlanIsGood, NewPlanIsFine DEF DvrGood
  <2> HIDE DEF new
  <2>5. ASSUME "dvr" \notin faults' PROVE DvrFine(d.rec) /\ (on => d.rec.enabled)
    <3>1. NoDvr(f)
      BY <2>1, <2>5, NoFailure
    <3>2. /\ d.ok /\ DvrFine(d.rec) /\ FilesKept(new, d.rec, 0)
          /\ on => d.rec.enabled
      BY <2>4, <3>1, DvrOnPublishSucceeds
    <3> QED
      BY <3>2
  <2> HIDE DEF d
  <2> QED
    BY <2>1, <2>2, <2>5 DEF DvrInv
<1>9. CASE UNCHANGED vars
  BY <1>9 DEF DvrInv, DvrReloaded, vars, source, history
<1> QED
  BY <1>1, <1>2, <1>3, <1>4, <1>5, <1>6, <1>7, <1>8, <1>9 DEF Next

\* What HLS makes of a message of the stream.
LEMMA HlsMediaStep ==
  ASSUME RecInv, HlsInv, NEW f, Call(f), NEW h, NEW d, Recorded(h, d, f),
         publish = "on", config' = config, publish' = publish,
         "hls" \notin faults' =>
           /\ HlsTakes(hls, h)
           /\ hls.enabled => headers' \subseteq h.rec.known
  PROVE  HlsInv'
<1> SUFFICES ASSUME "hls" \notin faults'
             PROVE  /\ HlsFine(hls')
                    /\ hls'.enabled => ~Unmarked(hls') /\ headers' \subseteq hls'.known
                    /\ config.hls /\ hls'.replaces => hls'.enabled
  BY DEF HlsInv
<1>1. PICK again \in {{}, f} : hls' = IF h.ok THEN h.rec ELSE HlsOnUnpublish(h.rec, again)
  BY DEF Recorded
<1>2. /\ NoHls(f) /\ NoHls(again) /\ HlsTakes(hls, h)
      /\ hls.enabled => headers' \subseteq h.rec.known
      /\ config.hls /\ hls.replaces => hls.enabled
  <2>1. NoHls({})
    BY DEF NoHls
  <2> QED
    BY <2>1, NoFailure DEF HlsInv
<1>3. hls.enabled \in BOOLEAN /\ hls.replaces \in BOOLEAN
  BY DEF RecInv, HlsGood, HlsSound, HlsRecorder
<1>4. CASE h.ok
  BY <1>1, <1>2, <1>3, <1>4 DEF HlsTakes, HlsFine
<1>5. CASE ~h.ok
  <2>1. hls' = HlsOnUnpublish(h.rec, again)
    BY <1>1, <1>5
  <2>2. HlsFine(hls') /\ hls'.enabled = FALSE /\ hls'.replaces = h.rec.replaces
    BY <1>2, <2>1, HlsOnUnpublishFair DEF HlsTakes
  <2>3. ~hls'.replaces
    BY <1>2, <1>5, <2>2 DEF HlsTakes
  <2> QED
    BY <2>2, <2>3
<1> QED
  BY <1>4, <1>5

LEMMA HlsStep ==
  ASSUME RecInv, IdleInv, HlsInv, [Next]_vars
  PROVE  HlsInv'
<1> USE RecordersAssumption
<1>0. /\ SourceOK /\ HlsGood(hls) /\ config.dvr \in BOOLEAN /\ config.hls \in BOOLEAN
      /\ headers \in SUBSET {"audio", "video"}
  BY DEF RecInv, SourceOK
<1>1. ASSUME NEW f \in Fault, OnPublish(f) PROVE HlsInv'
  <2> DEFINE h == HlsOnPublish(hls, config.hls, headers, f)
  <2>1. /\ Call(f) /\ publish = "none" /\ hls' = h.rec /\ UNCHANGED <<config, headers>>
    BY <1>1 DEF OnPublish
  <2> SUFFICES ASSUME "hls" \notin faults'
               PROVE  /\ HlsFine(hls')
                      /\ hls'.enabled => (Unmarked(hls') => headers = {}) /\ headers \subseteq hls'.known
                      /\ config.hls => hls'.enabled
    BY <2>1 DEF HlsInv
  <2>2. NoHls(f) /\ HlsFine(hls) /\ headers = {}
    BY <2>1, NoFailure DEF HlsInv, IdleInv
  <2>3. HlsFine(h.rec) /\ (config.hls => h.rec.enabled)
    BY <1>0, <2>2, HlsOnPublishFair
  <2> HIDE DEF h
  <2> QED
    BY <2>1, <2>2, <2>3
<1>2. ASSUME NEW f \in Fault, OnUnpublish(f) PROVE HlsInv'
  <2>1. Call(f) /\ hls' = HlsOnUnpublish(hls, f) /\ publish' = "none"
    BY <1>2 DEF OnUnpublish
  <2> SUFFICES ASSUME "hls" \notin faults' PROVE HlsFine(hls') /\ hls'.enabled = FALSE
    BY <2>1 DEF HlsInv
  <2>2. NoHls(f) /\ HlsFine(hls)
    BY <2>1, NoFailure DEF HlsInv
  <2>3. HlsSound(hls) /\ HlsWell(hls) /\ (hls.enabled \/ hls.current = NoSegment)
    BY <1>0, <2>2 DEF HlsGood, HlsFine
  <2> QED
    BY <2>1, <2>2, <2>3, HlsOnUnpublishFair
<1>3. ASSUME NEW f \in Fault, OnMetaData(f) PROVE HlsInv'
  <2>1. Call(f) /\ publish = "on" /\ UNCHANGED <<config, hls, headers>>
    BY <1>3 DEF OnMetaData
  <2> QED
    BY <2>1, NoFailure DEF HlsInv
<1>4. ASSUME NEW f \in Fault, NEW media \in {"audio", "video"}, NEW step \in Steps,
             OnHeader(media, step, f)
      PROVE  HlsInv'
  <2> DEFINE h == HlsOnHeader(hls, media, f)
             d == DvrOnMedia(dvr, session, step, f)
  <2>1. /\ Call(f) /\ publish = "on" /\ Recorded(h, d, f)
        /\ headers' = headers \cup {media} /\ UNCHANGED <<config, publish>>
    BY <1>4 DEF OnHeader
  <2> HIDE DEF d
  <2>2. ASSUME "hls" \notin faults'
        PROVE  HlsTakes(hls, h) /\ (hls.enabled => headers' \subseteq h.rec.known)
    <3>1. NoHls(f) /\ HlsFine(hls) /\ (hls.enabled => headers \subseteq hls.known)
      BY <2>1, <2>2, NoFailure DEF HlsInv
    <3>2. HlsTakes(hls, h) /\ (hls.enabled => h.rec.known = hls.known \cup {media})
      BY <1>0, <3>1, HlsOnHeaderFair
    <3> HIDE DEF h
    <3> QED
      BY <2>1, <3>1, <3>2
  <2> HIDE DEF h
  <2> QED
    BY <2>1, <2>2, HlsMediaStep
<1>5. ASSUME NEW f \in Fault, NEW step \in Steps, NEW full \in BOOLEAN,
             OnAudio(step, full, f)
      PROVE  HlsInv'
  <2> DEFINE h == HlsOnAudio(hls, step, full, f)
             d == DvrOnMedia(dvr, session, step, f)
  <2>1. /\ Call(f) /\ publish = "on" /\ Recorded(h, d, f) /\ "audio" \in headers
        /\ headers' = headers /\ UNCHANGED <<config, publish>> /\ step \in Nat
    BY <1>5 DEF OnAudio
  <2> HIDE DEF d
  <2>2. ASSUME "hls" \notin faults'
        PROVE  HlsTakes(hls, h) /\ (hls.enabled => headers' \subseteq h.rec.known)
    <3>1. /\ NoHls(f) /\ HlsFine(hls)
          /\ hls.enabled => headers \subseteq hls.known /\ ~Unmarked(hls)
      BY <2>1, <2>2, NoFailure DEF HlsInv
    <3>2. HlsTakes(hls, h) /\ (hls.enabled => h.rec.known = hls.known)
      BY <1>0, <2>1, <3>1, HlsOnAudioFair
    <3> HIDE DEF h
    <3> QED
      BY <2>1, <3>1, <3>2
  <2> HIDE DEF h
  <2> QED
    BY <2>1, <2>2, HlsMediaStep
<1>6. ASSUME NEW f \in Fault, NEW step \in Steps, NEW key \in BOOLEAN, NEW lag \in Steps,
             OnVideo(step, key, lag, f)
      PROVE  HlsInv'
  <2> DEFINE h == HlsOnVideo(hls, step, key, f)
             d == DvrOnVideo(dvr, session, key, headers, lag, step, f)
  <2>1. /\ Call(f) /\ publish = "on" /\ Recorded(h, d, f) /\ "video" \in headers
        /\ headers' = headers /\ UNCHANGED <<config, publish>> /\ step \in Nat
    BY <1>6 DEF OnVideo
  <2> HIDE DEF d
  <2>2. ASSUME "hls" \notin faults'
        PROVE  HlsTakes(hls, h) /\ (hls.enabled => headers' \subseteq h.rec.known)
    <3>1. /\ NoHls(f) /\ HlsFine(hls)
          /\ hls.enabled => headers \subseteq hls.known /\ ~Unmarked(hls)
      BY <2>1, <2>2, NoFailure DEF HlsInv
    <3>2. HlsTakes(hls, h) /\ (hls.enabled => h.rec.known = hls.known)
      BY <1>0, <2>1, <3>1, HlsOnVideoFair
    <3> HIDE DEF h
    <3> QED
      BY <2>1, <3>1, <3>2
  <2> HIDE DEF h
  <2> QED
    BY <2>1, <2>2, HlsMediaStep
<1>7. ASSUME NEW f \in Fault, NEW on \in BOOLEAN, ReloadHls(on, f) PROVE HlsInv'
  <2> DEFINE stopped == HlsOnUnpublish(hls, f)
             r == HlsOnPublish(stopped, on, headers, f)
  <2>1. /\ Call(f) /\ hls' = r.rec /\ headers' = headers /\ config'.hls = on
    BY <1>0, <1>7 DEF ReloadHls, source, SourceOK
  <2> SUFFICES ASSUME "hls" \notin faults'
               PROVE  /\ HlsFine(r.rec)
                      /\ r.rec.enabled =>
                           (Unmarked(r.rec) => headers = {}) /\ headers \subseteq r.rec.known
                      /\ on => r.rec.enabled
    BY <2>1 DEF HlsInv
  <2>2. NoHls(f) /\ HlsFine(hls)
    BY <2>1, NoFailure DEF HlsInv
  <2>3. HlsFine(stopped) /\ stopped.enabled = FALSE
    <3>1. HlsSound(hls) /\ HlsWell(hls) /\ (hls.enabled \/ hls.current = NoSegment)
      BY <1>0, <2>2 DEF HlsGood, HlsFine
    <3> QED
      BY <2>2, <3>1, HlsOnUnpublishFair
  <2>4. HlsGood(stopped)
    BY <1>0, HlsOnUnpublishKeeps DEF HlsGood
  <2> HIDE DEF stopped
  <2> QED
    BY <1>0, <2>2, <2>3, <2>4, HlsOnPublishFair
<1>8. ASSUME NEW f \in Fault, NEW plan \in Plans, NEW on \in BOOLEAN, ReloadDvr(plan, on, f)
      PROVE  HlsInv'
  <2>1. /\ Call(f) /\ hls' = hls /\ config'.hls = config.hls
        /\ UNCHANGED <<publish, headers>>
    BY <1>0, <1>8 DEF ReloadDvr, source, SourceOK
  <2> QED
    BY <2>1, NoFailure DEF HlsInv
<1>9. CASE UNCHANGED vars
  BY <1>9 DEF HlsInv, vars, source, history
<1> QED
  BY <1>1, <1>2, <1>3, <1>4, <1>5, <1>6, <1>7, <1>8, <1>9 DEF Next

\* The inductive invariant of the recorders in which nothing fails.
FaultlessInv == RecInv /\ IdleInv /\ DvrInv /\ HlsInv

LEMMA FaultlessInit == Init => FaultlessInv
<1> SUFFICES ASSUME Init PROVE FaultlessInv
  OBVIOUS
<1> USE RecordersAssumption
<1>1. RecInv
  BY RecordersInit
<1>2. PICK r \in BOOLEAN : hls = NewHls(r)
  BY DEF Init
<1>3. /\ hls.enabled = FALSE /\ hls.current = NoSegment /\ hls.segments = <<>>
      /\ hls.m3u8 = <<>> /\ hls.af <= hls.stream_dts
  BY <1>2 DEF NewHls
<1>4. HlsFine(hls)
  <2>1. Numbers(<<>>) = <<>> /\ DOMAIN <<>> = {}
    BY DEF Numbers
  <2>2. ListWell(hls)
    BY <1>3, <2>1 DEF ListWell, Served
  <2> QED
    BY <1>3, <2>2, NoneIsWell DEF HlsFine
<1>5. publish = "none" /\ headers = {}
  BY DEF Init
<1>6. HlsInv
  BY <1>3, <1>4, <1>5 DEF HlsInv
<1>7. PICK plan \in Plans : dvr = NewPlan(plan, <<>>)
  <2>1. vhost.dvr \in Plans \cup {"off"}
    BY DEF Init
  <2>2. (IF vhost.dvr = "off" THEN "session" ELSE vhost.dvr) \in Plans
    BY <2>1 DEF Plans
  <2> QED
    BY <2>2 DEF Init
<1>8. dvr.enabled = FALSE /\ dvr.fs = 0 /\ DOMAIN dvr.files = {}
  <2>1. dvr.enabled = FALSE /\ dvr.fs = 0 /\ dvr.files = <<>>
    BY <1>7 DEF NewPlan
  <2> QED
    BY <2>1
<1>9. DvrInv
  <2>1. AllNamed(dvr) /\ OneSession(dvr, session)
    BY <1>8 DEF AllNamed, OneSession
  <2> QED
    BY <1>5, <1>7, <2>1, NewPlanIsFine DEF DvrInv
<1>10. IdleInv
  BY <1>3, <1>5, <1>8 DEF IdleInv
<1> QED
  BY <1>1, <1>6, <1>9, <1>10 DEF FaultlessInv

LEMMA FaultlessInvariant == Spec => []FaultlessInv
<1>1. FaultlessInv /\ [Next]_vars => FaultlessInv'
  <2> SUFFICES ASSUME FaultlessInv, [Next]_vars PROVE FaultlessInv'
    OBVIOUS
  <2>1. RecInv /\ IdleInv /\ DvrInv /\ HlsInv
    BY DEF FaultlessInv
  <2>2. RecInv' /\ IdleInv' /\ DvrInv' /\ HlsInv'
    BY <2>1, RecordersStep, IdleStep, DvrStep, HlsStep
  <2> QED
    BY <2>2 DEF FaultlessInv
<1> QED
  BY <1>1, FaultlessInit, PTL DEF Spec

(* As long as nothing fails in HLS and rename() replaces the old m3u8, every file the
   m3u8 lists is there, and all the segments but the oldest are less than a second
   longer than the window, for any length of a second, a fragment and a window. *)
THEOREM PlaylistServed == Spec => []PlaylistIsServed
<1>1. FaultlessInv => PlaylistIsServed
  <2> SUFFICES ASSUME FaultlessInv, hls.replaces, "hls" \notin faults
               PROVE  /\ Range(hls.m3u8) \subseteq hls.ts
                      /\ hls.segments # <<>> =>
                           Duration(Tail(hls.segments)) < (HlsWindow + 1) * HlsSecond
    BY DEF PlaylistIsServed
  <2>1. Served(hls)
    BY DEF FaultlessInv, HlsInv, HlsFine, HlsWell, ListWell
  <2>3. ASSUME hls.segments # <<>>
        PROVE  Duration(Tail(hls.segments)) < (HlsWindow + 1) * HlsSecond
    <3>1. Tail(hls.segments) \in Seq(Segment)
      BY <2>3 DEF FaultlessInv, RecInv, HlsGood, HlsSound, HlsRecorder
    <3>2. Duration(Tail(hls.segments)) \in Nat
      BY <3>1, DurationIsNumber
    <3>3. Duration(Tail(hls.segments)) \div HlsSecond <= HlsWindow
      BY <2>1, <2>3 DEF Served, Seconds
    <3> QED
      BY <3>2, <3>3, WholeSeconds, HlsAssumption
  <2>2. Range(hls.m3u8) \subseteq hls.ts
    BY <2>1 DEF Served, Range, Numbers
  <2> QED
    BY <2>2, <2>3
<1> QED
  BY <1>1, FaultlessInvariant, PTL

(* As long as nothing fails in HLS, the first segment of a publish or a reload is
   marked as a discontinuity when it gets into the m3u8. *)
THEOREM DiscontinuitiesMarked == Spec => []DiscontinuitiesAreMarked
<1>1. FaultlessInv => DiscontinuitiesAreMarked
  BY DEF FaultlessInv, HlsInv, HlsFine, HlsWell, ListWell, DiscontinuitiesAreMarked
<1> QED
  BY <1>1, FaultlessInvariant, PTL

(* A recorder in which nothing fails records whenever the stream is published and
   the configuration has it, and is off between publishes. *)
THEOREM RecordersFollow == Spec => []RecordersFollowPublisher
<1>1. FaultlessInv => RecordersFollowPublisher
  <2> SUFFICES ASSUME FaultlessInv PROVE RecordersFollowPublisher
    OBVIOUS
  <2>1. IdleInv /\ DvrInv /\ HlsInv
    BY DEF FaultlessInv
  <2>2. ASSUME publish = "on"
        PROVE  /\ config.hls /\ hls.replaces /\ "hls" \notin faults => hls.enabled
               /\ config.dvr /\ "dvr" \notin faults => dvr.enabled
    BY <2>1, <2>2 DEF HlsInv, DvrInv
  <2>3. ASSUME publish = "none", \A i \in DOMAIN reloads : ~reloads[i].idle
        PROVE  /\ ~hls.enabled /\ ~dvr.enabled
               /\ faults = {} => /\ hls.current = NoSegment
                                 /\ dvr.plan = "session" => dvr.fs = 0
    <3>1. ~hls.enabled /\ ~dvr.enabled
      BY <2>1, <2>3 DEF IdleInv, IdleReload
    <3>2. faults = {} => HlsFine(hls) /\ DvrFine(dvr)
      BY <2>1 DEF HlsInv, DvrInv
    <3> QED
      BY <3>1, <3>2 DEF HlsFine, DvrFine
  <2> QED
    BY <2>2, <2>3 DEF RecordersFollowPublisher
<1> QED
  BY <1>1, FaultlessInvariant, PTL

(* In a DVR in which nothing fails each file is open or has got its name, the
   session plan has one session in a file, and a segment ends soon after dvr_duration. *)
THEOREM RecordingsKept == Spec => []RecordingsAreKept
<1>1. FaultlessInv => RecordingsAreKept
  <2> SUFFICES ASSUME FaultlessInv, "dvr" \notin faults
               PROVE  /\ DvrReloaded \/ AllNamed(dvr)
                      /\ dvr.plan = "session" /\ ~DvrReloaded =>
                           \A i \in DOMAIN dvr.files : Cardinality(dvr.files[i].sessions) <= 1
                      /\ dvr.plan = "segment" => dvr.duration <= DvrDuration
    BY DEF RecordingsAreKept, FilesAreReaped, AllNamed
  <2>1. /\ DvrFine(dvr)
        /\ ~DvrReloaded => AllNamed(dvr) /\ (dvr.plan = "session" => OneSession(dvr, session))
    BY DEF FaultlessInv, DvrInv
  <2>2. ASSUME dvr.plan = "session", ~DvrReloaded, NEW i \in DOMAIN dvr.files
        PROVE  Cardinality(dvr.files[i].sessions) <= 1
    <3>1. PICK k \in Nat : dvr.files[i].sessions \subseteq {k}
      BY <2>1, <2>2 DEF OneSession
    <3>2. dvr.files[i].sessions = {} \/ dvr.files[i].sessions = {k}
      BY <3>1
    <3>3. Cardinality(dvr.files[i].sessions) \in {0, 1}
      BY <3>2, FS_EmptySet, FS_Singleton
    <3> QED
      BY <3>3
  <2> QED
    BY <2>1, <2>2 DEF DvrFine
<1> QED
  BY <1>1, FaultlessInvariant, PTL
==============================================================================
