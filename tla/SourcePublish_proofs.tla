------------------------- MODULE SourcePublish_proofs -------------------------
(***************************************************************************)
(* What TLAPS proves of SourcePublish, for any publishers, any number of   *)
(* servers and of forwarders: who holds the stream, that it is given back, *)
(* and that the forwarders that are used are alive.                        *)
(***************************************************************************)
EXTENDS SourcePublish, FiniteSetTheorems, WellFoundedInduction, TLAPS

Place == {"out", "checked", "creating", "publishing", "destroying"}

PlaceOK == pc \in [Coroutine -> Place]

\* The steps of one publisher.
PublisherStep(p) ==
  \/ Rejected(p) \/ Accepted(p) \/ ServiceFails(p) \/ RefererRejected(p)
  \/ OnPublish(p) \/ OnUnpublish(p) \/ Goes(p)

ReloaderStep == Reload \/ ReloadStops \/ ReloadStarts

\* What on_unpublish() comes to, wherever it is resumed: it waits for a
\* forwarder, or it is through and the stream is free.
LEMMA UnpublishOutcome ==
  ASSUME NEW p \in Publisher, NEW i, NEW v, NEW f, NEW can, PlaceOK,
         UnpublishFrom(p, i, v, f, can)
  PROVE  \/ pc' = [pc EXCEPT ![p] = "destroying"] /\ _can_publish' = can
         \/ pc' = [pc EXCEPT ![p] = "out"] /\ _can_publish' = TRUE
BY DEF UnpublishFrom, StopWaits, At

\* What on_publish() comes to: the publisher has the stream, or it unpublishes.
LEMMA PublishOutcome ==
  ASSUME NEW p \in Publisher, NEW i, NEW v, NEW f, NEW can, PlaceOK,
         PublishFrom(p, i, v, f, can)
  PROVE  \/ /\ \E w \in {"creating", "publishing"} : pc' = [pc EXCEPT ![p] = w]
            /\ _can_publish' = can
         \/ pc' = [pc EXCEPT ![p] = "destroying"] /\ _can_publish' = can
         \/ pc' = [pc EXCEPT ![p] = "out"] /\ _can_publish' = TRUE
<1>1. CASE CreateFrom(p, i, v, f) /\ _can_publish' = can
  BY <1>1 DEF CreateFrom, At
<1>2. CASE UnpublishFrom(p, 1, CreateFails(v, f).vector, CreateFails(v, f).phases, can)
  BY <1>2, UnpublishOutcome
<1>3. CASE At(p, "publishing", 0, 0) /\ _can_publish' = can
  BY <1>3 DEF At
<1>4. CASE UnpublishFrom(p, 1, v, f, can)
  BY <1>4, UnpublishOutcome
<1> QED
  BY <1>1, <1>2, <1>3, <1>4 DEF PublishFrom

\* A reload moves nobody but the reloader, and leaves the stream to its publisher.
LEMMA ReloadFrame ==
  ASSUME PlaceOK, ReloaderStep
  PROVE  /\ _can_publish' = _can_publish
         /\ PlaceOK'
         /\ \A p \in Publisher : pc'[p] = pc[p]
         /\ crossed => crossed'
<1>1. _can_publish' = _can_publish /\ \E w \in Place : pc' = [pc EXCEPT ![Reloader] = w]
  BY DEF ReloaderStep, Reload, ReloadStops, ReloadStarts, ReloadFrom, RecreateFrom, CreateFrom,
         StopWaits, At, Place
<1>2. crossed => crossed'
  BY DEF ReloaderStep, Reload, ReloadStops, ReloadStarts, Crosses, history
<1> QED
  BY <1>1, <1>2, SourcePublishAssumption DEF PlaceOK, Coroutine

\* What a publisher's step does to its place and to _can_publish.
LEMMA PublisherOutcome ==
  ASSUME NEW p \in Publisher, PlaceOK, PublisherStep(p)
  PROVE  /\ crossed => crossed'
         /\ \/ pc' = pc /\ _can_publish' = _can_publish
            \/ /\ pc[p] = "out" /\ pc' = [pc EXCEPT ![p] = "checked"]
               /\ _can_publish' = _can_publish
               /\ Crosses(p, Inside \cup {"publishing"})
            \/ /\ pc[p] = "checked" /\ pc' = [pc EXCEPT ![p] = "out"]
               /\ _can_publish' = _can_publish
            \/ /\ pc[p] # "out"
               /\ \E w \in {"creating", "publishing"} : pc' = [pc EXCEPT ![p] = w]
               /\ _can_publish' = FALSE \/ (pc[p] = "creating" /\ _can_publish' = _can_publish)
            \/ /\ pc[p] # "out"
               /\ pc' = [pc EXCEPT ![p] = "destroying"]
               /\ _can_publish' = FALSE \/ _can_publish' = _can_publish
            \/ /\ pc[p] # "out"
               /\ pc' = [pc EXCEPT ![p] = "out"] /\ _can_publish' = TRUE
<1>1. CASE Rejected(p)
  BY <1>1 DEF Rejected, vars, history
<1>2. CASE Accepted(p)
  BY <1>2 DEF Accepted, At, Crosses
<1>3. CASE ServiceFails(p)
  BY <1>3 DEF ServiceFails, At, history
<1>4. CASE RefererRejected(p)
  BY <1>4, UnpublishOutcome DEF RefererRejected, history
<1>5. CASE OnPublish(p)
  BY <1>5, PublishOutcome DEF OnPublish, history
<1>6. CASE OnUnpublish(p)
  BY <1>6, UnpublishOutcome DEF OnUnpublish, Crosses
<1>7. CASE OnPublishGoesOn(p)
  BY <1>7, PublishOutcome DEF OnPublishGoesOn, Started, history
<1>8. CASE OnUnpublishGoesOn(p)
  BY <1>8, UnpublishOutcome DEF OnUnpublishGoesOn, Stopped, history
<1> QED
  BY <1>1, <1>2, <1>3, <1>4, <1>5, <1>6, <1>7, <1>8 DEF PublisherStep, Goes

LEMMA ThreadFrame ==
  ASSUME NEW o \in Object, ThreadStep(o)
  PROVE  pc' = pc /\ _can_publish' = _can_publish /\ crossed' = crossed
BY DEF ThreadStep, history

------------------------------------------------------------------------------
IdleInv == PlaceOK /\ IdleCanBePublished

LEMMA IdleInvariance == Spec => []IdleInv
<1>1. Init => IdleInv
  BY DEF Init, IdleInv, PlaceOK, Place, IdleCanBePublished
<1>2. IdleInv /\ [Next]_vars => IdleInv'
  <2> SUFFICES ASSUME IdleInv, [Next]_vars PROVE IdleInv'
    OBVIOUS
  <2> USE DEF IdleInv, IdleCanBePublished, InService
  <2>1. ASSUME NEW p \in Publisher, PublisherStep(p) PROVE IdleInv'
    BY <2>1, PublisherOutcome DEF PlaceOK, Place, Coroutine
  <2>2. CASE ReloaderStep
    BY <2>2, ReloadFrame
  <2>3. ASSUME NEW o \in Object, ThreadStep(o) PROVE IdleInv'
    BY <2>3, ThreadFrame DEF PlaceOK
  <2>4. CASE UNCHANGED vars
    BY <2>4 DEF vars, PlaceOK
  <2> QED
    BY <2>1, <2>2, <2>3, <2>4 DEF Next, PublisherStep, ReloaderStep
<1> QED
  BY <1>1, <1>2, PTL DEF Spec

(* A stream that nobody is publishing can be published, whoever crosses whom:
   each way through on_publish() and on_unpublish() gives _can_publish back. *)
THEOREM StreamIsGivenBack == Spec => []IdleCanBePublished
<1>1. IdleInv => IdleCanBePublished
  BY DEF IdleInv
<1> QED
  BY <1>1, IdleInvariance, PTL

------------------------------------------------------------------------------
\* Until coroutines cross one publisher is accepted at a time, and it holds the
\* stream from its first forwarder on.
HolderInv ==
  ~crossed =>
    /\ \A p, q \in Publisher : pc[p] # "out" /\ pc[q] # "out" => p = q
    /\ \A p \in Publisher : pc[p] \in {"creating", "publishing"} => ~_can_publish

LEMMA HolderNext ==
  ASSUME PlaceOK, HolderInv, NEW p \in Publisher, PublisherStep(p) PROVE HolderInv'
<1> SUFFICES ASSUME ~crossed' PROVE HolderInv'
  BY DEF HolderInv
<1>1. ~crossed
  BY PublisherOutcome
<1>2. CASE /\ pc[p] = "out" /\ pc' = [pc EXCEPT ![p] = "checked"]
           /\ _can_publish' = _can_publish
           /\ Crosses(p, Inside \cup {"publishing"})
  <2>1. \A q \in Publisher \ {p} : pc[q] = "out"
    BY <1>1, <1>2 DEF Crosses, Inside, PlaceOK, Place, Coroutine
  <2> QED
    BY <1>1, <1>2, <2>1 DEF HolderInv, PlaceOK, Coroutine
<1>3. CASE pc[p] # "out"
  <2>1. \A q \in Publisher \ {p} : pc[q] = "out"
    BY <1>1, <1>3 DEF HolderInv
  <2>2. /\ \E w : pc' = [pc EXCEPT ![p] = w]
        /\ pc'[p] \in {"creating", "publishing"} => ~_can_publish'
    <3>1. pc[p] \in {"creating", "publishing"} => ~_can_publish
      BY <1>1 DEF HolderInv
    <3>2. \A w : pc' = [pc EXCEPT ![p] = w] => pc'[p] = w
      BY DEF PlaceOK, Coroutine
    <3>3. pc' = pc => pc' = [pc EXCEPT ![p] = pc[p]]
      BY DEF PlaceOK, Coroutine
    <3> QED
      BY <1>3, <3>1, <3>2, <3>3, PublisherOutcome
  <2>3. \A q \in Publisher \ {p} : pc'[q] = "out"
    BY <2>1, <2>2 DEF PlaceOK, Coroutine
  <2> QED
    BY <2>2, <2>3 DEF HolderInv
<1>4. CASE pc' = pc /\ _can_publish' = _can_publish
  BY <1>1, <1>4 DEF HolderInv
<1> QED
  BY <1>2, <1>3, <1>4, PublisherOutcome

LEMMA HolderInvariance == Spec => []HolderInv
<1>1. Init => PlaceOK /\ HolderInv
  BY SourcePublishAssumption DEF Init, PlaceOK, Place, HolderInv, Coroutine
<1>2. IdleInv /\ IdleInv' /\ HolderInv /\ [Next]_vars => HolderInv'
  <2> SUFFICES ASSUME PlaceOK, PlaceOK', HolderInv, [Next]_vars PROVE HolderInv'
    BY DEF IdleInv
  <2>1. ASSUME NEW p \in Publisher, PublisherStep(p) PROVE HolderInv'
    BY <2>1, HolderNext
  <2>2. CASE ReloaderStep
    BY <2>2, ReloadFrame DEF HolderInv
  <2>3. ASSUME NEW o \in Object, ThreadStep(o) PROVE HolderInv'
    BY <2>3, ThreadFrame DEF HolderInv
  <2>4. CASE UNCHANGED vars
    BY <2>4 DEF vars, history, HolderInv
  <2> QED
    BY <2>1, <2>2, <2>3, <2>4 DEF Next, PublisherStep, ReloaderStep
<1> QED
  BY <1>1, <1>2, IdleInvariance, PTL DEF Spec

(* "can publish, true when is not streaming": until publishers are accepted
   together nobody gives the stream away under the one who publishes. *)
THEOREM PublisherHoldsStream == Spec => []CanPublishIfNotStreaming
<1>1. HolderInv => CanPublishIfNotStreaming
  BY DEF HolderInv, CanPublishIfNotStreaming, StreamingIsNotOffered
<1> QED
  BY <1>1, HolderInvariance, PTL

------------------------------------------------------------------------------
(* The vector of forwarders *)

LEMMA MinIsLeast ==
  ASSUME NEW S \in SUBSET Nat, S # {}
  PROVE  Min(S) \in S /\ \A x \in S : Min(S) <= x
<1> DEFINE upTo == {0..x : x \in S}
<1>1. upTo # {} /\ upTo \subseteq FiniteSubsetsOf(Nat)
  <2>1. ASSUME NEW x \in S PROVE 0..x \in FiniteSubsetsOf(Nat)
    <3>1. IsFiniteSet(0..x) /\ 0..x \in SUBSET Nat
      BY FS_Interval
    <3> QED
      BY <3>1 DEF FiniteSubsetsOf
  <2> QED
    BY <2>1
<1>2. PICK T \in upTo : \A U \in upTo : <<U, T>> \notin StrictSubsetOrdering(Nat)
  BY <1>1, FS_StrictSubsetOrderingWellFounded, WFMin
<1>3. PICK x \in S : T = 0..x
  BY <1>2
<1>4. ASSUME NEW y \in S, y < x PROVE FALSE
  <2>1. 0..y \subseteq 0..x /\ 0..y # 0..x
    BY <1>4
  <2>2. 0..y \in SUBSET Nat /\ 0..x \in SUBSET Nat
    OBVIOUS
  <2>3. <<0..y, 0..x>> \in StrictSubsetOrdering(Nat)
    BY <2>1, <2>2 DEF StrictSubsetOrdering
  <2> QED
    BY <1>2, <1>3, <2>3
<1>5. \A y \in S : x <= y
  BY <1>4
<1> QED
  BY <1>5 DEF Min

Phase == {"idle", "starting", "on", "stopping", "exited", "freed"}
Phases == [Object -> Phase]

\* The vector holds no forwarder twice.
Vector == {v \in Seq(Object) : \A i, j \in 1..Len(v) : v[i] = v[j] => i = j}

AliveFrom(i, v, f) == \A k \in i..Len(v) : f[v[k]] # "freed"

\* What a call by coroutine c leaves: something of the right types; and, if the
\* forwarders it was about to use were alive, alive what c and others use next.
Typed(c) ==
  /\ \E w \in Place, i \in Nat, o \in Object \cup {0} :
       At(c, w, i, o) /\ (w = "creating" => i \in 1..NumServers)
  /\ forwarders' \in Vector /\ fwd' \in Phases

Used(c) ==
  \/ \E i \in 1..Len(forwarders') : /\ At(c, "destroying", i, forwarders'[i])
                                    /\ AliveFrom(i, forwarders', fwd')
  \/ /\ \E w \in Place \ {"destroying"}, i \in Nat, o \in Object \cup {0} :
          At(c, w, i, o) /\ (w = "creating" => o \in Object /\ fwd'[o] # "freed")
     /\ AliveFrom(1, forwarders', fwd')

\* Freeing the forwarders in front of the first that has to be joined leaves those
\* from there on as they are.
LEMMA FreedKeeps ==
  ASSUME NEW i \in Nat \ {0}, NEW v \in Vector, NEW f \in Phases
  PROVE  /\ Freed(i, v, f) \in Phases
         /\ Waiting(i, v, f) # {} =>
              /\ Min(Waiting(i, v, f)) \in i..Len(v)
              /\ \A k \in Min(Waiting(i, v, f))..Len(v) : Freed(i, v, f)[v[k]] = f[v[k]]
<1> DEFINE W == Waiting(i, v, f)
<1>1. W \in SUBSET Nat /\ W \subseteq i..Len(v)
  BY DEF Waiting, Vector
<1>2. Freed(i, v, f) \in Phases
  BY DEF Freed, Phases, Phase
<1>3. ASSUME W # {}
      PROVE  /\ Min(W) \in i..Len(v)
             /\ \A k \in Min(W)..Len(v) : Freed(i, v, f)[v[k]] = f[v[k]]
  <2>1. Min(W) \in W
    BY <1>1, <1>3, MinIsLeast
  <2>2. Min(W) \in i..Len(v) /\ Min(W) \in Nat /\ Len(v) \in Nat
    BY <1>1, <2>1 DEF Vector
  <2>3. ASSUME NEW k \in Min(W)..Len(v) PROVE Freed(i, v, f)[v[k]] = f[v[k]]
    <3>1. k \in 1..Len(v) /\ v[k] \in Object
      BY <2>2 DEF Vector
    <3>2. ASSUME NEW j \in i..(Min(W) - 1) PROVE v[j] # v[k]
      <4>1. j \in 1..Len(v) /\ j # k
        BY <2>2
      <4> QED
        BY <3>1, <4>1 DEF Vector
    <3> QED
      BY <1>3, <3>1, <3>2 DEF Freed
  <2> QED
    BY <2>2, <2>3
<1> QED
  BY <1>2, <1>3

LEMMA StopLeaves ==
  ASSUME NEW c \in Coroutine, NEW i \in Nat \ {0}, NEW v \in Vector, NEW f \in Phases,
         StopWaits(c, i, v, f)
  PROVE  Typed(c) /\ (AliveFrom(i, v, f) => Used(c))
<1> DEFINE k == Min(Waiting(i, v, f))
           g == [Freed(i, v, f) EXCEPT ![v[k]] = "stopping"]
<1>1. k \in i..Len(v) /\ Freed(i, v, f) \in Phases
      /\ \A j \in k..Len(v) : Freed(i, v, f)[v[j]] = f[v[j]]
  BY FreedKeeps DEF StopWaits
<1>2. At(c, "destroying", k, v[k]) /\ forwarders' = v /\ fwd' = g
  BY DEF StopWaits, Leaves
<1>3. k \in 1..Len(v) /\ v[k] \in Object /\ Len(v) \in Nat
  BY <1>1 DEF Vector
<1>4. g \in Phases
  BY <1>1, <1>3 DEF Phases, Phase
<1>5. Typed(c)
  BY <1>2, <1>3, <1>4 DEF Typed, Place
<1>6. ASSUME AliveFrom(i, v, f) PROVE AliveFrom(k, v, g)
  <2>1. ASSUME NEW j \in k..Len(v) PROVE g[v[j]] # "freed"
    <3>1. j \in i..Len(v) /\ v[j] \in Object
      BY <1>1, <1>3 DEF Vector
    <3>2. f[v[j]] # "freed" /\ Freed(i, v, f)[v[j]] # "freed"
      BY <1>1, <1>6, <3>1 DEF AliveFrom
    <3> QED
      BY <1>1, <3>1, <3>2 DEF Phases
  <2> QED
    BY <2>1 DEF AliveFrom
<1> QED
  BY <1>2, <1>3, <1>5, <1>6 DEF Used

LEMMA UnpublishLeaves ==
  ASSUME NEW p \in Publisher, NEW i \in Nat \ {0}, NEW v \in Vector, NEW f \in Phases,
         NEW can, UnpublishFrom(p, i, v, f, can)
  PROVE  Typed(p) /\ (AliveFrom(i, v, f) => Used(p))
<1>1. CASE StopWaits(p, i, v, f)
  BY <1>1, StopLeaves DEF Coroutine
<1>2. CASE At(p, "out", 0, 0) /\ Leaves(<<>>, Freed(i, v, f))
  <2>1. forwarders' = <<>> /\ fwd' \in Phases
    BY <1>2, FreedKeeps DEF Leaves
  <2>2. forwarders' \in Vector /\ AliveFrom(1, forwarders', fwd')
    BY <2>1 DEF Vector, AliveFrom
  <2> QED
    BY <1>2, <2>1, <2>2 DEF Typed, Used, Place
<1> QED
  BY <1>1, <1>2 DEF UnpublishFrom

\* A fresh object goes to the end of the vector, as another one.
LEMMA FreshAppends ==
  ASSUME NEW v \in Vector, NEW f \in Phases, Fresh(v, f) # {}, NEW w \in Phase, w # "freed"
  PROVE  LET o == Min(Fresh(v, f)) IN
           /\ o \in Object /\ Append(v, o) \in Vector /\ [f EXCEPT ![o] = w] \in Phases
           /\ AliveFrom(1, v, f) => AliveFrom(1, Append(v, o), [f EXCEPT ![o] = w])
           /\ [f EXCEPT ![o] = w][o] # "freed"
<1> DEFINE o == Min(Fresh(v, f))
<1>1. o \in Fresh(v, f)
  <2>1. Fresh(v, f) \in SUBSET Nat
    BY DEF Fresh, Object
  <2> QED
    BY <2>1, MinIsLeast
<1> HIDE DEF o
<1>2. o \in Object /\ \A i \in 1..Len(v) : v[i] # o
  <2>1. o \in Object /\ o \notin {v[i] : i \in DOMAIN v}
    BY <1>1 DEF Fresh, ToSet
  <2>2. DOMAIN v = 1..Len(v)
    BY DEF Vector
  <2> QED
    BY <2>1, <2>2
<1>3. /\ Append(v, o) \in Seq(Object) /\ Len(Append(v, o)) = Len(v) + 1
      /\ Append(v, o)[Len(v) + 1] = o /\ \A i \in 1..Len(v) : Append(v, o)[i] = v[i]
      /\ Len(v) \in Nat
  BY <1>2 DEF Vector
<1>4. Append(v, o) \in Vector
  <2>1. ASSUME NEW i \in 1..(Len(v) + 1), NEW j \in 1..(Len(v) + 1), Append(v, o)[i] = Append(v, o)[j]
        PROVE  i = j
    <3>1. CASE i \in 1..Len(v) /\ j \in 1..Len(v)
      BY <1>3, <2>1, <3>1 DEF Vector
    <3>2. CASE i = Len(v) + 1 \/ j = Len(v) + 1
      BY <1>2, <1>3, <2>1, <3>2
    <3> QED
      BY <1>3, <3>1, <3>2
  <2> QED
    BY <1>3, <2>1 DEF Vector
<1>5. [f EXCEPT ![o] = w] \in Phases /\ [f EXCEPT ![o] = w][o] # "freed"
  BY <1>2 DEF Phases
<1>6. ASSUME AliveFrom(1, v, f) PROVE AliveFrom(1, Append(v, o), [f EXCEPT ![o] = w])
  <2>1. ASSUME NEW k \in 1..(Len(v) + 1) PROVE [f EXCEPT ![o] = w][Append(v, o)[k]] # "freed"
    <3>1. CASE k \in 1..Len(v)
      <4>1. v[k] \in Object /\ v[k] # o /\ f[v[k]] # "freed"
        BY <1>2, <1>6, <3>1 DEF AliveFrom, Vector
      <4> QED
        BY <1>3, <3>1, <4>1 DEF Phases
    <3>2. CASE k = Len(v) + 1
      BY <1>3, <1>5, <3>2
    <3> QED
      BY <1>3, <3>1, <3>2
  <2> QED
    BY <1>3, <2>1 DEF AliveFrom
<1> QED
  BY <1>2, <1>4, <1>5, <1>6 DEF o

LEMMA CreateLeaves ==
  ASSUME NEW c \in Coroutine, NEW i \in Nat \ {0}, NEW v \in Vector, NEW f \in Phases,
         CreateFrom(c, i, v, f)
  PROVE  Typed(c) /\ (AliveFrom(1, v, f) => Used(c))
<1> DEFINE o == Min(Fresh(v, f))
<1>1. At(c, "creating", i, o) /\ forwarders' = Append(v, o) /\ fwd' = [f EXCEPT ![o] = "starting"]
      /\ i <= NumServers /\ Fresh(v, f) # {}
  BY DEF CreateFrom, CanCreate, Leaves
<1>2. /\ o \in Object /\ forwarders' \in Vector /\ fwd' \in Phases /\ fwd'[o] # "freed"
      /\ AliveFrom(1, v, f) => AliveFrom(1, forwarders', fwd')
  BY <1>1, FreshAppends DEF Phase
<1>3. i \in 1..NumServers /\ i \in Nat
  BY <1>1, SourcePublishAssumption
<1> QED
  BY <1>1, <1>2, <1>3 DEF Typed, Used, Place

LEMMA CreateFailsLeaves ==
  ASSUME NEW v \in Vector, NEW f \in Phases, Fresh(v, f) # {}
  PROVE  /\ CreateFails(v, f).vector \in Vector /\ CreateFails(v, f).phases \in Phases
         /\ AliveFrom(1, v, f) => AliveFrom(1, CreateFails(v, f).vector, CreateFails(v, f).phases)
BY FreshAppends DEF CreateFails, Phase

LEMMA PublishLeaves ==
  ASSUME NEW p \in Publisher, NEW i \in Nat \ {0}, NEW v \in Vector, NEW f \in Phases,
         NEW can, PublishFrom(p, i, v, f, can)
  PROVE  Typed(p) /\ (AliveFrom(1, v, f) => Used(p))
<1>1. CASE CreateFrom(p, i, v, f)
  BY <1>1, CreateLeaves DEF Coroutine
<1>2. CASE /\ CanCreate(i, v, f)
           /\ UnpublishFrom(p, 1, CreateFails(v, f).vector, CreateFails(v, f).phases, can)
  BY <1>2, CreateFailsLeaves, UnpublishLeaves DEF CanCreate
<1>3. CASE At(p, "publishing", 0, 0) /\ Leaves(v, f)
  BY <1>3 DEF Typed, Used, Place, Leaves
<1>4. CASE UnpublishFrom(p, 1, v, f, can)
  BY <1>4, UnpublishLeaves
<1> QED
  BY <1>1, <1>2, <1>3, <1>4 DEF PublishFrom

LEMMA RecreateLeaves ==
  ASSUME NEW i \in Nat \ {0}, NEW v \in Vector, NEW f \in Phases, RecreateFrom(i, v, f)
  PROVE  Typed(Reloader) /\ (AliveFrom(1, v, f) => Used(Reloader))
<1>1. CASE CreateFrom(Reloader, i, v, f)
  BY <1>1, CreateLeaves DEF Coroutine
<1>2. CASE /\ CanCreate(i, v, f) /\ At(Reloader, "out", 0, 0)
           /\ Leaves(CreateFails(v, f).vector, CreateFails(v, f).phases)
  BY <1>2, CreateFailsLeaves DEF CanCreate, Leaves, Typed, Used, Place
<1>3. CASE At(Reloader, "out", 0, 0) /\ Leaves(v, f)
  BY <1>3 DEF Typed, Used, Place, Leaves
<1> QED
  BY <1>1, <1>2, <1>3 DEF RecreateFrom

LEMMA ReloadLeaves ==
  ASSUME NEW i \in Nat \ {0}, NEW v \in Vector, NEW f \in Phases, ReloadFrom(i, v, f)
  PROVE  Typed(Reloader) /\ (AliveFrom(i, v, f) => Used(Reloader))
<1>1. CASE StopWaits(Reloader, i, v, f)
  BY <1>1, StopLeaves DEF Coroutine
<1>2. CASE RecreateFrom(1, <<>>, Freed(i, v, f))
  <2>1. <<>> \in Vector /\ Freed(i, v, f) \in Phases /\ AliveFrom(1, <<>>, Freed(i, v, f))
    <3>1. <<>> \in Seq(Object) /\ Len(<<>>) = 0
      OBVIOUS
    <3>2. <<>> \in Vector
      BY <3>1 DEF Vector
    <3>3. AliveFrom(1, <<>>, Freed(i, v, f))
      BY <3>1 DEF AliveFrom
    <3> QED
      BY <3>2, <3>3, FreedKeeps
  <2> QED
    BY <1>2, <2>1, RecreateLeaves
<1> QED
  BY <1>1, <1>2 DEF ReloadFrom
------------------------------------------------------------------------------
(* Types, and what is alive *)

TypeInv == TypeOK /\ forwarders \in Vector

\* The forwarders that coroutine c uses when it goes on.
Ahead(c) ==
  \/ /\ pc[c] = "destroying"
     /\ index[c] \in 1..Len(forwarders) /\ held[c] = forwarders[index[c]]
     /\ AliveFrom(index[c], forwarders, fwd)
  \/ pc[c] # "destroying" /\ AliveFrom(1, forwarders, fwd)

\* The steps of coroutine c, but for the rejected publish, which does nothing.
Moves(c) ==
  \/ c \in Publisher /\ PublisherStep(c) /\ ~Rejected(c)
  \/ c = Reloader /\ ReloaderStep

\* Behind a stop() the forwarder is freed, and those behind it are as they were.
LEMMA StoppedIsFreed ==
  ASSUME TypeInv, NEW c \in Coroutine, pc[c] = "destroying"
  PROVE  /\ [fwd EXCEPT ![held[c]] = "freed"] \in Phases
         /\ index[c] + 1 \in Nat \ {0}
         /\ Ahead(c) => AliveFrom(index[c] + 1, forwarders, [fwd EXCEPT ![held[c]] = "freed"])
<1> DEFINE g == [fwd EXCEPT ![held[c]] = "freed"]
<1>1. fwd \in Phases /\ index[c] \in Nat /\ Len(forwarders) \in Nat
  BY DEF TypeInv, TypeOK, Phases, Phase
<1>2. g \in Phases
  BY <1>1 DEF Phases, Phase
<1>3. ASSUME Ahead(c), NEW k \in (index[c] + 1)..Len(forwarders) PROVE g[forwarders[k]] # "freed"
  <2>1. /\ index[c] \in 1..Len(forwarders) /\ held[c] = forwarders[index[c]]
        /\ AliveFrom(index[c], forwarders, fwd)
    BY <1>3 DEF Ahead
  <2>2. k \in index[c]..Len(forwarders) /\ k \in 1..Len(forwarders) /\ k # index[c]
    BY <1>1, <2>1
  <2>3. fwd[forwarders[k]] # "freed"
    BY <2>1, <2>2 DEF AliveFrom
  <2>4. forwarders[k] # held[c] /\ forwarders[k] \in Object
    BY <2>1, <2>2 DEF TypeInv, Vector
  <2> QED
    BY <1>1, <2>3, <2>4 DEF Phases
<1> QED
  BY <1>1, <1>2, <1>3 DEF AliveFrom

LEMMA MoveLeaves ==
  ASSUME TypeInv, NEW c \in Coroutine, Moves(c)
  PROVE  Typed(c) /\ (Ahead(c) => Used(c))
<1>0. /\ forwarders \in Vector /\ fwd \in Phases /\ 1 \in Nat \ {0}
      /\ \A d \in Coroutine : index[d] + 1 \in Nat \ {0}
  BY DEF TypeInv, TypeOK, Phases, Phase
<1>1. ASSUME c \in Publisher, Accepted(c) \/ ServiceFails(c) PROVE Typed(c) /\ (Ahead(c) => Used(c))
  <2>1. /\ pc[c] # "destroying" /\ forwarders' = forwarders /\ fwd' = fwd
        /\ At(c, "checked", 0, 0) \/ At(c, "out", 0, 0)
    BY <1>1 DEF Accepted, ServiceFails
  <2> QED
    BY <1>0, <2>1 DEF Typed, Used, Ahead, Place
<1>2. ASSUME c \in Publisher, RefererRejected(c) \/ OnUnpublish(c)
      PROVE  Typed(c) /\ (Ahead(c) => Used(c))
  <2>1. pc[c] # "destroying" /\ UnpublishFrom(c, 1, forwarders, fwd, _can_publish)
    BY <1>2 DEF RefererRejected, OnUnpublish
  <2> QED
    BY <1>0, <1>2, <2>1, UnpublishLeaves DEF Ahead
<1>3. ASSUME c \in Publisher, OnPublish(c) PROVE Typed(c) /\ (Ahead(c) => Used(c))
  <2>1. pc[c] # "destroying" /\ PublishFrom(c, 1, forwarders, fwd, FALSE)
    BY <1>3 DEF OnPublish
  <2> QED
    BY <1>0, <1>3, <2>1, PublishLeaves DEF Ahead
<1>4. ASSUME c \in Publisher, OnPublishGoesOn(c) PROVE Typed(c) /\ (Ahead(c) => Used(c))
  <2>1. pc[c] # "destroying" /\ PublishFrom(c, index[c] + 1, forwarders, fwd, _can_publish)
    BY <1>4 DEF OnPublishGoesOn, Started
  <2> QED
    BY <1>0, <1>4, <2>1, PublishLeaves DEF Ahead
<1>5. ASSUME c \in Publisher, OnUnpublishGoesOn(c) PROVE Typed(c) /\ (Ahead(c) => Used(c))
  <2>1. /\ pc[c] = "destroying"
        /\ UnpublishFrom(c, index[c] + 1, forwarders, [fwd EXCEPT ![held[c]] = "freed"],
                         _can_publish)
    BY <1>5 DEF OnUnpublishGoesOn, Stopped
  <2> QED
    BY <1>0, <1>5, <2>1, StoppedIsFreed, UnpublishLeaves
<1>6. ASSUME c = Reloader, Reload PROVE Typed(c) /\ (Ahead(c) => Used(c))
  <2>1. pc[c] # "destroying" /\ ReloadFrom(1, forwarders, fwd)
    BY <1>6 DEF Reload
  <2> QED
    BY <1>0, <1>6, <2>1, ReloadLeaves DEF Ahead
<1>7. ASSUME c = Reloader, ReloadStops PROVE Typed(c) /\ (Ahead(c) => Used(c))
  <2>1. /\ pc[c] = "destroying"
        /\ ReloadFrom(index[c] + 1, forwarders, [fwd EXCEPT ![held[c]] = "freed"])
    BY <1>7 DEF ReloadStops, Stopped
  <2> QED
    BY <1>0, <1>7, <2>1, StoppedIsFreed, ReloadLeaves
<1>8. ASSUME c = Reloader, ReloadStarts PROVE Typed(c) /\ (Ahead(c) => Used(c))
  <2>1. pc[c] # "destroying" /\ RecreateFrom(index[c] + 1, forwarders, fwd)
    BY <1>8 DEF ReloadStarts, Started
  <2> QED
    BY <1>0, <1>8, <2>1, RecreateLeaves DEF Ahead
<1> QED
  BY <1>1, <1>2, <1>3, <1>4, <1>5, <1>6, <1>7, <1>8 DEF Moves, PublisherStep, ReloaderStep, Goes

\* A coroutine that was outside counts whom it meets inside.
LEMMA MoveMeets ==
  ASSUME TypeInv, NEW c \in Coroutine, Moves(c)
  PROVE  /\ _can_publish' \in BOOLEAN /\ crossed' \in BOOLEAN /\ reloaded' \in BOOLEAN
         /\ crossed => crossed'
         /\ pc[c] \in Inside \/ crossed' \/ \A d \in Coroutine \ {c} : pc[d] \notin Inside
<1>1. /\ PlaceOK /\ _can_publish \in BOOLEAN
      /\ crossed \in BOOLEAN /\ reloaded \in BOOLEAN
  BY DEF TypeInv, TypeOK, PlaceOK, Place
<1>2. CASE c \in Publisher /\ PublisherStep(c) /\ ~Rejected(c)
  <2>1. _can_publish' \in BOOLEAN
    BY <1>1, <1>2, PublisherOutcome
  <2>2. reloaded' = reloaded
    BY <1>2 DEF PublisherStep, Accepted, ServiceFails, RefererRejected, OnPublish, OnUnpublish,
                Goes, OnPublishGoesOn, OnUnpublishGoesOn, history
  <2>3. \/ crossed' = crossed /\ pc[c] \in Inside
        \/ crossed' = (crossed \/ \E d \in Coroutine \ {c} : pc[d] \in Inside \cup {"publishing"})
        \/ crossed' = (crossed \/ \E d \in Coroutine \ {c} : pc[d] \in Inside)
    BY <1>2 DEF PublisherStep, Accepted, ServiceFails, RefererRejected, OnPublish, OnUnpublish,
                Goes, OnPublishGoesOn, OnUnpublishGoesOn, Started, Stopped, Crosses, history, Inside
  <2> QED
    BY <1>1, <2>1, <2>2, <2>3
<1>3. CASE c = Reloader /\ ReloaderStep
  <2>1. _can_publish' \in BOOLEAN
    BY <1>1, <1>3, ReloadFrame
  <2>2. reloaded' \in BOOLEAN
    BY <1>1, <1>3 DEF ReloaderStep, Reload, ReloadStops, ReloadStarts, history
  <2>3. \/ crossed' = crossed /\ pc[c] \in Inside
        \/ crossed' = (crossed \/ \E d \in Coroutine \ {c} : pc[d] \in Inside)
    BY <1>3 DEF ReloaderStep, Reload, ReloadStops, ReloadStarts, Started, Stopped, Crosses,
                history, Inside
  <2> QED
    BY <1>1, <2>1, <2>2, <2>3
<1> QED
  BY <1>2, <1>3 DEF Moves

LEMMA TypeNext ==
  ASSUME TypeInv, NEW c \in Coroutine, Moves(c) PROVE TypeInv'
<1>1. PICK w \in Place, i \in Nat, o \in Object \cup {0} :
        At(c, w, i, o) /\ (w = "creating" => i \in 1..NumServers)
  BY MoveLeaves DEF Typed
<1>2. forwarders' \in Vector /\ fwd' \in Phases
  BY MoveLeaves DEF Typed
<1>3. forwarders' \in Seq(Object) /\ fwd' \in [Object -> Phase]
  BY <1>2 DEF Vector, Phases
<1>4. pc' \in [Coroutine -> Place] /\ index' \in [Coroutine -> Nat]
      /\ held' \in [Coroutine -> Object \cup {0}]
  BY <1>1 DEF At, TypeInv, TypeOK, Place
<1>5. \A d \in Coroutine : pc'[d] = "creating" => index'[d] \in 1..NumServers
  BY <1>1 DEF At, TypeInv, TypeOK
<1>6. _can_publish' \in BOOLEAN /\ crossed' \in BOOLEAN /\ reloaded' \in BOOLEAN
  BY MoveMeets
<1> QED
  BY <1>2, <1>3, <1>4, <1>5, <1>6 DEF TypeInv, TypeOK, Place, Phase

\* The thread of a forwarder changes nothing but the phase of a forwarder that is
\* not freed.
LEMMA ThreadLeaves ==
  ASSUME TypeInv, NEW o \in Object, ThreadStep(o)
  PROVE  /\ TypeInv'
         /\ \A x \in Object : fwd'[x] = "freed" <=> fwd[x] = "freed"
         /\ UNCHANGED <<pc, index, held, forwarders, crossed>>
<1>1. UNCHANGED <<_can_publish, pc, index, held, forwarders, crossed, reloaded>>
  BY DEF ThreadStep, history
<1>2. fwd \in [Object -> Phase]
  BY DEF TypeInv, TypeOK, Phase
<1>3. fwd' \in [Object -> Phase] /\ \A x \in Object : fwd'[x] = "freed" <=> fwd[x] = "freed"
  BY <1>2 DEF ThreadStep, Phase
<1> QED
  BY <1>1, <1>3 DEF TypeInv, TypeOK, Phase

\* One step of the system.
LEMMA NextMoves ==
  ASSUME [Next]_vars
  PROVE  \/ \E c \in Coroutine : Moves(c)
         \/ \E o \in Object : ThreadStep(o)
         \/ UNCHANGED vars
BY DEF Next, Moves, PublisherStep, ReloaderStep, Rejected, Coroutine

LEMMA TypeInvariance == Spec => []TypeInv
<1>1. Init => TypeInv
  <2> SUFFICES ASSUME Init PROVE TypeInv
    OBVIOUS
  <2>1. forwarders \in Seq(Object) /\ Len(forwarders) = 0
    BY DEF Init
  <2>2. forwarders \in Vector
    BY <2>1 DEF Vector
  <2> QED
    BY <2>1, <2>2 DEF Init, TypeInv, TypeOK
<1>2. TypeInv /\ [Next]_vars => TypeInv'
  <2> SUFFICES ASSUME TypeInv, [Next]_vars PROVE TypeInv'
    OBVIOUS
  <2>1. CASE UNCHANGED vars
    BY <2>1 DEF vars, history, TypeInv, TypeOK
  <2> QED
    BY <2>1, NextMoves, TypeNext, ThreadLeaves
<1> QED
  BY <1>1, <1>2, PTL DEF Spec

(* Each variable keeps its type, whoever crosses whom; the vector holds no
   forwarder twice. *)
THEOREM TypeCorrect == Spec => []TypeOK
<1>1. TypeInv => TypeOK
  BY DEF TypeInv
<1> QED
  BY <1>1, TypeInvariance, PTL

------------------------------------------------------------------------------
\* Until coroutines cross: one of them at most is inside the calls, the forwarders
\* it comes to are alive, and all of them are when none is being destroyed.
UsedInv ==
  ~crossed =>
    /\ \A c, d \in Coroutine : pc[c] \in Inside /\ pc[d] \in Inside => c = d
    /\ \A c \in Coroutine : pc[c] = "destroying" => Ahead(c)
    /\ \A c \in Coroutine : pc[c] = "creating" => held[c] \in Object /\ fwd[held[c]] # "freed"
    /\ (\A c \in Coroutine : pc[c] # "destroying") => AliveFrom(1, forwarders, fwd)

LEMMA UsedNext ==
  ASSUME TypeInv, UsedInv, NEW c \in Coroutine, Moves(c) PROVE UsedInv'
<1> SUFFICES ASSUME ~crossed' PROVE UsedInv'
  BY DEF UsedInv
<1>1. ~crossed /\ \A d \in Coroutine \ {c} : pc[d] \notin Inside
  <2>1. ~crossed /\ (pc[c] \in Inside \/ \A d \in Coroutine \ {c} : pc[d] \notin Inside)
    BY MoveMeets
  <2> QED
    BY <2>1 DEF UsedInv
<1>2. Ahead(c)
  <2>1. CASE pc[c] = "destroying"
    BY <1>1, <2>1 DEF UsedInv
  <2>2. CASE pc[c] # "destroying"
    BY <1>1, <2>2 DEF UsedInv, Ahead, Inside
  <2> QED
    BY <2>1, <2>2
<1>3. Used(c)
  BY <1>2, MoveLeaves
<1>4. pc \in [Coroutine -> Place] /\ index \in [Coroutine -> Nat]
      /\ held \in [Coroutine -> Object \cup {0}]
  BY DEF TypeInv, TypeOK, Place
<1>5. \A w, i, o : At(c, w, i, o) =>
        /\ \A d \in Coroutine \ {c} : pc'[d] \notin Inside
        /\ pc'[c] = w /\ index'[c] = i /\ held'[c] = o
  BY <1>1, <1>4 DEF At
<1>6. ASSUME NEW i \in 1..Len(forwarders'), At(c, "destroying", i, forwarders'[i]),
             AliveFrom(i, forwarders', fwd')
      PROVE  UsedInv'
  <2>1. /\ \A d \in Coroutine \ {c} : pc'[d] \notin Inside
        /\ pc'[c] = "destroying" /\ index'[c] = i /\ held'[c] = forwarders'[i]
    BY <1>5, <1>6
  <2>2. Ahead(c)'
    BY <1>6, <2>1 DEF Ahead
  <2> QED
    BY <2>1, <2>2 DEF UsedInv, Inside
<1>7. ASSUME NEW w \in Place \ {"destroying"}, NEW i \in Nat, NEW o \in Object \cup {0},
             At(c, w, i, o), w = "creating" => o \in Object /\ fwd'[o] # "freed",
             AliveFrom(1, forwarders', fwd')
      PROVE  UsedInv'
  <2>1. /\ \A d \in Coroutine \ {c} : pc'[d] \notin Inside
        /\ pc'[c] = w /\ held'[c] = o
    BY <1>5, <1>7
  <2> QED
    BY <1>7, <2>1 DEF UsedInv, Inside
<1> QED
  BY <1>3, <1>6, <1>7 DEF Used

LEMMA UsedThread ==
  ASSUME TypeInv, UsedInv, NEW o \in Object, ThreadStep(o) PROVE UsedInv'
<1>1. /\ \A x \in Object : fwd'[x] = "freed" <=> fwd[x] = "freed"
      /\ pc' = pc /\ index' = index /\ held' = held /\ forwarders' = forwarders
      /\ crossed' = crossed
  BY ThreadLeaves
<1>2. \A i \in Nat \ {0} : AliveFrom(i, forwarders, fwd) => AliveFrom(i, forwarders, fwd')
  <2>1. \A k \in 1..Len(forwarders) : forwarders[k] \in Object
    BY DEF TypeInv, Vector
  <2> QED
    BY <1>1, <2>1 DEF AliveFrom
<1>3. \A c \in Coroutine : Ahead(c) => Ahead(c)'
  BY <1>1, <1>2 DEF Ahead
<1> QED
  BY <1>1, <1>2, <1>3 DEF UsedInv

(* Until coroutines cross: whoever waits in start() or stop() finds its forwarder
   alive, and so does on_audio() or on_video() every forwarder of the vector. *)
THEOREM UsedIsAlive == Spec => []UsedForwardersAreAlive
<1>1. Init => UsedInv
  BY DEF Init, UsedInv, Inside, AliveFrom
<1>2. TypeInv /\ UsedInv /\ [Next]_vars => UsedInv'
  <2> SUFFICES ASSUME TypeInv, UsedInv, [Next]_vars PROVE UsedInv'
    OBVIOUS
  <2>1. CASE UNCHANGED vars
    BY <2>1 DEF vars, history, UsedInv, Ahead, AliveFrom
  <2> QED
    BY <2>1, NextMoves, UsedNext, UsedThread
<1>3. TypeInv /\ UsedInv /\ HolderInv => UsedForwardersAreAlive
  <2> SUFFICES ASSUME TypeInv, UsedInv, HolderInv, ~crossed PROVE UsedForwardersAreAlive
    BY DEF UsedForwardersAreAlive
  <2>1. ASSUME NEW c \in Coroutine, pc[c] \in {"creating", "destroying"}
        PROVE  fwd[held[c]] # "freed"
    <3>1. CASE pc[c] = "creating"
      BY <3>1 DEF UsedInv
    <3>2. CASE pc[c] = "destroying"
      <4>1. /\ index[c] \in 1..Len(forwarders) /\ held[c] = forwarders[index[c]]
            /\ AliveFrom(index[c], forwarders, fwd) /\ Len(forwarders) \in Nat
        BY <3>2 DEF UsedInv, Ahead, TypeInv, Vector
      <4> QED
        BY <4>1 DEF AliveFrom
    <3> QED
      BY <2>1, <3>1, <3>2
  <2>2. ASSUME pc[Reloader] = "out", NEW p \in Publisher, pc[p] = "publishing"
        PROVE  \A i \in DOMAIN forwarders : fwd[forwarders[i]] # "freed"
    <3>1. \A c \in Coroutine : pc[c] # "destroying"
      BY <2>2 DEF HolderInv, Coroutine
    <3>2. AliveFrom(1, forwarders, fwd) /\ DOMAIN forwarders = 1..Len(forwarders)
      BY <3>1 DEF UsedInv, TypeInv, Vector
    <3> QED
      BY <3>2 DEF AliveFrom
  <2> QED
    BY <2>1, <2>2 DEF UsedForwardersAreAlive, CopiedForwardersAreAlive
<1> QED
  BY <1>1, <1>2, <1>3, TypeInvariance, HolderInvariance, PTL DEF Spec
------------------------------------------------------------------------------
(* The forwarders follow the publisher *)

\* Every object in use is in the vector; those before position i are freed; the
\* first n have a thread that runs.
Listed(v, f) == \A o \in Object : f[o] # "freed" => \E k \in 1..Len(v) : v[k] = o
Gone(i, v, f) == \A k \in 1..Len(v) : k < i => f[v[k]] = "freed"
AllOn(n, v, f) == \A k \in 1..n : f[v[k]] = "on"

\* Where a publisher is in its loop says how far the forwarders are.
InPlace(p) ==
  /\ pc[p] = "creating" =>
       /\ Len(forwarders) = index[p] /\ held[p] = forwarders[index[p]]
       /\ AllOn(index[p] - 1, forwarders, fwd) /\ fwd[held[p]] \in {"starting", "on"}
  /\ pc[p] = "publishing" =>
       Len(forwarders) = NumServers /\ AllOn(NumServers, forwarders, fwd)
  /\ pc[p] = "destroying" =>
       /\ index[p] \in 1..Len(forwarders) /\ held[p] = forwarders[index[p]]
       /\ Gone(index[p], forwarders, fwd)

Follows(p) ==
  Listed(forwarders, fwd) /\ InPlace(p) /\ (~InService(p) => forwarders = <<>>)

\* What At leaves, as functions of c.
LEMMA AtPlaces ==
  ASSUME TypeInv, NEW c \in Coroutine, NEW w, NEW i, NEW o, At(c, w, i, o)
  PROVE  /\ pc'[c] = w /\ index'[c] = i /\ held'[c] = o
         /\ \A d \in Coroutine \ {c} : pc'[d] = pc[d]
BY DEF At, TypeInv, TypeOK

LEMMA FreedFrees ==
  ASSUME NEW i \in Nat \ {0}, NEW v \in Vector, NEW f \in Phases, Gone(i, v, f)
  PROVE  /\ \A o \in Object : Freed(i, v, f)[o] # "freed" => f[o] # "freed"
         /\ Waiting(i, v, f) = {} => \A k \in 1..Len(v) : Freed(i, v, f)[v[k]] = "freed"
         /\ Waiting(i, v, f) # {} => Gone(Min(Waiting(i, v, f)), v, Freed(i, v, f))
<1>1. \A k \in 1..Len(v) : v[k] \in Object
  BY DEF Vector
<1>2. ASSUME Waiting(i, v, f) = {}, NEW k \in 1..Len(v) PROVE Freed(i, v, f)[v[k]] = "freed"
  <2>1. Len(v) \in Nat
    BY DEF Vector
  <2>2. CASE k < i
    BY <1>1, <2>2 DEF Gone, Freed
  <2>3. CASE k \in i..Len(v)
    BY <1>1, <1>2, <2>3 DEF Freed
  <2> QED
    BY <2>1, <2>2, <2>3
<1>3. ASSUME Waiting(i, v, f) # {}, NEW k \in 1..Len(v), k < Min(Waiting(i, v, f))
      PROVE  Freed(i, v, f)[v[k]] = "freed"
  <2>1. Min(Waiting(i, v, f)) \in Nat /\ Len(v) \in Nat
    BY <1>3, FreedKeeps DEF Vector
  <2>2. CASE k < i
    BY <1>1, <2>2 DEF Gone, Freed
  <2>3. CASE k \in i..(Min(Waiting(i, v, f)) - 1)
    BY <1>1, <1>3, <2>3 DEF Freed
  <2> QED
    BY <1>3, <2>1, <2>2, <2>3
<1> QED
  BY <1>2, <1>3 DEF Freed, Gone

LEMMA StopFollows ==
  ASSUME TypeInv, NEW p \in Publisher, NEW i \in Nat \ {0}, NEW v \in Vector, NEW f \in Phases,
         Listed(v, f), Gone(i, v, f), StopWaits(p, i, v, f)
  PROVE  Follows(p)'
<1> DEFINE k == Min(Waiting(i, v, f))
           g == [Freed(i, v, f) EXCEPT ![v[k]] = "stopping"]
<1>1. At(p, "destroying", k, v[k]) /\ forwarders' = v /\ fwd' = g /\ Waiting(i, v, f) # {}
  BY DEF StopWaits, Leaves
<1>2. k \in i..Len(v) /\ Freed(i, v, f) \in Phases /\ Len(v) \in Nat
  BY <1>1, FreedKeeps DEF Vector
<1>3. k \in 1..Len(v) /\ v[k] \in Object
  BY <1>2 DEF Vector
<1>4. Gone(k, v, Freed(i, v, f)) /\ \A o \in Object : Freed(i, v, f)[o] # "freed" => f[o] # "freed"
  BY <1>1, FreedFrees
<1> HIDE DEF k
<1>5. Listed(v, g)
  <2>1. ASSUME NEW o \in Object, g[o] # "freed" PROVE \E j \in 1..Len(v) : v[j] = o
    <3>1. CASE o = v[k]
      BY <1>3, <3>1
    <3>2. CASE o # v[k]
      BY <1>2, <1>4, <2>1, <3>2 DEF Phases, Listed
    <3> QED
      BY <3>1, <3>2
  <2> QED
    BY <2>1 DEF Listed
<1>6. Gone(k, v, g)
  <2>1. ASSUME NEW j \in 1..Len(v), j < k PROVE g[v[j]] = "freed"
    <3>1. v[j] # v[k] /\ v[j] \in Object
      BY <1>3, <2>1 DEF Vector
    <3> QED
      BY <1>2, <1>4, <2>1, <3>1 DEF Phases, Gone
  <2> QED
    BY <2>1 DEF Gone
<1>7. pc'[p] = "destroying" /\ index'[p] = k /\ held'[p] = v[k]
  BY <1>1, AtPlaces DEF Coroutine
<1> QED
  BY <1>1, <1>3, <1>5, <1>6, <1>7 DEF Follows, InPlace, InService

LEMMA UnpublishFollows ==
  ASSUME TypeInv, NEW p \in Publisher, NEW i \in Nat \ {0}, NEW v \in Vector, NEW f \in Phases,
         Listed(v, f), Gone(i, v, f), NEW can, UnpublishFrom(p, i, v, f, can)
  PROVE  Follows(p)'
<1>1. CASE StopWaits(p, i, v, f)
  BY <1>1, StopFollows
<1>2. CASE Waiting(i, v, f) = {} /\ At(p, "out", 0, 0) /\ Leaves(<<>>, Freed(i, v, f))
  <2>1. forwarders' = <<>> /\ fwd' = Freed(i, v, f)
    BY <1>2 DEF Leaves
  <2>2. ASSUME NEW o \in Object, Freed(i, v, f)[o] # "freed" PROVE FALSE
    <3>1. f[o] # "freed" /\ \A k \in 1..Len(v) : Freed(i, v, f)[v[k]] = "freed"
      BY <1>2, <2>2, FreedFrees
    <3>2. PICK k \in 1..Len(v) : v[k] = o
      BY <3>1 DEF Listed
    <3> QED
      BY <2>2, <3>1, <3>2
  <2>3. Listed(forwarders', fwd')
    BY <2>1, <2>2 DEF Listed
  <2>4. pc'[p] = "out"
    BY <1>2, AtPlaces DEF Coroutine
  <2> QED
    BY <2>1, <2>3, <2>4 DEF Follows, InPlace
<1> QED
  BY <1>1, <1>2 DEF UnpublishFrom

\* An object that joins the vector is listed, and leaves the others as they are.
LEMMA AppendKeeps ==
  ASSUME NEW v \in Vector, NEW f \in Phases, Fresh(v, f) # {}, NEW w \in Phase, w # "freed",
         Listed(v, f), AllOn(Len(v), v, f)
  PROVE  LET o == Min(Fresh(v, f))
             u == Append(v, o)
             g == [f EXCEPT ![o] = w]
         IN /\ Listed(u, g) /\ AllOn(Len(v), u, g)
            /\ Len(u) = Len(v) + 1 /\ u[Len(v) + 1] = o /\ g[o] = w
<1> DEFINE o == Min(Fresh(v, f))
           u == Append(v, o)
           g == [f EXCEPT ![o] = w]
<1>1. o \in Object /\ o \in Fresh(v, f)
  <2>1. Fresh(v, f) \in SUBSET Nat
    BY DEF Fresh, Object
  <2>2. o \in Fresh(v, f)
    BY <2>1, MinIsLeast
  <2> QED
    BY <2>2 DEF Fresh
<1> HIDE DEF o
<1>2. \A k \in 1..Len(v) : v[k] # o /\ v[k] \in Object
  <2>1. o \notin {v[k] : k \in DOMAIN v}
    BY <1>1 DEF Fresh, ToSet
  <2> QED
    BY <2>1 DEF Vector
<1>3. /\ Len(u) = Len(v) + 1 /\ u[Len(v) + 1] = o /\ \A k \in 1..Len(v) : u[k] = v[k]
      /\ Len(v) \in Nat
  BY <1>1 DEF Vector
<1> HIDE DEF u
<1>4. g[o] = w /\ \A x \in Object : x # o => g[x] = f[x]
  BY <1>1 DEF Phases
<1> HIDE DEF g
<1>5. Listed(u, g)
  <2>1. ASSUME NEW x \in Object, g[x] # "freed" PROVE \E k \in 1..Len(u) : u[k] = x
    <3>1. CASE x = o
      BY <1>3, <3>1
    <3>2. CASE x # o
      <4>1. PICK k \in 1..Len(v) : v[k] = x
        BY <1>4, <2>1, <3>2 DEF Listed
      <4> QED
        BY <1>3, <4>1
    <3> QED
      BY <3>1, <3>2
  <2> QED
    BY <2>1 DEF Listed
<1>6. AllOn(Len(v), u, g)
  BY <1>2, <1>3, <1>4 DEF AllOn
<1> QED
  BY <1>3, <1>4, <1>5, <1>6 DEF o, u, g

LEMMA PublishFollows ==
  ASSUME TypeInv, NEW p \in Publisher, NEW i \in 1..(NumServers + 1), NEW v \in Vector,
         NEW f \in Phases, Len(v) = i - 1, Listed(v, f), AllOn(Len(v), v, f), NEW can,
         PublishFrom(p, i, v, f, can)
  PROVE  Follows(p)'
<1> USE SourcePublishAssumption
<1>1. CASE CreateFrom(p, i, v, f)
  <2> DEFINE o == Min(Fresh(v, f))
  <2>1. /\ At(p, "creating", i, o) /\ Fresh(v, f) # {}
        /\ forwarders' = Append(v, o) /\ fwd' = [f EXCEPT ![o] = "starting"]
    BY <1>1 DEF CreateFrom, CanCreate, Leaves
  <2>2. /\ Listed(forwarders', fwd') /\ AllOn(Len(v), forwarders', fwd')
        /\ Len(forwarders') = Len(v) + 1 /\ forwarders'[Len(v) + 1] = o /\ fwd'[o] = "starting"
    BY <2>1, AppendKeeps DEF Phase
  <2>3. pc'[p] = "creating" /\ index'[p] = i /\ held'[p] = o
    BY <2>1, AtPlaces DEF Coroutine
  <2> HIDE DEF o
  <2> QED
    BY <2>2, <2>3 DEF Follows, InPlace, InService
<1>2. CASE /\ CanCreate(i, v, f)
           /\ UnpublishFrom(p, 1, CreateFails(v, f).vector, CreateFails(v, f).phases, can)
  <2>1. CreateFails(v, f).vector \in Vector /\ CreateFails(v, f).phases \in Phases
    BY <1>2, CreateFailsLeaves DEF CanCreate
  <2>2. Listed(CreateFails(v, f).vector, CreateFails(v, f).phases)
    BY <1>2, AppendKeeps DEF CanCreate, CreateFails, Phase
  <2>3. Gone(1, CreateFails(v, f).vector, CreateFails(v, f).phases)
    BY DEF Gone
  <2> QED
    BY <1>2, <2>1, <2>2, <2>3, UnpublishFollows
<1>3. CASE i > NumServers /\ At(p, "publishing", 0, 0) /\ Leaves(v, f)
  <2>1. forwarders' = v /\ fwd' = f /\ pc'[p] = "publishing"
    BY <1>3, AtPlaces DEF Leaves, Coroutine
  <2>2. Len(v) = NumServers
    BY <1>3
  <2> QED
    BY <2>1, <2>2 DEF Follows, InPlace, InService
<1>4. CASE UnpublishFrom(p, 1, v, f, can)
  <2>1. Gone(1, v, f)
    BY DEF Gone
  <2> QED
    BY <1>4, <2>1, UnpublishFollows
<1> QED
  BY <1>1, <1>2, <1>3, <1>4 DEF PublishFrom

\* Until coroutines cross or a reload comes there is one publisher inside at most,
\* and the forwarders are where it is; with none inside there are none.
FollowInv ==
  ~crossed /\ ~reloaded =>
    /\ pc[Reloader] = "out" /\ Listed(forwarders, fwd)
    /\ (\A p \in Publisher : ~InService(p)) => forwarders = <<>>
    /\ \A p \in Publisher : InPlace(p)

LEMMA MoveFollows ==
  ASSUME TypeInv, NEW p \in Publisher, PublisherStep(p), ~Rejected(p), Listed(forwarders, fwd),
         InPlace(p), pc[p] \in {"out", "checked"} => forwarders = <<>>
  PROVE  Follows(p)'
<1> USE SourcePublishAssumption
<1>0. /\ forwarders \in Vector /\ fwd \in Phases /\ 1 \in Nat \ {0} /\ NumServers \in Nat
      /\ Gone(1, forwarders, fwd) /\ p \in Coroutine
  BY DEF TypeInv, TypeOK, Phases, Phase, Gone, Coroutine
<1>1. CASE Accepted(p) \/ ServiceFails(p)
  <2>1. /\ pc[p] \in {"out", "checked"} /\ forwarders' = forwarders /\ fwd' = fwd
        /\ At(p, "checked", 0, 0) \/ At(p, "out", 0, 0)
    BY <1>1 DEF Accepted, ServiceFails
  <2>2. pc'[p] \in {"out", "checked"}
    BY <1>0, <2>1, AtPlaces
  <2> QED
    BY <2>1, <2>2 DEF Follows, InPlace
<1>2. CASE RefererRejected(p) \/ OnUnpublish(p)
  BY <1>0, <1>2, UnpublishFollows DEF RefererRejected, OnUnpublish
<1>3. CASE OnPublish(p)
  <2>1. forwarders = <<>> /\ PublishFrom(p, 1, forwarders, fwd, FALSE)
    BY <1>3 DEF OnPublish
  <2>2. Len(forwarders) = 1 - 1 /\ AllOn(Len(forwarders), forwarders, fwd) /\ 1 \in 1..(NumServers + 1)
    BY <1>0, <2>1 DEF AllOn
  <2> QED
    BY <1>0, <2>1, <2>2, PublishFollows
<1>4. CASE OnPublishGoesOn(p)
  <2>1. /\ pc[p] = "creating" /\ fwd[held[p]] # "starting"
        /\ PublishFrom(p, index[p] + 1, forwarders, fwd, _can_publish)
    BY <1>4 DEF OnPublishGoesOn, Started
  <2>2. index[p] \in 1..NumServers
    BY <1>0, <2>1 DEF TypeInv, TypeOK
  <2>3. /\ Len(forwarders) = index[p] /\ fwd[forwarders[index[p]]] = "on"
        /\ AllOn(index[p] - 1, forwarders, fwd)
    BY <2>1 DEF InPlace
  <2>4. AllOn(Len(forwarders), forwarders, fwd)
    BY <2>2, <2>3 DEF AllOn
  <2>5. index[p] + 1 \in 1..(NumServers + 1) /\ Len(forwarders) = (index[p] + 1) - 1
    BY <1>0, <2>2, <2>3
  <2> QED
    BY <1>0, <2>1, <2>4, <2>5, PublishFollows
<1>5. CASE OnUnpublishGoesOn(p)
  <2> DEFINE g == [fwd EXCEPT ![held[p]] = "freed"]
  <2>1. pc[p] = "destroying" /\ UnpublishFrom(p, index[p] + 1, forwarders, g, _can_publish)
    BY <1>5 DEF OnUnpublishGoesOn, Stopped
  <2>2. /\ index[p] \in 1..Len(forwarders) /\ held[p] = forwarders[index[p]]
        /\ Gone(index[p], forwarders, fwd) /\ Len(forwarders) \in Nat
    BY <1>0, <2>1 DEF InPlace, Vector
  <2>3. g \in Phases /\ index[p] + 1 \in Nat \ {0}
    BY <1>0, <2>1, StoppedIsFreed
  <2>4. \A x \in Object : g[x] = IF x = held[p] THEN "freed" ELSE fwd[x]
    BY <1>0 DEF Phases
  <2> HIDE DEF g
  <2>5. Listed(forwarders, g)
    BY <2>4 DEF Listed
  <2>6. ASSUME NEW k \in 1..Len(forwarders), k < index[p] + 1 PROVE g[forwarders[k]] = "freed"
    <3>1. forwarders[k] \in Object
      BY <1>0 DEF Vector
    <3>2. CASE k = index[p]
      BY <2>2, <2>4, <3>1, <3>2
    <3>3. CASE k < index[p]
      BY <2>2, <2>4, <3>1, <3>3 DEF Gone
    <3> QED
      BY <2>2, <2>6, <3>2, <3>3
  <2>7. Gone(index[p] + 1, forwarders, g)
    BY <2>6 DEF Gone
  <2> QED
    BY <1>0, <2>1, <2>3, <2>5, <2>7, UnpublishFollows DEF g
<1> QED
  BY <1>1, <1>2, <1>3, <1>4, <1>5 DEF PublisherStep, Goes

LEMMA FollowNext ==
  ASSUME TypeInv, TypeInv', HolderInv, HolderInv', FollowInv, [Next]_vars PROVE FollowInv'
<1> SUFFICES ASSUME ~crossed', ~reloaded'
             PROVE  (/\ pc[Reloader] = "out" /\ Listed(forwarders, fwd)
                     /\ (\A p \in Publisher : ~InService(p)) => forwarders = <<>>
                     /\ \A p \in Publisher : InPlace(p))'
  BY DEF FollowInv
<1> USE SourcePublishAssumption
<1>1. ASSUME NEW p \in Publisher, PublisherStep(p), ~Rejected(p) PROVE FollowInv'
  <2>1. /\ PlaceOK /\ p \in Coroutine /\ Reloader \in Coroutine /\ Moves(p) /\ p # Reloader
    BY <1>1 DEF TypeInv, TypeOK, PlaceOK, Place, Coroutine, Moves
  <2>2. ~crossed /\ ~reloaded
    <3>1. ~crossed
      BY <1>1, <2>1, PublisherOutcome
    <3>2. reloaded' = reloaded
      BY <1>1 DEF PublisherStep, Accepted, ServiceFails, RefererRejected, OnPublish, OnUnpublish,
                  Goes, OnPublishGoesOn, OnUnpublishGoesOn, history
    <3> QED
      BY <3>1, <3>2
  <2>3. \A d \in Coroutine \ {p} : pc'[d] = pc[d]
    <3>1. \E w, i, o : At(p, w, i, o)
      BY <2>1, MoveLeaves DEF Typed
    <3> QED
      BY <2>1, <3>1, AtPlaces
  <2>4. \A q \in Publisher \ {p} : pc[q] = "out"
    <3>1. CASE pc[p] # "out"
      BY <2>2, <3>1 DEF HolderInv
    <3>2. CASE pc[p] = "out"
      <4>1. Crosses(p, Inside \cup {"publishing"})
        BY <1>1, <3>2 DEF PublisherStep, Accepted, ServiceFails, RefererRejected, OnPublish, OnUnpublish,
                    Goes, OnPublishGoesOn, OnUnpublishGoesOn, Started, Stopped
      <4> QED
        BY <2>1, <4>1 DEF Crosses, Inside, PlaceOK, Place, Coroutine
    <3> QED
      BY <3>1, <3>2
  <2>5. Listed(forwarders, fwd) /\ InPlace(p) /\ pc[Reloader] = "out"
    BY <2>2 DEF FollowInv
  <2>6. pc[p] \in {"out", "checked"} => forwarders = <<>>
    BY <2>2, <2>4 DEF FollowInv, InService
  <2>7. Follows(p)'
    BY <1>1, <2>5, <2>6, MoveFollows
  <2>8. \A q \in Publisher : InPlace(q)'
    BY <2>3, <2>4, <2>7 DEF Follows, InPlace, Coroutine
  <2>9. pc'[Reloader] = "out"
    BY <2>1, <2>3, <2>5
  <2> QED
    BY <2>7, <2>8, <2>9 DEF Follows, FollowInv
<1>2. CASE ReloaderStep
  <2>1. ~Reload
    BY DEF Reload
  <2>2. ~crossed /\ ~reloaded /\ pc[Reloader] \in {"creating", "destroying"}
    BY <1>2, <2>1 DEF ReloaderStep, ReloadStops, ReloadStarts, Started, Stopped, history
  <2> QED
    BY <2>2 DEF FollowInv
<1>3. ASSUME NEW o \in Object, ThreadStep(o) PROVE FollowInv'
  <2>1. /\ UNCHANGED <<pc, index, held, forwarders, crossed, reloaded>>
        /\ \A x \in Object : fwd'[x] = "freed" <=> fwd[x] = "freed"
    BY <1>3, ThreadLeaves DEF ThreadStep, history
  <2>2. fwd \in Phases /\ forwarders \in Vector /\ \A k \in 1..Len(forwarders) : forwarders[k] \in Object
    BY DEF TypeInv, TypeOK, Phases, Phase, Vector
  <2>3. \A x \in Object : /\ fwd[x] = "on" => fwd'[x] = "on"
                          /\ fwd[x] \in {"starting", "on"} => fwd'[x] \in {"starting", "on"}
    BY <1>3, <2>2 DEF ThreadStep, Phases
  <2>4. Listed(forwarders, fwd) => Listed(forwarders, fwd')
    BY <2>1 DEF Listed
  <2>5. ASSUME NEW p \in Publisher, InPlace(p) PROVE InPlace(p)'
    <3>1. \A n \in 0..Len(forwarders) : AllOn(n, forwarders, fwd) => AllOn(n, forwarders, fwd')
      BY <2>2, <2>3 DEF AllOn, Vector
    <3>2. \A i \in Nat : Gone(i, forwarders, fwd) => Gone(i, forwarders, fwd')
      BY <2>1, <2>2 DEF Gone
    <3>3. pc'[p] = pc[p] /\ index'[p] = index[p] /\ held'[p] = held[p] /\ forwarders' = forwarders
          /\ Len(forwarders) \in Nat
      BY <2>1, <2>2 DEF Vector
    <3>4. CASE pc[p] = "creating"
      <4>1. index[p] \in 1..NumServers
        BY <3>4 DEF TypeInv, TypeOK, Coroutine
      <4>2. /\ Len(forwarders) = index[p] /\ held[p] = forwarders[index[p]]
            /\ AllOn(index[p] - 1, forwarders, fwd) /\ fwd[held[p]] \in {"starting", "on"}
        BY <2>5, <3>4 DEF InPlace
      <4>3. index[p] - 1 \in 0..Len(forwarders) /\ held[p] \in Object
        BY <2>2, <4>1, <4>2
      <4> QED
        BY <2>3, <3>1, <3>3, <3>4, <4>2, <4>3 DEF InPlace
    <3>5. CASE pc[p] = "publishing"
      BY <2>5, <3>1, <3>3, <3>5 DEF InPlace
    <3>6. CASE pc[p] = "destroying"
      BY <2>5, <3>2, <3>3, <3>6 DEF InPlace
    <3> QED
      BY <3>3, <3>4, <3>5, <3>6 DEF InPlace
  <2> QED
    BY <2>1, <2>4, <2>5 DEF FollowInv, InService
<1>4. CASE UNCHANGED vars
  BY <1>4 DEF vars, history, FollowInv, InPlace, InService
<1>5. CASE \E p \in Publisher : Rejected(p)
  BY <1>4, <1>5 DEF Rejected
<1> QED
  BY <1>1, <1>2, <1>3, <1>4, <1>5 DEF Next, PublisherStep, ReloaderStep, FollowInv

(* Until coroutines cross or a reload comes: while a client publishes each server
   has its forwarder, whose thread runs; a stream nobody publishes has none, and
   none is left over or twice in the vector. *)
THEOREM ForwardersFollow == Spec => []ForwardersFollowPublisher
<1>1. Init => FollowInv
  <2> SUFFICES ASSUME Init PROVE FollowInv
    OBVIOUS
  <2>1. pc[Reloader] = "out" /\ \A p \in Publisher : pc[p] = "out"
    BY DEF Init, Coroutine
  <2> QED
    BY <2>1 DEF Init, FollowInv, Listed, InPlace
<1>2. TypeInv /\ TypeInv' /\ HolderInv /\ HolderInv' /\ FollowInv /\ [Next]_vars => FollowInv'
  BY FollowNext
<1>3. TypeInv /\ FollowInv => ForwardersFollowPublisher
  <2> SUFFICES ASSUME TypeInv, FollowInv, ~crossed, ~reloaded PROVE ForwardersFollowPublisher
    BY DEF ForwardersFollowPublisher
  <2>1. forwarders \in Vector /\ DOMAIN forwarders = 1..Len(forwarders) /\ Listed(forwarders, fwd)
    BY DEF TypeInv, Vector, FollowInv
  <2>2. ASSUME NEW p \in Publisher, pc[p] = "publishing"
        PROVE  /\ Len(forwarders) = NumServers
               /\ \A o \in ToSet(forwarders) : fwd[o] = "on"
    BY <2>1, <2>2 DEF FollowInv, InPlace, AllOn, ToSet
  <2>3. (\A p \in Publisher : ~InService(p)) => forwarders = <<>>
    BY DEF FollowInv
  <2>4. ASSUME NEW o \in Object, fwd[o] # "freed"
        PROVE  Cardinality({i \in DOMAIN forwarders : forwarders[i] = o}) = 1
    <3>1. PICK k \in 1..Len(forwarders) : forwarders[k] = o
      BY <2>1, <2>4 DEF Listed
    <3>2. {i \in DOMAIN forwarders : forwarders[i] = o} = {k}
      BY <2>1, <3>1 DEF Vector
    <3> QED
      BY <3>2, FS_Singleton
  <2> QED
    BY <2>2, <2>3, <2>4 DEF ForwardersFollowPublisher
<1> QED
  BY <1>1, <1>2, <1>3, TypeInvariance, HolderInvariance, PTL DEF Spec
==============================================================================
