---------------------------- MODULE SourcePublish ----------------------------
(***************************************************************************)
(* Publishing on an origin server: the publish branches of                 *)
(* SrsRtmpConn::stream_service_cycle, SrsSource::on_publish and            *)
(* on_unpublish, and the vector of forwarders, which starting and stopping *)
(* a forwarder leaves to the other coroutines while it waits for a thread. *)
(* A forwarder's SrsThread is seen as ThreadService describes it.          *)
(***************************************************************************)
EXTENDS Naturals, Sequences, FiniteSets, SequencesExt

CONSTANTS
  Publisher,     \* clients that publish the stream: each may come again
  Reloader,      \* the coroutine of SrsServer::cycle, which reloads
  NumServers,    \* servers the vhost forwards to
  MaxForwarders  \* bound: SrsForwarder objects at a time

ASSUME SourcePublishAssumption ==
  /\ Reloader \notin Publisher
  /\ NumServers \in Nat /\ MaxForwarders \in Nat

Coroutine == Publisher \cup {Reloader}
Object == 1..MaxForwarders

VARIABLES
  _can_publish,  \* SrsSource::_can_publish
  pc,            \* where each coroutine is
  index,         \* its position in the loop of create_ or destroy_forwarders()
  held,          \* the forwarder whose start() or stop() it is in (0: none)
  forwarders,    \* SrsSource::forwarders
  fwd,           \* phase of each forwarder object
  crossed,       \* history: a coroutine came into the calls of another
  reloaded       \* history: the forward of the vhost was reloaded

history == <<crossed, reloaded>>
vars == <<_can_publish, pc, index, held, forwarders, fwd, history>>

TypeOK ==
  /\ _can_publish \in BOOLEAN
  /\ pc \in [Coroutine -> {"out", "checked", "creating", "publishing", "destroying"}]
  /\ index \in [Coroutine -> Nat]
  /\ held \in [Coroutine -> Object \cup {0}]
  /\ forwarders \in Seq(Object)
  /\ \A c \in Coroutine : pc[c] = "creating" => index[c] \in 1..NumServers
  /\ fwd \in [Object -> {"idle", "starting", "on", "stopping", "exited", "freed"}]
  /\ crossed \in BOOLEAN /\ reloaded \in BOOLEAN

Init ==
  /\ _can_publish = TRUE
  /\ pc = [c \in Coroutine |-> "out"]
  /\ index = [c \in Coroutine |-> 0]
  /\ held = [c \in Coroutine |-> 0]
  /\ forwarders = <<>>
  /\ fwd = [o \in Object |-> "freed"]
  /\ crossed = FALSE /\ reloaded = FALSE

------------------------------------------------------------------------------

\* A coroutine is at position i of a loop, inside a call on forwarder o.
At(c, where, i, o) ==
  /\ pc' = [pc EXCEPT ![c] = where]
  /\ index' = [index EXCEPT ![c] = i]
  /\ held' = [held EXCEPT ![c] = o]

\* The vector v and the phases f of the forwarders as they are left.
Leaves(v, f) == forwarders' = v /\ fwd' = f

\* stop() waits for a thread that runs and that nobody else joins; of the others
\* it returns at once.
Waiting(i, v, f) == {k \in i..Len(v) : f[v[k]] \in {"starting", "on"}}

\* destroy_forwarders() from position i on: the forwarders before the first whose
\* stop() waits are freed.
Freed(i, v, f) ==
  LET upto == IF Waiting(i, v, f) = {} THEN Len(v) ELSE Min(Waiting(i, v, f)) - 1
      freed == {v[k] : k \in i..upto}
  IN [o \in Object |-> IF o \in freed THEN "freed" ELSE f[o]]

\* Mutant of StopWaits: the thread is not asked to end.
StopWaitsUnasked(c, i, v, f) ==
  LET k == Min(Waiting(i, v, f)) IN
  /\ Waiting(i, v, f) # {}
  /\ At(c, "destroying", k, v[k])
  /\ Leaves(v, Freed(i, v, f))

StopWaits(c, i, v, f) ==
  LET k == Min(Waiting(i, v, f)) IN
  /\ Waiting(i, v, f) # {}
  /\ At(c, "destroying", k, v[k])
  /\ Leaves(v, [Freed(i, v, f) EXCEPT ![v[k]] = "stopping"])

\* Mutants of UnpublishFrom: the vector is not cleared; _can_publish is not set.
UnpublishFromUncleared(p, i, v, f, can) ==
  \/ StopWaits(p, i, v, f) /\ _can_publish' = can
  \/ /\ Waiting(i, v, f) = {}
     /\ At(p, "out", 0, 0)
     /\ Leaves(v, Freed(i, v, f))
     /\ _can_publish' = TRUE

UnpublishFromBusy(p, i, v, f, can) ==
  \/ StopWaits(p, i, v, f) /\ _can_publish' = can
  \/ /\ Waiting(i, v, f) = {}
     /\ At(p, "out", 0, 0)
     /\ Leaves(<<>>, Freed(i, v, f))
     /\ _can_publish' = can

\* on_unpublish() from there, with _can_publish as can: behind the loop the vector
\* is cleared, and the stream is free again.
UnpublishFrom(p, i, v, f, can) ==
  \/ StopWaits(p, i, v, f) /\ _can_publish' = can
  \/ /\ Waiting(i, v, f) = {}
     /\ At(p, "out", 0, 0)
     /\ Leaves(<<>>, Freed(i, v, f))
     /\ _can_publish' = TRUE

\* Objects that are not allocated and that nothing points to any more.
Fresh(v, f) ==
  {o \in Object :
     f[o] = "freed" /\ o \notin ToSet(v) /\ \A c \in Coroutine : held[c] # o}

\* Server i is in the configuration; HasObjects sees to it that an object is left.
CanCreate(i, v, f) == i <= NumServers /\ Fresh(v, f) # {}

\* Mutant of CreateFrom: one server too many.
CreateFromBeyond(c, i, v, f) ==
  LET o == Min(Fresh(v, f)) IN
  /\ i <= NumServers + 1
  /\ At(c, "creating", i, o)
  /\ Leaves(Append(v, o), [f EXCEPT ![o] = "starting"])

\* create_forwarders() from server i on: a forwarder is in the vector before its
\* thread is started, and start() waits for the thread.
CreateFrom(c, i, v, f) ==
  LET o == Min(Fresh(v, f)) IN
  /\ CanCreate(i, v, f)
  /\ At(c, "creating", i, o)
  /\ Leaves(Append(v, o), [f EXCEPT ![o] = "starting"])

\* SrsForwarder::on_publish fails, by the loop check: it stays in the vector.
CreateFails(v, f) ==
  LET o == Min(Fresh(v, f)) IN [vector |-> Append(v, o), phases |-> [f EXCEPT ![o] = "idle"]]

\* The loop of SrsSource::on_publish from server i on, with _can_publish as can.
\* When it fails, and behind it the encoder, the hls and the dvr may, the publisher
\* unpublishes.
PublishFrom(p, i, v, f, can) ==
  \/ CreateFrom(p, i, v, f) /\ _can_publish' = can
  \/ /\ CanCreate(i, v, f)
     /\ UnpublishFrom(p, 1, CreateFails(v, f).vector, CreateFails(v, f).phases, can)
  \/ /\ i > NumServers
     /\ \/ At(p, "publishing", 0, 0) /\ Leaves(v, f) /\ _can_publish' = can
        \/ UnpublishFrom(p, 1, v, f, can)

\* on_reload_vhost_forward, behind destroy_forwarders().
RecreateFrom(i, v, f) ==
  /\ \/ CreateFrom(Reloader, i, v, f)
     \/ /\ CanCreate(i, v, f)
        /\ At(Reloader, "out", 0, 0)
        /\ Leaves(CreateFails(v, f).vector, CreateFails(v, f).phases)
     \/ i > NumServers /\ At(Reloader, "out", 0, 0) /\ Leaves(v, f)
  /\ UNCHANGED _can_publish

\* Mutant of ReloadFrom: the vector is not cleared.
ReloadFromUncleared(i, v, f) ==
  \/ StopWaits(Reloader, i, v, f) /\ UNCHANGED _can_publish
  \/ Waiting(i, v, f) = {} /\ RecreateFrom(1, v, Freed(i, v, f))

ReloadFrom(i, v, f) ==
  \/ StopWaits(Reloader, i, v, f) /\ UNCHANGED _can_publish
  \/ Waiting(i, v, f) = {} /\ RecreateFrom(1, <<>>, Freed(i, v, f))

------------------------------------------------------------------------------
(* The coroutines *)

\* Enough objects are left for one more on_publish() or reload.
HasObjects == Cardinality(Fresh(forwarders, fwd)) >= NumServers * (
  1 + Cardinality({c \in Coroutine : pc[c] \in {"checked", "creating", "destroying"}}))

\* Coroutine c comes while some other is where it should not be met.
Crosses(c, where) == crossed' = (crossed \/ \E d \in Coroutine \ {c} : pc[d] \in where)
Inside == {"checked", "creating", "destroying"}

\* The check of can_publish(): ERROR_SYSTEM_STREAM_BUSY.
Rejected(p) == pc[p] = "out" /\ ~_can_publish /\ UNCHANGED vars

Accepted(p) ==
  /\ pc[p] = "out"
  /\ _can_publish
  /\ HasObjects
  /\ At(p, "checked", 0, 0)
  /\ Crosses(p, Inside \cup {"publishing"})
  /\ UNCHANGED <<_can_publish, forwarders, fwd, reloaded>>

\* start_fmle_publish(), start_flash_publish() or the on_publish hook fails.
ServiceFails(p) ==
  /\ pc[p] = "checked"
  /\ At(p, "out", 0, 0)
  /\ UNCHANGED <<_can_publish, forwarders, fwd, history>>

\* The publish refer rejects the client: on_unpublish() without on_publish().
RefererRejected(p) ==
  pc[p] = "checked" /\ UnpublishFrom(p, 1, forwarders, fwd, _can_publish) /\ UNCHANGED history

\* Mutant of OnPublish: _can_publish is not cleared.
OnPublishFree(p) ==
  pc[p] = "checked" /\ PublishFrom(p, 1, forwarders, fwd, _can_publish) /\ UNCHANGED history

\* on_publish() clears _can_publish on its way in, and only there.
OnPublish(p) ==
  pc[p] = "checked" /\ PublishFrom(p, 1, forwarders, fwd, FALSE) /\ UNCHANGED history

\* start() is done when the thread has set its id or was told to end.
Started(c) == pc[c] = "creating" /\ fwd[held[c]] # "starting"

OnPublishGoesOn(p) ==
  /\ Started(p)
  /\ PublishFrom(p, index[p] + 1, forwarders, fwd, _can_publish)
  /\ UNCHANGED history

\* The client leaves: on_unpublish().
OnUnpublish(p) ==
  /\ pc[p] = "publishing"
  /\ UnpublishFrom(p, 1, forwarders, fwd, _can_publish)
  /\ Crosses(p, Inside)
  /\ UNCHANGED reloaded

\* stop() is done when the thread has exited; the forwarder is freed.  One that
\* another coroutine has freed meanwhile reads as it was left: a crash, the other
\* outcome of the build, would end the behaviour here.
Stopped(c) == pc[c] = "destroying" /\ fwd[held[c]] \in {"exited", "freed"}

OnUnpublishGoesOn(p) ==
  /\ Stopped(p)
  /\ UnpublishFrom(p, index[p] + 1, forwarders, [fwd EXCEPT ![held[p]] = "freed"], _can_publish)
  /\ UNCHANGED history

\* A reload may well come while a client publishes.
Reload ==
  /\ pc[Reloader] = "out"
  /\ HasObjects
  /\ ReloadFrom(1, forwarders, fwd)
  /\ Crosses(Reloader, Inside)
  /\ reloaded' = TRUE

ReloadStops ==
  /\ Stopped(Reloader)
  /\ ReloadFrom(index[Reloader] + 1, forwarders, [fwd EXCEPT ![held[Reloader]] = "freed"])
  /\ UNCHANGED history

ReloadStarts ==
  /\ Started(Reloader)
  /\ RecreateFrom(index[Reloader] + 1, forwarders, fwd)
  /\ UNCHANGED history

\* The threads of the forwarders: ThreadService.
ThreadStep(o) ==
  /\ \/ fwd[o] = "starting" /\ fwd' = [fwd EXCEPT ![o] = "on"]
     \/ fwd[o] = "stopping" /\ fwd' = [fwd EXCEPT ![o] = "exited"]
  /\ UNCHANGED <<_can_publish, pc, index, held, forwarders, history>>

Goes(p) == OnPublishGoesOn(p) \/ OnUnpublishGoesOn(p)

Next ==
  \/ \E p \in Publisher :
       \/ Rejected(p) \/ Accepted(p) \/ ServiceFails(p) \/ RefererRejected(p)
       \/ OnPublish(p) \/ OnUnpublish(p) \/ Goes(p)
  \/ Reload \/ ReloadStops \/ ReloadStarts
  \/ \E o \in Object : ThreadStep(o)

Spec == Init /\ [][Next]_vars

\* Threads run whenever they can, and a coroutine goes on when its wait is over.
Fairness ==
  /\ \A p \in Publisher : WF_vars(Goes(p))
  /\ WF_vars(ReloadStops \/ ReloadStarts)
  /\ \A o \in Object : WF_vars(ThreadStep(o))

FairSpec == Spec /\ Fairness

------------------------------------------------------------------------------
InService(p) == pc[p] \in {"creating", "publishing", "destroying"}

(* "can publish, true when is not streaming": nobody gives back the stream that
   another one publishes. The code does not keep it as it stands (README.md). *)
StreamingIsNotOffered == _can_publish => \A p \in Publisher : pc[p] # "publishing"

(* Nobody does until two publishers were accepted together. *)
CanPublishIfNotStreaming == ~crossed => StreamingIsNotOffered

(* A stream that nobody publishes can be published: _can_publish is given back
   on every way out, also when publishers and reloads cross. *)
IdleCanBePublished == (\A p \in Publisher : ~InService(p)) => _can_publish

(* One client publishes a stream, the next is told "stream %s is already
   publishing". *)
OnePublisher == \A p, q \in Publisher : InService(p) /\ InService(q) => p = q

(* Until a reload, which may fail half way: while a client publishes, each
   server has its forwarder and its thread runs; a stream nobody publishes has
   none.  No forwarder is left over, twice in the vector, or running outside. *)
ForwardersFollowPublisher == ~crossed /\ ~reloaded =>
  /\ \A p \in Publisher : pc[p] = "publishing" =>
       /\ Len(forwarders) = NumServers
       /\ \A o \in ToSet(forwarders) : fwd[o] = "on"
  /\ (\A p \in Publisher : ~InService(p)) => forwarders = <<>>
  /\ \A o \in Object : fwd[o] \in {"idle", "starting", "on", "stopping", "exited"}
       => Cardinality({i \in DOMAIN forwarders : forwarders[i] = o}) = 1

(* A stream that nobody publishes is not forwarded: the "vhost which forward publish
   streams" has a forwarder running only for a publisher, once a reload is over. The
   code does not keep it (README.md): the reload itself creates forwarders. *)
IdleIsNotForwarded ==
  pc[Reloader] = "out" /\ (\A p \in Publisher : ~InService(p)) =>
    \A i \in DOMAIN forwarders : fwd[forwarders[i]] # "on"

(* on_audio and on_video, which run while a publisher publishes and "copy to all
   forwarders", find each of them alive, also while a reload waits in the middle of
   destroy_forwarders(). The code does not keep it as it stands (README.md). *)
CopiedForwardersAreAlive ==
  ~crossed /\ (\E p \in Publisher : pc[p] = "publishing") =>
    \A i \in DOMAIN forwarders : fwd[forwarders[i]] # "freed"

(* Whoever is inside start() or stop() of a forwarder finds it alive, and so do
   on_audio and on_video once a reload is over. *)
UsedForwardersAreAlive == ~crossed =>
  /\ \A c \in Coroutine : pc[c] \in {"creating", "destroying"} => fwd[held[c]] # "freed"
  /\ pc[Reloader] = "out" => CopiedForwardersAreAlive

(* on_publish() and on_unpublish() come to an end, whatever the forwarders do,
   unless another coroutine frees a forwarder under them. *)
ServiceFinishes ==
  \A p \in Publisher :
    pc[p] \in {"creating", "destroying"} ~> (pc[p] \in {"publishing", "out"} \/ crossed)
==============================================================================
