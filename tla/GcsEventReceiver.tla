-------------------------- MODULE GcsEventReceiver --------------------------
(* The GCS Pub/Sub event receiver: one poller pulls notifications from a   *)
(* subscription, drops duplicates (within a batch, and of objects that     *)
(* were processed recently) and gives the others to a pool of workers,     *)
(* which read the named object, deliver its records batch by batch, note   *)
(* the position after each batch and acknowledge the notification.         *)
(*                                                                         *)
(* Pub/Sub and GCS both deliver at least once: several messages may        *)
(* announce the same generation of an object (KeyOf), and a message comes  *)
(* back when its deadline ends before it is acknowledged (at most MaxEarly *)
(* times while somebody holds it).  Every call may fail; Faults adds the   *)
(* failure of the offset storage ("save"), a shutdown and a crash.         *)
EXTENDS Integers, FiniteSets, Sequences

CONSTANTS
    Messages,           \* Pub/Sub messages
    Objects,            \* object names of the bucket
    Workers,
    ObjectOf(_), GenerationOf(_),   \* attributes of a message
    Finalize(_),        \* its event type is OBJECT_FINALIZE, its object wanted
    LiveOf(_),          \* the live generation when it is sent
    Batches,            \* batches of records in a generation
    Faults, MaxRuns, MaxEarly,
    None

ASSUME GcsAssumption ==
    /\ IsFiniteSet(Workers) /\ Workers # {}
    /\ \A m \in Messages : /\ ObjectOf(m) \in Objects
                           /\ GenerationOf(m) \in Nat \ {0}
                           /\ Finalize(m) \in BOOLEAN
                           /\ LiveOf(m) \in Nat /\ LiveOf(m) >= GenerationOf(m)
    /\ Batches \in Nat /\ MaxRuns \in Nat /\ MaxEarly \in Nat
    /\ None \notin Messages /\ None \notin [gen : Nat, pos : Nat]

VARIABLES
    generation,         \* GCS: the live generation of each object
    sub,                \* Pub/Sub: the state of each message
    early,              \* deadlines that ended too early
    offsets,            \* offset storage
    delivered,          \* <<object, generation, batch>> the consumer has
    recent,             \* recentTracker
    ppc, pulled,        \* the poller and the messages it holds
    msgChan,
    wpc, wmsg,          \* a worker and its message
    wgen, wpos,         \* generation being read, batches read
    phase, runs

cloud == <<generation, sub, early>>
poller == <<ppc, pulled, msgChan>>
worker == <<wpc, wmsg, wgen, wpos>>
vars == <<cloud, offsets, delivered, recent, poller, worker, phase, runs>>

\* objectKeyFromAttrs
KeyOf(m) == <<ObjectOf(m), GenerationOf(m)>>
Keys == Objects \X Nat
Offset == [gen : Nat, pos : Nat]
ChanCap == Cardinality(Workers)

TypeOK ==
    /\ generation \in [Objects -> Nat]
    /\ sub \in [Messages -> {"unsent", "ready", "out", "acked"}]
    /\ early \in Nat
    /\ offsets \in [Objects -> Offset \cup {None}]
    /\ delivered \subseteq Objects \X Nat \X Nat
    /\ recent \subseteq Keys
    /\ ppc \in {"pull", "dedup", "dispatch", "done"}
    /\ pulled \subseteq Messages
    /\ msgChan \in Seq(Messages) /\ Len(msgChan) <= ChanCap
    /\ wpc \in [Workers -> {"idle", "open", "load", "read", "save", "clean",
                            "mark", "done"}]
    /\ wmsg \in [Workers -> Messages \cup {None}]
    /\ wgen \in [Workers -> Nat] /\ wpos \in [Workers -> Nat]
    /\ phase \in {"running", "cancelled", "closed", "stopped"}
    /\ runs \in Nat

Init ==
    /\ generation = [o \in Objects |-> 0]
    /\ sub = [m \in Messages |-> "unsent"] /\ early = 0
    /\ offsets = [o \in Objects |-> None]
    /\ delivered = {} /\ recent = {}
    /\ ppc = "pull" /\ pulled = {} /\ msgChan = <<>>
    /\ wpc = [w \in Workers |-> "idle"]
    /\ wmsg = [w \in Workers |-> None]
    /\ wgen = [w \in Workers |-> 0] /\ wpos = [w \in Workers |-> 0]
    /\ phase = "running" /\ runs = 1

Cancelled == phase # "running"

\* Acknowledge, for some of the messages of A: the others' calls fail.
Acked(A) ==
    \E S \in SUBSET A :
        sub' = [m \in Messages |-> IF m \in S THEN "acked" ELSE sub[m]]

-----------------------------------------------------------------------------
(* Google Cloud Storage and Pub/Sub.                                       *)

\* A generation is written and announced, announced again, changed, or
\* deleted because the next one replaces it.
Publish(m) ==
    LET o == ObjectOf(m)
        g == LiveOf(m) IN
    /\ sub[m] = "unsent"
    /\ generation[o] \in {g - 1, g}
    /\ generation' = [generation EXCEPT ![o] = g]
    /\ sub' = [sub EXCEPT ![m] = "ready"]
    /\ UNCHANGED <<early, offsets, delivered, recent, poller, worker, phase, runs>>

Held(m) ==
    \/ m \in pulled
    \/ \E i \in DOMAIN msgChan : msgChan[i] = m
    \/ \E w \in Workers : wmsg[w] = m

\* The deadline ends of a message nobody holds, or too early: nobody extends
\* it in the channel, and extendAckDeadline gives up in the end.
DeadlineEnds(m) ==
    /\ sub[m] = "out"
    /\ IF Held(m) THEN early < MaxEarly /\ early' = early + 1 ELSE UNCHANGED early
    /\ sub' = [sub EXCEPT ![m] = "ready"]
    /\ UNCHANGED <<generation, offsets, delivered, recent, poller, worker, phase, runs>>

-----------------------------------------------------------------------------
(* The poller.                                                             *)

\* pullMessages: at most one message for each worker
Pull(S) ==
    /\ ppc = "pull" /\ ~Cancelled
    /\ S # {} /\ Cardinality(S) <= ChanCap /\ \A m \in S : sub[m] = "ready"
    /\ sub' = [m \in Messages |-> IF m \in S THEN "out" ELSE sub[m]]
    /\ pulled' = S
    /\ ppc' = "dedup"
    /\ UNCHANGED <<generation, early, offsets, delivered, recent, msgChan, worker,
                   phase, runs>>

\* ... none, or an error
PullNothing ==
    /\ ppc = "pull" /\ ~Cancelled
    /\ UNCHANGED vars

\* one of the messages of each key: the first in the batch, whose order is
\* arbitrary
OneOfEach(S, U) ==
    /\ U \subseteq S
    /\ \A m \in S : \E u \in U : KeyOf(u) = KeyOf(m)
    /\ \A u, v \in U : KeyOf(u) = KeyOf(v) => u = v

\* the whole batch is acknowledged
BadBatchDedup(U) ==
    /\ ppc = "dedup" /\ OneOfEach(pulled, U)
    /\ Acked(pulled)
    /\ pulled' = U /\ ppc' = "dispatch"
    /\ UNCHANGED <<generation, early, offsets, delivered, recent, msgChan, worker,
                   phase, runs>>

\* batchDedup: the others are acknowledged at once
batchDedup(U) ==
    /\ ppc = "dedup" /\ OneOfEach(pulled, U)
    /\ Acked(pulled \ U)
    /\ pulled' = U /\ ppc' = "dispatch"
    /\ UNCHANGED <<generation, early, offsets, delivered, recent, msgChan, worker,
                   phase, runs>>

\* an object that was processed recently is acknowledged
Duplicate(m) ==
    /\ ppc = "dispatch" /\ m \in pulled /\ KeyOf(m) \in recent
    /\ Acked({m})
    /\ pulled' = pulled \ {m}
    /\ UNCHANGED <<generation, early, offsets, delivered, recent, ppc, msgChan, worker,
                   phase, runs>>

\* ... another one goes to the workers, when there is room
Enqueue(m) ==
    /\ ppc = "dispatch" /\ m \in pulled /\ KeyOf(m) \notin recent
    /\ Len(msgChan) < ChanCap
    /\ msgChan' = Append(msgChan, m)
    /\ pulled' = pulled \ {m}
    /\ UNCHANGED <<cloud, offsets, delivered, recent, ppc, worker, phase, runs>>

PullReturns ==
    /\ ppc = "dispatch" /\ pulled = {}
    /\ ppc' = "pull"
    /\ UNCHANGED <<cloud, offsets, delivered, recent, pulled, msgChan, worker, phase, runs>>

\* ctx.Done(): what was not dispatched is dropped
PollerStops ==
    /\ Cancelled /\ ppc \in {"pull", "dispatch"}
    /\ ppc' = "done" /\ pulled' = {}
    /\ UNCHANGED <<cloud, offsets, delivered, recent, msgChan, worker, phase, runs>>

\* Evict, or IsDuplicate of an entry that is past its time
Evict(k) ==
    /\ k \in recent
    /\ recent' = recent \ {k}
    /\ UNCHANGED <<cloud, offsets, delivered, poller, worker, phase, runs>>

-----------------------------------------------------------------------------
(* A worker.                                                               *)

Goto(w, pc) == wpc' = [wpc EXCEPT ![w] = pc]

\* ProcessMessage returns
Return(w) ==
    /\ Goto(w, "idle")
    /\ wmsg' = [wmsg EXCEPT ![w] = None]
    /\ wgen' = [wgen EXCEPT ![w] = 0]
    /\ wpos' = [wpos EXCEPT ![w] = 0]

Take(w) ==
    /\ wpc[w] = "idle" /\ msgChan # <<>>
    /\ msgChan' = Tail(msgChan)
    /\ wmsg' = [wmsg EXCEPT ![w] = Head(msgChan)]
    /\ Goto(w, "open")
    /\ UNCHANGED <<cloud, offsets, delivered, recent, ppc, pulled, wgen, wpos, phase, runs>>

\* runWorker sees ctx.Done() or the closed channel
WorkerStops(w) ==
    /\ wpc[w] = "idle" /\ Cancelled
    /\ Goto(w, "done")
    /\ UNCHANGED <<cloud, offsets, delivered, recent, poller, wmsg, wgen, wpos, phase, runs>>

\* Other events and unwanted objects are acknowledged.
Filtered(w) ==
    /\ wpc[w] = "open" /\ ~Finalize(wmsg[w])
    /\ Acked({wmsg[w]})
    /\ Return(w)
    /\ UNCHANGED <<generation, early, offsets, delivered, recent, poller, phase, runs>>

\* NewReader: the live generation
Open(w) ==
    /\ wpc[w] = "open" /\ Finalize(wmsg[w]) /\ ~Cancelled
    /\ wgen' = [wgen EXCEPT ![w] = generation[ObjectOf(wmsg[w])]]
    /\ Goto(w, "load")
    /\ UNCHANGED <<cloud, offsets, delivered, recent, poller, wmsg, wpos, phase, runs>>

StartOffset(s, g) == IF s # None /\ s.gen = g THEN s.pos ELSE 0

LoadOffset(w) ==
    /\ wpc[w] = "load" /\ ~Cancelled
    /\ wpos' = [wpos EXCEPT ![w] = StartOffset(offsets[ObjectOf(wmsg[w])], wgen[w])]
    /\ Goto(w, "read")
    /\ UNCHANGED <<cloud, offsets, delivered, recent, poller, wmsg, wgen, phase, runs>>

\* Records are read and delivered; what was read is delivered also when the
\* context is cancelled.
Flush(w) ==
    /\ wpc[w] = "read" /\ wpos[w] < Batches
    /\ wpos' = [wpos EXCEPT ![w] = @ + 1]
    /\ delivered' = delivered \cup {<<ObjectOf(wmsg[w]), wgen[w], wpos'[w]>>}
    /\ Goto(w, "save")
    /\ UNCHANGED <<cloud, offsets, recent, poller, wmsg, wgen, phase, runs>>

\* the announced generation is stamped
BadVersion(w) == GenerationOf(wmsg[w])

\* the generation of the reader
Version(w) == wgen[w]

\* checkpoint; an error is only logged
Checkpoint(w) ==
    /\ wpc[w] = "save"
    /\ \/ offsets' = [offsets EXCEPT ![ObjectOf(wmsg[w])] =
                        [gen |-> Version(w), pos |-> wpos[w]]]
       \/ "save" \in Faults /\ UNCHANGED offsets
    /\ Goto(w, "read")
    /\ UNCHANGED <<cloud, delivered, recent, poller, wmsg, wgen, wpos, phase, runs>>

\* the object is marked whatever ProcessMessage returns
BadHandleProcessingError(w) ==
    /\ sub' = [sub EXCEPT ![wmsg[w]] = "ready"]
    /\ recent' = recent \cup {KeyOf(wmsg[w])}
    /\ Return(w)
    /\ UNCHANGED <<generation, early, offsets, delivered, poller, phase, runs>>

\* handleProcessingError: the message is nacked, or left until its deadline
HandleProcessingError(w) ==
    /\ \/ /\ sub[wmsg[w]] = "out"
          /\ sub' = [sub EXCEPT ![wmsg[w]] = "ready"]
       \/ UNCHANGED sub
    /\ Return(w)
    /\ UNCHANGED <<generation, early, offsets, delivered, recent, poller, phase, runs>>

\* A call fails, the consumer refuses the batch, or the context is cancelled.
ReadFails(w) ==
    /\ wpc[w] \in {"open", "load", "read"} /\ Finalize(wmsg[w])
    /\ HandleProcessingError(w)

EndOfObject(w) == wpc[w] = "read" /\ wpos[w] >= Batches

Ack(w) ==
    /\ EndOfObject(w)
    /\ sub' = [sub EXCEPT ![wmsg[w]] = "acked"]
    /\ Goto(w, "clean")
    /\ UNCHANGED <<generation, early, offsets, delivered, recent, poller, wmsg, wgen,
                   wpos, phase, runs>>

\* the offset stays
AckFails(w) ==
    /\ EndOfObject(w)
    /\ Return(w)
    /\ UNCHANGED <<cloud, offsets, delivered, recent, poller, phase, runs>>

DeleteOffset(w) ==
    /\ wpc[w] = "clean"
    /\ \/ offsets' = [offsets EXCEPT ![ObjectOf(wmsg[w])] = None]
       \/ "save" \in Faults /\ UNCHANGED offsets
    /\ Goto(w, "mark")
    /\ UNCHANGED <<cloud, delivered, recent, poller, wmsg, wgen, wpos, phase, runs>>

\* runWorker: the object was processed
Mark(w) ==
    /\ wpc[w] = "mark"
    /\ recent' = recent \cup {KeyOf(wmsg[w])}
    /\ Return(w)
    /\ UNCHANGED <<cloud, offsets, delivered, poller, phase, runs>>

-----------------------------------------------------------------------------
(* The receiver's life.                                                    *)

Shutdown ==
    /\ "shutdown" \in Faults /\ phase = "running" /\ runs < MaxRuns
    /\ phase' = "cancelled"
    /\ UNCHANGED <<cloud, offsets, delivered, recent, poller, worker, runs>>

CloseChannel ==
    /\ phase = "cancelled" /\ ppc = "done"
    /\ phase' = "closed"
    /\ UNCHANGED <<cloud, offsets, delivered, recent, poller, worker, runs>>

Stopped ==
    /\ phase = "closed" /\ \A w \in Workers : wpc[w] = "done"
    /\ phase' = "stopped" /\ msgChan' = <<>>
    /\ UNCHANGED <<cloud, offsets, delivered, recent, ppc, pulled, worker, runs>>

\* Only Pub/Sub, the bucket and the offset storage outlive the process.
Crash ==
    /\ "crash" \in Faults /\ phase # "stopped" /\ runs < MaxRuns
    /\ phase' = "stopped"
    /\ ppc' = "done" /\ pulled' = {} /\ msgChan' = <<>> /\ recent' = {}
    /\ wpc' = [w \in Workers |-> "done"]
    /\ wmsg' = [w \in Workers |-> None]
    /\ wgen' = [w \in Workers |-> 0] /\ wpos' = [w \in Workers |-> 0]
    /\ UNCHANGED <<cloud, offsets, delivered, runs>>

Start ==
    /\ phase = "stopped"
    /\ phase' = "running" /\ runs' = runs + 1
    /\ recent' = {} /\ ppc' = "pull"
    /\ wpc' = [w \in Workers |-> "idle"]
    /\ UNCHANGED <<cloud, offsets, delivered, pulled, msgChan, wmsg, wgen, wpos>>

Alive == phase # "stopped"

Dispatch(m) == Duplicate(m) \/ Enqueue(m)

Poller ==
    \/ \E S \in SUBSET Messages : Pull(S) \/ batchDedup(S)
    \/ PullNothing \/ (\E m \in Messages : Dispatch(m)) \/ PullReturns \/ PollerStops

Reader(w) ==
    Open(w) \/ LoadOffset(w) \/ Flush(w) \/ Checkpoint(w) \/ ReadFails(w)

Worker(w) ==
    \/ Take(w) \/ WorkerStops(w) \/ Filtered(w) \/ Reader(w)
    \/ Ack(w) \/ AckFails(w) \/ DeleteOffset(w) \/ Mark(w)

Next ==
    \/ \E m \in Messages : Publish(m) \/ DeadlineEnds(m)
    \/ Alive /\ Poller
    \/ Alive /\ \E k \in recent : Evict(k)
    \/ Alive /\ \E w \in Workers : Worker(w)
    \/ Shutdown \/ CloseChannel \/ Stopped \/ Crash \/ Start

Spec == Init /\ [][Next]_vars

-----------------------------------------------------------------------------
(* Properties.                                                             *)

Consumed(o, g) == \A i \in 1 .. Batches : <<o, g, i>> \in delivered

\* The object of key k was read to its end, in its generation or a later one
\* that has replaced it.
Processed(k) == \E g \in k[2] .. generation[k[1]] : Consumed(k[1], g)

\* A generation that was announced is processed, or a notification of it or
\* of a later one is still to come: a message is acknowledged only because of
\* another one that is not, or of work that was done.
NoLoss ==
    \A m \in Messages : Finalize(m) /\ sub[m] = "acked" =>
        \/ Processed(KeyOf(m))
        \/ \E n \in Messages :
             /\ Finalize(n) /\ ObjectOf(n) = ObjectOf(m) /\ sub[n] # "acked"
             /\ GenerationOf(n) >= GenerationOf(m)

\* Only objects that were processed are taken for duplicates, although the
\* key is the announced generation and the worker reads the live one.
RecentWereProcessed == \A k \in recent : Processed(k)

\* A stored offset never covers a batch that was not delivered, whichever
\* workers wrote, deleted and overtook each other under the same name.
OffsetsCoverDelivered ==
    \A o \in Objects : offsets[o] # None =>
        \A i \in 1 .. offsets[o].pos : <<o, offsets[o].gen, i>> \in delivered

\* The newer event of an object announces it as well.
Supersedes(n, m) ==
    ObjectOf(n) = ObjectOf(m) /\ GenerationOf(n) >= GenerationOf(m)

Finalized == {m \in Messages : Finalize(m)}

\* The events the receiver is for, with what was processed of them.
Delivery == INSTANCE EventDelivery WITH
    Event <- Finalized,
    Serves <- Supersedes,
    sent <- {m \in Finalized : sub[m] # "unsent"},
    consumed <- {m \in Finalized : sub[m] # "unsent" /\ Processed(KeyOf(m))},
    acked <- {m \in Finalized : sub[m] = "acked"}

\* The receiver implements EventDelivery: an event is announced once,
\* acknowledged for good, in a step of its own, and only when its object was
\* processed or another event of the object that is not older is still to
\* come; nothing that was processed is undone.
ImplementsDelivery == Delivery!Spec
=============================================================================
