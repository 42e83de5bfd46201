-------------------------- MODULE S3EventReceiver --------------------------
(* receiver/awss3eventreceiver: a poller takes notifications from an SQS   *)
(* queue into a bounded channel, workers read the S3 objects they name in  *)
(* batches, hand each batch downstream, checkpoint their position in the   *)
(* offset storage, and delete the notification once all of its objects     *)
(* are consumed.                                                           *)
(*                                                                         *)
(* An object has versions 1, 2, ... (Publish overwrites it and sends its   *)
(* notification); Content gives the records of a version, ETag what        *)
(* GetObject reports of it, StorageKey the key of its offset.  A record    *)
(* is                                                                      *)
(*   "log"          parsed and put into the batch;                         *)
(*   "malformed"    not parseable, skipped;                                *)
(*   "undecodable"  parsed, but AppendLogBody fails on it;                 *)
(*   "cut"          the object ends in the middle of it;                   *)
(*   "unsupported"  content that can never be read (dead-letter queue).    *)
(*                                                                         *)
(* The queue may show a message again that is still being worked on        *)
(* (at most MaxEarly times), a checkpoint may fail ("save"), the receiver  *)
(* may be shut down ("shutdown"), the process may die at any point         *)
(* ("crash"): Faults says which of these happen.  A read, consume, delete  *)
(* or nack may always fail.                                                *)
EXTENDS Integers, FiniteSets, Sequences

CONSTANTS
    Messages,           \* notifications
    Objects,            \* bucket and key of an object
    Workers,            \* worker goroutines
    Events(_),          \* the objects a notification names, after the filters
    Content(_, _),      \* the records of a version of an object
    ETag(_, _),         \* the ETag of a version of an object, None if omitted
    StorageKey(_),      \* the key under which an object's offset is stored
    MaxLogsEmitted,     \* records per batch
    Faults,             \* subset of {"save", "crash", "shutdown"}
    MaxEarly,           \* bound on the early ends of a visibility timeout
    MaxRuns,            \* bound on the runs of the receiver
    None

VARIABLES
    queue,              \* SQS: the state of each message
    early,              \* visibility timeouts that ended too early
    version,            \* S3: the current version of each object
    announced,          \* the version of each object when a message was sent
    offsets,            \* offset storage
    delivered,          \* records the next consumer has taken
    twice,              \* records it has taken more than once
    ppc, pending,       \* poller, and what it received but has not queued
    msgChan,
    wpc, wmsg,          \* worker, and the message it processes
    wrest, wread,       \* objects still to read, <<object, version>> read
    wobj, wver,         \* object being read, and its version
    wfrom, wpos,        \* start of the batch, position of the producer
    wres,               \* how the read went so far
    phase, runs

env == <<queue, early, version, announced>>
stored == <<offsets, delivered, twice>>
poller == <<ppc, pending, msgChan>>
reading == <<wobj, wver, wfrom, wpos>>
worker == <<wpc, wmsg, wrest, wread, reading, wres>>
vars == <<env, stored, poller, worker, phase, runs>>

RecordKinds == {"log", "malformed", "undecodable", "cut", "unsupported"}
Records == Objects \X Nat \X Nat
Keys == {StorageKey(o) : o \in Objects}

\* config.go Validate: workers and max_logs_emitted are positive.
ASSUME S3Assumption ==
    /\ IsFiniteSet(Workers) /\ Workers # {}
    /\ MaxLogsEmitted \in Nat \ {0}
    /\ MaxRuns \in Nat /\ MaxEarly \in Nat
    /\ \A m \in Messages : Events(m) \subseteq Objects
    /\ None \notin Messages /\ None \notin Objects

\* r.msgChan = make(chan workerMessage, r.cfg.Workers*2)
ChanCap == 2 * Cardinality(Workers)

\* the records of lo..hi whose kind is in K
Pick(o, v, lo, hi, K) ==
    {i \in lo .. hi : i \in DOMAIN Content(o, v) /\ Content(o, v)[i] \in K}

\* AppendEmpty puts a record into the batch before AppendLogBody may fail.
Batch(w) == Pick(wobj[w], wver[w], wfrom[w] + 1, wpos[w], {"log", "undecodable"})

TypeOK ==
    /\ queue \in [Messages -> {"unsent", "visible", "inflight", "deleted"}]
    /\ early \in Nat
    /\ version \in [Objects -> Nat]
    /\ announced \in [Messages -> [Objects -> Nat]]
    /\ offsets = [k \in Keys |-> offsets[k]]
    /\ \A k \in Keys : offsets[k] # None => offsets[k].pos \in Nat
    /\ delivered \subseteq Records /\ twice \subseteq Records
    /\ ppc \in {"poll", "enqueue", "done"}
    /\ pending \subseteq Messages
    /\ msgChan \in Seq(Messages) /\ Len(msgChan) <= ChanCap
    /\ wpc \in [Workers -> {"idle", "open", "load", "read", "flush", "save",
                            "error", "delete", "clean", "done"}]
    /\ wmsg \in [Workers -> Messages \cup {None}]
    /\ wrest \in [Workers -> SUBSET Objects]
    /\ wread \in [Workers -> SUBSET (Objects \X Nat)]
    /\ wobj \in [Workers -> Objects \cup {None}]
    /\ wver \in [Workers -> Nat]
    /\ wfrom \in [Workers -> Nat]
    /\ wpos \in [Workers -> Nat]
    /\ wres \in [Workers -> {"more", "end", "stopped", "retry", "dlq"}]
    /\ phase \in {"running", "cancelled", "closed", "stopped"}
    /\ runs \in Nat

\* Start: empty channel, idle workers, polling
Init ==
    /\ queue = [m \in Messages |-> "unsent"]
    /\ early = 0
    /\ version = [o \in Objects |-> 0]
    /\ announced = [m \in Messages |-> [o \in Objects |-> 0]]
    /\ offsets = [k \in Keys |-> None]
    /\ delivered = {} /\ twice = {}
    /\ ppc = "poll" /\ pending = {} /\ msgChan = <<>>
    /\ wpc = [w \in Workers |-> "idle"]
    /\ wmsg = [w \in Workers |-> None]
    /\ wrest = [w \in Workers |-> {}]
    /\ wread = [w \in Workers |-> {}]
    /\ wobj = [w \in Workers |-> None]
    /\ wver = [w \in Workers |-> 0]
    /\ wfrom = [w \in Workers |-> 0]
    /\ wpos = [w \in Workers |-> 0]
    /\ wres = [w \in Workers |-> "more"]
    /\ phase = "running" /\ runs = 1

Cancelled == phase # "running"

-----------------------------------------------------------------------------
(* SQS and S3.                                                             *)

\* Objects are written and their notification is sent.
Publish(m) ==
    /\ queue[m] = "unsent"
    /\ queue' = [queue EXCEPT ![m] = "visible"]
    /\ version' = [o \in Objects |-> IF o \in Events(m) THEN version[o] + 1
                                                        ELSE version[o]]
    /\ announced' = [announced EXCEPT ![m] = version']
    /\ UNCHANGED <<early, stored, poller, worker, phase, runs>>

Held(m) ==
    \/ m \in pending
    \/ \E i \in DOMAIN msgChan : msgChan[i] = m
    \/ \E w \in Workers : wmsg[w] = m /\ wpc[w] \notin {"idle", "done"}

\* The visibility timeout ends: for a message nobody holds, or too early.
VisibilityExpires(m) ==
    /\ queue[m] = "inflight"
    /\ IF Held(m) THEN early < MaxEarly /\ early' = early + 1 ELSE UNCHANGED early
    /\ queue' = [queue EXCEPT ![m] = "visible"]
    /\ UNCHANGED <<version, announced, stored, poller, worker, phase, runs>>

-----------------------------------------------------------------------------
(* The poller.                                                             *)

\* receiveMessages: ReceiveMessage returns some of the visible messages ...
Receive(S) ==
    /\ phase = "running" /\ ppc = "poll"
    /\ S # {} /\ \A m \in S : queue[m] = "visible"
    /\ queue' = [m \in Messages |-> IF m \in S THEN "inflight" ELSE queue[m]]
    /\ pending' = S
    /\ ppc' = "enqueue"
    /\ UNCHANGED <<early, version, announced, stored, msgChan, worker, phase, runs>>

\* ... or none, or an error: back to the ticker
ReceiveNothing ==
    /\ phase = "running" /\ ppc = "poll"
    /\ UNCHANGED vars

\* the messages are queued one by one, blocking while msgChan is full
Enqueue(m) ==
    /\ ppc = "enqueue" /\ m \in pending
    /\ Len(msgChan) < ChanCap
    /\ msgChan' = Append(msgChan, m)
    /\ pending' = pending \ {m}
    /\ ppc' = IF pending' = {} THEN "poll" ELSE "enqueue"
    /\ UNCHANGED <<env, stored, worker, phase, runs>>

\* ctx.Done() is not a case of the select that queues a message
BadPollerStops ==
    /\ Cancelled
    /\ \/ /\ ppc = "poll"
          /\ ppc' = "done"
          /\ UNCHANGED <<env, stored, pending, msgChan, worker, phase, runs>>
       \/ ppc = "enqueue" /\ UNCHANGED vars

\* ctx.Done() in poll or in receiveMessages: what was not queued is dropped
PollerStops ==
    /\ Cancelled /\ ppc # "done"
    /\ ppc' = "done" /\ pending' = {}
    /\ UNCHANGED <<env, stored, msgChan, worker, phase, runs>>

-----------------------------------------------------------------------------
(* A worker.                                                               *)

\* ProcessMessage returns
Return(w) ==
    /\ wpc' = [wpc EXCEPT ![w] = "idle"]
    /\ wmsg' = [wmsg EXCEPT ![w] = None]
    /\ wrest' = [wrest EXCEPT ![w] = {}]
    /\ wread' = [wread EXCEPT ![w] = {}]
    /\ wobj' = [wobj EXCEPT ![w] = None]
    /\ wver' = [wver EXCEPT ![w] = 0]
    /\ wfrom' = [wfrom EXCEPT ![w] = 0]
    /\ wpos' = [wpos EXCEPT ![w] = 0]
    /\ wres' = [wres EXCEPT ![w] = "more"]

\* a message that names nothing to read is left in the queue
BadTake(w) ==
    /\ wpc[w] = "idle" /\ msgChan # <<>>
    /\ msgChan' = Tail(msgChan)
    /\ wmsg' = [wmsg EXCEPT ![w] = Head(msgChan)]
    /\ wrest' = [wrest EXCEPT ![w] = Events(Head(msgChan))]
    /\ wread' = [wread EXCEPT ![w] = {}]
    /\ wpc' = [wpc EXCEPT ![w] = IF wrest'[w] = {} THEN "error" ELSE "open"]
    /\ UNCHANGED <<env, stored, ppc, pending, reading, wres, phase, runs>>

\* runWorker takes a message; ProcessMessage parses and filters it.
Take(w) ==
    /\ wpc[w] = "idle" /\ msgChan # <<>>
    /\ msgChan' = Tail(msgChan)
    /\ wmsg' = [wmsg EXCEPT ![w] = Head(msgChan)]
    /\ wrest' = [wrest EXCEPT ![w] = Events(Head(msgChan))]
    /\ wread' = [wread EXCEPT ![w] = {}]
    /\ wpc' = [wpc EXCEPT ![w] = IF wrest'[w] = {} THEN "delete" ELSE "open"]
    /\ UNCHANGED <<env, stored, ppc, pending, reading, wres, phase, runs>>

\* runWorker sees ctx.Done() or the closed channel
WorkerStops(w) ==
    /\ wpc[w] = "idle" /\ Cancelled
    /\ wpc' = [wpc EXCEPT ![w] = "done"]
    /\ UNCHANGED <<env, stored, poller, wmsg, wrest, wread, reading, wres, phase, runs>>

\* GetObject: the current version.  (processRecord's second attempt, without
\* JSON, opens the object again before anything was read; the last counts.)
Open(w, o) ==
    /\ wpc[w] = "open" /\ o \in wrest[w] /\ ~Cancelled
    /\ wobj' = [wobj EXCEPT ![w] = o]
    /\ wver' = [wver EXCEPT ![w] = version[o]]
    /\ wpc' = [wpc EXCEPT ![w] = "load"]
    /\ UNCHANGED <<env, stored, poller, wmsg, wrest, wread, wfrom, wpos, wres,
                   phase, runs>>

\* the offset is used whatever version it was stored for
BadStartOffset(w) ==
    LET s == offsets[StorageKey(wobj[w])]
    IN  IF s # None THEN s.pos ELSE 0

\* An offset stored for another version, or for an object without ETag, is
\* not used.
StartOffset(w) ==
    LET s == offsets[StorageKey(wobj[w])]
        e == ETag(wobj[w], wver[w])
    IN  IF s # None /\ e # None /\ s.etag = e THEN s.pos ELSE 0

LoadOffset(w) ==
    /\ wpc[w] = "load"
    /\ wfrom' = [wfrom EXCEPT ![w] = StartOffset(w)]
    /\ wpos' = [wpos EXCEPT ![w] = StartOffset(w)]
    /\ wres' = [wres EXCEPT ![w] = "more"]
    /\ wpc' = [wpc EXCEPT ![w] = "read"]
    /\ UNCHANGED <<env, stored, poller, wmsg, wrest, wread, wobj, wver, phase, runs>>

\* consumeLogsFromS3Object returns an error (r says which kind): GetObject,
\* the offset storage, the parser or the stream failed
ReadFails(w, r) ==
    /\ wpc[w] \in {"open", "load", "read"}
    /\ r \in {"retry", "dlq"}
    /\ wres' = [wres EXCEPT ![w] = r]
    /\ wpc' = [wpc EXCEPT ![w] = "error"]
    /\ UNCHANGED <<env, stored, poller, wmsg, wrest, wread, reading, phase, runs>>

\* the message is deleted after its first object
BadObjectDone(w, r) ==
    IF r = "end"
    THEN /\ wread' = [wread EXCEPT ![w] = @ \cup {<<wobj[w], wver[w]>>}]
         /\ wrest' = [wrest EXCEPT ![w] = @ \ {wobj[w]}]
         /\ wpc' = [wpc EXCEPT ![w] = "delete"]
    ELSE /\ wpc' = [wpc EXCEPT ![w] = "error"]
         /\ UNCHANGED <<wread, wrest>>

\* the object is consumed (keys = append(keys, decodedKey)), or the read was
\* cancelled
ObjectDone(w, r) ==
    IF r = "end"
    THEN /\ wread' = [wread EXCEPT ![w] = @ \cup {<<wobj[w], wver[w]>>}]
         /\ wrest' = [wrest EXCEPT ![w] = @ \ {wobj[w]}]
         /\ wpc' = [wpc EXCEPT ![w] = IF wrest'[w] = {} THEN "delete" ELSE "open"]
    ELSE /\ wpc' = [wpc EXCEPT ![w] = "error"]
         /\ UNCHANGED <<wread, wrest>>

\* the loop ends with a record that the parser rejects
ReadEnds(w, r) ==
    /\ wres' = [wres EXCEPT ![w] = r]
    /\ UNCHANGED <<env, stored, poller, wmsg, reading, phase, runs>>
    /\ IF Batch(w) # {}
       THEN /\ wpc' = [wpc EXCEPT ![w] = "flush"]
            /\ UNCHANGED <<wread, wrest>>
       ELSE ObjectDone(w, r)

\* what the producer yields next
NextKind(w) ==
    IF wpos[w] + 1 \in DOMAIN Content(wobj[w], wver[w])
    THEN Content(wobj[w], wver[w])[wpos[w] + 1] ELSE "end"

\* The next record is read; a full batch is flushed.
NextRecord(w) ==
    /\ wpc[w] = "read"
    /\ NextKind(w) \in {"log", "malformed", "undecodable"}
    /\ wpos' = [wpos EXCEPT ![w] = @ + 1]
    /\ wpc' = [wpc EXCEPT ![w] =
                 IF /\ NextKind(w) = "log"
                    /\ Cardinality(Batch(w)) + 1 >= MaxLogsEmitted
                 THEN "flush" ELSE "read"]
    /\ UNCHANGED <<env, stored, poller, wmsg, wrest, wread, wobj, wver, wfrom,
                   wres, phase, runs>>

\* the object ends, or is cut: what was read is delivered, and it is acked
EndOfObject(w) ==
    /\ wpc[w] = "read"
    /\ NextKind(w) \in {"end", "cut"}
    /\ ReadEnds(w, "end")

\* a cancelled read is taken for the end of the object
BadReadCancelled(w) ==
    /\ wpc[w] = "read"
    /\ ReadEnds(w, "end")

\* a cancellation, or a deadline, stops the read: what was read is delivered
ReadCancelled(w) ==
    /\ wpc[w] = "read"
    /\ ReadEnds(w, "stopped")

\* flush: the next consumer takes the batch
Flush(w) ==
    LET recs == {<<wobj[w], wver[w], i>> : i \in Batch(w)}
    IN  /\ wpc[w] = "flush"
        /\ delivered' = delivered \cup recs
        /\ twice' = twice \cup (delivered \cap recs)
        /\ wpc' = [wpc EXCEPT ![w] = "save"]
        /\ UNCHANGED <<env, offsets, poller, wmsg, wrest, wread, reading, wres,
                       phase, runs>>

\* the failed batch is skipped and the read goes on
BadFlushFails(w) ==
    /\ wpc[w] = "flush"
    /\ wpc' = [wpc EXCEPT ![w] = "save"]
    /\ UNCHANGED <<env, stored, poller, wmsg, wrest, wread, reading, wres, phase, runs>>

\* consumeWithRetry gives up
FlushFails(w) ==
    /\ wpc[w] = "flush"
    /\ wres' = [wres EXCEPT ![w] = "retry"]
    /\ wpc' = [wpc EXCEPT ![w] = "error"]
    /\ UNCHANGED <<env, stored, poller, wmsg, wrest, wread, reading, phase, runs>>

\* after a batch: go on reading, or finish the object
AfterBatch(w) ==
    /\ wfrom' = [wfrom EXCEPT ![w] = wpos[w]]
    /\ IF wres[w] = "more"
       THEN /\ wpc' = [wpc EXCEPT ![w] = "read"]
            /\ UNCHANGED <<wread, wrest>>
       ELSE ObjectDone(w, wres[w])
    /\ UNCHANGED <<env, delivered, twice, poller, wmsg, wobj, wver, wpos, wres,
                   phase, runs>>

\* the offset is saved without the object's version
BadCheckpoint(w) ==
    /\ wpc[w] = "save"
    /\ offsets' = [offsets EXCEPT ![StorageKey(wobj[w])] =
                     [etag |-> ETag(wobj[w], version[wobj[w]]), pos |-> wpos[w]]]
    /\ AfterBatch(w)

\* checkpoint: the position after the batch, stamped with the version
Checkpoint(w) ==
    /\ wpc[w] = "save"
    /\ offsets' = [offsets EXCEPT ![StorageKey(wobj[w])] =
                     [etag |-> ETag(wobj[w], wver[w]), pos |-> wpos[w]]]
    /\ AfterBatch(w)

\* a failed save is only logged
CheckpointFails(w) ==
    /\ wpc[w] = "save" /\ "save" \in Faults
    /\ UNCHANGED offsets
    /\ AfterBatch(w)

\* handleProcessingError: a cancelled or dead-letter message is made visible
\* at once (if the call succeeds), any other is left to its visibility timeout.
HandleProcessingError(w) ==
    /\ wpc[w] = "error"
    /\ \/ /\ Cancelled \/ wres[w] = "dlq"
          /\ queue[wmsg[w]] = "inflight"
          /\ queue' = [queue EXCEPT ![wmsg[w]] = "visible"]
       \/ UNCHANGED queue
    /\ Return(w)
    /\ UNCHANGED <<early, version, announced, stored, poller, phase, runs>>

\* the offsets of the keys are deleted next, if there are any
AfterDelete(w) ==
    IF wread[w] = {}
    THEN Return(w)
    ELSE /\ wpc' = [wpc EXCEPT ![w] = "clean"]
         /\ UNCHANGED <<wmsg, wrest, wread, reading, wres>>

\* deleteMessage: the message is deleted, then the offsets of its keys.  With
\* the receipt of an expired delivery the call may succeed without effect.
DeleteMessage(w) ==
    /\ wpc[w] = "delete"
    /\ \/ queue' = [queue EXCEPT ![wmsg[w]] = "deleted"]
       \/ queue[wmsg[w]] = "visible" /\ UNCHANGED queue
    /\ AfterDelete(w)
    /\ UNCHANGED <<early, version, announced, stored, poller, phase, runs>>

\* the offsets are deleted although the message is not
BadDeleteFails(w) ==
    /\ wpc[w] = "delete"
    /\ AfterDelete(w)
    /\ UNCHANGED <<env, stored, poller, phase, runs>>

\* a failed delete keeps the offsets
DeleteFails(w) ==
    /\ wpc[w] = "delete"
    /\ Return(w)
    /\ UNCHANGED <<env, stored, poller, phase, runs>>

\* the offset of one key is deleted; a failure is only logged
DeleteOffset(w, e) ==
    /\ wpc[w] = "clean" /\ e \in wread[w]
    /\ \/ offsets' = [offsets EXCEPT ![StorageKey(e[1])] = None]
       \/ UNCHANGED offsets
    /\ IF wread[w] = {e}
       THEN Return(w)
       ELSE /\ wread' = [wread EXCEPT ![w] = @ \ {e}]
            /\ UNCHANGED <<wpc, wmsg, wrest, reading, wres>>
    /\ UNCHANGED <<env, delivered, twice, poller, phase, runs>>

-----------------------------------------------------------------------------
(* The receiver's life.                                                    *)

\* Shutdown cancels the context of the poller and the workers ...
Shutdown ==
    /\ "shutdown" \in Faults /\ phase = "running" /\ runs < MaxRuns
    /\ phase' = "cancelled"
    /\ UNCHANGED <<env, stored, poller, worker, runs>>

\* ... waits for the poller and closes msgChan ...
CloseChannel ==
    /\ phase = "cancelled" /\ ppc = "done"
    /\ phase' = "closed"
    /\ UNCHANGED <<env, stored, poller, worker, runs>>

\* ... and waits for the workers.
Stopped ==
    /\ phase = "closed" /\ \A w \in Workers : wpc[w] = "done"
    /\ phase' = "stopped"
    /\ UNCHANGED <<env, stored, poller, worker, runs>>

\* The process dies: the queue and the offset storage stay.
Crash ==
    /\ "crash" \in Faults /\ phase # "stopped" /\ runs < MaxRuns
    /\ phase' = "stopped"
    /\ ppc' = "done" /\ pending' = {}
    /\ msgChan' = <<>>
    /\ wpc' = [w \in Workers |-> "done"]
    /\ wmsg' = [w \in Workers |-> None]
    /\ wrest' = [w \in Workers |-> {}]
    /\ wread' = [w \in Workers |-> {}]
    /\ wobj' = [w \in Workers |-> None]
    /\ wver' = [w \in Workers |-> 0]
    /\ wfrom' = [w \in Workers |-> 0]
    /\ wpos' = [w \in Workers |-> 0]
    /\ wres' = [w \in Workers |-> "more"]
    /\ UNCHANGED <<env, stored, runs>>

\* Start of the next instance
Restart ==
    /\ phase = "stopped"
    /\ phase' = "running" /\ runs' = runs + 1
    /\ ppc' = "poll" /\ msgChan' = <<>>
    /\ wpc' = [w \in Workers |-> "idle"]
    /\ UNCHANGED <<env, stored, pending, wmsg, wrest, wread, reading, wres>>

-----------------------------------------------------------------------------
Poller ==
    \/ \E S \in SUBSET Messages : Receive(S)
    \/ ReceiveNothing \/ (\E m \in Messages : Enqueue(m)) \/ PollerStops

Worker(w) ==
    \/ Take(w) \/ WorkerStops(w) \/ (\E o \in Objects : Open(w, o))
    \/ LoadOffset(w) \/ (\E r \in {"retry", "dlq"} : ReadFails(w, r))
    \/ NextRecord(w) \/ EndOfObject(w) \/ ReadCancelled(w)
    \/ Flush(w) \/ FlushFails(w) \/ Checkpoint(w) \/ CheckpointFails(w)
    \/ HandleProcessingError(w) \/ DeleteMessage(w) \/ DeleteFails(w)
    \/ \E e \in wread[w] : DeleteOffset(w, e)

Next ==
    \/ \E m \in Messages : Publish(m) \/ VisibilityExpires(m)
    \/ Poller
    \/ \E w \in Workers : Worker(w)
    \/ Shutdown \/ CloseChannel \/ Stopped \/ Crash \/ Restart

Spec == Init /\ [][Next]_vars

(* Fairness.  Goroutines run, every call on an external service returns    *)
(* (the detached contexts have a timeout), SQS hands out visible messages  *)
(* and makes a message that nobody holds visible again, and the collector  *)
(* starts the receiver again.  Nobody guarantees that a call succeeds.     *)
Fairness ==
    /\ WF_vars(\E S \in SUBSET Messages : Receive(S))
    /\ WF_vars((\E m \in Messages : Enqueue(m)) \/ PollerStops)
    /\ \A w \in Workers : WF_vars(Worker(w))
    /\ \A m \in Messages : WF_vars(VisibilityExpires(m) /\ ~Held(m))
    /\ WF_vars(CloseChannel) /\ WF_vars(Stopped) /\ WF_vars(Restart)

FairSpec == Spec /\ Fairness

-----------------------------------------------------------------------------
(* Properties.                                                             *)

\* All of a version is delivered, up to where it is cut.
Consumed(o, v) ==
    /\ \A i \in DOMAIN Content(o, v) :
         Content(o, v)[i] = "log" => <<o, v, i>> \in delivered
    /\ \A i \in DOMAIN Content(o, v) : Content(o, v)[i] # "unsupported"

\* Each object of a notification was consumed, in the version it announced or
\* a later one (the object may have been overwritten before it was read).
AllConsumed(m) ==
    \A o \in Events(m) : \E v \in announced[m][o] .. version[o] : Consumed(o, v)

\* At least once, whatever fails: a notification is deleted from the queue
\* only when all of its objects were consumed.
NoLoss == \A m \in Messages : queue[m] = "deleted" => AllConsumed(m)

\* A stored offset never covers a record that was not delivered, for the
\* object and version it was stored for: resuming skips nothing.
OffsetsCoverDelivered ==
    \A o \in Objects : \A v \in 1 .. version[o] :
        LET s == offsets[StorageKey(o)]
        IN  s # None /\ ETag(o, v) # None /\ s.etag = ETag(o, v) =>
              \A i \in 1 .. s.pos :
                /\ i \in DOMAIN Content(o, v)
                /\ Content(o, v)[i] = "log" => <<o, v, i>> \in delivered

\* Exactly once, when nothing dies, no checkpoint fails and no message comes
\* back while it is worked on: redelivery after a failure, a shutdown or a
\* failed delete resumes at the first record that was not delivered.
ExactlyOnce == twice = {}

\* "skipping the new object's head is not [tolerated]": every record before
\* the batch that a worker is filling was delivered.
HeadNeverSkipped ==
    \A w \in Workers : wpc[w] \in {"read", "flush", "save"} =>
        \A i \in Pick(wobj[w], wver[w], 1, wfrom[w], {"log"}) :
            <<wobj[w], wver[w], i>> \in delivered

\* A notification stands for itself only.
Itself(n, m) == n = m

\* The notifications, with what was consumed of the objects they name.
Delivery == INSTANCE EventDelivery WITH
    Event <- Messages,
    Serves <- Itself,
    sent <- {m \in Messages : queue[m] # "unsent"},
    consumed <- {m \in Messages : queue[m] # "unsent" /\ AllConsumed(m)},
    acked <- {m \in Messages : queue[m] = "deleted"}

\* The receiver implements EventDelivery: a notification is deleted once and
\* for good, in a step of its own after its objects were consumed, and what
\* was consumed of it is never taken back by a later version.
ImplementsDelivery == Delivery!Spec

\* Shutdown always returns: the poller leaves a full channel, and the workers
\* finish or abandon what they are doing.
ShutdownCompletes == phase = "cancelled" ~> phase = "stopped"

\* A call failed, or a read ran into a deadline.
Failure ==
    \E w \in Workers :
        \/ \E r \in {"retry", "dlq"} : ReadFails(w, r) /\ ~Cancelled
        \/ ReadCancelled(w) /\ ~Cancelled
        \/ FlushFails(w) \/ CheckpointFails(w) \/ DeleteFails(w)

\* Every notification is processed: once failures cease, each message ends up
\* deleted, also one that a shutdown dropped from the channel or that was left
\* to its visibility timeout.
EventuallyAcked ==
    <>[][~Failure]_vars =>
        \A m \in Messages : queue[m] = "visible" ~> queue[m] = "deleted"

=============================================================================
