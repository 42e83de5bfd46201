----------------------- MODULE S3EventReceiverProofs -----------------------
(* At-least-once delivery of S3EventReceiver, for every number of          *)
(* messages, objects, workers and faults: provided that two objects with   *)
(* the same storage key never report the same ETag, and that content is    *)
(* well formed, a notification is deleted only when its objects were       *)
(* consumed, and a resumed read skips nothing.                             *)
EXTENDS S3EventReceiver, FiniteSetTheorems, TLAPS

\* An ETag names one version of one of the objects that share a storage key.
UniqueETags ==
    \A o, p \in Objects, v, u \in Nat :
        /\ StorageKey(o) = StorageKey(p)
        /\ ETag(o, v) # None /\ ETag(o, v) = ETag(p, u)
        => o = p /\ v = u

\* A version is a sequence of records, and ends where it is cut.
WellFormedContent ==
    \A o \in Objects, v \in Nat :
        /\ Content(o, v) \in Seq(RecordKinds)
        /\ \A i \in DOMAIN Content(o, v) :
             Content(o, v)[i] = "cut" => i = Len(Content(o, v))

-----------------------------------------------------------------------------
(* Types.                                                                  *)

\* The capacity of msgChan is a number.
LEMMA ChanCapNat == ChanCap \in Nat
  BY S3Assumption, FS_CardinalityType DEF ChanCap

\* The receiver starts well typed.
LEMMA InitType == Init => TypeOK
  <1> SUFFICES ASSUME Init PROVE TypeOK
    OBVIOUS
  <1>1. msgChan \in Seq(Messages) /\ Len(msgChan) <= ChanCap
    BY ChanCapNat DEF Init
  <1> QED
    BY <1>1, S3Assumption DEF Init, TypeOK

\* SQS and S3 keep the types.
LEMMA TypeEnvironment ==
    ASSUME TypeOK, NEW m \in Messages, Publish(m) \/ VisibilityExpires(m)
    PROVE  TypeOK'
  <1>1. CASE Publish(m)
    BY <1>1 DEF TypeOK, Publish, stored, poller, worker, reading
  <1>2. CASE VisibilityExpires(m)
    <2>1. early' \in Nat
      BY <1>2 DEF TypeOK, VisibilityExpires
    <2> QED
      BY <1>2, <2>1 DEF TypeOK, VisibilityExpires, stored, poller, worker, reading
  <1> QED
    BY <1>1, <1>2

\* The poller keeps the types.
LEMMA TypePoller == ASSUME TypeOK, Poller PROVE TypeOK'
  <1>1. CASE \E S \in SUBSET Messages : Receive(S)
    BY <1>1 DEF TypeOK, Receive, stored, worker, reading
  <1>2. CASE ReceiveNothing
    BY <1>2 DEF TypeOK, ReceiveNothing, vars, env, stored, poller, worker, reading
  <1>3. CASE \E m \in Messages : Enqueue(m)
    <2>1. PICK m \in Messages : Enqueue(m)
      BY <1>3
    <2>2. msgChan' \in Seq(Messages) /\ Len(msgChan') <= ChanCap
      BY <2>1, ChanCapNat DEF TypeOK, Enqueue
    <2> QED
      BY <2>1, <2>2 DEF TypeOK, Enqueue, env, stored, worker, reading
  <1>4. CASE PollerStops
    BY <1>4 DEF TypeOK, PollerStops, env, stored, worker, reading
  <1> QED
    BY <1>1, <1>2, <1>3, <1>4 DEF Poller

\* What the worker variables may hold.
WorkerTypes ==
    /\ wpc \in [Workers -> {"idle", "open", "load", "read", "flush", "save",
                            "error", "delete", "clean", "done"}]
    /\ wmsg \in [Workers -> Messages \cup {None}]
    /\ wrest \in [Workers -> SUBSET Objects]
    /\ wread \in [Workers -> SUBSET (Objects \X Nat)]
    /\ wobj \in [Workers -> Objects \cup {None}]
    /\ wver \in [Workers -> Nat]
    /\ wfrom \in [Workers -> Nat]
    /\ wpos \in [Workers -> Nat]
    /\ wres \in [Workers -> {"more", "end", "stopped", "retry", "dlq"}]

\* Returning from ProcessMessage keeps the types of the worker variables.
LEMMA ReturnTypes ==
    ASSUME TypeOK, NEW w \in Workers, Return(w)
    PROVE  WorkerTypes'
  BY DEF TypeOK, Return, WorkerTypes

\* A worker that reads has an object, one that works has a message.
InHand ==
    \A w \in Workers :
        /\ wpc[w] \in {"load", "read", "flush", "save"} => wobj[w] \in Objects
        /\ wpc[w] \notin {"idle", "done"} => wmsg[w] \in Messages

\* Where a stored offset makes a read start.
LEMMA StartOffsetNat ==
    ASSUME TypeOK, NEW w \in Workers, wobj[w] \in Objects
    PROVE  StartOffset(w) \in Nat
  BY DEF TypeOK, StartOffset, Keys

\* Finishing an object keeps the types.
LEMMA ObjectDoneTypes ==
    ASSUME TypeOK, NEW w \in Workers, wobj[w] \in Objects, wmsg[w] \in Messages,
           NEW r, ObjectDone(w, r), UNCHANGED <<wmsg, wobj>>,
           wpc[w] \in {"read", "save"}
    PROVE  /\ wpc' \in [Workers -> {"idle", "open", "load", "read", "flush",
                                    "save", "error", "delete", "clean", "done"}]
           /\ wrest' \in [Workers -> SUBSET Objects]
           /\ wread' \in [Workers -> SUBSET (Objects \X Nat)]
           /\ wpc'[w] \in {"open", "delete", "error"}
           /\ \A x \in Workers : x # w => wpc'[x] = wpc[x]
  <1>1. CASE r = "end"
    <2>0. /\ wread' = [wread EXCEPT ![w] = @ \cup {<<wobj[w], wver[w]>>}]
          /\ wrest' = [wrest EXCEPT ![w] = @ \ {wobj[w]}]
      BY <1>1 DEF ObjectDone
    <2>1. wrest' \in [Workers -> SUBSET Objects]
      BY <2>0 DEF TypeOK
    <2>2. wread' \in [Workers -> SUBSET (Objects \X Nat)]
      <3>1. <<wobj[w], wver[w]>> \in Objects \X Nat
        BY DEF TypeOK
      <3> QED
        BY <2>0, <3>1 DEF TypeOK
    <2>3. \E pc \in {"open", "delete"} : wpc' = [wpc EXCEPT ![w] = pc]
      BY <1>1 DEF ObjectDone
    <2> QED
      BY <2>1, <2>2, <2>3 DEF TypeOK
  <1>2. CASE r # "end"
    BY <1>2 DEF TypeOK, ObjectDone
  <1> QED
    BY <1>1, <1>2

\* Taking, opening and loading keep the types.
LEMMA TypeWorkerStart ==
    ASSUME TypeOK, InHand, NEW w \in Workers,
           \/ Take(w) \/ WorkerStops(w) \/ \E o \in Objects : Open(w, o)
           \/ LoadOffset(w) \/ \E r \in {"retry", "dlq"} : ReadFails(w, r)
    PROVE  TypeOK' /\ InHand'
  <1>1. CASE Take(w)
    <2>1. Head(msgChan) \in Messages /\ Tail(msgChan) \in Seq(Messages)
          /\ Len(Tail(msgChan)) <= ChanCap
      BY <1>1, ChanCapNat DEF TypeOK, Take
    <2>2. Events(Head(msgChan)) \subseteq Objects
      BY <2>1, S3Assumption
    <2> QED
      BY <1>1, <2>1, <2>2 DEF TypeOK, InHand, Take, env, stored, reading
  <1>2. CASE WorkerStops(w)
    BY <1>2 DEF TypeOK, InHand, WorkerStops, env, stored, poller, reading
  <1>3. CASE \E o \in Objects : Open(w, o)
    BY <1>3 DEF TypeOK, InHand, Open, env, stored, poller
  <1>4. CASE LoadOffset(w)
    <2>1. StartOffset(w) \in Nat
      BY <1>4, StartOffsetNat DEF InHand, LoadOffset
    <2> QED
      BY <1>4, <2>1 DEF TypeOK, InHand, LoadOffset, env, stored, poller
  <1>5. CASE \E r \in {"retry", "dlq"} : ReadFails(w, r)
    BY <1>5 DEF TypeOK, InHand, ReadFails, env, stored, poller, reading
  <1> QED
    BY <1>1, <1>2, <1>3, <1>4, <1>5

\* The end of a read keeps the types.
LEMMA TypeReadEnds ==
    ASSUME TypeOK, InHand, NEW w \in Workers, wpc[w] = "read",
           NEW r \in {"end", "stopped"}, ReadEnds(w, r)
    PROVE  TypeOK' /\ InHand'
  <1>0. wobj[w] \in Objects /\ wmsg[w] \in Messages
    BY DEF InHand
  <1>1. CASE Batch(w) # {}
    BY <1>0, <1>1 DEF TypeOK, InHand, ReadEnds, env, stored, poller, reading
  <1>2. CASE Batch(w) = {}
    <2>1. ObjectDone(w, r)
      BY <1>2 DEF ReadEnds
    <2>2. UNCHANGED <<wmsg, wobj>>
      BY DEF ReadEnds, reading
    <2>3. /\ wpc' \in [Workers -> {"idle", "open", "load", "read", "flush",
                                    "save", "error", "delete", "clean", "done"}]
          /\ wrest' \in [Workers -> SUBSET Objects]
          /\ wread' \in [Workers -> SUBSET (Objects \X Nat)]
          /\ wpc'[w] \in {"open", "delete", "error"}
          /\ \A x \in Workers : x # w => wpc'[x] = wpc[x]
      BY <1>0, <2>1, <2>2, ObjectDoneTypes
    <2> QED
      BY <1>0, <2>3 DEF TypeOK, InHand, ReadEnds, env, stored, poller, reading
  <1> QED
    BY <1>1, <1>2

\* What follows a batch keeps the types.
LEMMA TypeAfterBatch ==
    ASSUME TypeOK, InHand, NEW w \in Workers, Checkpoint(w) \/ CheckpointFails(w)
    PROVE  TypeOK' /\ InHand'
  <1>0. /\ wobj[w] \in Objects /\ wmsg[w] \in Messages
        /\ wpc[w] = "save" /\ AfterBatch(w)
    BY DEF InHand, Checkpoint, CheckpointFails
  <1>1. /\ offsets' = [k \in Keys |-> offsets'[k]]
        /\ \A k \in Keys : offsets'[k] # None => offsets'[k].pos \in Nat
    <2>1. CASE Checkpoint(w)
      BY <1>0, <2>1 DEF TypeOK, Checkpoint, Keys
    <2>2. CASE CheckpointFails(w)
      BY <2>2 DEF TypeOK, CheckpointFails
    <2> QED
      BY <2>1, <2>2
  <1>2. wfrom' \in [Workers -> Nat]
    BY <1>0 DEF TypeOK, AfterBatch
  <1>3. CASE wres[w] = "more"
    BY <1>0, <1>1, <1>2, <1>3 DEF TypeOK, InHand, AfterBatch, env, poller
  <1>4. CASE wres[w] # "more"
    <2>1. ObjectDone(w, wres[w]) /\ UNCHANGED <<wmsg, wobj>>
      BY <1>0, <1>4 DEF AfterBatch
    <2>2. /\ wpc' \in [Workers -> {"idle", "open", "load", "read", "flush",
                                    "save", "error", "delete", "clean", "done"}]
          /\ wrest' \in [Workers -> SUBSET Objects]
          /\ wread' \in [Workers -> SUBSET (Objects \X Nat)]
          /\ wpc'[w] \in {"open", "delete", "error"}
          /\ \A x \in Workers : x # w => wpc'[x] = wpc[x]
      BY <1>0, <2>1, ObjectDoneTypes
    <2> QED
      BY <1>0, <1>1, <1>2, <2>2 DEF TypeOK, InHand, AfterBatch, env, poller
  <1> QED
    BY <1>3, <1>4

\* Reading, flushing and checkpointing keep the types.
LEMMA TypeWorkerRead ==
    ASSUME TypeOK, InHand, NEW w \in Workers,
           \/ NextRecord(w) \/ EndOfObject(w) \/ ReadCancelled(w)
           \/ Flush(w) \/ FlushFails(w) \/ Checkpoint(w) \/ CheckpointFails(w)
    PROVE  TypeOK' /\ InHand'
  <1>1. CASE NextRecord(w)
    BY <1>1 DEF TypeOK, InHand, NextRecord, env, stored, poller
  <1>2. CASE EndOfObject(w) \/ ReadCancelled(w)
    BY <1>2, TypeReadEnds DEF EndOfObject, ReadCancelled
  <1>3. CASE Flush(w)
    <2>1. wobj[w] \in Objects
      BY <1>3 DEF InHand, Flush
    <2>2. Batch(w) \subseteq Nat
      BY <2>1 DEF Batch, Pick, TypeOK
    <2>3. {<<wobj[w], wver[w], i>> : i \in Batch(w)} \subseteq Records
      BY <2>1, <2>2 DEF TypeOK, Records
    <2>4. delivered' \subseteq Records /\ twice' \subseteq Records
      BY <1>3, <2>3 DEF TypeOK, Flush
    <2> QED
      BY <1>3, <2>4 DEF TypeOK, InHand, Flush, env, poller, reading
  <1>4. CASE FlushFails(w)
    BY <1>4 DEF TypeOK, InHand, FlushFails, env, stored, poller, reading
  <1>5. CASE Checkpoint(w) \/ CheckpointFails(w)
    BY <1>5, TypeAfterBatch
  <1> QED
    BY <1>1, <1>2, <1>3, <1>4, <1>5

\* Giving up a message or deleting it keeps the types.
LEMMA TypeWorkerEnd ==
    ASSUME TypeOK, InHand, NEW w \in Workers,
           \/ HandleProcessingError(w) \/ DeleteMessage(w) \/ DeleteFails(w)
           \/ \E e \in wread[w] : DeleteOffset(w, e)
    PROVE  TypeOK' /\ InHand'
  <1>r. ASSUME Return(w) PROVE WorkerTypes' /\ InHand'
    <2>1. WorkerTypes'
      BY <1>r, ReturnTypes
    <2>2. InHand'
      BY <1>r DEF TypeOK, InHand, Return
    <2> QED
      BY <2>1, <2>2
  <1>1. CASE HandleProcessingError(w)
    <2>1. wmsg[w] \in Messages
      BY <1>1 DEF InHand, HandleProcessingError
    <2>2. queue' \in [Messages -> {"unsent", "visible", "inflight", "deleted"}]
      <3>1. CASE UNCHANGED queue
        BY <3>1 DEF TypeOK
      <3>2. CASE queue' = [queue EXCEPT ![wmsg[w]] = "visible"]
        BY <2>1, <3>2 DEF TypeOK
      <3> QED
        BY <1>1, <3>1, <3>2 DEF HandleProcessingError
    <2>3. WorkerTypes' /\ InHand'
      BY <1>1, <1>r DEF HandleProcessingError
    <2> QED
      BY <1>1, <2>2, <2>3 DEF TypeOK, WorkerTypes, HandleProcessingError, stored,
         poller
  <1>a. ASSUME AfterDelete(w), wpc[w] = "delete" PROVE WorkerTypes' /\ InHand'
    <2>1. CASE wread[w] = {}
      BY <1>a, <1>r, <2>1 DEF AfterDelete
    <2>2. CASE wread[w] # {}
      BY <1>a, <2>2 DEF AfterDelete, reading, TypeOK, WorkerTypes, InHand
    <2> QED
      BY <2>1, <2>2
  <1>2. CASE DeleteMessage(w)
    <2>1. wmsg[w] \in Messages
      BY <1>2 DEF InHand, DeleteMessage
    <2>2. queue' \in [Messages -> {"unsent", "visible", "inflight", "deleted"}]
      BY <1>2, <2>1 DEF TypeOK, DeleteMessage
    <2>3. WorkerTypes' /\ InHand'
      BY <1>2, <1>a DEF DeleteMessage
    <2> QED
      BY <1>2, <2>2, <2>3 DEF TypeOK, WorkerTypes, DeleteMessage, stored, poller
  <1>3. CASE DeleteFails(w)
    <2>1. WorkerTypes' /\ InHand'
      BY <1>3, <1>r DEF DeleteFails
    <2> QED
      BY <1>3, <2>1 DEF TypeOK, WorkerTypes, DeleteFails, env, stored, poller
  <1>4. CASE \E e \in wread[w] : DeleteOffset(w, e)
    <2>1. PICK e \in wread[w] : DeleteOffset(w, e)
      BY <1>4
    <2>2. StorageKey(e[1]) \in Keys
      BY DEF TypeOK, Keys
    <2>3. /\ offsets' = [k \in Keys |-> offsets'[k]]
          /\ \A k \in Keys : offsets'[k] # None => offsets'[k].pos \in Nat
      <3>1. CASE offsets' = [offsets EXCEPT ![StorageKey(e[1])] = None]
        BY <2>2, <3>1 DEF TypeOK
      <3>2. CASE UNCHANGED offsets
        BY <3>2 DEF TypeOK
      <3> QED
        BY <2>1, <3>1, <3>2 DEF DeleteOffset
    <2>4. WorkerTypes' /\ InHand'
      <3>1. CASE wread[w] = {e}
        BY <1>r, <2>1, <3>1 DEF DeleteOffset
      <3>2. CASE wread[w] # {e}
        <4>1. /\ wread' = [wread EXCEPT ![w] = @ \ {e}]
              /\ UNCHANGED <<wpc, wmsg, wrest, reading, wres>>
          BY <2>1, <3>2 DEF DeleteOffset
        <4>2. wread' \in [Workers -> SUBSET (Objects \X Nat)]
          BY <4>1 DEF TypeOK
        <4> QED
          BY <4>1, <4>2 DEF reading, TypeOK, WorkerTypes, InHand
      <3> QED
        BY <3>1, <3>2
    <2> QED
      BY <2>1, <2>3, <2>4 DEF TypeOK, WorkerTypes, DeleteOffset, env, poller
  <1> QED
    BY <1>1, <1>2, <1>3, <1>4

\* Every step keeps the types.
LEMMA TypeStep ==
    ASSUME TypeOK, InHand, [Next]_vars
    PROVE  TypeOK' /\ InHand'
  <1>1. CASE \E m \in Messages : Publish(m) \/ VisibilityExpires(m)
    <2>1. UNCHANGED worker
      BY <1>1 DEF Publish, VisibilityExpires
    <2>2. InHand'
      BY <2>1 DEF InHand, worker, reading
    <2> QED
      BY <1>1, <2>2, TypeEnvironment
  <1>2. CASE Poller
    <2>1. UNCHANGED worker
      BY <1>2 DEF Poller, Receive, ReceiveNothing, Enqueue, PollerStops, vars
    <2>2. InHand'
      BY <2>1 DEF InHand, worker, reading
    <2> QED
      BY <1>2, <2>2, TypePoller
  <1>3. CASE \E w \in Workers : Worker(w)
    BY <1>3, TypeWorkerStart, TypeWorkerRead, TypeWorkerEnd DEF Worker
  <1>4. CASE Shutdown \/ CloseChannel \/ Stopped
    BY <1>4 DEF TypeOK, InHand, Shutdown, CloseChannel, Stopped, env, stored,
       poller, worker, reading
  <1>5. CASE Crash
    BY <1>5, ChanCapNat DEF TypeOK, InHand, Crash, env, stored
  <1>6. CASE Restart
    BY <1>6, ChanCapNat DEF TypeOK, InHand, Restart, env, stored, reading
  <1>7. CASE UNCHANGED vars
    BY <1>7 DEF TypeOK, InHand, vars, env, stored, poller, worker, reading
  <1> QED
    BY <1>1, <1>2, <1>3, <1>4, <1>5, <1>6, <1>7 DEF Next

\* Type correctness of the receiver: offsets, channel and workers always hold
\* what their operations expect.
THEOREM TypeCorrect == Spec => []TypeOK
  <1>1. Init => TypeOK /\ InHand
    BY InitType DEF Init, InHand
  <1>2. TypeOK /\ InHand /\ [Next]_vars => (TypeOK /\ InHand)'
    BY TypeStep
  <1> QED
    BY <1>1, <1>2, PTL DEF Spec

-----------------------------------------------------------------------------
(* The inductive invariant.                                                *)

\* The parser gets past the first n records of a version.
Passed(o, v, n) ==
    \A i \in 1 .. n :
        /\ i \in DOMAIN Content(o, v)
        /\ Content(o, v)[i] \in {"log", "malformed", "undecodable"}

\* ... and those that are logs were delivered.
Covered(o, v, n) ==
    /\ Passed(o, v, n)
    /\ \A i \in 1 .. n : Content(o, v)[i] = "log" => <<o, v, i>> \in delivered

AtEnd(o, v, n) ==
    n + 1 \in DOMAIN Content(o, v) => Content(o, v)[n + 1] = "cut"

\* A stored offset covers only delivered records of what it was stored for.
StoredCovered ==
    \A o \in Objects, v \in Nat :
        /\ offsets[StorageKey(o)] # None
        /\ ETag(o, v) # None
        /\ offsets[StorageKey(o)].etag = ETag(o, v)
        => Covered(o, v, offsets[StorageKey(o)].pos)

\* A version that was current at some time since the message was sent.
Fresh(m, o, v) == v \in announced[m][o] .. version[o]

\* What the receiver holds was sent.
SentInHand ==
    /\ \A m \in pending : queue[m] # "unsent"
    /\ \A i \in DOMAIN msgChan : queue[msgChan[i]] # "unsent"
    /\ \A w \in Workers : wpc[w] \notin {"idle", "done"} => queue[wmsg[w]] # "unsent"

AnnouncedPast ==
    \A m \in Messages, o \in Objects : announced[m][o] <= version[o]

\* ProcessMessage: what it has finished is consumed, the rest is in wrest.
MessageInv(w) ==
    /\ wpc[w] \in {"open", "load", "read", "flush", "save", "delete"} =>
         /\ \A e \in wread[w] : Fresh(wmsg[w], e[1], e[2]) /\ Consumed(e[1], e[2])
         /\ \A o \in Events(wmsg[w]) :
              o \in wrest[w] \/ \E e \in wread[w] : e[1] = o
    /\ wpc[w] = "delete" => wrest[w] = {}

\* consumeLogsFromS3Object: what lies before the batch is delivered.
ObjectInv(w) ==
    /\ wpc[w] \in {"load", "read", "flush", "save"} =>
         Fresh(wmsg[w], wobj[w], wver[w])
    /\ wpc[w] \in {"read", "flush", "save"} =>
         /\ wfrom[w] <= wpos[w]
         /\ Covered(wobj[w], wver[w], wfrom[w])
         /\ Passed(wobj[w], wver[w], wpos[w])
    /\ wpc[w] = "read" => wres[w] = "more"
    /\ wpc[w] = "save" => Covered(wobj[w], wver[w], wpos[w])
    /\ wpc[w] \in {"flush", "save"} /\ wres[w] = "end" =>
         AtEnd(wobj[w], wver[w], wpos[w])

WorkersInv == \A w \in Workers : MessageInv(w) /\ ObjectInv(w)

IInv ==
    /\ TypeOK /\ InHand /\ SentInHand /\ AnnouncedPast
    /\ StoredCovered /\ WorkersInv /\ NoLoss

-----------------------------------------------------------------------------
(* What only grows.                                                        *)

Grow ==
    /\ delivered \subseteq delivered'
    /\ \A m \in Messages : queue[m] # "unsent" =>
         queue'[m] # "unsent" /\ announced'[m] = announced[m]
    /\ \A o \in Objects : version[o] <= version'[o]

\* Worker w is as it was.
Same(w) ==
    /\ wpc'[w] = wpc[w] /\ wmsg'[w] = wmsg[w] /\ wrest'[w] = wrest[w]
    /\ wread'[w] = wread[w] /\ wobj'[w] = wobj[w] /\ wver'[w] = wver[w]
    /\ wfrom'[w] = wfrom[w] /\ wpos'[w] = wpos[w] /\ wres'[w] = wres[w]

\* A step of one worker leaves the others alone.
LEMMA OtherWorkers ==
    ASSUME TypeOK, NEW w \in Workers, Worker(w), NEW x \in Workers, x # w
    PROVE  Same(x)
  <1> USE DEF Same
  <1>r. ASSUME Return(w) PROVE Same(x)
    BY <1>r DEF Return, TypeOK
  <1>o. ASSUME NEW r, ObjectDone(w, r) PROVE /\ wpc'[x] = wpc[x]
                                            /\ wread'[x] = wread[x]
                                            /\ wrest'[x] = wrest[x]
    <2>1. CASE r = "end"
      BY <1>o, <2>1 DEF ObjectDone, TypeOK
    <2>2. CASE r # "end"
      BY <1>o, <2>2 DEF ObjectDone, TypeOK
    <2> QED
      BY <2>1, <2>2
  <1>1. CASE Take(w)
    BY <1>1 DEF Take, TypeOK, reading
  <1>2. CASE WorkerStops(w)
    BY <1>2 DEF WorkerStops, TypeOK, reading
  <1>3. CASE \E o \in Objects : Open(w, o)
    BY <1>3 DEF Open, TypeOK
  <1>4. CASE LoadOffset(w)
    BY <1>4 DEF LoadOffset, TypeOK
  <1>5. CASE \E r \in {"retry", "dlq"} : ReadFails(w, r)
    BY <1>5 DEF ReadFails, TypeOK, reading
  <1>6. CASE NextRecord(w)
    BY <1>6 DEF NextRecord, TypeOK
  <1>7. CASE EndOfObject(w) \/ ReadCancelled(w)
    <2>1. PICK r : ReadEnds(w, r)
      BY <1>7 DEF EndOfObject, ReadCancelled
    <2>2. CASE Batch(w) # {}
      BY <2>1, <2>2 DEF ReadEnds, reading, TypeOK
    <2>3. CASE Batch(w) = {}
      <3>1. ObjectDone(w, r)
        BY <2>1, <2>3 DEF ReadEnds
      <3> QED
        BY <1>o, <2>1, <3>1 DEF ReadEnds, reading, TypeOK
    <2> QED
      BY <2>2, <2>3
  <1>8. CASE Flush(w) \/ FlushFails(w)
    BY <1>8 DEF Flush, FlushFails, TypeOK, reading
  <1>9. CASE Checkpoint(w) \/ CheckpointFails(w)
    <2>1. AfterBatch(w)
      BY <1>9 DEF Checkpoint, CheckpointFails
    <2>2. CASE wres[w] = "more"
      BY <2>1, <2>2 DEF AfterBatch, TypeOK
    <2>3. CASE wres[w] # "more"
      <3>1. ObjectDone(w, wres[w])
        BY <2>1, <2>3 DEF AfterBatch
      <3> QED
        BY <1>o, <2>1, <3>1 DEF AfterBatch, TypeOK
    <2> QED
      BY <2>2, <2>3
  <1>10. CASE HandleProcessingError(w) \/ DeleteFails(w)
    BY <1>10, <1>r DEF HandleProcessingError, DeleteFails
  <1>11. CASE DeleteMessage(w)
    <2>1. CASE wread[w] = {}
      BY <1>11, <2>1, <1>r DEF DeleteMessage, AfterDelete
    <2>2. CASE wread[w] # {}
      BY <1>11, <2>2 DEF DeleteMessage, AfterDelete, reading, TypeOK
    <2> QED
      BY <2>1, <2>2
  <1>12. CASE \E e \in wread[w] : DeleteOffset(w, e)
    <2>1. PICK e \in wread[w] : DeleteOffset(w, e)
      BY <1>12
    <2>2. CASE wread[w] = {e}
      BY <2>1, <2>2, <1>r DEF DeleteOffset
    <2>3. CASE wread[w] # {e}
      BY <2>1, <2>3 DEF DeleteOffset, reading, TypeOK
    <2> QED
      BY <2>2, <2>3
  <1> QED
    BY <1>1, <1>2, <1>3, <1>4, <1>5, <1>6, <1>7, <1>8, <1>9, <1>10, <1>11, <1>12
    DEF Worker

\* Deliveries, sent messages and versions are never taken back.
LEMMA GrowStep ==
    ASSUME TypeOK, InHand, [Next]_vars
    PROVE  Grow
  <1>1. ASSUME NEW m \in Messages, Publish(m) PROVE Grow
    BY <1>1 DEF Publish, Grow, TypeOK, stored
  <1>2. ASSUME NEW m \in Messages, VisibilityExpires(m) PROVE Grow
    BY <1>2 DEF VisibilityExpires, Grow, TypeOK, stored
  <1>3. CASE Poller
    BY <1>3 DEF Poller, Receive, ReceiveNothing, Enqueue, PollerStops, Grow, TypeOK,
       vars, env, stored
  <1>4. ASSUME NEW w \in Workers, Worker(w) PROVE Grow
    <2>1. CASE HandleProcessingError(w)
      <3>1. wmsg[w] \in Messages
        BY <2>1 DEF HandleProcessingError, InHand
      <3> QED
        BY <2>1, <3>1 DEF HandleProcessingError, Grow, TypeOK, stored
    <2>2. CASE DeleteMessage(w)
      <3>1. wmsg[w] \in Messages
        BY <2>2 DEF DeleteMessage, InHand
      <3> QED
        BY <2>2, <3>1 DEF DeleteMessage, Grow, TypeOK, stored
    <2>3. CASE UNCHANGED <<queue, announced, version>> /\ delivered \subseteq delivered'
      BY <2>3 DEF Grow, TypeOK
    <2>4. CASE Flush(w)
      BY <2>4 DEF Flush, env, Grow, TypeOK
    <2> QED
      BY <1>4, <2>1, <2>2, <2>3, <2>4 DEF Worker, Take, WorkerStops, Open, LoadOffset,
         ReadFails, NextRecord, EndOfObject, ReadCancelled, ReadEnds, FlushFails,
         Checkpoint, CheckpointFails, AfterBatch, DeleteFails, DeleteOffset,
         env, stored
  <1>5. CASE Shutdown \/ CloseChannel \/ Stopped \/ Crash \/ Restart
    BY <1>5 DEF Shutdown, CloseChannel, Stopped, Crash, Restart, env, stored, Grow,
       TypeOK
  <1>6. CASE UNCHANGED vars
    BY <1>6 DEF vars, env, stored, Grow, TypeOK
  <1> QED
    BY <1>1, <1>2, <1>3, <1>4, <1>5, <1>6 DEF Next

\* Being consumed, covered and fresh lasts.
LEMMA GrowKeeps ==
    ASSUME TypeOK, TypeOK', Grow
    PROVE  /\ \A o, v : Consumed(o, v) => Consumed(o, v)'
           /\ \A o, v, n : Covered(o, v, n) => Covered(o, v, n)'
           /\ \A m \in Messages, o \in Objects, v \in Nat :
                queue[m] # "unsent" /\ Fresh(m, o, v) => Fresh(m, o, v)'
  <1>1. \A o, v : Consumed(o, v) => Consumed(o, v)'
    BY DEF Grow, Consumed
  <1>2. \A o, v, n : Covered(o, v, n) => Covered(o, v, n)'
    BY DEF Grow, Covered
  <1>3. ASSUME NEW m \in Messages, NEW o \in Objects, NEW v \in Nat,
               queue[m] # "unsent", Fresh(m, o, v)
        PROVE  Fresh(m, o, v)'
    <2>1. /\ announced'[m] = announced[m] /\ announced[m][o] \in Nat
          /\ version[o] \in Nat /\ version'[o] \in Nat /\ version[o] <= version'[o]
      BY <1>3 DEF Grow, TypeOK
    <2> QED
      BY <1>3, <2>1 DEF Fresh
  <1> QED
    BY <1>1, <1>2, <1>3

\* A worker that does not move keeps its invariant.
LEMMA SameKeeps ==
    ASSUME TypeOK, TypeOK', InHand, SentInHand, Grow, NEW w \in Workers, Same(w),
           MessageInv(w), ObjectInv(w)
    PROVE  MessageInv(w)' /\ ObjectInv(w)'
  <1>1. CASE wpc[w] \in {"idle", "done"}
    BY <1>1 DEF Same, MessageInv, ObjectInv
  <1>2. CASE wpc[w] \notin {"idle", "done"}
    <2>1. wmsg[w] \in Messages /\ queue[wmsg[w]] # "unsent"
      BY <1>2 DEF InHand, SentInHand
    <2>2. \A e \in wread[w] : e[1] \in Objects /\ e[2] \in Nat
      BY DEF TypeOK
    <2>3. MessageInv(w)'
      BY <2>1, <2>2, GrowKeeps DEF Same, MessageInv
    <2>4. wpc[w] \in {"load", "read", "flush", "save"} => wobj[w] \in Objects
      BY DEF InHand
    <2>5. wver[w] \in Nat
      BY DEF TypeOK
    <2>6. ObjectInv(w)'
      BY <2>1, <2>4, <2>5, GrowKeeps DEF Same, ObjectInv, Passed, AtEnd
    <2> QED
      BY <2>3, <2>6
  <1> QED
    BY <1>1, <1>2

-----------------------------------------------------------------------------
(* Reading.                                                                *)

\* If all logs up to lo are in D, and the batch from there to hi is, then so
\* are all logs up to hi.
LEMMA BatchCovers ==
    ASSUME NEW o, NEW v, NEW D, NEW lo \in Nat, NEW hi \in Nat, lo <= hi,
           Passed(o, v, hi),
           \A i \in 1 .. lo : Content(o, v)[i] = "log" => <<o, v, i>> \in D,
           \A i \in Pick(o, v, lo + 1, hi, {"log", "undecodable"}) :
               <<o, v, i>> \in D
    PROVE  \A i \in 1 .. hi : Content(o, v)[i] = "log" => <<o, v, i>> \in D
  <1>1. ASSUME NEW i \in 1 .. hi, Content(o, v)[i] = "log"
        PROVE  <<o, v, i>> \in D
    <2>1. CASE i <= lo
      BY <1>1, <2>1
    <2>2. CASE i > lo
      <3>1. i \in lo + 1 .. hi /\ i \in DOMAIN Content(o, v)
        BY <1>1, <2>2 DEF Passed
      <3>2. i \in Pick(o, v, lo + 1, hi, {"log", "undecodable"})
        BY <1>1, <3>1 DEF Pick
      <3> QED
        BY <3>2
    <2> QED
      BY <1>1, <2>1, <2>2
  <1> QED
    BY <1>1

\* A covered version that is at its end is consumed.
LEMMA EndConsumes ==
    ASSUME WellFormedContent, NEW o \in Objects, NEW v \in Nat, NEW n \in Nat,
           Covered(o, v, n), AtEnd(o, v, n)
    PROVE  Consumed(o, v)
  <1>0. /\ Content(o, v) \in Seq(RecordKinds)
        /\ DOMAIN Content(o, v) = 1 .. Len(Content(o, v))
        /\ Len(Content(o, v)) \in Nat
    BY DEF WellFormedContent
  <1>1. ASSUME NEW i \in DOMAIN Content(o, v)
        PROVE  i <= n \/ Content(o, v)[i] = "cut"
    <2>1. CASE n + 1 \notin DOMAIN Content(o, v)
      BY <1>0, <2>1
    <2>2. CASE n + 1 \in DOMAIN Content(o, v)
      <3>1. n + 1 = Len(Content(o, v)) /\ Content(o, v)[n + 1] = "cut"
        BY <2>2 DEF AtEnd, WellFormedContent
      <3> QED
        BY <1>0, <3>1
    <2> QED
      BY <2>1, <2>2
  <1>2. ASSUME NEW i \in DOMAIN Content(o, v), i <= n
        PROVE  /\ Content(o, v)[i] # "unsupported"
               /\ Content(o, v)[i] = "log" => <<o, v, i>> \in delivered
    <2>1. i \in 1 .. n
      BY <1>0, <1>2
    <2> QED
      BY <2>1 DEF Covered, Passed
  <1> QED
    BY <1>1, <1>2 DEF Consumed

\* Finishing a consumed object keeps the invariant of ProcessMessage.
LEMMA ObjectDoneKeeps ==
    ASSUME TypeOK, NEW w \in Workers, wobj[w] \in Objects, MessageInv(w),
           wpc[w] \in {"read", "save"},
           NEW r, ObjectDone(w, r), UNCHANGED <<wmsg, announced, version, delivered>>,
           Fresh(wmsg[w], wobj[w], wver[w]),
           r = "end" => Consumed(wobj[w], wver[w])
    PROVE  MessageInv(w)' /\ ObjectInv(w)'
  <1>1. CASE r = "end"
    <2>1. /\ wread'[w] = wread[w] \cup {<<wobj[w], wver[w]>>}
          /\ wrest'[w] = wrest[w] \ {wobj[w]}
      BY <1>1 DEF ObjectDone, TypeOK
    <2>2. wpc'[w] \in {"open", "delete"} /\ (wpc'[w] = "delete" => wrest'[w] = {})
      BY <1>1 DEF ObjectDone, TypeOK
    <2>3. ObjectInv(w)'
      BY <2>2 DEF ObjectInv
    <2>4. \A e \in wread'[w] : Fresh(wmsg[w], e[1], e[2]) /\ Consumed(e[1], e[2])
      BY <1>1, <2>1 DEF MessageInv
    <2>5. \A o \in Events(wmsg[w]) : o \in wrest'[w] \/ \E e \in wread'[w] : e[1] = o
      <3>1. TAKE o \in Events(wmsg[w])
      <3>2. CASE o = wobj[w]
        <4>1. <<wobj[w], wver[w]>> \in wread'[w] /\ <<wobj[w], wver[w]>>[1] = o
          BY <2>1, <3>2
        <4> QED
          BY <4>1
      <3>3. CASE o # wobj[w]
        BY <2>1, <3>3 DEF MessageInv
      <3> QED
        BY <3>2, <3>3
    <2>6. MessageInv(w)'
      BY <2>2, <2>4, <2>5 DEF MessageInv, Fresh, Consumed
    <2> QED
      BY <2>3, <2>6
  <1>2. CASE r # "end"
    BY <1>2 DEF ObjectDone, TypeOK, MessageInv, ObjectInv
  <1> QED
    BY <1>1, <1>2

-----------------------------------------------------------------------------
(* What is held was sent, and what is announced exists.                    *)

\* A worker's message is the one it had, or the head of the channel.
LEMMA MessageOf ==
    ASSUME TypeOK, NEW w \in Workers, Worker(w), ~Take(w), wpc'[w] \notin {"idle", "done"}
    PROVE  wmsg'[w] = wmsg[w] /\ wpc[w] \notin {"idle", "done"} /\ UNCHANGED <<pending, msgChan>>
  <1>r. ASSUME Return(w) PROVE FALSE
    BY <1>r DEF Return, TypeOK
  <1>1. CASE WorkerStops(w) \/ DeleteFails(w) \/ HandleProcessingError(w)
    BY <1>1, <1>r DEF WorkerStops, DeleteFails, HandleProcessingError, TypeOK
  <1>2. CASE DeleteMessage(w)
    BY <1>2, <1>r DEF DeleteMessage, AfterDelete, poller
  <1>3. CASE \E e \in wread[w] : DeleteOffset(w, e)
    BY <1>3, <1>r DEF DeleteOffset, poller
  <1> QED
    BY <1>1, <1>2, <1>3 DEF Worker, Open, LoadOffset, ReadFails, NextRecord, EndOfObject,
       ReadCancelled, ReadEnds, Flush, FlushFails, Checkpoint, CheckpointFails,
       AfterBatch, poller

\* The channel changes only by Enqueue and Take, and is emptied by a restart.
LEMMA ChannelOf ==
    ASSUME NEW w \in Workers, Worker(w), ~Take(w)
    PROVE  UNCHANGED <<pending, msgChan>>
  BY DEF Worker, WorkerStops, Open, LoadOffset, ReadFails, NextRecord, EndOfObject,
     ReadCancelled, ReadEnds, Flush, FlushFails, Checkpoint, CheckpointFails,
     AfterBatch, HandleProcessingError, DeleteMessage, DeleteFails, DeleteOffset, poller

\* Every message in hand was sent.
LEMMA SentStep ==
    ASSUME TypeOK, TypeOK', InHand, SentInHand, Grow, [Next]_vars
    PROVE  SentInHand'
  <1>g. \A m \in Messages : queue[m] # "unsent" => queue'[m] # "unsent"
    BY DEF Grow
  <1>t. /\ pending \subseteq Messages
        /\ \A i \in DOMAIN msgChan : msgChan[i] \in Messages
        /\ msgChan \in Seq(Messages)
    BY DEF TypeOK
  <1>1. CASE \E m \in Messages : Publish(m) \/ VisibilityExpires(m)
    BY <1>1, <1>g, <1>t DEF Publish, VisibilityExpires, SentInHand, InHand, poller, worker
  <1>2. ASSUME NEW S \in SUBSET Messages, Receive(S) PROVE SentInHand'
    <2>1. \A m \in S : queue'[m] = "inflight"
      BY <1>2 DEF Receive
    <2> QED
      BY <1>2, <2>1, <1>g, <1>t DEF Receive, SentInHand, InHand, worker
  <1>3. ASSUME NEW m \in Messages, Enqueue(m) PROVE SentInHand'
    <2>1. \A i \in DOMAIN msgChan' : msgChan'[i] = m \/ \E j \in DOMAIN msgChan : msgChan'[i] = msgChan[j]
      BY <1>3, <1>t DEF Enqueue
    <2>2. \A i \in DOMAIN msgChan' : queue'[msgChan'[i]] # "unsent"
      BY <1>3, <2>1, <1>g, <1>t DEF Enqueue, SentInHand
    <2> QED
      BY <1>3, <2>2, <1>g, <1>t DEF Enqueue, SentInHand, InHand, worker, env
  <1>4. CASE ReceiveNothing \/ UNCHANGED vars
    BY <1>4, <1>g, <1>t DEF ReceiveNothing, SentInHand, InHand, vars, env, poller, worker
  <1>5. CASE PollerStops
    BY <1>5, <1>g, <1>t DEF PollerStops, SentInHand, InHand, env, worker
  <1>6. ASSUME NEW w \in Workers, Take(w) PROVE SentInHand'
    <2>0. Worker(w)
      BY <1>6 DEF Worker
    <2>1. /\ wmsg'[w] = Head(msgChan) /\ Head(msgChan) = msgChan[1] /\ 1 \in DOMAIN msgChan
      BY <1>6, <1>t DEF Take, TypeOK
    <2>2. \A i \in DOMAIN Tail(msgChan) : \E j \in DOMAIN msgChan : Tail(msgChan)[i] = msgChan[j]
      <3>1. TAKE i \in DOMAIN Tail(msgChan)
      <3>2. i + 1 \in DOMAIN msgChan /\ Tail(msgChan)[i] = msgChan[i + 1]
        BY <1>6, <1>t DEF Take
      <3> QED
        BY <3>2
    <2>3. \A i \in DOMAIN msgChan' : queue'[msgChan'[i]] # "unsent"
      BY <1>6, <2>2, <1>g, <1>t DEF Take, SentInHand
    <2>4. queue'[wmsg'[w]] # "unsent"
      BY <2>1, <1>g, <1>t DEF SentInHand
    <2>5. ASSUME NEW x \in Workers, x # w, wpc'[x] \notin {"idle", "done"}
          PROVE  queue'[wmsg'[x]] # "unsent"
      BY <2>0, <2>5, <1>g, OtherWorkers DEF Same, SentInHand, InHand
    <2> QED
      BY <1>6, <2>3, <2>4, <2>5, <1>g, <1>t DEF Take, SentInHand
  <1>7. ASSUME NEW w \in Workers, Worker(w), ~Take(w) PROVE SentInHand'
    <2>1. UNCHANGED <<pending, msgChan>>
      BY <1>7, ChannelOf
    <2>2. ASSUME NEW x \in Workers, wpc'[x] \notin {"idle", "done"}
          PROVE  queue'[wmsg'[x]] # "unsent"
      <3>1. CASE x = w
        BY <1>7, <2>2, <3>1, <1>g, MessageOf DEF SentInHand, InHand
      <3>2. CASE x # w
        BY <1>7, <2>2, <3>2, <1>g, OtherWorkers DEF Same, SentInHand, InHand
      <3> QED
        BY <3>1, <3>2
    <2> QED
      BY <2>1, <2>2, <1>g, <1>t DEF SentInHand
  <1>8. CASE Shutdown \/ CloseChannel \/ Stopped
    BY <1>8, <1>g, <1>t DEF Shutdown, CloseChannel, Stopped, SentInHand, InHand, poller, worker
  <1>9. CASE Crash
    BY <1>9 DEF Crash, SentInHand
  <1>10. CASE Restart
    BY <1>10, <1>g, <1>t DEF Restart, SentInHand
  <1> QED
    BY <1>1, <1>2, <1>3, <1>4, <1>5, <1>6, <1>7, <1>8, <1>9, <1>10 DEF Next, Poller

\* A notification announces versions that exist.
LEMMA AnnouncedStep ==
    ASSUME TypeOK, TypeOK', InHand, AnnouncedPast, Grow, [Next]_vars
    PROVE  AnnouncedPast'
  <1>1. ASSUME NEW m \in Messages, Publish(m) PROVE AnnouncedPast'
    <2>1. /\ announced' = [announced EXCEPT ![m] = version']
          /\ \A o \in Objects : version[o] \in Nat /\ version'[o] \in Nat
          /\ \A o \in Objects : version[o] <= version'[o]
          /\ \A n \in Messages, o \in Objects : announced[n][o] \in Nat
      BY <1>1 DEF Publish, Grow, TypeOK
    <2>2. ASSUME NEW n \in Messages, NEW o \in Objects PROVE announced'[n][o] <= version'[o]
      <3>1. CASE n = m
        BY <2>1, <3>1 DEF TypeOK
      <3>2. CASE n # m
        BY <2>1, <3>2 DEF TypeOK, AnnouncedPast
      <3> QED
        BY <3>1, <3>2
    <2> QED
      BY <2>2 DEF AnnouncedPast
  <1>2. CASE ~ \E m \in Messages : Publish(m)
    <2>0. ASSUME NEW w \in Workers, Worker(w) PROVE UNCHANGED <<announced, version>>
      BY <2>0 DEF Worker, Take, WorkerStops, Open, LoadOffset, ReadFails,
         NextRecord, EndOfObject, ReadCancelled, ReadEnds, Flush, FlushFails,
         Checkpoint, CheckpointFails, AfterBatch, HandleProcessingError,
         DeleteMessage, DeleteFails, DeleteOffset, env
    <2>1. UNCHANGED <<announced, version>>
      BY <1>2, <2>0 DEF Next, Poller, VisibilityExpires, Receive, ReceiveNothing,
         Enqueue, PollerStops, Shutdown, CloseChannel, Stopped, Crash, Restart, vars, env
    <2> QED
      BY <2>1 DEF AnnouncedPast
  <1> QED
    BY <1>1, <1>2

-----------------------------------------------------------------------------
(* The worker that moves.                                                  *)

\* The end of a read keeps the worker's invariant: an object is finished with
\* an empty batch only when all of it was delivered.
LEMMA ReadEndsKeeps ==
    ASSUME WellFormedContent, TypeOK, InHand, NEW w \in Workers, wpc[w] = "read",
           MessageInv(w), ObjectInv(w), NEW r \in {"end", "stopped"}, ReadEnds(w, r),
           r = "end" => AtEnd(wobj[w], wver[w], wpos[w])
    PROVE  MessageInv(w)' /\ ObjectInv(w)'
  <1>0. /\ wobj[w] \in Objects /\ wver[w] \in Nat /\ wfrom[w] \in Nat /\ wpos[w] \in Nat
        /\ Fresh(wmsg[w], wobj[w], wver[w]) /\ wfrom[w] <= wpos[w]
        /\ Covered(wobj[w], wver[w], wfrom[w]) /\ Passed(wobj[w], wver[w], wpos[w])
    BY DEF InHand, TypeOK, ObjectInv
  <1>u. UNCHANGED <<wmsg, wobj, wver, wfrom, wpos, announced, version, delivered>>
    BY DEF ReadEnds, env, stored, reading
  <1>1. CASE Batch(w) # {}
    <2>1. wpc'[w] = "flush" /\ UNCHANGED <<wread, wrest>> /\ wres'[w] = r
      BY <1>1 DEF ReadEnds, TypeOK
    <2>2. MessageInv(w)'
      BY <2>1, <1>u DEF MessageInv, Fresh, Consumed
    <2>3. ObjectInv(w)'
      BY <1>0, <2>1, <1>u DEF ObjectInv, Fresh, Covered, Passed, AtEnd
    <2> QED
      BY <2>2, <2>3
  <1>2. CASE Batch(w) = {}
    <2>1. ObjectDone(w, r)
      BY <1>2 DEF ReadEnds
    <2>2. Covered(wobj[w], wver[w], wpos[w])
      BY <1>0, <1>2, BatchCovers DEF Batch, Covered
    <2>3. r = "end" => Consumed(wobj[w], wver[w])
      BY <1>0, <2>2, EndConsumes
    <2> QED
      BY <1>0, <1>u, <2>1, <2>3, ObjectDoneKeeps
  <1> QED
    BY <1>1, <1>2

\* Going on after a batch keeps the worker's invariant.
LEMMA AfterBatchKeeps ==
    ASSUME WellFormedContent, TypeOK, InHand, NEW w \in Workers, wpc[w] = "save",
           MessageInv(w), ObjectInv(w), AfterBatch(w)
    PROVE  MessageInv(w)' /\ ObjectInv(w)'
  <1>0. /\ wobj[w] \in Objects /\ wver[w] \in Nat /\ wpos[w] \in Nat
        /\ Fresh(wmsg[w], wobj[w], wver[w])
        /\ Covered(wobj[w], wver[w], wpos[w]) /\ Passed(wobj[w], wver[w], wpos[w])
    BY DEF InHand, TypeOK, ObjectInv
  <1>u. UNCHANGED <<wmsg, wobj, wver, wpos, wres, announced, version, delivered>>
    BY DEF AfterBatch, env
  <1>1. CASE wres[w] = "more"
    <2>1. wpc'[w] = "read" /\ wfrom'[w] = wpos[w] /\ UNCHANGED <<wread, wrest>>
      BY <1>1 DEF AfterBatch, TypeOK
    <2>2. MessageInv(w)'
      BY <2>1, <1>u DEF MessageInv, Fresh, Consumed
    <2>3. ObjectInv(w)'
      BY <1>0, <1>1, <2>1, <1>u DEF ObjectInv, Fresh, Covered, Passed
    <2> QED
      BY <2>2, <2>3
  <1>2. CASE wres[w] # "more"
    <2>1. ObjectDone(w, wres[w])
      BY <1>2 DEF AfterBatch
    <2>2. wres[w] = "end" => Consumed(wobj[w], wver[w])
      BY <1>0, EndConsumes DEF ObjectInv
    <2> QED
      BY <1>0, <1>u, <2>1, <2>2, ObjectDoneKeeps
  <1> QED
    BY <1>1, <1>2

\* A flushed batch covers the records up to the position of the producer.
LEMMA FlushKeeps ==
    ASSUME TypeOK, InHand, NEW w \in Workers, MessageInv(w), ObjectInv(w), Flush(w)
    PROVE  MessageInv(w)' /\ ObjectInv(w)'
  <1>0. /\ wpc[w] = "flush" /\ wpc'[w] = "save"
        /\ wfrom[w] \in Nat /\ wpos[w] \in Nat
        /\ wfrom[w] <= wpos[w]
        /\ Covered(wobj[w], wver[w], wfrom[w]) /\ Passed(wobj[w], wver[w], wpos[w])
    BY DEF Flush, TypeOK, ObjectInv
  <1>u. /\ UNCHANGED <<wmsg, wread, wrest, wobj, wver, wfrom, wpos, wres, announced, version>>
        /\ delivered \subseteq delivered'
        /\ \A i \in Batch(w) : <<wobj[w], wver[w], i>> \in delivered'
    BY DEF Flush, env, reading
  <1>1. MessageInv(w)'
    BY <1>0, <1>u DEF MessageInv, Fresh, Consumed
  <1>2. \A i \in 1 .. wpos[w] : Content(wobj[w], wver[w])[i] = "log" =>
           <<wobj[w], wver[w], i>> \in delivered'
    <2>1. \A i \in 1 .. wfrom[w] : Content(wobj[w], wver[w])[i] = "log" =>
             <<wobj[w], wver[w], i>> \in delivered'
      BY <1>0, <1>u DEF Covered
    <2> QED
      BY <1>0, <1>u, <2>1, BatchCovers DEF Batch
  <1>3. ObjectInv(w)'
    BY <1>0, <1>u, <1>2 DEF ObjectInv, Fresh, Covered, Passed, AtEnd
  <1> QED
    BY <1>1, <1>3

\* A resumed read starts behind delivered records, since a stored offset is
\* only used for the version it was stored for.
LEMMA LoadOffsetKeeps ==
    ASSUME TypeOK, InHand, StoredCovered, NEW w \in Workers, MessageInv(w),
           ObjectInv(w), LoadOffset(w)
    PROVE  MessageInv(w)' /\ ObjectInv(w)'
  <1>0. /\ wpc[w] = "load" /\ wpc'[w] = "read" /\ wres'[w] = "more"
        /\ wfrom'[w] = StartOffset(w) /\ wpos'[w] = StartOffset(w)
        /\ UNCHANGED <<wmsg, wread, wrest, wobj, wver, announced, version, delivered>>
    BY DEF LoadOffset, TypeOK, env, stored
  <1>1. wobj[w] \in Objects /\ wver[w] \in Nat
    BY <1>0 DEF InHand, TypeOK
  <1>2. StartOffset(w) \in Nat
    BY <1>1, StartOffsetNat
  <1>3. Covered(wobj[w], wver[w], StartOffset(w))
    <2>1. CASE StartOffset(w) = 0
      BY <2>1 DEF Covered, Passed
    <2>2. CASE StartOffset(w) # 0
      BY <1>1, <2>2 DEF StartOffset, StoredCovered
    <2> QED
      BY <2>1, <2>2
  <1>4. MessageInv(w)'
    BY <1>0 DEF MessageInv, Fresh, Consumed
  <1>5. ObjectInv(w)'
    BY <1>0, <1>2, <1>3 DEF ObjectInv, Fresh, Covered, Passed
  <1> QED
    BY <1>4, <1>5

\* Reading a record keeps the worker's invariant.
LEMMA NextRecordKeeps ==
    ASSUME TypeOK, InHand, NEW w \in Workers, MessageInv(w), ObjectInv(w), NextRecord(w)
    PROVE  MessageInv(w)' /\ ObjectInv(w)'
  <1>0. /\ wpc[w] = "read" /\ wpc'[w] \in {"read", "flush"} /\ wpos'[w] = wpos[w] + 1
        /\ wfrom[w] \in Nat /\ wpos[w] \in Nat /\ wfrom[w] <= wpos[w]
        /\ Covered(wobj[w], wver[w], wfrom[w]) /\ Passed(wobj[w], wver[w], wpos[w])
        /\ wres[w] = "more"
    BY DEF NextRecord, TypeOK, ObjectInv
  <1>u. UNCHANGED <<wmsg, wread, wrest, wobj, wver, wfrom, wres, announced, version,
                    delivered>>
    BY DEF NextRecord, env, stored
  <1>1. /\ wpos[w] + 1 \in DOMAIN Content(wobj[w], wver[w])
        /\ Content(wobj[w], wver[w])[wpos[w] + 1] \in {"log", "malformed", "undecodable"}
    BY DEF NextRecord, NextKind
  <1>2. Passed(wobj[w], wver[w], wpos[w] + 1)
    <2>1. \A i \in 1 .. wpos[w] + 1 : i \in 1 .. wpos[w] \/ i = wpos[w] + 1
      BY <1>0
    <2> QED
      BY <1>0, <1>1, <2>1 DEF Passed
  <1>3. MessageInv(w)'
    BY <1>0, <1>u DEF MessageInv, Fresh, Consumed
  <1>4. ObjectInv(w)'
    BY <1>0, <1>2, <1>u DEF ObjectInv, Fresh, Covered, Passed
  <1> QED
    BY <1>3, <1>4

\* Taking a message and opening an object establish the worker's invariant.
LEMMA StartKeeps ==
    ASSUME TypeOK, InHand, AnnouncedPast, NEW w \in Workers, MessageInv(w),
           Take(w) \/ \E o \in Objects : Open(w, o)
    PROVE  MessageInv(w)' /\ ObjectInv(w)'
  <1>1. CASE Take(w)
    <2>1. /\ wpc'[w] \in {"open", "delete"} /\ wread'[w] = {}
          /\ wrest'[w] = Events(wmsg'[w]) /\ (wpc'[w] = "delete" => wrest'[w] = {})
      BY <1>1 DEF Take, TypeOK
    <2> QED
      BY <2>1 DEF MessageInv, ObjectInv
  <1>2. ASSUME NEW o \in Objects, Open(w, o) PROVE MessageInv(w)' /\ ObjectInv(w)'
    <2>1. /\ wpc[w] = "open" /\ wpc'[w] = "load" /\ wobj'[w] = o /\ wver'[w] = version[o]
          /\ UNCHANGED <<wmsg, wread, wrest, announced, version, delivered>>
      BY <1>2 DEF Open, TypeOK, env, stored
    <2>2. wmsg[w] \in Messages
      BY <2>1 DEF InHand
    <2>3. Fresh(wmsg[w], o, version[o])
      BY <2>2 DEF Fresh, AnnouncedPast, TypeOK
    <2>4. MessageInv(w)'
      BY <2>1 DEF MessageInv, Fresh, Consumed
    <2>5. ObjectInv(w)'
      BY <2>1, <2>3 DEF ObjectInv, Fresh
    <2> QED
      BY <2>4, <2>5
  <1> QED
    BY <1>1, <1>2

\* A worker outside ProcessMessage, or giving up, has nothing to keep.
LEMMA NothingToKeep ==
    ASSUME NEW w \in Workers, wpc'[w] \in {"idle", "done", "error", "clean"}
    PROVE  MessageInv(w)' /\ ObjectInv(w)'
  BY DEF MessageInv, ObjectInv

\* Every step of a worker keeps its invariant.
LEMMA WorkerKeeps ==
    ASSUME WellFormedContent, TypeOK, InHand, AnnouncedPast, StoredCovered,
           NEW w \in Workers, MessageInv(w), ObjectInv(w), Worker(w)
    PROVE  MessageInv(w)' /\ ObjectInv(w)'
  <1>1. CASE Take(w) \/ \E o \in Objects : Open(w, o)
    BY <1>1, StartKeeps
  <1>2. CASE LoadOffset(w)
    BY <1>2, LoadOffsetKeeps
  <1>3. CASE NextRecord(w)
    BY <1>3, NextRecordKeeps
  <1>4. CASE EndOfObject(w)
    <2>1. wpc[w] = "read" /\ NextKind(w) \in {"end", "cut"} /\ ReadEnds(w, "end")
      BY <1>4 DEF EndOfObject
    <2>2. wobj[w] \in Objects /\ wver[w] \in Nat
      BY <2>1 DEF InHand, TypeOK
    <2>3. \A i \in DOMAIN Content(wobj[w], wver[w]) :
             Content(wobj[w], wver[w])[i] \in RecordKinds
      BY <2>2 DEF WellFormedContent
    <2>4. AtEnd(wobj[w], wver[w], wpos[w])
      BY <2>1, <2>3 DEF NextKind, AtEnd, RecordKinds
    <2> QED
      BY <2>1, <2>4, ReadEndsKeeps
  <1>5. CASE ReadCancelled(w)
    <2>1. wpc[w] = "read" /\ ReadEnds(w, "stopped")
      BY <1>5 DEF ReadCancelled
    <2> QED
      BY <2>1, ReadEndsKeeps
  <1>6. CASE Flush(w)
    BY <1>6, FlushKeeps
  <1>7. CASE Checkpoint(w) \/ CheckpointFails(w)
    BY <1>7, AfterBatchKeeps DEF Checkpoint, CheckpointFails
  <1>8. CASE wpc'[w] \in {"idle", "done", "error", "clean"}
    BY <1>8, NothingToKeep
  <1>9. CASE WorkerStops(w) \/ (\E r \in {"retry", "dlq"} : ReadFails(w, r)) \/ FlushFails(w)
    BY <1>8, <1>9 DEF WorkerStops, ReadFails, FlushFails, TypeOK
  <1>10. CASE HandleProcessingError(w) \/ DeleteFails(w) \/ DeleteMessage(w)
    BY <1>8, <1>10 DEF HandleProcessingError, DeleteFails, DeleteMessage, AfterDelete,
       Return, TypeOK
  <1>11. CASE \E e \in wread[w] : DeleteOffset(w, e)
    BY <1>8, <1>11 DEF DeleteOffset, Return, TypeOK
  <1> QED
    BY <1>1, <1>2, <1>3, <1>4, <1>5, <1>6, <1>7, <1>9, <1>10, <1>11 DEF Worker

\* Every step keeps the invariant of every worker.
LEMMA WorkersStep ==
    ASSUME WellFormedContent, TypeOK, TypeOK', InHand, SentInHand, AnnouncedPast,
           StoredCovered, WorkersInv, Grow, [Next]_vars
    PROVE  WorkersInv'
  <1>1. ASSUME NEW w \in Workers, Worker(w) PROVE WorkersInv'
    <2>1. ASSUME NEW x \in Workers PROVE MessageInv(x)' /\ ObjectInv(x)'
      <3>0. MessageInv(x) /\ ObjectInv(x)
        BY DEF WorkersInv
      <3>1. CASE x = w
        BY <1>1, <3>0, <3>1, WorkerKeeps
      <3>2. CASE x # w
        BY <1>1, <3>0, <3>2, OtherWorkers, SameKeeps
      <3> QED
        BY <3>1, <3>2
    <2> QED
      BY <2>1 DEF WorkersInv
  <1>2. CASE UNCHANGED worker
    <2>1. \A w \in Workers : Same(w)
      BY <1>2 DEF Same, worker, reading
    <2> QED
      BY <2>1, SameKeeps DEF WorkersInv
  <1>3. CASE Crash \/ Restart
    BY <1>3, NothingToKeep DEF Crash, Restart, WorkersInv
  <1> QED
    BY <1>1, <1>2, <1>3 DEF Next, Poller, Publish, VisibilityExpires, Receive,
       ReceiveNothing, Enqueue, PollerStops, Shutdown, CloseChannel, Stopped, vars

-----------------------------------------------------------------------------
(* Offsets and deletions.                                                  *)

\* A checkpoint covers what the worker delivered, and nothing of any other
\* version: an ETag names one.
LEMMA StoredStep ==
    ASSUME UniqueETags, TypeOK, TypeOK', InHand, StoredCovered, WorkersInv, Grow,
           [Next]_vars
    PROVE  StoredCovered'
  <1>k. \A o \in Objects : StorageKey(o) \in Keys
    BY DEF Keys
  <1>1. ASSUME NEW w \in Workers, Checkpoint(w) PROVE StoredCovered'
    <2>1. /\ wobj[w] \in Objects /\ wver[w] \in Nat
          /\ Covered(wobj[w], wver[w], wpos[w])
          /\ offsets' = [offsets EXCEPT ![StorageKey(wobj[w])] =
                           [etag |-> ETag(wobj[w], wver[w]), pos |-> wpos[w]]]
      BY <1>1 DEF Checkpoint, InHand, TypeOK, WorkersInv, ObjectInv
    <2>2. ASSUME NEW o \in Objects, NEW v \in Nat,
                 offsets'[StorageKey(o)] # None, ETag(o, v) # None,
                 offsets'[StorageKey(o)].etag = ETag(o, v)
          PROVE  Covered(o, v, offsets'[StorageKey(o)].pos)
      <3>1. CASE StorageKey(o) = StorageKey(wobj[w])
        <4>1. offsets'[StorageKey(o)] =
                [etag |-> ETag(wobj[w], wver[w]), pos |-> wpos[w]]
          BY <1>k, <2>1, <3>1 DEF TypeOK
        <4>2. ETag(wobj[w], wver[w]) = ETag(o, v)
          BY <2>2, <4>1
        <4>3. o = wobj[w] /\ v = wver[w]
          BY <2>1, <2>2, <3>1, <4>2 DEF UniqueETags
        <4> QED
          BY <2>1, <4>1, <4>3
      <3>2. CASE StorageKey(o) # StorageKey(wobj[w])
        <4>1. offsets'[StorageKey(o)] = offsets[StorageKey(o)]
          BY <1>k, <2>1, <3>2 DEF TypeOK
        <4> QED
          BY <2>2, <4>1 DEF StoredCovered
      <3> QED
        BY <3>1, <3>2
    <2>3. \A o, v, n : Covered(o, v, n) => Covered(o, v, n)'
      BY GrowKeeps
    <2> QED
      BY <2>2, <2>3 DEF StoredCovered
  <1>2. CASE \A k \in Keys : offsets'[k] \in {None, offsets[k]}
    <2>1. \A o, v, n : Covered(o, v, n) => Covered(o, v, n)'
      BY GrowKeeps
    <2> QED
      BY <1>2, <1>k, <2>1 DEF StoredCovered
  <1>3. ASSUME NEW w \in Workers, NEW e \in wread[w], DeleteOffset(w, e)
        PROVE  StoredCovered'
    BY <1>2, <1>3 DEF DeleteOffset, TypeOK
  <1>4. CASE UNCHANGED offsets
    BY <1>2, <1>4
  <1> QED
    BY <1>1, <1>3, <1>4 DEF Next, Poller, Worker, Publish, VisibilityExpires, Receive,
       ReceiveNothing, Enqueue, PollerStops, Take, WorkerStops, Open, LoadOffset,
       ReadFails, NextRecord, EndOfObject, ReadCancelled, ReadEnds, Flush,
       FlushFails, CheckpointFails, HandleProcessingError, DeleteMessage,
       DeleteFails, Shutdown, CloseChannel, Stopped, Crash, Restart, vars, stored

\* A message is deleted only with nothing left to read.
LEMMA NoLossStep ==
    ASSUME TypeOK, TypeOK', InHand, WorkersInv, SentInHand, NoLoss, Grow, [Next]_vars
    PROVE  NoLoss'
  <1>1. ASSUME NEW m \in Messages, queue[m] = "deleted",
               NEW o \in Events(m)
        PROVE  \E v \in announced'[m][o] .. version'[o] : Consumed(o, v)'
    <2>0. o \in Objects
      BY <1>1, S3Assumption
    <2>1. PICK v \in announced[m][o] .. version[o] : Consumed(o, v)
      BY <1>1 DEF NoLoss, AllConsumed
    <2>2. v \in Nat /\ Fresh(m, o, v)
      BY <2>0, <2>1 DEF Fresh, TypeOK
    <2>3. Fresh(m, o, v)' /\ Consumed(o, v)'
      BY <1>1, <2>0, <2>1, <2>2, GrowKeeps
    <2> QED
      BY <2>3 DEF Fresh
  <1>2. ASSUME NEW w \in Workers, DeleteMessage(w), NEW o \in Events(wmsg[w])
        PROVE  \E v \in announced'[wmsg[w]][o] .. version'[o] : Consumed(o, v)'
    <2>1. wpc[w] = "delete" /\ UNCHANGED <<announced, version, delivered>>
      BY <1>2 DEF DeleteMessage, stored
    <2>2. PICK e \in wread[w] : e[1] = o
      BY <2>1 DEF WorkersInv, MessageInv
    <2>3. Fresh(wmsg[w], o, e[2]) /\ Consumed(o, e[2])
      BY <2>1, <2>2 DEF WorkersInv, MessageInv
    <2> QED
      BY <2>1, <2>3 DEF Fresh, Consumed
  <1>3. ASSUME NEW m \in Messages, queue'[m] = "deleted", queue[m] # "deleted"
        PROVE  \E w \in Workers : DeleteMessage(w) /\ wmsg[w] = m
    <2>1. CASE \E n \in Messages : Publish(n) \/ VisibilityExpires(n)
      BY <1>3, <2>1 DEF Publish, VisibilityExpires, TypeOK
    <2>2. CASE \E S \in SUBSET Messages : Receive(S)
      BY <1>3, <2>2 DEF Receive, TypeOK
    <2>3. ASSUME NEW w \in Workers, HandleProcessingError(w) PROVE FALSE
      BY <1>3, <2>3 DEF HandleProcessingError, InHand, TypeOK
    <2>4. ASSUME NEW w \in Workers, DeleteMessage(w) PROVE wmsg[w] = m
      BY <1>3, <2>4 DEF DeleteMessage, InHand, TypeOK
    <2>5. CASE UNCHANGED queue
      BY <1>3, <2>5
    <2> QED
      BY <2>1, <2>2, <2>3, <2>4, <2>5 DEF Next, Poller, Worker,
         ReceiveNothing, Enqueue, PollerStops, Take, WorkerStops, Open, LoadOffset,
         ReadFails, NextRecord, EndOfObject, ReadCancelled, ReadEnds, Flush,
         FlushFails, Checkpoint, CheckpointFails, AfterBatch, DeleteFails,
         DeleteOffset, Shutdown, CloseChannel, Stopped, Crash, Restart, vars, env
  <1> QED
    BY <1>1, <1>2, <1>3 DEF NoLoss, AllConsumed

-----------------------------------------------------------------------------
(* The theorems.                                                           *)

\* Nothing is stored, held or deleted at the start.
LEMMA InitIInv == Init => IInv
  <1> SUFFICES ASSUME Init PROVE IInv
    OBVIOUS
  <1>1. TypeOK
    BY InitType
  <1>2. InHand /\ SentInHand /\ AnnouncedPast /\ NoLoss
    BY DEF Init, InHand, SentInHand, AnnouncedPast, NoLoss
  <1>3. StoredCovered
    BY DEF Init, StoredCovered, Keys
  <1>4. WorkersInv
    BY DEF Init, WorkersInv, MessageInv, ObjectInv
  <1> QED
    BY <1>1, <1>2, <1>3, <1>4 DEF IInv

\* The invariant is inductive.
LEMMA NextIInv ==
    ASSUME UniqueETags, WellFormedContent, IInv, [Next]_vars
    PROVE  IInv'
  <1>1. TypeOK' /\ InHand'
    BY TypeStep DEF IInv
  <1>2. Grow
    BY GrowStep DEF IInv
  <1>3. SentInHand' /\ AnnouncedPast'
    BY <1>1, <1>2, SentStep, AnnouncedStep DEF IInv
  <1>4. WorkersInv'
    BY <1>1, <1>2, WorkersStep DEF IInv
  <1>5. StoredCovered' /\ NoLoss'
    BY <1>1, <1>2, StoredStep, NoLossStep DEF IInv
  <1> QED
    BY <1>1, <1>3, <1>4, <1>5 DEF IInv

\* Every reachable state satisfies the invariant.
LEMMA Invariant ==
    ASSUME UniqueETags, WellFormedContent
    PROVE  Spec => []IInv
  <1>1. IInv /\ [Next]_vars => IInv'
    BY NextIInv
  <1> QED
    BY <1>1, InitIInv, PTL DEF Spec

\* At-least-once: whatever fails, dies, comes back or is overwritten, the
\* receiver deletes a notification only when each of its objects was consumed
\* in the announced version or a later one.
THEOREM NoLossCorrect ==
    ASSUME UniqueETags, WellFormedContent
    PROVE  Spec => []NoLoss
  <1>1. IInv => NoLoss
    BY DEF IInv
  <1> QED
    BY <1>1, Invariant, PTL

\* Resuming skips nothing: every record before the batch a worker is filling
\* was delivered, whichever offset it started from.
THEOREM HeadNeverSkippedCorrect ==
    ASSUME UniqueETags, WellFormedContent
    PROVE  Spec => []HeadNeverSkipped
  <1>1. IInv => HeadNeverSkipped
    BY DEF IInv, WorkersInv, ObjectInv, Covered, HeadNeverSkipped, Pick
  <1> QED
    BY <1>1, Invariant, PTL

\* A stored offset never covers a record that was not delivered.
THEOREM OffsetsCoverDeliveredCorrect ==
    ASSUME UniqueETags, WellFormedContent
    PROVE  Spec => []OffsetsCoverDelivered
  <1>1. IInv => OffsetsCoverDelivered
    <2> SUFFICES ASSUME IInv, NEW o \in Objects, NEW v \in 1 .. version[o],
                        offsets[StorageKey(o)] # None, ETag(o, v) # None,
                        offsets[StorageKey(o)].etag = ETag(o, v),
                        NEW i \in 1 .. offsets[StorageKey(o)].pos
                 PROVE  /\ i \in DOMAIN Content(o, v)
                        /\ Content(o, v)[i] = "log" => <<o, v, i>> \in delivered
      BY DEF OffsetsCoverDelivered
    <2>1. v \in Nat
      BY DEF IInv, TypeOK
    <2>2. Covered(o, v, offsets[StorageKey(o)].pos)
      BY <2>1 DEF IInv, StoredCovered
    <2> QED
      BY <2>2 DEF Covered, Passed
  <1> QED
    BY <1>1, Invariant, PTL

-----------------------------------------------------------------------------
(* Refinement.                                                             *)

\* A step announces one message, or may delete the message of a worker, or
\* leaves alone which messages are sent and which deleted.
LEMMA QueueStep ==
    ASSUME TypeOK, InHand, [Next]_vars
    PROVE  \/ \E m \in Messages : Publish(m)
           \/ \E w \in Workers : DeleteMessage(w)
           \/ /\ UNCHANGED <<version, announced>>
              /\ \A m \in Messages :
                   /\ queue'[m] = "unsent" <=> queue[m] = "unsent"
                   /\ queue'[m] = "deleted" <=> queue[m] = "deleted"
  <1> DEFINE Quiet == /\ UNCHANGED <<version, announced>>
                      /\ \A m \in Messages :
                           /\ queue'[m] = "unsent" <=> queue[m] = "unsent"
                           /\ queue'[m] = "deleted" <=> queue[m] = "deleted"
  <1>1. ASSUME NEW m \in Messages, VisibilityExpires(m) PROVE Quiet
    BY <1>1 DEF VisibilityExpires, TypeOK
  <1>2. ASSUME NEW S \in SUBSET Messages, Receive(S) PROVE Quiet
    BY <1>2 DEF Receive, TypeOK
  <1>3. ASSUME NEW w \in Workers, HandleProcessingError(w) PROVE Quiet
    <2>1. wmsg[w] \in Messages
      BY <1>3 DEF HandleProcessingError, InHand
    <2> QED
      BY <1>3, <2>1 DEF HandleProcessingError, TypeOK
  <1>4. CASE UNCHANGED env
    BY <1>4 DEF env
  <1> QED
    BY <1>1, <1>2, <1>3, <1>4 DEF Next, Poller, Worker,
       ReceiveNothing, Enqueue, PollerStops, Take, WorkerStops, Open, LoadOffset,
       ReadFails, NextRecord, EndOfObject, ReadCancelled, ReadEnds, Flush,
       FlushFails, Checkpoint, CheckpointFails, AfterBatch, DeleteFails,
       DeleteOffset, Shutdown, CloseChannel, Stopped, Crash, Restart, vars

\* What was consumed of a message stays consumed.
LEMMA AllConsumedLasts ==
    ASSUME TypeOK, TypeOK', Grow, NEW m \in Messages, queue[m] # "unsent", AllConsumed(m)
    PROVE  AllConsumed(m)'
  <1> SUFFICES ASSUME NEW o \in Events(m)
               PROVE  \E v \in announced'[m][o] .. version'[o] : Consumed(o, v)'
    BY DEF AllConsumed
  <1>1. o \in Objects
    BY S3Assumption
  <1>2. PICK v \in announced[m][o] .. version[o] : Consumed(o, v)
    BY DEF AllConsumed
  <1>3. v \in Nat /\ Fresh(m, o, v)
    BY <1>1, <1>2 DEF Fresh, TypeOK
  <1>4. Fresh(m, o, v)' /\ Consumed(o, v)'
    BY <1>1, <1>2, <1>3, GrowKeeps
  <1> QED
    BY <1>4 DEF Fresh

\* Every step is a step of EventDelivery, or none for it.
LEMMA DeliveryStep ==
    ASSUME IInv, IInv', [Next]_vars
    PROVE  [Delivery!Next]_(Delivery!vars)
  <1> DEFINE Sent == {m \in Messages : queue[m] # "unsent"}
             Taken == {m \in Messages : queue[m] # "unsent" /\ AllConsumed(m)}
             Gone == {m \in Messages : queue[m] = "deleted"}
  <1> USE DEF IInv
  <1>1. Grow
    BY GrowStep
  <1>2. Taken \subseteq Taken' /\ Taken' \subseteq Sent'
    <2>1. ASSUME NEW m \in Taken PROVE m \in Taken'
      BY <1>1, <2>1, AllConsumedLasts DEF Grow
    <2> QED
      BY <2>1
  <1>3. Taken' # Taken /\ Sent' = Sent /\ Gone' = Gone => Delivery!Consume
    BY <1>2 DEF Delivery!Consume, Delivery!Grows, Itself
  <1>4. CASE \E m \in Messages : Publish(m)
    <2>1. PICK m \in Messages : Publish(m)
      BY <1>4
    <2>2. Sent' = Sent \cup {m} /\ Sent' # Sent /\ Gone' = Gone
      BY <2>1 DEF Publish, TypeOK
    <2>3. Delivery!Announce(m)
      BY <1>2, <2>2 DEF Delivery!Announce, Delivery!Grows, Itself
    <2> QED
      BY <2>3 DEF Delivery!Next
  <1>5. CASE \E w \in Workers : DeleteMessage(w)
    <2>1. PICK w \in Workers : DeleteMessage(w)
      BY <1>5
    <2>2. /\ UNCHANGED <<version, announced, delivered>>
          /\ wmsg[w] \in Messages /\ queue[wmsg[w]] # "unsent"
          /\ \/ queue' = [queue EXCEPT ![wmsg[w]] = "deleted"]
             \/ queue' = queue
      BY <2>1 DEF DeleteMessage, stored, InHand, SentInHand
    <2>3. Sent' = Sent /\ Gone \subseteq Gone' /\ Gone' \subseteq Sent
      <3>1. \A m \in Messages :
              queue'[m] = queue[m] \/ (m = wmsg[w] /\ queue'[m] = "deleted")
        BY <2>2 DEF TypeOK
      <3>2. \A m \in Messages :
              /\ queue'[m] # "unsent" <=> queue[m] # "unsent"
              /\ queue[m] = "deleted" => queue'[m] = "deleted"
              /\ queue'[m] = "deleted" => queue[m] # "unsent"
        BY <2>2, <3>1
      <3> QED
        BY <3>2
    <2>4. \A m \in Messages : AllConsumed(m)' <=> AllConsumed(m)
      BY <2>2 DEF AllConsumed, Consumed
    <2>5. Taken' = Taken /\ Gone' \subseteq Taken'
      BY <2>3, <2>4 DEF NoLoss
    <2>6. CASE Gone' = Gone
      BY <2>3, <2>5, <2>6 DEF Delivery!vars
    <2>7. CASE Gone' # Gone
      <3>1. Delivery!Ack
        BY <2>3, <2>5, <2>7 DEF Delivery!Ack, Delivery!Settled
      <3> QED
        BY <3>1 DEF Delivery!Next
    <2> QED
      BY <2>6, <2>7
  <1>6. CASE \A m \in Messages : /\ queue'[m] = "unsent" <=> queue[m] = "unsent"
                                 /\ queue'[m] = "deleted" <=> queue[m] = "deleted"
    <2>1. Sent' = Sent /\ Gone' = Gone
      BY <1>6
    <2>2. CASE Taken' = Taken
      BY <2>1, <2>2 DEF Delivery!vars
    <2> QED
      BY <1>3, <2>1, <2>2 DEF Delivery!Next
  <1> QED
    BY <1>4, <1>5, <1>6, QueueStep

\* The receiver implements EventDelivery: a notification is deleted once and
\* for good, in a step of its own after its objects were consumed, and what
\* was consumed of it is never taken back, under every fault, for every
\* number of messages, objects and workers.
THEOREM ImplementsDeliveryCorrect ==
    ASSUME UniqueETags, WellFormedContent
    PROVE  Spec => ImplementsDelivery
  <1>1. Init => Delivery!Init
    BY DEF Init, Delivery!Init
  <1>2. IInv /\ IInv' /\ [Next]_vars => [Delivery!Next]_(Delivery!vars)
    BY DeliveryStep
  <1> QED
    BY <1>1, <1>2, Invariant, PTL DEF Spec, ImplementsDelivery, Delivery!Spec
-----------------------------------------------------------------------------
(* Exactly once.  A record is delivered again only if its offset is lost    *)
(* or two workers have its object at a time.                                *)

\* An object, and the key of its offset, belong to one notification.
OneNotification ==
    \A m, n \in Messages : \A o \in Events(m), p \in Events(n) :
        StorageKey(o) = StorageKey(p) => m = n /\ o = p

\* No checkpoint fails, the process does not die, no visibility timeout ends
\* early, and GetObject reports an ETag.
Calm ==
    /\ "save" \notin Faults /\ "crash" \notin Faults /\ MaxEarly = 0
    /\ \A o \in Objects, v \in Nat : ETag(o, v) # None

\* The absent value is not an offset: LoadOffset tells the two apart.
AbsentIsNoOffset ==
    \A o \in Objects, v \in Nat, p \in Nat : [etag |-> ETag(o, v), pos |-> p] # None

Active(w) == wpc[w] \notin {"idle", "done"}
InChannel(m) == \E i \in DOMAIN msgChan : msgChan[i] = m

\* A message is in one place: in the queue, with the poller, once in the
\* channel, or with one worker.
OneHolder ==
    /\ \A m \in pending : queue[m] = "inflight" /\ ~InChannel(m)
    /\ \A i, j \in DOMAIN msgChan : msgChan[i] = msgChan[j] => i = j
    /\ \A i \in DOMAIN msgChan : queue[msgChan[i]] = "inflight"
    /\ \A w \in Workers : Active(w) =>
         /\ queue[wmsg[w]] = IF wpc[w] = "clean" THEN "deleted" ELSE "inflight"
         /\ wmsg[w] \notin pending /\ ~InChannel(wmsg[w])
         /\ \A x \in Workers : Active(x) /\ wmsg[x] = wmsg[w] => x = w
    /\ phase = "stopped" => \A w \in Workers : wpc[w] = "done"

\* A worker handles objects of its message, in their only version.
OwnObjects ==
    \A w \in Workers : Active(w) =>
        /\ wrest[w] \subseteq Events(wmsg[w])
        /\ \A e \in wread[w] : e[1] \in Events(wmsg[w])
        /\ wpc[w] \in {"load", "read", "flush", "save"} =>
             wobj[w] \in Events(wmsg[w]) /\ wver[w] = version[wobj[w]]

\* An offset is the one of the object's only version.
OffsetsCurrent ==
    \A m \in Messages : \A o \in Events(m) :
        offsets[StorageKey(o)] # None =>
            /\ queue[m] # "unsent"
            /\ offsets[StorageKey(o)].etag = ETag(o, version[o])

\* A worker reads behind the offset.
ReadsBehind ==
    \A w \in Workers : wpc[w] \in {"read", "flush", "save"} =>
        /\ wfrom[w] <= wpos[w]
        /\ offsets[StorageKey(wobj[w])] # None =>
             offsets[StorageKey(wobj[w])].pos <= wfrom[w]

\* Record i of o will not be asked for again: its message m is deleted, or the
\* offset is past it, or a worker is about to save one that is.
Settled(m, o, i) ==
    \/ queue[m] = "deleted"
    \/ offsets[StorageKey(o)] # None /\ i <= offsets[StorageKey(o)].pos
    \/ \E w \in Workers : wpc[w] = "save" /\ wobj[w] = o /\ i <= wpos[w]

DeliveredSettled ==
    \A r \in delivered : \E m \in Messages :
        /\ r[1] \in Events(m) /\ queue[m] # "unsent"
        /\ r[2] = version[r[1]]
        /\ Settled(m, r[1], r[3])

OnceInv ==
    /\ OneHolder /\ OwnObjects /\ OffsetsCurrent /\ ReadsBehind
    /\ DeliveredSettled /\ ExactlyOnce

\* What a step of a worker does to the queue, and to the message it holds.
LEMMA WorkerHolds ==
    ASSUME TypeOK, InHand, NEW w \in Workers, Worker(w), ~Take(w)
    PROVE  /\ UNCHANGED <<pending, msgChan, phase>>
           /\ wpc[w] # "done"
           /\ \/ ~Active(w)'
              \/ /\ Active(w) /\ wmsg'[w] = wmsg[w]
                 /\ \/ UNCHANGED queue /\ (wpc'[w] = "clean" <=> wpc[w] = "clean")
                    \/ DeleteMessage(w) /\ wpc'[w] = "clean"
           /\ \/ UNCHANGED queue
              \/ HandleProcessingError(w) /\ wpc'[w] = "idle"
              \/ DeleteMessage(w)
  <1>1. UNCHANGED <<pending, msgChan>>
    BY ChannelOf
  <1>2. phase' = phase /\ wpc[w] # "done"
    BY DEF Worker, Take, WorkerStops, Open, LoadOffset, ReadFails, NextRecord, EndOfObject,
       ReadCancelled, ReadEnds, Flush, FlushFails, Checkpoint, CheckpointFails,
       AfterBatch, HandleProcessingError, DeleteMessage, DeleteFails, DeleteOffset
  <1>3. \/ UNCHANGED queue
        \/ HandleProcessingError(w) /\ wpc'[w] = "idle"
        \/ DeleteMessage(w)
    BY DEF Worker, Take, WorkerStops, Open, LoadOffset, ReadFails, NextRecord, EndOfObject,
       ReadCancelled, ReadEnds, Flush, FlushFails, Checkpoint, CheckpointFails,
       AfterBatch, DeleteFails, DeleteOffset, env, HandleProcessingError, Return, TypeOK
  <1>4. ASSUME Active(w)' PROVE Active(w) /\ wmsg'[w] = wmsg[w]
    BY <1>4, MessageOf DEF Active
  <1>5. ASSUME Active(w)', ~DeleteMessage(w) PROVE wpc'[w] = "clean" <=> wpc[w] = "clean"
    <2>1. CASE \E e \in wread[w] : DeleteOffset(w, e)
      BY <1>5, <2>1 DEF DeleteOffset, Return, Active, TypeOK
    <2>2. CASE HandleProcessingError(w) \/ DeleteFails(w) \/ WorkerStops(w)
      BY <1>5, <2>2 DEF HandleProcessingError, DeleteFails, Return, WorkerStops, Active, TypeOK
    <2>3. CASE Checkpoint(w) \/ CheckpointFails(w)
      <3>1. wpc[w] = "save" /\ AfterBatch(w)
        BY <2>3 DEF Checkpoint, CheckpointFails
      <3>2. wpc'[w] \in {"read", "open", "delete", "error"}
        BY <3>1 DEF AfterBatch, ObjectDone, TypeOK
      <3> QED
        BY <3>1, <3>2
    <2>4. CASE EndOfObject(w) \/ ReadCancelled(w)
      <3>1. wpc[w] = "read" /\ \E r : ReadEnds(w, r)
        BY <2>4 DEF EndOfObject, ReadCancelled
      <3>2. wpc'[w] \in {"flush", "open", "delete", "error"}
        BY <3>1 DEF ReadEnds, ObjectDone, TypeOK
      <3> QED
        BY <3>1, <3>2
    <2>5. CASE (\E o \in Objects : Open(w, o)) \/ LoadOffset(w) \/ NextRecord(w)
      BY <2>5 DEF Open, LoadOffset, NextRecord, TypeOK
    <2>6. CASE (\E r \in {"retry", "dlq"} : ReadFails(w, r)) \/ Flush(w) \/ FlushFails(w)
      BY <2>6 DEF ReadFails, Flush, FlushFails, TypeOK
    <2> QED
      BY <1>5, <2>1, <2>2, <2>3, <2>4, <2>5, <2>6 DEF Worker
  <1>6. ASSUME Active(w)', DeleteMessage(w) PROVE wpc'[w] = "clean"
    BY <1>6 DEF DeleteMessage, AfterDelete, Return, Active, TypeOK
  <1> QED
    BY <1>1, <1>2, <1>3, <1>4, <1>5, <1>6 DEF Active

\* The environment and the poller leave a message that is held in one place.
LEMMA OneHolderPoller ==
    ASSUME Calm, TypeOK, InHand, OneHolder,
           \/ \E m \in Messages : Publish(m) \/ VisibilityExpires(m)
           \/ Poller
    PROVE  OneHolder'
  <1>t. /\ pending \subseteq Messages /\ msgChan \in Seq(Messages)
        /\ \A i \in DOMAIN msgChan : msgChan[i] \in Messages
        /\ \A w \in Workers : Active(w) => wmsg[w] \in Messages
    BY DEF TypeOK, InHand, Active
  <1>1. ASSUME NEW m \in Messages, Publish(m) PROVE OneHolder'
    <2>1. \A n \in Messages : queue[n] # "unsent" => queue'[n] = queue[n]
      BY <1>1 DEF Publish, TypeOK
    <2>2. UNCHANGED <<pending, msgChan, wpc, wmsg, phase>>
      BY <1>1 DEF Publish, poller, worker
    <2> QED
      BY <2>1, <2>2, <1>t DEF OneHolder, Active, InChannel
  <1>2. ASSUME NEW m \in Messages, VisibilityExpires(m) PROVE OneHolder'
    <2>1. ~Held(m)
      BY <1>2 DEF VisibilityExpires, Calm, TypeOK
    <2>2. \A n \in Messages : n # m => queue'[n] = queue[n]
      BY <1>2 DEF VisibilityExpires, TypeOK
    <2>3. UNCHANGED <<pending, msgChan, wpc, wmsg, phase>>
      BY <1>2 DEF VisibilityExpires, poller, worker
    <2>4. /\ m \notin pending /\ (\A i \in DOMAIN msgChan : msgChan[i] # m)
          /\ \A w \in Workers : Active(w) => wmsg[w] # m
      BY <2>1 DEF Held, Active
    <2> QED
      BY <2>2, <2>3, <2>4, <1>t DEF OneHolder, Active, InChannel
  <1>3. ASSUME NEW S \in SUBSET Messages, Receive(S) PROVE OneHolder'
    <2>1. /\ \A n \in Messages : queue'[n] = IF n \in S THEN "inflight" ELSE queue[n]
          /\ \A n \in S : queue[n] = "visible"
          /\ pending' = S
          /\ UNCHANGED <<msgChan, wpc, wmsg, phase>>
      BY <1>3 DEF Receive, worker, TypeOK
    <2>2. \A n \in Messages : queue[n] # "visible" => queue'[n] = queue[n]
      BY <2>1
    <2>3. \A i \in DOMAIN msgChan : msgChan[i] \notin S
      BY <2>1 DEF OneHolder
    <2>4. \A w \in Workers : Active(w) => wmsg[w] \notin S
      BY <2>1 DEF OneHolder
    <2> QED
      BY <2>1, <2>2, <2>3, <2>4, <1>t DEF OneHolder, Active, InChannel
  <1>4. ASSUME NEW m \in Messages, Enqueue(m) PROVE OneHolder'
    <2>1. /\ m \in pending /\ pending' = pending \ {m} /\ msgChan' = Append(msgChan, m)
          /\ UNCHANGED <<queue, wpc, wmsg, phase>>
      BY <1>4 DEF Enqueue, env, worker
    <2>2. /\ \A i \in DOMAIN msgChan' :
               \/ i = Len(msgChan) + 1 /\ msgChan'[i] = m
               \/ i \in DOMAIN msgChan /\ msgChan'[i] = msgChan[i]
      BY <2>1, <1>t
    <2>3. queue[m] = "inflight" /\ (\A i \in DOMAIN msgChan : msgChan[i] # m)
          /\ \A w \in Workers : Active(w) => wmsg[w] # m
      BY <2>1 DEF OneHolder, InChannel
    <2>4. \A i, j \in DOMAIN msgChan' : msgChan'[i] = msgChan'[j] => i = j
      BY <2>2, <2>3 DEF OneHolder
    <2>5. \A n : InChannel(n)' => n = m \/ InChannel(n)
      BY <2>2 DEF InChannel
    <2>6. \A i \in DOMAIN msgChan' : queue'[msgChan'[i]] = "inflight"
      BY <2>1, <2>2, <2>3 DEF OneHolder
    <2>7. \A n \in pending' : queue'[n] = "inflight" /\ ~InChannel(n)'
      BY <2>1, <2>5 DEF OneHolder
    <2>8. \A w \in Workers : Active(w)' =>
            /\ queue'[wmsg'[w]] = IF wpc'[w] = "clean" THEN "deleted" ELSE "inflight"
            /\ wmsg'[w] \notin pending' /\ ~InChannel(wmsg[w])'
            /\ \A x \in Workers : Active(x)' /\ wmsg'[x] = wmsg'[w] => x = w
      BY <2>1, <2>3, <2>5 DEF OneHolder, Active
    <2> QED
      BY <2>1, <2>4, <2>6, <2>7, <2>8 DEF OneHolder, Active, InChannel
  <1>5. CASE ReceiveNothing
    BY <1>5 DEF ReceiveNothing, vars, env, poller, worker, OneHolder, Active, InChannel
  <1>6. CASE PollerStops
    BY <1>6 DEF PollerStops, env, worker, OneHolder, Active, InChannel
  <1> QED
    BY <1>1, <1>2, <1>3, <1>4, <1>5, <1>6 DEF Poller

\* A worker takes its message out of the channel, and puts it back into the
\* queue, or deletes it there, when it is done with it.
LEMMA OneHolderWorker ==
    ASSUME TypeOK, InHand, OneHolder, NEW w \in Workers, Worker(w)
    PROVE  OneHolder'
  <1>t. /\ pending \subseteq Messages /\ msgChan \in Seq(Messages)
        /\ \A i \in DOMAIN msgChan : msgChan[i] \in Messages
        /\ \A x \in Workers : Active(x) => wmsg[x] \in Messages
    BY DEF TypeOK, InHand, Active
  <1>o. \A x \in Workers : x # w => wpc'[x] = wpc[x] /\ wmsg'[x] = wmsg[x]
    BY OtherWorkers DEF Same
  <1>1. CASE Take(w)
    <2>1. /\ wpc[w] = "idle" /\ msgChan # <<>> /\ msgChan' = Tail(msgChan)
          /\ wmsg'[w] = Head(msgChan) /\ wpc'[w] \in {"open", "delete"}
          /\ UNCHANGED <<queue, pending, phase>>
      BY <1>1 DEF Take, TypeOK, env
    <2>2. PICK h \in Messages : h = msgChan[1] /\ wmsg'[w] = h /\ 1 \in DOMAIN msgChan
      BY <2>1, <1>t
    <2>3. \A i \in DOMAIN msgChan' :
            i \in Nat \ {0} /\ i + 1 \in DOMAIN msgChan /\ msgChan'[i] = msgChan[i + 1]
      BY <2>1, <1>t
    <2>4. \A i \in DOMAIN msgChan' : msgChan'[i] # h /\ i \in Nat
      <3>1. TAKE i \in DOMAIN msgChan'
      <3>2. i \in Nat \ {0} /\ i + 1 \in DOMAIN msgChan /\ i + 1 # 1
        BY <2>3
      <3>3. msgChan[i + 1] # msgChan[1]
        BY <2>2, <3>2 DEF OneHolder
      <3> QED
        BY <2>2, <2>3, <3>2, <3>3
    <2>5. \A i, j \in DOMAIN msgChan' : msgChan'[i] = msgChan'[j] => i = j
      <3>1. TAKE i, j \in DOMAIN msgChan'
      <3>2. HAVE msgChan'[i] = msgChan'[j]
      <3>3. i + 1 = j + 1
        BY <2>3, <3>2 DEF OneHolder
      <3> QED
        BY <2>4, <3>3
    <2>6. \A n : InChannel(n)' => n # h /\ InChannel(n)
      BY <2>3, <2>4 DEF InChannel
    <2>7. /\ queue[h] = "inflight" /\ h \notin pending
          /\ \A x \in Workers : Active(x) => wmsg[x] # h
      BY <2>2 DEF OneHolder, InChannel
    <2>8. ASSUME NEW x \in Workers, Active(x)'
          PROVE  /\ queue'[wmsg'[x]] = IF wpc'[x] = "clean" THEN "deleted" ELSE "inflight"
                 /\ wmsg'[x] \notin pending'
                 /\ \A i \in DOMAIN msgChan' : msgChan'[i] # wmsg'[x]
                 /\ \A y \in Workers : Active(y)' /\ wmsg'[y] = wmsg'[x] => y = x
      <3>1. \A y \in Workers : y # w /\ Active(y)' =>
              wmsg'[y] = wmsg[y] /\ wpc'[y] = wpc[y] /\ Active(y) /\ wmsg[y] # h
        BY <2>7, <1>o DEF Active
      <3>2. CASE x = w
        BY <2>1, <2>2, <2>4, <2>7, <3>1, <3>2
      <3>3. CASE x # w
        <4>1. \A i \in DOMAIN msgChan' : msgChan'[i] # wmsg[x]
          BY <2>3, <2>8, <3>1, <3>3 DEF OneHolder, InChannel
        <4>2. \A y \in Workers : Active(y)' /\ wmsg'[y] = wmsg'[x] => y = x
          BY <2>2, <2>8, <3>1, <3>3 DEF OneHolder
        <4> QED
          BY <2>1, <2>8, <3>1, <3>3, <4>1, <4>2 DEF OneHolder
      <3> QED
        BY <3>2, <3>3
    <2>9. \A i \in DOMAIN msgChan' : queue'[msgChan'[i]] = "inflight"
      BY <2>1, <2>3 DEF OneHolder
    <2>10. \A m \in pending' : queue'[m] = "inflight" /\ ~InChannel(m)'
      BY <2>1, <2>6 DEF OneHolder
    <2>11. phase' # "stopped"
      BY <2>1 DEF OneHolder
    <2> QED
      BY <2>5, <2>8, <2>9, <2>10, <2>11 DEF OneHolder, InChannel
  <1>2. CASE ~Take(w)
    <2>1. /\ UNCHANGED <<pending, msgChan, phase>> /\ wpc[w] # "done"
          /\ \/ ~Active(w)'
             \/ /\ Active(w) /\ wmsg'[w] = wmsg[w]
                /\ \/ UNCHANGED queue /\ (wpc'[w] = "clean" <=> wpc[w] = "clean")
                   \/ DeleteMessage(w) /\ wpc'[w] = "clean"
          /\ \/ UNCHANGED queue
             \/ HandleProcessingError(w) /\ wpc'[w] = "idle"
             \/ DeleteMessage(w)
      BY <1>2, WorkerHolds
    <2>2. phase' # "stopped"
      BY <2>1 DEF OneHolder
    <2>3. CASE UNCHANGED queue
      <3>1. \A x \in Workers : Active(x)' =>
              Active(x) /\ wmsg'[x] = wmsg[x] /\ (wpc'[x] = "clean" <=> wpc[x] = "clean")
        <4>1. CASE DeleteMessage(w) /\ wpc'[w] = "clean"
          <5>1. queue[wmsg[w]] = "inflight" /\ wmsg[w] \in Messages
            BY <4>1, <1>t DEF DeleteMessage, OneHolder, Active
          <5>2. queue'[wmsg[w]] = "deleted"
            BY <4>1, <5>1 DEF DeleteMessage, TypeOK
          <5> QED
            BY <2>3, <5>1, <5>2
        <4> QED
          BY <2>1, <4>1, <1>o DEF Active
      <3> QED
        BY <2>1, <2>2, <2>3, <3>1 DEF OneHolder, InChannel
    <2>4. CASE HandleProcessingError(w) /\ wpc'[w] = "idle"
      <3>1. Active(w) /\ wmsg[w] \in Messages
        BY <2>4, <1>t DEF HandleProcessingError, Active
      <3>2. \A n \in Messages : n # wmsg[w] => queue'[n] = queue[n]
        BY <2>4, <3>1 DEF HandleProcessingError, TypeOK
      <3>3. /\ wmsg[w] \notin pending /\ ~InChannel(wmsg[w])
            /\ \A x \in Workers : Active(x) /\ x # w => wmsg[x] # wmsg[w]
        BY <3>1 DEF OneHolder
      <3>4. ~Active(w)'
        BY <2>4 DEF Active
      <3>5. \A x \in Workers : Active(x)' =>
              x # w /\ Active(x) /\ wmsg'[x] = wmsg[x] /\ wpc'[x] = wpc[x]
        BY <3>4, <1>o DEF Active
      <3> QED
        BY <2>1, <2>2, <3>2, <3>3, <3>5, <1>t DEF OneHolder, InChannel
    <2>5. CASE DeleteMessage(w)
      <3>1. Active(w) /\ wmsg[w] \in Messages /\ queue[wmsg[w]] = "inflight"
        BY <2>5, <1>t DEF DeleteMessage, Active, OneHolder
      <3>2. /\ queue'[wmsg[w]] = "deleted"
            /\ \A n \in Messages : n # wmsg[w] => queue'[n] = queue[n]
        BY <2>5, <3>1 DEF DeleteMessage, TypeOK
      <3>3. /\ wmsg[w] \notin pending /\ ~InChannel(wmsg[w])
            /\ \A x \in Workers : Active(x) /\ x # w => wmsg[x] # wmsg[w]
        BY <3>1 DEF OneHolder
      <3>4. Active(w)' => wpc'[w] = "clean" /\ wmsg'[w] = wmsg[w]
        BY <2>1, <2>5, <3>1, <3>2
      <3>5. \A x \in Workers : x # w /\ Active(x)' =>
              Active(x) /\ wmsg'[x] = wmsg[x] /\ wpc'[x] = wpc[x]
        BY <1>o DEF Active
      <3>6. ASSUME NEW x \in Workers, Active(x)'
            PROVE  /\ queue'[wmsg'[x]] = IF wpc'[x] = "clean" THEN "deleted" ELSE "inflight"
                   /\ wmsg'[x] \notin pending' /\ ~InChannel(wmsg'[x])
                   /\ \A y \in Workers : Active(y)' /\ wmsg'[y] = wmsg'[x] => y = x
        <4>1. CASE x = w
          BY <2>1, <3>2, <3>3, <3>4, <3>5, <3>6, <4>1
        <4>2. CASE x # w
          BY <2>1, <3>2, <3>3, <3>4, <3>5, <3>6, <4>2, <1>t DEF OneHolder
        <4> QED
          BY <4>1, <4>2
      <3> QED
        BY <2>1, <2>2, <3>2, <3>3, <3>6, <1>t DEF OneHolder, InChannel
    <2> QED
      BY <2>1, <2>3, <2>4, <2>5
  <1> QED
    BY <1>1, <1>2

\* Every step keeps a message in one place.
LEMMA OneHolderStep ==
    ASSUME Calm, TypeOK, InHand, OneHolder, [Next]_vars
    PROVE  OneHolder'
  <1>1. CASE Shutdown \/ CloseChannel \/ Stopped
    BY <1>1 DEF Shutdown, CloseChannel, Stopped, env, poller, worker, OneHolder, Active,
       InChannel
  <1>2. CASE Crash
    BY <1>2 DEF Crash, Calm
  <1>3. CASE Restart
    BY <1>3 DEF Restart, env, OneHolder, Active, InChannel
  <1>4. CASE UNCHANGED vars
    BY <1>4 DEF vars, env, poller, worker, OneHolder, Active, InChannel
  <1> QED
    BY <1>1, <1>2, <1>3, <1>4, OneHolderPoller, OneHolderWorker DEF Next

\* Worker w has the only active worker on the objects of its message.
LEMMA OwnKeys ==
    ASSUME OneNotification, InHand, OneHolder, OwnObjects,
           NEW w \in Workers, NEW x \in Workers, Active(w), Active(x), x # w,
           NEW o \in Events(wmsg[w]), NEW p \in Events(wmsg[x])
    PROVE  StorageKey(o) # StorageKey(p)
  <1>1. wmsg[w] \in Messages /\ wmsg[x] \in Messages
    BY DEF InHand, Active
  <1>2. wmsg[w] # wmsg[x]
    BY DEF OneHolder
  <1> QED
    BY <1>1, <1>2 DEF OneNotification

\* Only Publish changes a version, of objects whose message is not yet sent.
LEMMA VersionKept ==
    ASSUME OneNotification, TypeOK, [Next]_vars, NEW m \in Messages, queue[m] # "unsent",
           NEW o \in Events(m)
    PROVE  version'[o] = version[o]
  <1>1. o \in Objects
    BY S3Assumption
  <1>2. ASSUME NEW n \in Messages, Publish(n) PROVE version'[o] = version[o]
    <2>1. o \notin Events(n)
      BY <1>2 DEF OneNotification, Publish
    <2> QED
      BY <1>1, <1>2, <2>1 DEF Publish
  <1>3. CASE ~ \E n \in Messages : Publish(n)
    BY <1>3 DEF Next, Poller, Worker, VisibilityExpires, Receive, ReceiveNothing,
       Enqueue, PollerStops, Take, WorkerStops, Open, LoadOffset, ReadFails,
       NextRecord, EndOfObject, ReadCancelled, ReadEnds, Flush, FlushFails,
       Checkpoint, CheckpointFails, AfterBatch, HandleProcessingError,
       DeleteMessage, DeleteFails, DeleteOffset, Shutdown, CloseChannel, Stopped,
       Crash, Restart, vars, env
  <1> QED
    BY <1>2, <1>3

\* A worker handles only what its message names.
LEMMA OwnObjectsWorker ==
    ASSUME TypeOK, InHand, OwnObjects, NEW w \in Workers, Worker(w), Active(w)'
    PROVE  /\ wrest'[w] \subseteq Events(wmsg'[w])
           /\ \A e \in wread'[w] : e[1] \in Events(wmsg'[w])
           /\ wpc'[w] \in {"load", "read", "flush", "save"} =>
                wobj'[w] \in Events(wmsg'[w]) /\ wver'[w] = version[wobj'[w]]
  <1>1. CASE Take(w)
    BY <1>1 DEF Take, TypeOK
  <1>2. CASE ~Take(w)
    <2>0. Active(w) /\ wmsg'[w] = wmsg[w]
      BY <1>2, MessageOf DEF Active
    <2>1. /\ wrest[w] \subseteq Events(wmsg[w])
          /\ \A e \in wread[w] : e[1] \in Events(wmsg[w])
          /\ wpc[w] \in {"load", "read", "flush", "save"} =>
               wobj[w] \in Events(wmsg[w]) /\ wver[w] = version[wobj[w]]
      BY <2>0 DEF OwnObjects
    <2>2. ASSUME NEW r, ObjectDone(w, r), wpc[w] \in {"read", "save"}
          PROVE  /\ wrest'[w] \subseteq Events(wmsg[w])
                 /\ \A e \in wread'[w] : e[1] \in Events(wmsg[w])
                 /\ wpc'[w] \in {"open", "delete", "error"}
      <3>1. CASE r = "end"
        BY <2>1, <2>2, <3>1 DEF ObjectDone, TypeOK
      <3>2. CASE r # "end"
        BY <2>1, <2>2, <3>2 DEF ObjectDone, TypeOK
      <3> QED
        BY <3>1, <3>2
    <2>3. CASE \E o \in Objects : Open(w, o)
      BY <2>0, <2>1, <2>3 DEF Open, TypeOK
    <2>4. CASE LoadOffset(w) \/ NextRecord(w)
      BY <2>0, <2>1, <2>4 DEF LoadOffset, NextRecord, TypeOK
    <2>5. CASE (\E r \in {"retry", "dlq"} : ReadFails(w, r)) \/ Flush(w) \/ FlushFails(w)
      BY <2>0, <2>1, <2>5 DEF ReadFails, Flush, FlushFails, TypeOK, reading
    <2>6. CASE EndOfObject(w) \/ ReadCancelled(w)
      <3>1. PICK r : ReadEnds(w, r) /\ wpc[w] = "read"
        BY <2>6 DEF EndOfObject, ReadCancelled
      <3>2. CASE Batch(w) # {}
        BY <2>0, <2>1, <3>1, <3>2 DEF ReadEnds, reading
      <3>3. CASE Batch(w) = {}
        <4>1. ObjectDone(w, r)
          BY <3>1, <3>3 DEF ReadEnds
        <4> QED
          BY <2>0, <2>2, <3>1, <4>1
      <3> QED
        BY <3>2, <3>3
    <2>7. CASE Checkpoint(w) \/ CheckpointFails(w)
      <3>1. AfterBatch(w) /\ wpc[w] = "save"
        BY <2>7 DEF Checkpoint, CheckpointFails
      <3>2. CASE wres[w] = "more"
        BY <2>0, <2>1, <3>1, <3>2 DEF AfterBatch
      <3>3. CASE wres[w] # "more"
        <4>1. ObjectDone(w, wres[w])
          BY <3>1, <3>3 DEF AfterBatch
        <4> QED
          BY <2>0, <2>2, <3>1, <4>1
      <3> QED
        BY <3>2, <3>3
    <2>8. CASE HandleProcessingError(w) \/ DeleteFails(w) \/ WorkerStops(w)
      BY <2>8 DEF HandleProcessingError, DeleteFails, Return, WorkerStops, Active, TypeOK
    <2>9. CASE DeleteMessage(w)
      BY <2>0, <2>1, <2>9 DEF DeleteMessage, AfterDelete, Return, Active, reading, TypeOK
    <2>10. CASE \E e \in wread[w] : DeleteOffset(w, e)
      <3>1. wread'[w] \subseteq wread[w] /\ wrest' = wrest /\ wpc'[w] = "clean"
        BY <2>10 DEF DeleteOffset, Return, Active, TypeOK
      <3> QED
        BY <2>0, <2>1, <3>1
    <2> QED
      BY <1>2, <2>3, <2>4, <2>5, <2>6, <2>7, <2>8, <2>9, <2>10 DEF Worker
  <1> QED
    BY <1>1, <1>2

\* Every step keeps OwnObjects.
LEMMA OwnObjectsStep ==
    ASSUME OneNotification, TypeOK, InHand, SentInHand, OwnObjects, [Next]_vars
    PROVE  OwnObjects'
  <1>1. \A w \in Workers : Active(w) /\ wpc[w] \in {"load", "read", "flush", "save"} =>
          version'[wobj[w]] = version[wobj[w]]
    BY VersionKept DEF OwnObjects, InHand, SentInHand, Active
  <1>2. ASSUME NEW w \in Workers, Same(w), Active(w)
        PROVE  /\ wrest'[w] \subseteq Events(wmsg'[w])
               /\ \A e \in wread'[w] : e[1] \in Events(wmsg'[w])
               /\ wpc'[w] \in {"load", "read", "flush", "save"} =>
                    wobj'[w] \in Events(wmsg'[w]) /\ wver'[w] = version'[wobj'[w]]
    BY <1>1, <1>2 DEF OwnObjects, Same
  <1>3. CASE UNCHANGED worker
    <2>1. \A w \in Workers : Same(w) /\ Active(w)' = Active(w)
      BY <1>3 DEF Same, worker, reading, Active
    <2> QED
      BY <1>2, <2>1 DEF OwnObjects
  <1>4. ASSUME NEW w \in Workers, Worker(w) PROVE OwnObjects'
    <2>0. version' = version
      BY <1>4 DEF Worker, Take, WorkerStops, Open, LoadOffset, ReadFails,
         NextRecord, EndOfObject, ReadCancelled, ReadEnds, Flush, FlushFails,
         Checkpoint, CheckpointFails, AfterBatch, HandleProcessingError,
         DeleteMessage, DeleteFails, DeleteOffset, env
    <2>1. \A x \in Workers : x # w => Same(x)
      BY <1>4, OtherWorkers
    <2>2. \A x \in Workers : x # w /\ Active(x)' => Active(x)
      BY <2>1 DEF Same, Active
    <2> QED
      BY <1>2, <1>4, <2>0, <2>1, <2>2, OwnObjectsWorker DEF OwnObjects
  <1>5. CASE Crash \/ Restart
    BY <1>5 DEF Crash, Restart, OwnObjects, Active
  <1> QED
    BY <1>3, <1>4, <1>5 DEF Next, Poller, Publish, VisibilityExpires, Receive,
       ReceiveNothing, Enqueue, PollerStops, Shutdown, CloseChannel, Stopped, vars

\* An offset is changed by a checkpoint, or deleted with its message.
LEMMA OffsetsChange ==
    ASSUME TypeOK, [Next]_vars
    PROVE  \/ UNCHANGED offsets
           \/ \E w \in Workers : Checkpoint(w)
           \/ \E w \in Workers : \E e \in wread[w] :
                DeleteOffset(w, e) /\ offsets' = [offsets EXCEPT ![StorageKey(e[1])] = None]
  BY DEF Next, Poller, Worker, Publish, VisibilityExpires, Receive,
     ReceiveNothing, Enqueue, PollerStops, Take, WorkerStops, Open, LoadOffset,
     ReadFails, NextRecord, EndOfObject, ReadCancelled, ReadEnds, Flush,
     FlushFails, CheckpointFails, AfterBatch, HandleProcessingError, DeleteMessage,
     DeleteFails, DeleteOffset, Shutdown, CloseChannel, Stopped, Crash, Restart, vars, stored

\* Every step keeps the offsets those of the only version.
LEMMA OffsetsCurrentStep ==
    ASSUME OneNotification, TypeOK, InHand, SentInHand, OneHolder, OwnObjects, Grow,
           OffsetsCurrent, [Next]_vars
    PROVE  OffsetsCurrent'
  <1>k. \A m \in Messages : \A o \in Events(m) : StorageKey(o) \in Keys
    BY S3Assumption DEF Keys
  <1>1. ASSUME NEW m \in Messages, NEW o \in Events(m), offsets'[StorageKey(o)] # None,
               offsets'[StorageKey(o)] = offsets[StorageKey(o)]
        PROVE  /\ queue'[m] # "unsent"
               /\ offsets'[StorageKey(o)].etag = ETag(o, version'[o])
    <2>1. queue[m] # "unsent" /\ offsets[StorageKey(o)].etag = ETag(o, version[o])
      BY <1>1 DEF OffsetsCurrent
    <2> QED
      BY <1>1, <2>1, VersionKept DEF Grow
  <1>2. CASE UNCHANGED offsets
    BY <1>1, <1>2 DEF OffsetsCurrent
  <1>3. ASSUME NEW w \in Workers, Checkpoint(w) PROVE OffsetsCurrent'
    <2>1. /\ wpc[w] = "save" /\ UNCHANGED <<version, queue>>
          /\ offsets' = [offsets EXCEPT ![StorageKey(wobj[w])] =
                           [etag |-> ETag(wobj[w], wver[w]), pos |-> wpos[w]]]
      BY <1>3 DEF Checkpoint, AfterBatch, env
    <2>2. /\ wmsg[w] \in Messages /\ wobj[w] \in Events(wmsg[w])
          /\ wver[w] = version[wobj[w]] /\ queue[wmsg[w]] # "unsent"
      BY <2>1 DEF InHand, OwnObjects, SentInHand, Active
    <2>3. ASSUME NEW m \in Messages, NEW o \in Events(m), offsets'[StorageKey(o)] # None
          PROVE  /\ queue'[m] # "unsent"
                 /\ offsets'[StorageKey(o)].etag = ETag(o, version'[o])
      <3>1. CASE StorageKey(o) = StorageKey(wobj[w])
        <4>1. m = wmsg[w] /\ o = wobj[w]
          BY <2>2, <3>1 DEF OneNotification
        <4>2. offsets'[StorageKey(o)] = [etag |-> ETag(wobj[w], wver[w]), pos |-> wpos[w]]
          BY <1>k, <2>1, <3>1 DEF TypeOK
        <4> QED
          BY <2>1, <2>2, <4>1, <4>2
      <3>2. CASE StorageKey(o) # StorageKey(wobj[w])
        <4>1. offsets'[StorageKey(o)] = offsets[StorageKey(o)]
          BY <1>k, <2>1, <3>2 DEF TypeOK
        <4> QED
          BY <1>1, <2>3, <4>1
      <3> QED
        BY <3>1, <3>2
    <2> QED
      BY <2>3 DEF OffsetsCurrent
  <1>4. ASSUME NEW k, offsets' = [offsets EXCEPT ![k] = None] PROVE OffsetsCurrent'
    <2>1. \A j \in Keys : offsets'[j] # None => offsets'[j] = offsets[j]
      BY <1>4 DEF TypeOK
    <2> QED
      BY <1>1, <1>k, <2>1 DEF OffsetsCurrent
  <1> QED
    BY <1>2, <1>3, <1>4, OffsetsChange

Behind(w) ==
    /\ wfrom[w] <= wpos[w]
    /\ offsets[StorageKey(wobj[w])] # None =>
         offsets[StorageKey(wobj[w])].pos <= wfrom[w]

\* A worker starts at the offset, if there is one, and goes on from there; its
\* checkpoint is where its next batch starts.
LEMMA ReadsBehindWorker ==
    ASSUME Calm, TypeOK, InHand, SentInHand, OwnObjects, OffsetsCurrent, ReadsBehind,
           NEW w \in Workers, Worker(w), wpc'[w] \in {"read", "flush", "save"}
    PROVE  Behind(w)'
  <1>t. wfrom[w] \in Nat /\ wpos[w] \in Nat
    BY DEF TypeOK
  <1>k. wpc[w] \in {"load", "read", "flush", "save"} =>
          wobj[w] \in Objects /\ StorageKey(wobj[w]) \in Keys
    BY DEF InHand, Keys
  <1>b. wpc[w] \in {"read", "flush", "save"} => Behind(w)
    BY DEF ReadsBehind, Behind
  <1>1. CASE LoadOffset(w)
    <2>1. /\ wpc[w] = "load" /\ UNCHANGED <<offsets, wobj>>
          /\ wfrom'[w] = StartOffset(w) /\ wpos'[w] = StartOffset(w)
      BY <1>1 DEF LoadOffset, TypeOK, stored
    <2>2. wobj[w] \in Objects /\ wver[w] \in Nat
      BY <2>1 DEF InHand, TypeOK
    <2>3. StartOffset(w) \in Nat
      BY <2>2, StartOffsetNat
    <2>4. ASSUME offsets[StorageKey(wobj[w])] # None
          PROVE  offsets[StorageKey(wobj[w])].pos = StartOffset(w)
      <3>1. /\ wmsg[w] \in Messages /\ wobj[w] \in Events(wmsg[w])
            /\ wver[w] = version[wobj[w]]
        BY <2>1 DEF InHand, OwnObjects, Active
      <3>2. offsets[StorageKey(wobj[w])].etag = ETag(wobj[w], wver[w])
        BY <2>4, <3>1 DEF OffsetsCurrent
      <3>3. ETag(wobj[w], wver[w]) # None
        BY <2>2 DEF Calm
      <3> QED
        BY <2>4, <3>2, <3>3 DEF StartOffset
    <2> QED
      BY <2>1, <2>3, <2>4 DEF Behind
  <1>2. CASE NextRecord(w)
    <2>1. /\ wpc[w] = "read" /\ UNCHANGED <<offsets, wobj, wfrom>> /\ wpos'[w] = wpos[w] + 1
      BY <1>2 DEF NextRecord, TypeOK, stored
    <2> QED
      BY <2>1, <1>t, <1>b DEF Behind
  <1>3. CASE EndOfObject(w) \/ ReadCancelled(w)
    <2>1. /\ wpc[w] = "read" /\ UNCHANGED <<offsets, wobj, wfrom, wpos>>
      BY <1>3 DEF EndOfObject, ReadCancelled, ReadEnds, stored, reading
    <2> QED
      BY <2>1, <1>b DEF Behind
  <1>4. CASE Flush(w)
    BY <1>4, <1>b DEF Flush, reading, Behind
  <1>5. CASE Checkpoint(w)
    <2>1. /\ wpc[w] = "save" /\ wfrom'[w] = wpos[w] /\ UNCHANGED <<wobj, wpos>>
          /\ offsets' = [offsets EXCEPT ![StorageKey(wobj[w])] =
                           [etag |-> ETag(wobj[w], wver[w]), pos |-> wpos[w]]]
      BY <1>5 DEF Checkpoint, AfterBatch, TypeOK
    <2>2. offsets'[StorageKey(wobj[w])].pos = wpos[w]
      BY <2>1, <1>k DEF TypeOK
    <2> QED
      BY <2>1, <2>2, <1>t DEF Behind
  <1>6. CASE CheckpointFails(w)
    BY <1>6 DEF CheckpointFails, Calm
  <1>7. CASE Take(w) \/ WorkerStops(w) \/ \E o \in Objects : Open(w, o)
    BY <1>7 DEF Take, WorkerStops, Open, TypeOK
  <1>8. CASE (\E r \in {"retry", "dlq"} : ReadFails(w, r)) \/ FlushFails(w)
    BY <1>8 DEF ReadFails, FlushFails, TypeOK
  <1>9. CASE HandleProcessingError(w) \/ DeleteFails(w) \/ DeleteMessage(w)
    BY <1>9 DEF HandleProcessingError, DeleteFails, DeleteMessage, AfterDelete, Return, TypeOK
  <1>10. CASE \E e \in wread[w] : DeleteOffset(w, e)
    BY <1>10 DEF DeleteOffset, Return, TypeOK
  <1> QED
    BY <1>1, <1>2, <1>3, <1>4, <1>5, <1>6, <1>7, <1>8, <1>9, <1>10 DEF Worker

\* A worker that does not move still reads behind the offset of its object:
\* nobody else saves one.
LEMMA ReadsBehindOther ==
    ASSUME OneNotification, TypeOK, InHand, OneHolder, OwnObjects, ReadsBehind,
           [Next]_vars, NEW x \in Workers, Same(x), wpc[x] \in {"read", "flush", "save"},
           ~Checkpoint(x)
    PROVE  Behind(x)'
  <1>1. Behind(x) /\ Active(x) /\ wobj[x] \in Events(wmsg[x]) /\ StorageKey(wobj[x]) \in Keys
    BY DEF ReadsBehind, Behind, Active, OwnObjects, InHand, Keys
  <1>2. /\ wobj'[x] = wobj[x] /\ wfrom'[x] = wfrom[x] /\ wpos'[x] = wpos[x]
    BY DEF Same
  <1>3. offsets'[StorageKey(wobj[x])] \in {None, offsets[StorageKey(wobj[x])]}
    <2>1. ASSUME NEW w \in Workers, Checkpoint(w)
          PROVE  offsets'[StorageKey(wobj[x])] = offsets[StorageKey(wobj[x])]
      <3>1. wpc[w] = "save" /\ w # x
        BY <2>1 DEF Checkpoint
      <3>2. Active(w) /\ wobj[w] \in Events(wmsg[w])
        BY <3>1 DEF Active, OwnObjects
      <3>3. StorageKey(wobj[x]) # StorageKey(wobj[w])
        BY <1>1, <3>1, <3>2, OwnKeys
      <3> QED
        BY <1>1, <2>1, <3>3 DEF Checkpoint, TypeOK
    <2>2. ASSUME NEW k, offsets' = [offsets EXCEPT ![k] = None]
          PROVE  offsets'[StorageKey(wobj[x])] \in {None, offsets[StorageKey(wobj[x])]}
      BY <1>1, <2>2 DEF TypeOK
    <2> QED
      BY <2>1, <2>2, OffsetsChange
  <1> QED
    BY <1>1, <1>2, <1>3 DEF Behind

\* Every step keeps ReadsBehind.
LEMMA ReadsBehindStep ==
    ASSUME OneNotification, Calm, TypeOK, InHand, SentInHand, OneHolder, OwnObjects,
           OffsetsCurrent, ReadsBehind, [Next]_vars
    PROVE  ReadsBehind'
  <1>1. ASSUME NEW w \in Workers, Worker(w) PROVE ReadsBehind'
    <2>1. ASSUME NEW x \in Workers, wpc'[x] \in {"read", "flush", "save"} PROVE Behind(x)'
      <3>1. CASE x = w
        BY <1>1, <2>1, <3>1, ReadsBehindWorker
      <3>2. CASE x # w
        <4>1. Same(x)
          BY <1>1, <3>2, OtherWorkers
        <4>2. ~Checkpoint(x)
          <5>1. SUFFICES ASSUME Checkpoint(x) PROVE FALSE
            OBVIOUS
          <5>2. wpc[x] = "save" /\ wpc'[x] # "save"
            BY <5>1 DEF Checkpoint, AfterBatch, ObjectDone, TypeOK
          <5> QED
            BY <4>1, <5>2 DEF Same
        <4> QED
          BY <2>1, <4>1, <4>2, ReadsBehindOther DEF Same
      <3> QED
        BY <3>1, <3>2
    <2> QED
      BY <2>1 DEF ReadsBehind, Behind
  <1>2. CASE UNCHANGED <<worker, offsets>>
    BY <1>2 DEF worker, reading, ReadsBehind
  <1>3. CASE Crash \/ Restart
    BY <1>3 DEF Crash, Restart, ReadsBehind
  <1> QED
    BY <1>1, <1>2, <1>3 DEF Next, Poller, Publish, VisibilityExpires, Receive,
       ReceiveNothing, Enqueue, PollerStops, Shutdown, CloseChannel, Stopped, vars, stored

\* A worker leaves "save" by a checkpoint only, and enters it by Flush.
LEMMA SaveOnly ==
    ASSUME Calm, TypeOK, NEW w \in Workers, Worker(w), ~Checkpoint(w)
    PROVE  /\ wpc[w] # "save"
           /\ ~Flush(w) => delivered' = delivered /\ twice' = twice
  <1>1. wpc[w] # "save"
    BY DEF Worker, Take, WorkerStops, Open, LoadOffset, ReadFails, NextRecord, EndOfObject,
       ReadCancelled, Flush, FlushFails, CheckpointFails, HandleProcessingError,
       DeleteMessage, DeleteFails, DeleteOffset, Calm
  <1>2. ~Flush(w) => delivered' = delivered /\ twice' = twice
    BY DEF Worker, Take, WorkerStops, Open, LoadOffset, ReadFails, NextRecord, EndOfObject,
       ReadCancelled, ReadEnds, FlushFails, CheckpointFails, AfterBatch,
       HandleProcessingError, DeleteMessage, DeleteFails, DeleteOffset, stored
  <1> QED
    BY <1>1, <1>2

\* A deleted message stays deleted.
LEMMA DeletedStays ==
    ASSUME TypeOK, InHand, [Next]_vars, NEW m \in Messages, queue[m] = "deleted"
    PROVE  queue'[m] = "deleted"
  <1>1. CASE \E n \in Messages : Publish(n) \/ VisibilityExpires(n)
    BY <1>1 DEF Publish, VisibilityExpires, TypeOK
  <1>2. CASE \E S \in SUBSET Messages : Receive(S)
    BY <1>2 DEF Receive, TypeOK
  <1>3. ASSUME NEW w \in Workers, HandleProcessingError(w) \/ DeleteMessage(w)
        PROVE  queue'[m] = "deleted"
    <2>1. wmsg[w] \in Messages
      BY <1>3 DEF HandleProcessingError, DeleteMessage, InHand
    <2> QED
      BY <1>3, <2>1 DEF HandleProcessingError, DeleteMessage, TypeOK
  <1>4. CASE UNCHANGED queue
    BY <1>4
  <1>5. ASSUME NEW w \in Workers, Worker(w) PROVE queue'[m] = "deleted"
    BY <1>3, <1>4, <1>5 DEF Worker, Take, WorkerStops, Open, LoadOffset,
       ReadFails, NextRecord, EndOfObject, ReadCancelled, ReadEnds, Flush,
       FlushFails, Checkpoint, CheckpointFails, AfterBatch, DeleteFails,
       DeleteOffset, env
  <1> QED
    BY <1>1, <1>2, <1>4, <1>5 DEF Next, Poller, ReceiveNothing, Enqueue, PollerStops,
       Shutdown, CloseChannel, Stopped, Crash, Restart, vars, env

\* A settled record stays settled: a checkpoint moves the offset forward, and
\* an offset is deleted after its message.
LEMMA SettledStays ==
    ASSUME OneNotification, Calm, AbsentIsNoOffset, TypeOK, InHand, OneHolder, OwnObjects,
           ReadsBehind, [Next]_vars, NEW m \in Messages, NEW o \in Events(m), NEW i \in Nat,
           Settled(m, o, i)
    PROVE  Settled(m, o, i)'
  <1>k. StorageKey(o) \in Keys
    BY S3Assumption DEF Keys
  <1>1. CASE queue[m] = "deleted"
    BY <1>1, DeletedStays DEF Settled
  <1>2. CASE offsets[StorageKey(o)] # None /\ i <= offsets[StorageKey(o)].pos
    <2>0. offsets[StorageKey(o)].pos \in Nat
      BY <1>2, <1>k DEF TypeOK
    <2>1. ASSUME NEW w \in Workers, Checkpoint(w) PROVE Settled(m, o, i)'
      <3>1. /\ wpc[w] = "save" /\ wobj[w] \in Objects /\ wpos[w] \in Nat /\ wfrom[w] \in Nat
            /\ offsets' = [offsets EXCEPT ![StorageKey(wobj[w])] =
                             [etag |-> ETag(wobj[w], wver[w]), pos |-> wpos[w]]]
        BY <2>1 DEF Checkpoint, InHand, TypeOK
      <3>2. CASE StorageKey(o) = StorageKey(wobj[w])
        <4>1. offsets[StorageKey(o)].pos <= wpos[w]
          BY <1>2, <2>0, <3>1, <3>2 DEF ReadsBehind
        <4>2. offsets'[StorageKey(o)] = [etag |-> ETag(wobj[w], wver[w]), pos |-> wpos[w]]
          BY <3>1, <3>2, <1>k DEF TypeOK
        <4>3. offsets'[StorageKey(o)].pos = wpos[w] /\ i <= wpos[w]
          BY <1>2, <2>0, <3>1, <4>1, <4>2
        <4>4. offsets'[StorageKey(o)] # None
          BY <3>1, <4>2 DEF AbsentIsNoOffset, TypeOK
        <4> QED
          BY <4>3, <4>4 DEF Settled
      <3>3. CASE StorageKey(o) # StorageKey(wobj[w])
        BY <1>2, <3>1, <3>3, <1>k DEF TypeOK, Settled
      <3> QED
        BY <3>2, <3>3
    <2>2. ASSUME NEW w \in Workers, NEW e \in wread[w], DeleteOffset(w, e),
                 offsets' = [offsets EXCEPT ![StorageKey(e[1])] = None]
          PROVE  Settled(m, o, i)'
      <3>1. CASE StorageKey(e[1]) = StorageKey(o)
        <4>1. wpc[w] = "clean" /\ wmsg[w] \in Messages /\ e[1] \in Events(wmsg[w])
          BY <2>2 DEF DeleteOffset, InHand, OwnObjects, Active
        <4>2. wmsg[w] = m /\ queue[wmsg[w]] = "deleted"
          BY <3>1, <4>1 DEF OneNotification, OneHolder, Active
        <4> QED
          BY <4>2, DeletedStays DEF Settled
      <3>2. CASE StorageKey(e[1]) # StorageKey(o)
        BY <1>2, <2>2, <3>2, <1>k DEF TypeOK, Settled
      <3> QED
        BY <3>1, <3>2
    <2>3. CASE UNCHANGED offsets
      BY <1>2, <2>3 DEF Settled
    <2> QED
      BY <2>1, <2>2, <2>3, OffsetsChange
  <1>3. ASSUME NEW w \in Workers, wpc[w] = "save", wobj[w] = o, i <= wpos[w]
        PROVE  Settled(m, o, i)'
    <2>1. CASE Checkpoint(w)
      <3>1. offsets' = [offsets EXCEPT ![StorageKey(o)] =
                          [etag |-> ETag(wobj[w], wver[w]), pos |-> wpos[w]]]
        BY <1>3, <2>1 DEF Checkpoint
      <3>2. offsets'[StorageKey(o)] = [etag |-> ETag(wobj[w], wver[w]), pos |-> wpos[w]]
        BY <3>1, <1>k DEF TypeOK
      <3> QED
        <4>1. wobj[w] \in Objects /\ wver[w] \in Nat /\ wpos[w] \in Nat
          BY <1>3 DEF InHand, TypeOK
        <4>2. offsets'[StorageKey(o)] # None
          BY <3>2, <4>1 DEF AbsentIsNoOffset
        <4>3. offsets'[StorageKey(o)].pos = wpos[w]
          BY <3>2
        <4> QED
          BY <1>3, <4>2, <4>3 DEF Settled
    <2>2. CASE ~Checkpoint(w)
      <3>1. Same(w)
        <4>1. ASSUME NEW x \in Workers, Worker(x) PROVE Same(w)
          BY <1>3, <2>2, <4>1, SaveOnly, OtherWorkers
        <4>2. CASE UNCHANGED worker
          BY <4>2 DEF worker, reading, Same
        <4>3. CASE Crash
          BY <4>3 DEF Crash, Calm
        <4>4. CASE Restart
          BY <1>3, <4>4 DEF Restart, OneHolder
        <4> QED
          BY <4>1, <4>2, <4>3, <4>4 DEF Next, Poller, Publish, VisibilityExpires, Receive,
             ReceiveNothing, Enqueue, PollerStops, Shutdown, CloseChannel, Stopped, vars
      <3> QED
        BY <1>3, <3>1 DEF Same, Settled
    <2> QED
      BY <2>1, <2>2
  <1> QED
    BY <1>1, <1>2, <1>3 DEF Settled

\* A flush delivers records that are not settled, and settles them.
LEMMA FlushOnce ==
    ASSUME OneNotification, TypeOK, InHand, OneHolder, OwnObjects, ReadsBehind,
           DeliveredSettled, NEW w \in Workers, Flush(w), NEW i \in Batch(w)
    PROVE  /\ <<wobj[w], wver[w], i>> \notin delivered
           /\ wmsg[w] \in Messages /\ wobj[w] \in Events(wmsg[w])
           /\ queue[wmsg[w]] # "unsent" /\ wver[w] = version[wobj[w]]
           /\ i \in Nat /\ Settled(wmsg[w], wobj[w], i)'
  <1>1. /\ wpc[w] = "flush" /\ wpc'[w] = "save" /\ wobj' = wobj /\ wpos' = wpos
        /\ wfrom[w] \in Nat /\ wpos[w] \in Nat
    BY DEF Flush, TypeOK, reading
  <1>2. /\ Active(w) /\ wmsg[w] \in Messages /\ wobj[w] \in Events(wmsg[w])
        /\ queue[wmsg[w]] = "inflight" /\ wver[w] = version[wobj[w]]
    BY <1>1 DEF Active, InHand, OwnObjects, OneHolder
  <1>3. i \in wfrom[w] + 1 .. wpos[w]
    BY DEF Batch, Pick
  <1>4. i \in Nat /\ i > wfrom[w] /\ i <= wpos[w]
    BY <1>1, <1>3
  <1>5. Settled(wmsg[w], wobj[w], i)'
    BY <1>1, <1>4 DEF Settled
  <1>6. ASSUME <<wobj[w], wver[w], i>> \in delivered PROVE FALSE
    <2>1. PICK m \in Messages : wobj[w] \in Events(m) /\ Settled(m, wobj[w], i)
      <3> DEFINE r == <<wobj[w], wver[w], i>>
      <3>1. r[1] = wobj[w] /\ r[3] = i
        OBVIOUS
      <3>2. PICK m \in Messages : r[1] \in Events(m) /\ Settled(m, r[1], r[3])
        BY <1>6 DEF DeliveredSettled
      <3> QED
        BY <3>1, <3>2
    <2>2. m = wmsg[w]
      BY <1>2, <2>1 DEF OneNotification
    <2>3. CASE offsets[StorageKey(wobj[w])] # None /\ i <= offsets[StorageKey(wobj[w])].pos
      <3>1. offsets[StorageKey(wobj[w])].pos <= wfrom[w]
        BY <1>1, <2>3 DEF ReadsBehind
      <3>2. offsets[StorageKey(wobj[w])].pos \in Nat
        BY <1>1, <2>3 DEF TypeOK, InHand, Keys
      <3> QED
        BY <1>1, <1>4, <2>3, <3>1, <3>2
    <2>4. ASSUME NEW x \in Workers, wpc[x] = "save", wobj[x] = wobj[w] PROVE FALSE
      <3>1. Active(x) /\ x # w /\ wobj[x] \in Events(wmsg[x])
        BY <1>1, <2>4 DEF Active, OwnObjects
      <3> QED
        BY <1>2, <2>4, <3>1, OwnKeys
    <2> QED
      BY <1>2, <2>1, <2>2, <2>3, <2>4 DEF Settled
  <1> QED
    BY <1>2, <1>4, <1>5, <1>6

\* Every step settles what it delivers, and delivers nothing again.
LEMMA OnceStep ==
    ASSUME OneNotification, Calm, AbsentIsNoOffset, TypeOK, InHand, Grow, OneHolder, OwnObjects, ReadsBehind,
           DeliveredSettled, ExactlyOnce, [Next]_vars
    PROVE  DeliveredSettled' /\ ExactlyOnce'
  <1>1. ASSUME NEW r \in delivered
        PROVE  \E m \in Messages :
                 /\ r[1] \in Events(m) /\ queue'[m] # "unsent"
                 /\ r[2] = version'[r[1]] /\ Settled(m, r[1], r[3])'
    <2>1. PICK m \in Messages :
            /\ r[1] \in Events(m) /\ queue[m] # "unsent"
            /\ r[2] = version[r[1]] /\ Settled(m, r[1], r[3])
      BY DEF DeliveredSettled
    <2>2. r[3] \in Nat
      BY DEF TypeOK, Records
    <2>3. Settled(m, r[1], r[3])'
      BY <2>1, <2>2, SettledStays
    <2>4. version'[r[1]] = version[r[1]]
      BY <2>1, VersionKept
    <2> QED
      BY <2>1, <2>3, <2>4 DEF Grow
  <1>2. CASE delivered' = delivered /\ twice' = twice
    BY <1>1, <1>2 DEF DeliveredSettled, ExactlyOnce
  <1>3. ASSUME NEW w \in Workers, Flush(w) PROVE DeliveredSettled' /\ ExactlyOnce'
    <2>1. /\ delivered' = delivered \cup {<<wobj[w], wver[w], i>> : i \in Batch(w)}
          /\ twice' = twice \cup (delivered \cap {<<wobj[w], wver[w], i>> : i \in Batch(w)})
          /\ UNCHANGED <<queue, version>>
      BY <1>3 DEF Flush, env
    <2>2. twice' = {}
      BY <1>3, <2>1, FlushOnce DEF ExactlyOnce
    <2>3. ASSUME NEW r \in delivered', r \notin delivered
          PROVE  \E m \in Messages :
                   /\ r[1] \in Events(m) /\ queue'[m] # "unsent"
                   /\ r[2] = version'[r[1]] /\ Settled(m, r[1], r[3])'
      <3>1. PICK i \in Batch(w) : r = <<wobj[w], wver[w], i>>
        BY <2>1, <2>3
      <3>2. r[1] = wobj[w] /\ r[2] = wver[w] /\ r[3] = i
        BY <3>1
      <3>3. wobj' = wobj /\ wmsg' = wmsg
        BY <1>3 DEF Flush, reading
      <3>4. /\ wmsg[w] \in Messages /\ wobj[w] \in Events(wmsg[w])
            /\ queue[wmsg[w]] # "unsent" /\ wver[w] = version[wobj[w]]
            /\ Settled(wmsg[w], wobj[w], i)'
        BY <1>3, FlushOnce
      <3> QED
        BY <2>1, <3>2, <3>3, <3>4 DEF Settled
    <2> QED
      BY <1>1, <2>2, <2>3 DEF DeliveredSettled, ExactlyOnce
  <1>4. ASSUME NEW w \in Workers, Worker(w), ~Flush(w) PROVE delivered' = delivered /\ twice' = twice
    <2>1. CASE Checkpoint(w)
      BY <2>1 DEF Checkpoint, AfterBatch
    <2> QED
      BY <1>4, <2>1, SaveOnly
  <1> QED
    BY <1>2, <1>3, <1>4 DEF Next, Poller, Publish, VisibilityExpires, Receive,
       ReceiveNothing, Enqueue, PollerStops, Shutdown, CloseChannel, Stopped, Crash,
       Restart, vars, stored

\* Exactly once: when every object has one notification, no checkpoint or
\* process fails and no visibility timeout ends early, no record is delivered
\* twice, whatever reads, consumes, deletes and shutdowns interrupt.
THEOREM ExactlyOnceCorrect ==
    ASSUME OneNotification, Calm, AbsentIsNoOffset
    PROVE  Spec => []ExactlyOnce
  <1> DEFINE J == TypeOK /\ InHand /\ SentInHand /\ OnceInv
  <1>1. Init => J
    <2> SUFFICES ASSUME Init PROVE J
      OBVIOUS
    <2>1. TypeOK /\ InHand /\ SentInHand
      BY InitIInv DEF IInv
    <2>2. OneHolder /\ OwnObjects /\ ReadsBehind /\ DeliveredSettled /\ ExactlyOnce
      BY DEF Init, OneHolder, OwnObjects, ReadsBehind, DeliveredSettled, ExactlyOnce, Active,
             InChannel
    <2>3. OffsetsCurrent
      BY S3Assumption DEF Init, OffsetsCurrent, Keys
    <2> QED
      BY <2>1, <2>2, <2>3 DEF OnceInv
  <1>2. J /\ [Next]_vars => J'
    <2> SUFFICES ASSUME J, [Next]_vars PROVE J'
      OBVIOUS
    <2>1. TypeOK' /\ InHand' /\ Grow
      BY TypeStep, GrowStep
    <2>2. SentInHand'
      BY <2>1, SentStep
    <2>3. OneHolder' /\ OwnObjects'
      BY OneHolderStep, OwnObjectsStep DEF OnceInv
    <2>4. OffsetsCurrent' /\ ReadsBehind'
      BY <2>1, OffsetsCurrentStep, ReadsBehindStep DEF OnceInv
    <2>5. DeliveredSettled' /\ ExactlyOnce'
      BY <2>1, OnceStep DEF OnceInv
    <2> QED
      BY <2>1, <2>2, <2>3, <2>4, <2>5 DEF OnceInv
  <1>3. J => ExactlyOnce
    BY DEF OnceInv
  <1> QED
    BY <1>1, <1>2, <1>3, PTL DEF Spec
=============================================================================
