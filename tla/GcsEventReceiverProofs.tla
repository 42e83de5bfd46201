----------------------- MODULE GcsEventReceiverProofs -----------------------
(* What GcsEventReceiver guarantees for every number of messages, objects, *)
(* workers and batches and under every fault: stored offsets cover only    *)
(* delivered batches, recentTracker holds only processed objects, and,     *)
(* provided that no other event has the key of an OBJECT_FINALIZE event,   *)
(* deduplication loses no generation.                                      *)
EXTENDS GcsEventReceiver, FiniteSetTheorems, TLAPS

\* The key that deduplicates tells OBJECT_FINALIZE events from others.
KeysTellEvents ==
    \A m, n \in Messages : KeyOf(m) = KeyOf(n) => Finalize(m) = Finalize(n)

-----------------------------------------------------------------------------
(* The inductive invariant.                                                *)

\* A worker that works has a message, and whoever holds a message was sent it.
InHand ==
    /\ \A w \in Workers : wpc[w] \notin {"idle", "done"} => wmsg[w] \in Messages
    /\ \A m \in Messages : Held(m) => sub[m] # "unsent"

\* A message is sent when its generation is, or was, live.
Announced ==
    \A m \in Messages :
        sub[m] # "unsent" => GenerationOf(m) <= generation[ObjectOf(m)]

\* A worker reads the announced generation or a later one.
ReadsLive ==
    \A w \in Workers : wpc[w] \in {"load", "read", "save", "clean", "mark"} =>
        /\ GenerationOf(wmsg[w]) <= wgen[w]
        /\ wgen[w] <= generation[ObjectOf(wmsg[w])]

\* What it has read was delivered.
ReadWasDelivered ==
    \A w \in Workers : wpc[w] \in {"read", "save"} =>
        \A i \in 1 .. wpos[w] : <<ObjectOf(wmsg[w]), wgen[w], i>> \in delivered

\* What it has acknowledged was read to the end.
AckedWasConsumed ==
    \A w \in Workers : wpc[w] \in {"clean", "mark"} =>
        Consumed(ObjectOf(wmsg[w]), wgen[w])

Basic == TypeOK /\ InHand /\ Announced /\ ReadsLive

IInv ==
    /\ Basic /\ ReadWasDelivered /\ AckedWasConsumed
    /\ OffsetsCoverDelivered /\ RecentWereProcessed

\* A message that is acknowledged while the poller still has it was processed
\* by a worker that got it earlier.
AckedElsewhere ==
    \A m \in pulled : Finalize(m) /\ sub[m] = "acked" => Processed(KeyOf(m))

-----------------------------------------------------------------------------
(* Types.                                                                  *)

\* The capacity of msgChan is a number.
LEMMA ChanCapNat == ChanCap \in Nat
  BY GcsAssumption, FS_CardinalityType DEF ChanCap

\* Acknowledging keeps the type of the subscription.
LEMMA AckedType ==
    ASSUME TypeOK, NEW A \in SUBSET Messages, Acked(A)
    PROVE  sub' \in [Messages -> {"unsent", "ready", "out", "acked"}]
  BY DEF TypeOK, Acked

\* The receiver starts well typed.
LEMMA InitType == Init => TypeOK
  <1> SUFFICES ASSUME Init PROVE TypeOK
    OBVIOUS
  <1>1. msgChan \in Seq(Messages) /\ Len(msgChan) <= ChanCap
    BY ChanCapNat DEF Init
  <1> QED
    BY <1>1, GcsAssumption DEF Init, TypeOK

\* Cloud Storage and Pub/Sub keep the types.
LEMMA TypeCloud ==
    ASSUME TypeOK, NEW m \in Messages, Publish(m) \/ DeadlineEnds(m)
    PROVE  TypeOK'
  <1>1. CASE Publish(m)
    <2>1. LiveOf(m) \in Nat
      BY GcsAssumption
    <2> QED
      BY <1>1, <2>1 DEF TypeOK, Publish, poller, worker
  <1>2. CASE DeadlineEnds(m)
    <2>1. early' \in Nat
      BY <1>2 DEF TypeOK, DeadlineEnds
    <2> QED
      BY <1>2, <2>1 DEF TypeOK, DeadlineEnds, poller, worker
  <1> QED
    BY <1>1, <1>2

\* The poller and the eviction keep the types.
LEMMA TypePoller ==
    ASSUME TypeOK, Poller \/ \E k \in recent : Evict(k)
    PROVE  TypeOK'
  <1>1. CASE \E S \in SUBSET Messages : Pull(S)
    BY <1>1 DEF TypeOK, Pull, worker
  <1>2. ASSUME NEW S \in SUBSET Messages, batchDedup(S)
        PROVE  TypeOK'
    <2>1. Acked(pulled \ S) /\ S \subseteq pulled
      BY <1>2 DEF batchDedup, OneOfEach
    <2>2. sub' \in [Messages -> {"unsent", "ready", "out", "acked"}]
      BY <2>1, AckedType DEF TypeOK
    <2> QED
      BY <1>2, <2>2 DEF TypeOK, batchDedup, worker
  <1>3. CASE PullNothing
    BY <1>3 DEF TypeOK, PullNothing, vars, cloud, poller, worker
  <1>4. ASSUME NEW m \in Messages, Duplicate(m)
        PROVE  TypeOK'
    <2>1. sub' \in [Messages -> {"unsent", "ready", "out", "acked"}]
      BY <1>4, AckedType DEF Duplicate
    <2> QED
      BY <1>4, <2>1 DEF TypeOK, Duplicate, worker
  <1>5. ASSUME NEW m \in Messages, Enqueue(m)
        PROVE  TypeOK'
    <2>1. msgChan' \in Seq(Messages) /\ Len(msgChan') <= ChanCap
      BY <1>5, ChanCapNat DEF TypeOK, Enqueue
    <2> QED
      BY <1>5, <2>1 DEF TypeOK, Enqueue, cloud, worker
  <1>6. CASE PullReturns
    BY <1>6 DEF TypeOK, PullReturns, cloud, worker
  <1>7. CASE PollerStops
    BY <1>7 DEF TypeOK, PollerStops, cloud, worker
  <1>8. CASE \E k \in recent : Evict(k)
    BY <1>8 DEF TypeOK, Evict, cloud, poller, worker
  <1> QED
    BY <1>1, <1>2, <1>3, <1>4, <1>5, <1>6, <1>7, <1>8 DEF Poller, Dispatch

\* Returning from ProcessMessage keeps the types of the worker variables.
LEMMA ReturnType ==
    ASSUME TypeOK, NEW w \in Workers, Return(w)
    PROVE  /\ wpc' \in [Workers -> {"idle", "open", "load", "read", "save", "clean",
                                    "mark", "done"}]
           /\ wmsg' \in [Workers -> Messages \cup {None}]
           /\ wgen' \in [Workers -> Nat] /\ wpos' \in [Workers -> Nat]
           /\ wpc'[w] = "idle" /\ wmsg'[w] = None
           /\ \A x \in Workers \ {w} : /\ wpc'[x] = wpc[x] /\ wmsg'[x] = wmsg[x]
                                       /\ wgen'[x] = wgen[x] /\ wpos'[x] = wpos[x]
  BY DEF TypeOK, Return, Goto

\* A stored offset makes a read start at a number.
LEMMA StartOffsetNat ==
    ASSUME TypeOK, NEW o \in Objects, NEW g \in Nat
    PROVE  StartOffset(offsets[o], g) \in Nat
  BY DEF TypeOK, StartOffset, Offset

\* A worker keeps the types.
LEMMA TypeWorker ==
    ASSUME TypeOK, InHand, NEW w \in Workers, Worker(w)
    PROVE  TypeOK'
  <1>0. wpc[w] \notin {"idle", "done"} => wmsg[w] \in Messages /\ ObjectOf(wmsg[w]) \in Objects
    BY GcsAssumption DEF InHand
  <1>1. CASE Take(w)
    <2>1. Head(msgChan) \in Messages /\ Tail(msgChan) \in Seq(Messages)
          /\ Len(Tail(msgChan)) <= ChanCap
      BY <1>1, ChanCapNat DEF TypeOK, Take
    <2> QED
      BY <1>1, <2>1 DEF TypeOK, Take, Goto, cloud
  <1>2. CASE WorkerStops(w)
    BY <1>2 DEF TypeOK, WorkerStops, Goto, cloud, poller
  <1>3. CASE Filtered(w)
    <2>1. sub' \in [Messages -> {"unsent", "ready", "out", "acked"}]
      BY <1>3, <1>0, AckedType DEF Filtered
    <2> QED
      BY <1>3, <2>1, ReturnType DEF TypeOK, Filtered, poller
  <1>4. CASE Open(w)
    BY <1>4, <1>0 DEF TypeOK, Open, Goto, cloud, poller
  <1>5. CASE LoadOffset(w)
    <2>1. StartOffset(offsets[ObjectOf(wmsg[w])], wgen[w]) \in Nat
      BY <1>5, <1>0, StartOffsetNat DEF TypeOK, LoadOffset
    <2> QED
      BY <1>5, <2>1 DEF TypeOK, LoadOffset, Goto, cloud, poller
  <1>6. CASE Flush(w)
    <2>1. wpos' \in [Workers -> Nat]
      BY <1>6 DEF TypeOK, Flush
    <2>2. <<ObjectOf(wmsg[w]), wgen[w], wpos'[w]>> \in Objects \X Nat \X Nat
      BY <1>6, <1>0, <2>1 DEF TypeOK, Flush
    <2>3. delivered' \subseteq Objects \X Nat \X Nat
      BY <1>6, <2>2 DEF TypeOK, Flush
    <2> QED
      BY <1>6, <2>1, <2>3 DEF TypeOK, Flush, Goto, cloud, poller
  <1>7. CASE Checkpoint(w)
    <2>1. [gen |-> Version(w), pos |-> wpos[w]] \in Offset
      BY DEF TypeOK, Version, Offset
    <2>2. offsets' \in [Objects -> Offset \cup {None}]
      BY <1>7, <2>1 DEF TypeOK, Checkpoint
    <2> QED
      BY <1>7, <2>2 DEF TypeOK, Checkpoint, Goto, cloud, poller
  <1>8. CASE ReadFails(w)
    <2>1. sub' \in [Messages -> {"unsent", "ready", "out", "acked"}]
      BY <1>8 DEF TypeOK, ReadFails, HandleProcessingError
    <2> QED
      BY <1>8, <2>1, ReturnType DEF TypeOK, ReadFails, HandleProcessingError, poller
  <1>9. CASE Ack(w)
    BY <1>9 DEF TypeOK, Ack, Goto, poller
  <1>10. CASE AckFails(w)
    BY <1>10, ReturnType DEF TypeOK, AckFails, cloud, poller
  <1>11. CASE DeleteOffset(w)
    <2>1. offsets' \in [Objects -> Offset \cup {None}]
      BY <1>11 DEF TypeOK, DeleteOffset
    <2> QED
      BY <1>11, <2>1 DEF TypeOK, DeleteOffset, Goto, cloud, poller
  <1>12. CASE Mark(w)
    <2>1. KeyOf(wmsg[w]) \in Keys
      BY <1>12, <1>0, GcsAssumption DEF Mark, KeyOf, Keys
    <2> QED
      BY <1>12, <2>1, ReturnType DEF TypeOK, Mark, cloud, poller
  <1> QED
    BY <1>1, <1>2, <1>3, <1>4, <1>5, <1>6, <1>7, <1>8, <1>9, <1>10, <1>11, <1>12
    DEF Worker, Reader

\* Starting and stopping keep the types.
LEMMA TypeLife ==
    ASSUME TypeOK, Shutdown \/ CloseChannel \/ Stopped \/ Crash \/ Start
    PROVE  TypeOK'
  <1>1. CASE Shutdown
    BY <1>1 DEF TypeOK, Shutdown, cloud, poller, worker
  <1>2. CASE CloseChannel
    BY <1>2 DEF TypeOK, CloseChannel, cloud, poller, worker
  <1>3. CASE Stopped
    BY <1>3, ChanCapNat DEF TypeOK, Stopped, cloud, worker
  <1>4. CASE Crash
    BY <1>4, ChanCapNat DEF TypeOK, Crash, cloud
  <1>5. CASE Start
    BY <1>5 DEF TypeOK, Start, cloud
  <1> QED
    BY <1>1, <1>2, <1>3, <1>4, <1>5

\* Every step keeps the types.
LEMMA TypeNext == ASSUME TypeOK, InHand, [Next]_vars PROVE TypeOK'
  <1>1. CASE UNCHANGED vars
    BY <1>1 DEF TypeOK, vars, cloud, poller, worker
  <1> QED
    BY <1>1, TypeCloud, TypePoller, TypeWorker, TypeLife DEF Next

-----------------------------------------------------------------------------
(* Messages in hand and generations.                                       *)

\* What a step does to the subscription and to whoever holds a message: a
\* message is held anew only when it is pulled, and none becomes unsent.
LEMMA HoldNext ==
    ASSUME TypeOK, InHand, Next
    PROVE  \A m \in Messages :
             /\ sub[m] # "unsent" => sub'[m] # "unsent"
             /\ Held(m)' => Held(m) \/ sub[m] = "ready"
  <1> SUFFICES ASSUME NEW m \in Messages
               PROVE  /\ sub[m] # "unsent" => sub'[m] # "unsent"
                      /\ Held(m)' => Held(m) \/ sub[m] = "ready"
    OBVIOUS
  <1>1. ASSUME NEW n \in Messages, Publish(n) \/ DeadlineEnds(n)
        PROVE  /\ sub[m] # "unsent" => sub'[m] # "unsent"
               /\ Held(m)' => Held(m)
    BY <1>1 DEF TypeOK, Publish, DeadlineEnds, Held, poller, worker
  <1>2. ASSUME NEW S \in SUBSET Messages, Pull(S)
        PROVE  /\ sub[m] # "unsent" => sub'[m] # "unsent"
               /\ Held(m)' => Held(m) \/ sub[m] = "ready"
    BY <1>2 DEF TypeOK, Pull, Held, worker
  <1>3. ASSUME NEW S \in SUBSET Messages, batchDedup(S)
        PROVE  /\ sub[m] # "unsent" => sub'[m] # "unsent"
               /\ Held(m)' => Held(m)
    BY <1>3 DEF TypeOK, batchDedup, Acked, OneOfEach, Held, worker
  <1>4. ASSUME NEW n \in Messages, Duplicate(n)
        PROVE  /\ sub[m] # "unsent" => sub'[m] # "unsent"
               /\ Held(m)' => Held(m)
    BY <1>4 DEF TypeOK, Duplicate, Acked, Held, worker
  <1>5. ASSUME NEW n \in Messages, Enqueue(n)
        PROVE  /\ sub'[m] = sub[m]
               /\ Held(m)' => Held(m)
    BY <1>5 DEF TypeOK, Enqueue, Held, cloud, worker
  <1>6. CASE PullNothing \/ PullReturns \/ PollerStops \/ (\E k \in recent : Evict(k))
    BY <1>6 DEF PullNothing, PullReturns, PollerStops, Evict, Held, vars, cloud,
                poller, worker
  <1>7. ASSUME NEW w \in Workers, Take(w)
        PROVE  /\ sub'[m] = sub[m]
               /\ Held(m)' => Held(m)
    <2>1. \A i \in DOMAIN Tail(msgChan) :
             i + 1 \in DOMAIN msgChan /\ Tail(msgChan)[i] = msgChan[i + 1]
      BY <1>7 DEF TypeOK, Take
    <2>2. 1 \in DOMAIN msgChan /\ Head(msgChan) = msgChan[1]
      BY <1>7 DEF TypeOK, Take
    <2> QED
      BY <1>7, <2>1, <2>2 DEF TypeOK, Take, Held, cloud
  <1>8. ASSUME NEW w \in Workers,
               \/ Filtered(w) \/ ReadFails(w) \/ AckFails(w) \/ Mark(w)
        PROVE  /\ sub[m] # "unsent" => sub'[m] # "unsent"
               /\ Held(m)' => Held(m)
    <2>1. Return(w) /\ UNCHANGED poller
      BY <1>8 DEF Filtered, ReadFails, HandleProcessingError, AckFails, Mark
    <2>2. Held(m)' => Held(m)
      BY <2>1, ReturnType, GcsAssumption DEF Held, poller
    <2>3. sub[m] # "unsent" => sub'[m] # "unsent"
      BY <1>8 DEF TypeOK, Filtered, Acked, ReadFails, HandleProcessingError, AckFails,
                  Mark, cloud
    <2> QED
      BY <2>2, <2>3
  <1>9. ASSUME NEW w \in Workers,
               \/ WorkerStops(w) \/ Open(w) \/ LoadOffset(w) \/ Flush(w)
               \/ Checkpoint(w) \/ Ack(w) \/ DeleteOffset(w)
        PROVE  /\ sub[m] # "unsent" => sub'[m] # "unsent"
               /\ Held(m)' => Held(m)
    BY <1>9 DEF TypeOK, WorkerStops, Open, LoadOffset, Flush, Checkpoint, Ack,
                DeleteOffset, Held, cloud, poller
  <1>10. CASE Shutdown \/ CloseChannel \/ Stopped \/ Crash \/ Start
    <2>1. sub' = sub
      BY <1>10 DEF Shutdown, CloseChannel, Stopped, Crash, Start, cloud
    <2>2. CASE Shutdown \/ CloseChannel \/ Stopped \/ Start
      BY <2>1, <2>2 DEF Shutdown, CloseChannel, Stopped, Start, Held, poller, worker
    <2>3. CASE Crash
      BY <2>1, <2>3, GcsAssumption DEF Crash, Held
    <2> QED
      BY <1>10, <2>1, <2>2, <2>3
  <1> QED
    BY <1>1, <1>2, <1>3, <1>4, <1>5, <1>6, <1>7, <1>8, <1>9, <1>10
    DEF Next, Poller, Dispatch, Worker, Reader

\* A step is a worker's, a crash or a start, or leaves the workers alone.
LEMMA WorkerSteps ==
    ASSUME Next
    PROVE  UNCHANGED worker \/ Crash \/ Start \/ (\E x \in Workers : Worker(x))
  <1>1. ASSUME NEW m \in Messages, Publish(m) \/ DeadlineEnds(m) PROVE UNCHANGED worker
    BY <1>1 DEF Publish, DeadlineEnds
  <1>2. CASE Poller \/ \E k \in recent : Evict(k)
    BY <1>2 DEF Poller, Pull, batchDedup, PullNothing, Dispatch, Duplicate, Enqueue,
                PullReturns, PollerStops, Evict, vars
  <1>3. CASE Shutdown \/ CloseChannel \/ Stopped
    BY <1>3 DEF Shutdown, CloseChannel, Stopped
  <1> QED
    BY <1>1, <1>2, <1>3 DEF Next

\* A worker that is at work had its message before, or takes it now.
LEMMA WorkNext ==
    ASSUME TypeOK, InHand, Next, NEW w \in Workers
    PROVE  /\ wpc'[w] \notin {"idle", "done"} => wmsg'[w] \in Messages
           /\ wpc'[w] \notin {"idle", "done", "open"} =>
                wpc[w] \notin {"idle", "done"} /\ wmsg'[w] = wmsg[w]
  <1> DEFINE Goal == /\ wpc'[w] \notin {"idle", "done"} => wmsg'[w] \in Messages
                     /\ wpc'[w] \notin {"idle", "done", "open"} =>
                          wpc[w] \notin {"idle", "done"} /\ wmsg'[w] = wmsg[w]
  <1>1. CASE UNCHANGED worker
    BY <1>1 DEF worker, InHand
  <1>2. ASSUME NEW x \in Workers, Take(x) PROVE Goal
    <2>1. Head(msgChan) \in Messages
      BY <1>2 DEF TypeOK, Take
    <2> QED
      BY <1>2, <2>1 DEF TypeOK, InHand, Take, Goto
  <1>3. ASSUME NEW x \in Workers, Return(x) PROVE Goal
    BY <1>3, ReturnType DEF InHand
  <1>4. ASSUME NEW x \in Workers,
               \/ WorkerStops(x) \/ Open(x) \/ LoadOffset(x) \/ Flush(x)
               \/ Checkpoint(x) \/ Ack(x) \/ DeleteOffset(x)
        PROVE  Goal
    BY <1>4 DEF TypeOK, InHand, WorkerStops, Open, LoadOffset, Flush, Checkpoint, Ack,
                EndOfObject, DeleteOffset, Goto
  <1>5. CASE Crash \/ Start
    BY <1>5 DEF Crash, Start
  <1>6. UNCHANGED worker \/ Crash \/ Start \/ (\E x \in Workers : Worker(x))
    BY WorkerSteps
  <1>7. ASSUME NEW x \in Workers,
               \/ Filtered(x) \/ ReadFails(x) \/ AckFails(x) \/ Mark(x)
        PROVE  Return(x)
    BY <1>7 DEF Filtered, ReadFails, HandleProcessingError, AckFails, Mark
  <1> QED
    BY <1>1, <1>2, <1>3, <1>4, <1>5, <1>6, <1>7 DEF Worker, Reader

\* InHand is kept.
LEMMA InHandNext == ASSUME TypeOK, InHand, Next PROVE InHand'
  <1>1. \A m \in Messages : Held(m)' => sub'[m] # "unsent"
    BY HoldNext DEF InHand
  <1> QED
    BY <1>1, WorkNext DEF InHand

\* Only Publish changes the live generation, and never to an earlier one.
LEMMA GenerationNext ==
    ASSUME TypeOK, Next
    PROVE  /\ \A o \in Objects : generation[o] <= generation'[o]
           /\ generation' # generation => \E m \in Messages : Publish(m)
  <1>1. ASSUME NEW m \in Messages, Publish(m)
        PROVE  \A o \in Objects : generation[o] <= generation'[o]
    <2>1. LiveOf(m) \in Nat
      BY GcsAssumption
    <2> QED
      BY <1>1, <2>1 DEF TypeOK, Publish
  <1>2. CASE generation' = generation
    BY <1>2 DEF TypeOK
  <1>3. generation' = generation \/ \E m \in Messages : Publish(m)
    <2>1. ASSUME NEW m \in Messages, DeadlineEnds(m) PROVE generation' = generation
      BY <2>1 DEF DeadlineEnds
    <2>2. CASE Poller \/ \E k \in recent : Evict(k)
      BY <2>2 DEF Poller, Pull, batchDedup, PullNothing, Dispatch, Duplicate, Enqueue,
                  PullReturns, PollerStops, Evict, vars, cloud
    <2>3. ASSUME NEW w \in Workers, Worker(w) PROVE generation' = generation
      BY <2>3 DEF Worker, Reader, Take, WorkerStops, Filtered, Open, LoadOffset, Flush,
                  Checkpoint, ReadFails, HandleProcessingError, Ack, AckFails,
                  DeleteOffset, Mark, cloud
    <2>4. CASE Shutdown \/ CloseChannel \/ Stopped \/ Crash \/ Start
      BY <2>4 DEF Shutdown, CloseChannel, Stopped, Crash, Start, cloud
    <2> QED
      BY <2>1, <2>2, <2>3, <2>4 DEF Next
  <1> QED
    BY <1>1, <1>2, <1>3

\* No step but Publish sends a message.
LEMMA SendNext ==
    ASSUME TypeOK, InHand, Next, NEW m \in Messages, sub[m] = "unsent", sub'[m] # "unsent"
    PROVE  Publish(m)
  <1>0. ~Held(m)
    BY DEF InHand
  <1>1. ASSUME NEW n \in Messages, Publish(n) PROVE Publish(m)
    BY <1>1 DEF TypeOK, Publish
  <1>2. ASSUME NEW n \in Messages, DeadlineEnds(n) PROVE FALSE
    BY <1>2 DEF TypeOK, DeadlineEnds
  <1>3. CASE Poller \/ \E k \in recent : Evict(k)
    BY <1>0, <1>3 DEF TypeOK, Held, Poller, Pull, batchDedup, PullNothing, Dispatch,
                Duplicate, Enqueue, PullReturns, PollerStops, Evict, Acked, OneOfEach,
                vars, cloud
  <1>4. ASSUME NEW w \in Workers, Worker(w) PROVE FALSE
    BY <1>0, <1>4 DEF TypeOK, Held, Worker, Reader, Take, WorkerStops, Filtered, Open,
                LoadOffset, Flush, Checkpoint, ReadFails, HandleProcessingError, Ack,
                AckFails, DeleteOffset, Mark, Acked, cloud
  <1>5. CASE Shutdown \/ CloseChannel \/ Stopped \/ Crash \/ Start
    BY <1>5 DEF Shutdown, CloseChannel, Stopped, Crash, Start, cloud
  <1> QED
    BY <1>1, <1>2, <1>3, <1>4, <1>5 DEF Next

\* Announced is kept.
LEMMA AnnouncedNext == ASSUME TypeOK, InHand, Announced, Next PROVE Announced'
  <1> SUFFICES ASSUME NEW m \in Messages, sub'[m] # "unsent"
               PROVE  GenerationOf(m) <= generation'[ObjectOf(m)]
    BY DEF Announced
  <1>0. ObjectOf(m) \in Objects /\ GenerationOf(m) \in Nat /\ LiveOf(m) \in Nat
        /\ GenerationOf(m) <= LiveOf(m)
    BY GcsAssumption
  <1>1. CASE sub[m] = "unsent"
    BY <1>0, <1>1, SendNext DEF TypeOK, Publish
  <1>2. CASE sub[m] # "unsent"
    <2>1. generation' \in [Objects -> Nat]
      BY TypeNext DEF TypeOK
    <2> QED
      BY <1>0, <1>2, <2>1, GenerationNext DEF TypeOK, Announced
  <1> QED
    BY <1>1, <1>2

\* A worker past Open keeps its generation; at Open it takes the live one.
LEMMA ReadingNext ==
    ASSUME TypeOK, InHand, Next, NEW w \in Workers,
           wpc'[w] \in {"load", "read", "save", "clean", "mark"}
    PROVE  \/ Open(w)
           \/ wpc[w] \in {"load", "read", "save", "clean", "mark"} /\ wgen'[w] = wgen[w]
  <1> DEFINE Goal == \/ Open(w)
                     \/ /\ wpc[w] \in {"load", "read", "save", "clean", "mark"}
                        /\ wgen'[w] = wgen[w]
  <1>1. CASE UNCHANGED worker
    BY <1>1 DEF worker
  <1>2. ASSUME NEW x \in Workers, Return(x) PROVE Goal
    BY <1>2, ReturnType
  <1>3. ASSUME NEW x \in Workers,
               \/ Take(x) \/ WorkerStops(x) \/ Open(x) \/ LoadOffset(x) \/ Flush(x)
               \/ Checkpoint(x) \/ Ack(x) \/ DeleteOffset(x)
        PROVE  Goal
    BY <1>3 DEF TypeOK, Take, WorkerStops, Open, LoadOffset, Flush, Checkpoint, Ack,
                EndOfObject, DeleteOffset, Goto
  <1>4. CASE Crash \/ Start
    BY <1>4 DEF Crash, Start
  <1>5. UNCHANGED worker \/ Crash \/ Start \/ (\E x \in Workers : Worker(x))
    BY WorkerSteps
  <1>6. ASSUME NEW x \in Workers,
               \/ Filtered(x) \/ ReadFails(x) \/ AckFails(x) \/ Mark(x)
        PROVE  Return(x)
    BY <1>6 DEF Filtered, ReadFails, HandleProcessingError, AckFails, Mark
  <1> QED
    BY <1>1, <1>2, <1>3, <1>4, <1>5, <1>6 DEF Worker, Reader

\* ReadsLive is kept.
LEMMA ReadsLiveNext == ASSUME Basic, Next PROVE ReadsLive'
  <1> USE DEF Basic
  <1> SUFFICES ASSUME NEW w \in Workers,
                      wpc'[w] \in {"load", "read", "save", "clean", "mark"}
               PROVE  /\ GenerationOf(wmsg'[w]) <= wgen'[w]
                      /\ wgen'[w] <= generation'[ObjectOf(wmsg'[w])]
    BY DEF ReadsLive
  <1>1. wmsg'[w] = wmsg[w] /\ wmsg[w] \in Messages
    BY WorkNext DEF InHand
  <1>2. /\ ObjectOf(wmsg[w]) \in Objects /\ GenerationOf(wmsg[w]) \in Nat
        /\ generation \in [Objects -> Nat] /\ generation' \in [Objects -> Nat]
        /\ wgen[w] \in Nat
    BY <1>1, GcsAssumption, TypeNext DEF TypeOK
  <1>3. CASE Open(w)
    <2>1. wgen'[w] = generation[ObjectOf(wmsg[w])] /\ generation' = generation
      BY <1>3 DEF TypeOK, Open, cloud
    <2>2. Held(wmsg[w])
      BY <1>1 DEF Held
    <2> QED
      BY <1>1, <1>2, <2>1, <2>2 DEF InHand, Announced
  <1>4. CASE wpc[w] \in {"load", "read", "save", "clean", "mark"} /\ wgen'[w] = wgen[w]
    BY <1>1, <1>2, <1>4, GenerationNext DEF ReadsLive
  <1> QED
    BY <1>3, <1>4, ReadingNext

-----------------------------------------------------------------------------
(* Delivery and offsets.                                                   *)

\* What a step may do to delivered, offsets and recent.
LEMMA StoreNext ==
    ASSUME Next
    PROVE  /\ delivered \subseteq delivered'
           /\ \/ offsets' = offsets
              \/ \E w \in Workers : Checkpoint(w) \/ DeleteOffset(w)
           /\ recent' \subseteq recent \/ \E w \in Workers : Mark(w)
  <1>1. ASSUME NEW m \in Messages, Publish(m) \/ DeadlineEnds(m)
        PROVE  UNCHANGED <<delivered, offsets, recent>>
    BY <1>1 DEF Publish, DeadlineEnds
  <1>2. CASE Poller \/ \E k \in recent : Evict(k)
    BY <1>2 DEF Poller, Pull, batchDedup, PullNothing, Dispatch, Duplicate, Enqueue,
                PullReturns, PollerStops, Evict, vars
  <1>3. ASSUME NEW w \in Workers, Worker(w)
        PROVE  /\ delivered \subseteq delivered'
               /\ offsets' = offsets \/ Checkpoint(w) \/ DeleteOffset(w)
               /\ recent' \subseteq recent \/ Mark(w)
    BY <1>3 DEF Worker, Reader, Take, WorkerStops, Filtered, Open, LoadOffset, Flush,
                Checkpoint, ReadFails, HandleProcessingError, Ack, AckFails,
                DeleteOffset, Mark
  <1>4. CASE Shutdown \/ CloseChannel \/ Stopped \/ Crash \/ Start
    BY <1>4 DEF Shutdown, CloseChannel, Stopped, Crash, Start
  <1> QED
    BY <1>1, <1>2, <1>3, <1>4 DEF Next

\* An offset of the generation that is read covers only delivered batches.
LEMMA StartCovers ==
    ASSUME TypeOK, OffsetsCoverDelivered, NEW o \in Objects, NEW g \in Nat
    PROVE  \A i \in 1 .. StartOffset(offsets[o], g) : <<o, g, i>> \in delivered
  <1>1. CASE offsets[o] # None /\ offsets[o].gen = g
    BY <1>1 DEF StartOffset, OffsetsCoverDelivered
  <1>2. CASE ~(offsets[o] # None /\ offsets[o].gen = g)
    BY <1>2 DEF StartOffset
  <1> QED
    BY <1>1, <1>2

\* How a worker gets, or keeps, a position in its object.
LEMMA PositionNext ==
    ASSUME TypeOK, Next, NEW w \in Workers, wpc'[w] \in {"read", "save"}
    PROVE  \/ LoadOffset(w) \/ Flush(w)
           \/ /\ wpc[w] \in {"read", "save"}
              /\ wgen'[w] = wgen[w] /\ wpos'[w] = wpos[w]
  <1> DEFINE Goal == \/ LoadOffset(w) \/ Flush(w)
                     \/ /\ wpc[w] \in {"read", "save"}
                        /\ wgen'[w] = wgen[w] /\ wpos'[w] = wpos[w]
  <1>1. CASE UNCHANGED worker
    BY <1>1 DEF worker
  <1>2. ASSUME NEW x \in Workers, Return(x) PROVE Goal
    BY <1>2, ReturnType
  <1>3. ASSUME NEW x \in Workers,
               \/ Take(x) \/ WorkerStops(x) \/ Open(x) \/ LoadOffset(x) \/ Flush(x)
               \/ Checkpoint(x) \/ Ack(x) \/ DeleteOffset(x)
        PROVE  Goal
    BY <1>3 DEF TypeOK, Take, WorkerStops, Open, LoadOffset, Flush, Checkpoint, Ack,
                EndOfObject, DeleteOffset, Goto
  <1>4. CASE Crash \/ Start
    BY <1>4 DEF Crash, Start
  <1>5. UNCHANGED worker \/ Crash \/ Start \/ (\E x \in Workers : Worker(x))
    BY WorkerSteps
  <1>6. ASSUME NEW x \in Workers,
               \/ Filtered(x) \/ ReadFails(x) \/ AckFails(x) \/ Mark(x)
        PROVE  Return(x)
    BY <1>6 DEF Filtered, ReadFails, HandleProcessingError, AckFails, Mark
  <1> QED
    BY <1>1, <1>2, <1>3, <1>4, <1>5, <1>6 DEF Worker, Reader

\* ReadWasDelivered is kept.
LEMMA ReadWasDeliveredNext == ASSUME IInv, Next PROVE ReadWasDelivered'
  <1> USE DEF IInv, Basic
  <1> SUFFICES ASSUME NEW w \in Workers, wpc'[w] \in {"read", "save"},
                      NEW i \in 1 .. wpos'[w]
               PROVE  <<ObjectOf(wmsg'[w]), wgen'[w], i>> \in delivered'
    BY DEF ReadWasDelivered
  <1>1. /\ wmsg'[w] = wmsg[w] /\ wmsg[w] \in Messages /\ ObjectOf(wmsg[w]) \in Objects
        /\ wgen[w] \in Nat /\ wpos[w] \in Nat
    BY WorkNext, GcsAssumption DEF InHand, TypeOK
  <1>2. delivered \subseteq delivered'
    BY StoreNext
  <1>3. CASE LoadOffset(w)
    <2>1. /\ wgen'[w] = wgen[w]
          /\ wpos'[w] = StartOffset(offsets[ObjectOf(wmsg[w])], wgen[w])
      BY <1>3 DEF TypeOK, LoadOffset
    <2> QED
      BY <1>1, <1>2, <2>1, StartCovers
  <1>4. CASE Flush(w)
    <2>1. /\ wgen'[w] = wgen[w] /\ wpos'[w] = wpos[w] + 1 /\ wpc[w] = "read"
          /\ delivered' = delivered \cup {<<ObjectOf(wmsg[w]), wgen[w], wpos[w] + 1>>}
      BY <1>4 DEF TypeOK, Flush
    <2>2. CASE i = wpos[w] + 1
      BY <1>1, <2>1, <2>2
    <2>3. CASE i \in 1 .. wpos[w]
      BY <1>1, <2>1, <2>3 DEF ReadWasDelivered
    <2> QED
      BY <1>1, <2>1, <2>2, <2>3
  <1>5. CASE /\ wpc[w] \in {"read", "save"}
             /\ wgen'[w] = wgen[w] /\ wpos'[w] = wpos[w]
    BY <1>1, <1>2, <1>5 DEF ReadWasDelivered
  <1> QED
    BY <1>3, <1>4, <1>5, PositionNext

\* How a worker comes to, or stays at, the end of its object.
LEMMA EndNext ==
    ASSUME TypeOK, Next, NEW w \in Workers, wpc'[w] \in {"clean", "mark"}
    PROVE  /\ wgen'[w] = wgen[w]
           /\ Ack(w) \/ wpc[w] \in {"clean", "mark"}
  <1> DEFINE Goal == /\ wgen'[w] = wgen[w]
                     /\ Ack(w) \/ wpc[w] \in {"clean", "mark"}
  <1>1. CASE UNCHANGED worker
    BY <1>1 DEF worker
  <1>2. ASSUME NEW x \in Workers, Return(x) PROVE Goal
    BY <1>2, ReturnType
  <1>3. ASSUME NEW x \in Workers,
               \/ Take(x) \/ WorkerStops(x) \/ Open(x) \/ LoadOffset(x) \/ Flush(x)
               \/ Checkpoint(x) \/ Ack(x) \/ DeleteOffset(x)
        PROVE  Goal
    BY <1>3 DEF TypeOK, Take, WorkerStops, Open, LoadOffset, Flush, Checkpoint, Ack,
                EndOfObject, DeleteOffset, Goto
  <1>4. CASE Crash \/ Start
    BY <1>4 DEF Crash, Start
  <1>5. UNCHANGED worker \/ Crash \/ Start \/ (\E x \in Workers : Worker(x))
    BY WorkerSteps
  <1>6. ASSUME NEW x \in Workers,
               \/ Filtered(x) \/ ReadFails(x) \/ AckFails(x) \/ Mark(x)
        PROVE  Return(x)
    BY <1>6 DEF Filtered, ReadFails, HandleProcessingError, AckFails, Mark
  <1> QED
    BY <1>1, <1>2, <1>3, <1>4, <1>5, <1>6 DEF Worker, Reader

\* At the end of an object all of it was delivered.
LEMMA EndWasConsumed ==
    ASSUME IInv, NEW w \in Workers, EndOfObject(w)
    PROVE  Consumed(ObjectOf(wmsg[w]), wgen[w])
  BY GcsAssumption DEF IInv, Basic, TypeOK, EndOfObject, Consumed, ReadWasDelivered

\* AckedWasConsumed is kept.
LEMMA AckedWasConsumedNext == ASSUME IInv, Next PROVE AckedWasConsumed'
  <1> USE DEF IInv, Basic
  <1> SUFFICES ASSUME NEW w \in Workers, wpc'[w] \in {"clean", "mark"}
               PROVE  Consumed(ObjectOf(wmsg[w]), wgen[w])'
    BY DEF AckedWasConsumed
  <1>1. wmsg'[w] = wmsg[w] /\ wgen'[w] = wgen[w] /\ delivered \subseteq delivered'
    BY WorkNext, EndNext, StoreNext
  <1>2. Consumed(ObjectOf(wmsg[w]), wgen[w])
    BY EndNext, EndWasConsumed DEF Ack, AckedWasConsumed
  <1> QED
    BY <1>1, <1>2 DEF Consumed

\* OffsetsCoverDelivered is kept.
LEMMA OffsetsNext == ASSUME IInv, Next PROVE OffsetsCoverDelivered'
  <1> USE DEF IInv, Basic
  <1>0. delivered \subseteq delivered'
    BY StoreNext
  <1>1. CASE offsets' = offsets
    BY <1>0, <1>1 DEF OffsetsCoverDelivered
  <1>2. ASSUME NEW w \in Workers, Checkpoint(w), offsets' # offsets
        PROVE  OffsetsCoverDelivered'
    <2>1. /\ offsets' = [offsets EXCEPT ![ObjectOf(wmsg[w])] =
                                [gen |-> wgen[w], pos |-> wpos[w]]]
          /\ wpc[w] = "save" /\ delivered' = delivered
      BY <1>2 DEF Checkpoint, Version
    <2>2. \A i \in 1 .. wpos[w] : <<ObjectOf(wmsg[w]), wgen[w], i>> \in delivered
      BY <2>1 DEF ReadWasDelivered
    <2>3. ASSUME NEW o \in Objects, offsets'[o] # None, NEW i \in 1 .. offsets'[o].pos
          PROVE  <<o, offsets'[o].gen, i>> \in delivered
      <3>1. CASE o = ObjectOf(wmsg[w])
        BY <2>1, <2>2, <2>3, <3>1 DEF TypeOK
      <3>2. CASE o # ObjectOf(wmsg[w])
        BY <2>1, <2>3, <3>2 DEF TypeOK, OffsetsCoverDelivered
      <3> QED
        BY <3>1, <3>2
    <2> QED
      BY <2>1, <2>3 DEF OffsetsCoverDelivered
  <1>3. ASSUME NEW w \in Workers, DeleteOffset(w)
        PROVE  OffsetsCoverDelivered'
    BY <1>3 DEF TypeOK, DeleteOffset, OffsetsCoverDelivered
  <1> QED
    BY <1>1, <1>2, <1>3, StoreNext

-----------------------------------------------------------------------------
(* Processed objects.                                                      *)

\* A processed object stays processed.
LEMMA ProcessedNext ==
    ASSUME TypeOK, InHand, Next, NEW k \in Keys, Processed(k)
    PROVE  Processed(k)'
  <1>1. PICK g \in k[2] .. generation[k[1]] : Consumed(k[1], g)
    BY DEF Processed
  <1>2. /\ k[1] \in Objects /\ k[2] \in Nat
        /\ generation[k[1]] \in Nat /\ generation'[k[1]] \in Nat
        /\ generation[k[1]] <= generation'[k[1]]
    BY TypeNext, GenerationNext DEF TypeOK, Keys
  <1>3. Consumed(k[1], g)'
    BY <1>1, StoreNext DEF Consumed
  <1>4. g \in k[2] .. generation'[k[1]]
    BY <1>1, <1>2
  <1> QED
    BY <1>3, <1>4 DEF Processed

\* An object that was processed counts for every earlier generation.
LEMMA ProcessedEarlier ==
    ASSUME TypeOK, NEW m \in Messages, NEW n \in Messages,
           ObjectOf(m) = ObjectOf(n), GenerationOf(m) <= GenerationOf(n),
           Processed(KeyOf(n))
    PROVE  Processed(KeyOf(m))
  BY GcsAssumption DEF TypeOK, Processed, KeyOf

\* The object of a worker at the end of its reading was processed.
LEMMA WorkerProcessed ==
    ASSUME IInv, NEW w \in Workers, EndOfObject(w) \/ wpc[w] \in {"clean", "mark"}
    PROVE  Processed(KeyOf(wmsg[w]))
  <1> USE DEF IInv, Basic
  <1>1. Consumed(ObjectOf(wmsg[w]), wgen[w])
    BY EndWasConsumed DEF AckedWasConsumed
  <1>2. wmsg[w] \in Messages /\ wpc[w] \in {"read", "clean", "mark"}
    BY DEF InHand, EndOfObject
  <1>3. wgen[w] \in GenerationOf(wmsg[w]) .. generation[ObjectOf(wmsg[w])]
    BY <1>2, GcsAssumption DEF ReadsLive, TypeOK
  <1> QED
    BY <1>1, <1>3 DEF Processed, KeyOf

\* RecentWereProcessed is kept.
LEMMA RecentNext == ASSUME IInv, Next PROVE RecentWereProcessed'
  <1> USE DEF IInv, Basic
  <1> SUFFICES ASSUME NEW k \in recent' PROVE Processed(k)'
    BY DEF RecentWereProcessed
  <1>1. CASE k \in recent
    BY <1>1, ProcessedNext DEF RecentWereProcessed, TypeOK
  <1>2. ASSUME NEW w \in Workers, Mark(w), k = KeyOf(wmsg[w]) PROVE Processed(k)'
    <2>1. wmsg[w] \in Messages /\ wpc[w] = "mark"
      BY <1>2 DEF Mark, InHand
    <2>2. k \in Keys /\ Processed(k)
      BY <1>2, <2>1, WorkerProcessed, GcsAssumption DEF KeyOf, Keys
    <2> QED
      BY <2>2, ProcessedNext
  <1> QED
    BY <1>1, <1>2, StoreNext DEF Mark

\* The invariant holds at the start.
LEMMA InitInv == Init => IInv
  <1> SUFFICES ASSUME Init PROVE IInv
    OBVIOUS
  <1>1. InHand
    BY GcsAssumption DEF Init, InHand, Held
  <1>2. Announced /\ ReadsLive /\ ReadWasDelivered /\ AckedWasConsumed
    BY DEF Init, Announced, ReadsLive, ReadWasDelivered, AckedWasConsumed
  <1>3. OffsetsCoverDelivered /\ RecentWereProcessed
    BY DEF Init, OffsetsCoverDelivered, RecentWereProcessed
  <1> QED
    BY <1>1, <1>2, <1>3, InitType DEF IInv, Basic

\* Stuttering keeps it.
LEMMA StutterInv == ASSUME IInv, UNCHANGED vars PROVE IInv'
  BY DEF vars, cloud, poller, worker, IInv, Basic, TypeOK, InHand, Held, Announced,
         ReadsLive, ReadWasDelivered, AckedWasConsumed, Consumed, OffsetsCoverDelivered,
         RecentWereProcessed, Processed

\* The invariant is inductive.
LEMMA NextInv == IInv /\ [Next]_vars => IInv'
  <1>1. ASSUME IInv, Next PROVE IInv'
    BY <1>1, TypeNext, InHandNext, AnnouncedNext, ReadsLiveNext, ReadWasDeliveredNext,
       AckedWasConsumedNext, OffsetsNext, RecentNext DEF IInv, Basic
  <1> QED
    BY <1>1, StutterInv

\* The variables of the receiver always hold what its operations expect; the
\* channel never holds more than its capacity.
THEOREM TypeCorrect == Spec => []TypeOK
  <1>1. IInv => TypeOK
    BY DEF IInv, Basic
  <1> QED
    BY <1>1, InitInv, NextInv, PTL DEF Spec

\* An offset never covers a batch that was not delivered, whichever workers
\* write, resume from and delete it.
THEOREM OffsetsCoverDeliveredCorrect == Spec => []OffsetsCoverDelivered
  <1>1. IInv => OffsetsCoverDelivered
    BY DEF IInv
  <1> QED
    BY <1>1, InitInv, NextInv, PTL DEF Spec

\* recentTracker holds only objects that were read to their end, in the
\* generation that is its key or a later one.
THEOREM RecentWereProcessedCorrect == Spec => []RecentWereProcessed
  <1>1. IInv => RecentWereProcessed
    BY DEF IInv
  <1> QED
    BY <1>1, InitInv, NextInv, PTL DEF Spec

-----------------------------------------------------------------------------
(* Deduplication.                                                          *)

\* How a step may acknowledge a message: the poller as a duplicate, a worker
\* because it is filtered or processed.
LEMMA AckNext ==
    ASSUME TypeOK, Next, NEW m \in Messages, sub[m] # "acked", sub'[m] = "acked"
    PROVE  \/ \E U \in SUBSET Messages : batchDedup(U)
           \/ Duplicate(m)
           \/ \E w \in Workers : m = wmsg[w] /\ (Filtered(w) \/ Ack(w))
  <1>1. ASSUME NEW n \in Messages, Publish(n) \/ DeadlineEnds(n) PROVE FALSE
    BY <1>1 DEF TypeOK, Publish, DeadlineEnds
  <1>2. ASSUME NEW S \in SUBSET Messages, Pull(S) PROVE FALSE
    BY <1>2 DEF TypeOK, Pull
  <1>3. ASSUME NEW n \in Messages, Duplicate(n) PROVE Duplicate(m)
    BY <1>3 DEF TypeOK, Duplicate, Acked
  <1>4. ASSUME \/ \E n \in Messages : Enqueue(n)
               \/ PullNothing \/ PullReturns \/ PollerStops \/ \E k \in recent : Evict(k)
        PROVE  FALSE
    BY <1>4 DEF Enqueue, PullNothing, PullReturns, PollerStops, Evict, vars, cloud
  <1>5. ASSUME NEW w \in Workers, Filtered(w) \/ Ack(w) PROVE m = wmsg[w]
    BY <1>5 DEF TypeOK, Filtered, Acked, Ack
  <1>6. ASSUME NEW w \in Workers,
               \/ Take(w) \/ WorkerStops(w) \/ Open(w) \/ LoadOffset(w) \/ Flush(w)
               \/ Checkpoint(w) \/ ReadFails(w) \/ AckFails(w) \/ DeleteOffset(w)
               \/ Mark(w)
        PROVE  FALSE
    BY <1>6 DEF TypeOK, Take, WorkerStops, Open, LoadOffset, Flush, Checkpoint, ReadFails,
                HandleProcessingError, AckFails, DeleteOffset, Mark, cloud
  <1>7. ASSUME Shutdown \/ CloseChannel \/ Stopped \/ Crash \/ Start PROVE FALSE
    BY <1>7 DEF Shutdown, CloseChannel, Stopped, Crash, Start, cloud
  <1> QED
    BY <1>1, <1>2, <1>3, <1>4, <1>5, <1>6, <1>7
    DEF Next, Poller, Dispatch, Worker, Reader

\* Whatever is acknowledged outside batchDedup was processed or is no
\* OBJECT_FINALIZE event.
LEMMA AckedWasProcessed ==
    ASSUME IInv, Next, NEW m \in Messages, Finalize(m),
           sub[m] # "acked", sub'[m] = "acked",
           ~\E U \in SUBSET Messages : batchDedup(U)
    PROVE  Processed(KeyOf(m))
  <1> USE DEF IInv, Basic
  <1>1. CASE Duplicate(m)
    BY <1>1 DEF Duplicate, RecentWereProcessed
  <1>2. ASSUME NEW w \in Workers, m = wmsg[w], Ack(w) PROVE Processed(KeyOf(m))
    BY <1>2, WorkerProcessed DEF Ack
  <1>3. ASSUME NEW w \in Workers, m = wmsg[w], Filtered(w) PROVE FALSE
    BY <1>3 DEF Filtered
  <1> QED
    BY <1>1, <1>2, <1>3, AckNext

\* The poller gets messages from Pull only.
LEMMA PulledNext ==
    ASSUME TypeOK, Next, NEW m \in pulled', m \notin pulled
    PROVE  \E S \in SUBSET Messages : Pull(S) /\ m \in S
  <1>1. ASSUME NEW n \in Messages, Publish(n) \/ DeadlineEnds(n) PROVE FALSE
    BY <1>1 DEF Publish, DeadlineEnds, poller
  <1>2. ASSUME NEW S \in SUBSET Messages, Pull(S) PROVE m \in S
    BY <1>2 DEF Pull
  <1>3. ASSUME NEW S \in SUBSET Messages, batchDedup(S) PROVE FALSE
    BY <1>3 DEF batchDedup, OneOfEach
  <1>4. ASSUME \/ \E n \in Messages : Duplicate(n) \/ Enqueue(n)
               \/ PullNothing \/ PullReturns \/ PollerStops \/ \E k \in recent : Evict(k)
        PROVE  FALSE
    BY <1>4 DEF Duplicate, Enqueue, PullNothing, PullReturns, PollerStops, Evict, vars,
                poller
  <1>5. ASSUME NEW w \in Workers, Worker(w) PROVE FALSE
    BY <1>5 DEF Worker, Reader, Take, WorkerStops, Filtered, Open, LoadOffset, Flush,
                Checkpoint, ReadFails, HandleProcessingError, Ack, AckFails,
                DeleteOffset, Mark, poller
  <1>6. ASSUME Shutdown \/ CloseChannel \/ Stopped \/ Crash \/ Start PROVE FALSE
    BY <1>6 DEF Shutdown, CloseChannel, Stopped, Crash, Start, poller
  <1> QED
    BY <1>1, <1>2, <1>3, <1>4, <1>5, <1>6 DEF Next, Poller, Dispatch

\* AckedElsewhere is kept.
LEMMA AckedElsewhereNext == ASSUME IInv, AckedElsewhere, Next PROVE AckedElsewhere'
  <1> USE DEF IInv, Basic
  <1> SUFFICES ASSUME NEW m \in pulled', Finalize(m), sub'[m] = "acked"
               PROVE  Processed(KeyOf(m))'
    BY DEF AckedElsewhere
  <1>0. m \in Messages /\ KeyOf(m) \in Keys
    <2>1. m \in Messages
      BY TypeNext DEF TypeOK
    <2> QED
      BY <2>1, GcsAssumption DEF KeyOf, Keys
  <1>1. SUFFICES Processed(KeyOf(m))
    BY <1>0, ProcessedNext
  <1>2. CASE sub[m] # "acked"
    <2>1. ASSUME NEW U \in SUBSET Messages, batchDedup(U) PROVE FALSE
      BY <1>0, <1>2, <2>1 DEF TypeOK, batchDedup, Acked
    <2> QED
      BY <1>0, <1>2, <2>1, AckedWasProcessed
  <1>3. CASE sub[m] = "acked" /\ m \in pulled
    BY <1>3 DEF AckedElsewhere
  <1>4. CASE sub[m] = "acked" /\ m \notin pulled
    <2>1. \E S \in SUBSET Messages : Pull(S) /\ m \in S
      BY <1>4, PulledNext
    <2> QED
      BY <1>4, <2>1 DEF Pull
  <1> QED
    BY <1>2, <1>3, <1>4

\* Deduplication keeps one message of each key, so that NoLoss is kept.
LEMMA NoLossNext ==
    ASSUME KeysTellEvents, IInv, AckedElsewhere, NoLoss, Next
    PROVE  NoLoss'
  <1> USE DEF IInv, Basic
  <1> DEFINE Later(m, n) == /\ Finalize(n) /\ ObjectOf(n) = ObjectOf(m)
                            /\ GenerationOf(n) >= GenerationOf(m)
             Safe(m) == \/ Processed(KeyOf(m))
                        \/ \E n \in Messages : Later(m, n) /\ sub'[n] # "acked"
  <1>1. ASSUME NEW m \in Messages, Safe(m)
        PROVE  Processed(KeyOf(m))' \/ \E n \in Messages : Later(m, n) /\ sub'[n] # "acked"
    <2>1. KeyOf(m) \in Keys
      BY GcsAssumption DEF KeyOf, Keys
    <2> QED
      BY <1>1, <2>1, ProcessedNext
  <1>2. SUFFICES ASSUME NEW m \in Messages, Finalize(m), sub'[m] = "acked"
                 PROVE  Safe(m)
    BY <1>1 DEF NoLoss
  <1>3. ASSUME NEW n \in Messages, Later(m, n), sub[n] # "acked"
        PROVE  Safe(m)
    <2>1. CASE sub'[n] # "acked"
      BY <1>3, <2>1
    <2>2. ASSUME sub'[n] = "acked", NEW U \in SUBSET Messages, batchDedup(U)
          PROVE  Safe(m)
      <3>1. n \in pulled
        BY <1>3, <2>2 DEF TypeOK, batchDedup, Acked
      <3>2. PICK u \in U : KeyOf(u) = KeyOf(n)
        BY <2>2, <3>1 DEF batchDedup, OneOfEach
      <3>3. u \in Messages /\ u \in pulled /\ sub'[u] = sub[u]
        BY <2>2, <3>2 DEF TypeOK, batchDedup, OneOfEach, Acked
      <3>4. Later(m, u)
        <4>1. Finalize(u)
          BY <1>3, <3>2, <3>3, GcsAssumption DEF KeysTellEvents
        <4>2. ObjectOf(u) = ObjectOf(n) /\ GenerationOf(u) = GenerationOf(n)
          BY <3>2 DEF KeyOf
        <4> QED
          BY <1>3, <4>1, <4>2
      <3>5. CASE sub[u] = "acked"
        <4>1. Processed(KeyOf(u))
          BY <3>3, <3>4, <3>5 DEF AckedElsewhere
        <4>2. GenerationOf(m) <= GenerationOf(u)
          BY <3>3, <3>4, GcsAssumption
        <4> QED
          BY <3>3, <3>4, <4>1, <4>2, ProcessedEarlier
      <3>6. CASE sub[u] # "acked"
        BY <3>3, <3>4, <3>6
      <3> QED
        BY <3>5, <3>6
    <2>3. CASE sub'[n] = "acked" /\ ~\E U \in SUBSET Messages : batchDedup(U)
      <3>1. Processed(KeyOf(n))
        BY <1>3, <2>3, AckedWasProcessed
      <3>2. GenerationOf(m) <= GenerationOf(n)
        BY <1>3, GcsAssumption
      <3> QED
        BY <1>3, <3>1, <3>2, ProcessedEarlier
    <2> QED
      BY <2>1, <2>2, <2>3
  <1>4. CASE sub[m] = "acked"
    BY <1>2, <1>3, <1>4 DEF NoLoss
  <1>5. CASE sub[m] # "acked"
    <2>1. Later(m, m)
      BY <1>2, GcsAssumption
    <2> QED
      BY <1>3, <1>5, <2>1
  <1> QED
    BY <1>4, <1>5

Dedup == IInv /\ AckedElsewhere /\ NoLoss

\* With such keys, every reachable state satisfies the invariant of
\* deduplication.
LEMMA DedupInvariant ==
    ASSUME KeysTellEvents
    PROVE  Spec => []Dedup
  <1>1. Init => Dedup
    BY InitInv DEF Init, AckedElsewhere, NoLoss, Dedup
  <1>2. Dedup /\ [Next]_vars => Dedup'
    <2>1. ASSUME Dedup, Next PROVE Dedup'
      BY <2>1, NextInv, AckedElsewhereNext, NoLossNext DEF Dedup
    <2>2. ASSUME Dedup, UNCHANGED vars PROVE Dedup'
      BY <2>2, StutterInv
      DEF vars, cloud, poller, worker, AckedElsewhere, NoLoss, Processed, Consumed, Dedup
    <2> QED
      BY <2>1, <2>2
  <1> QED
    BY <1>1, <1>2, PTL DEF Spec

\* When the key tells OBJECT_FINALIZE events from others, every generation
\* that was announced is processed or still to be: batchDedup, recentTracker,
\* failures, shutdowns and crashes lose none.
THEOREM NoLossCorrect ==
    ASSUME KeysTellEvents
    PROVE  Spec => []NoLoss
  <1>1. Dedup => NoLoss
    BY DEF Dedup
  <1> QED
    BY <1>1, DedupInvariant, PTL

-----------------------------------------------------------------------------
(* Refinement.                                                             *)

\* A message is sent once and acknowledged for good.
LEMMA SubNext ==
    ASSUME TypeOK, Next, NEW m \in Messages
    PROVE  /\ sub[m] = "acked" => sub'[m] = "acked"
           /\ sub[m] # "unsent" => sub'[m] # "unsent"
  <1>1. ASSUME NEW n \in Messages, Publish(n) \/ DeadlineEnds(n)
        PROVE  /\ sub[m] = "acked" => sub'[m] = "acked"
               /\ sub[m] # "unsent" => sub'[m] # "unsent"
    BY <1>1 DEF TypeOK, Publish, DeadlineEnds
  <1>2. CASE Poller \/ \E k \in recent : Evict(k)
    BY <1>2 DEF TypeOK, Poller, Pull, batchDedup, PullNothing, Dispatch,
                Duplicate, Enqueue, PullReturns, PollerStops, Evict, Acked,
                vars, cloud
  <1>3. ASSUME NEW w \in Workers, Worker(w)
        PROVE  /\ sub[m] = "acked" => sub'[m] = "acked"
               /\ sub[m] # "unsent" => sub'[m] # "unsent"
    BY <1>3 DEF TypeOK, Worker, Reader, Take, WorkerStops, Filtered, Open,
                LoadOffset, Flush, Checkpoint, ReadFails, HandleProcessingError, Ack,
                AckFails, DeleteOffset, Mark, Acked, cloud
  <1>4. CASE Shutdown \/ CloseChannel \/ Stopped \/ Crash \/ Start
    BY <1>4 DEF Shutdown, CloseChannel, Stopped, Crash, Start, cloud
  <1> QED
    BY <1>1, <1>2, <1>3, <1>4 DEF Next

\* A step that acknowledges delivers nothing and changes no object.
LEMMA AckStep ==
    ASSUME TypeOK, Next, NEW m \in Messages, sub[m] # "acked", sub'[m] = "acked"
    PROVE  UNCHANGED <<generation, delivered>>
  BY AckNext DEF batchDedup, Duplicate, Filtered, Ack

\* Every step is a step of EventDelivery, or none for it.
LEMMA DeliveryStep ==
    ASSUME Dedup, Dedup', [Next]_vars
    PROVE  [Delivery!Next]_(Delivery!vars)
  <1> DEFINE Sent == {m \in Finalized : sub[m] # "unsent"}
             Taken == {m \in Finalized : sub[m] # "unsent" /\ Processed(KeyOf(m))}
             Gone == {m \in Finalized : sub[m] = "acked"}
  <1> USE DEF Dedup, IInv, Basic
  <1>1. CASE UNCHANGED vars
    BY <1>1 DEF vars, cloud, Delivery!vars, Processed, Consumed
  <1>2. CASE Next
    <2>1. Sent \subseteq Sent' /\ Gone \subseteq Gone'
      BY <1>2, SubNext DEF Finalized
    <2>2. Taken \subseteq Taken' /\ Taken' \subseteq Sent'
      <3>1. ASSUME NEW m \in Taken PROVE Processed(KeyOf(m))'
        <4>1. m \in Messages /\ KeyOf(m) \in Keys /\ Processed(KeyOf(m))
          BY GcsAssumption DEF Finalized, KeyOf, Keys
        <4> QED
          BY <1>2, <4>1, ProcessedNext
      <3> QED
        BY <2>1, <3>1
    <2>3. \A f \in Taken', e \in Sent' : Supersedes(f, e) => e \in Taken'
      <3>1. ASSUME NEW f \in Taken', NEW e \in Sent', Supersedes(f, e)
            PROVE  Processed(KeyOf(e))'
        <4>1. /\ f \in Messages /\ e \in Messages /\ ObjectOf(e) = ObjectOf(f)
              /\ GenerationOf(e) <= GenerationOf(f)
          BY <3>1, GcsAssumption DEF Finalized, Supersedes
        <4>2. Processed(KeyOf(f))'
          BY <3>1
        <4>3. PICK g \in GenerationOf(f) .. generation'[ObjectOf(f)] :
                Consumed(ObjectOf(f), g)'
          BY <4>2 DEF Processed, KeyOf
        <4>4. /\ GenerationOf(f) \in Nat /\ GenerationOf(e) \in Nat
              /\ generation'[ObjectOf(f)] \in Nat
          BY <4>1, GcsAssumption DEF TypeOK
        <4>5. g \in GenerationOf(e) .. generation'[ObjectOf(e)]
          BY <4>1, <4>3, <4>4
        <4> QED
          BY <4>1, <4>3, <4>5 DEF Processed, KeyOf
      <3> QED
        BY <3>1
    <2>4. CASE Sent' # Sent
      <3>1. PICK m \in Finalized : sub[m] = "unsent" /\ sub'[m] # "unsent"
        BY <2>1, <2>4
      <3>2. Publish(m)
        BY <1>2, <3>1, SendNext DEF Finalized
      <3>3. \A n \in Messages : n # m => sub'[n] = sub[n]
        BY <3>2 DEF Publish, TypeOK
      <3>4. sub'[m] = "ready"
        BY <3>1, <3>2 DEF Publish, TypeOK, Finalized
      <3>5. Sent' = Sent \cup {m} /\ Gone' = Gone
        BY <3>1, <3>3, <3>4 DEF Finalized
      <3>6. Delivery!Announce(m)
        BY <2>2, <2>3, <2>4, <3>5 DEF Delivery!Announce, Delivery!Grows
      <3> QED
        BY <3>1, <3>6 DEF Delivery!Next
    <2>5. CASE Sent' = Sent /\ Gone' # Gone
      <3>1. PICK m \in Messages : sub[m] # "acked" /\ sub'[m] = "acked"
        BY <2>1, <2>5 DEF Finalized
      <3>2. UNCHANGED <<generation, delivered>>
        BY <1>2, <3>1, AckStep
      <3>3. Taken' = Taken
        BY <2>5, <3>2 DEF Processed, Consumed
      <3>4. ASSUME NEW e \in Gone'
            PROVE  e \in Taken' \/ \E n \in Finalized \ Gone' : Supersedes(n, e)
        BY <3>4 DEF NoLoss, Finalized, Supersedes
      <3>5. Delivery!Ack
        BY <2>1, <2>5, <3>3, <3>4 DEF Delivery!Ack, Delivery!Settled
      <3> QED
        BY <3>5 DEF Delivery!Next
    <2>6. CASE Sent' = Sent /\ Gone' = Gone /\ Taken' # Taken
      BY <2>2, <2>3, <2>6 DEF Delivery!Next, Delivery!Consume, Delivery!Grows
    <2>7. CASE Sent' = Sent /\ Gone' = Gone /\ Taken' = Taken
      BY <2>7 DEF Delivery!vars
    <2> QED
      BY <2>4, <2>5, <2>6, <2>7
  <1> QED
    BY <1>1, <1>2

\* When the key tells OBJECT_FINALIZE events from others, the receiver
\* implements EventDelivery for every number of messages, objects, workers and
\* batches and under every fault.
THEOREM ImplementsDeliveryCorrect ==
    ASSUME KeysTellEvents
    PROVE  Spec => ImplementsDelivery
  <1>1. Init => Delivery!Init
    BY DEF Init, Delivery!Init, Finalized
  <1>2. Dedup /\ Dedup' /\ [Next]_vars => [Delivery!Next]_(Delivery!vars)
    BY DeliveryStep
  <1> QED
    BY <1>1, <1>2, DedupInvariant, PTL DEF Spec, ImplementsDelivery, Delivery!Spec

\* What EventDelivery itself promises, whoever implements it: acknowledging one
\* event after the other, each because of a later one, loses none, for "serves"
\* is transitive and the chain ends in an event that is still to come or was
\* consumed.
THEOREM DeliveryLosesNothing == Delivery!Spec => []Delivery!NothingLost
  <1> DEFINE Sent == {m \in Finalized : sub[m] # "unsent"}
             Taken == {m \in Finalized : sub[m] # "unsent" /\ Processed(KeyOf(m))}
             Gone == {m \in Finalized : sub[m] = "acked"}
             Done == \A f \in Taken, e \in Sent : Supersedes(f, e) => e \in Taken
             J == Gone \subseteq Sent /\ Done /\ Delivery!NothingLost
  <1>1. Delivery!Init => J
    BY DEF Delivery!Init, Delivery!NothingLost
  <1>2. ASSUME J, [Delivery!Next]_(Delivery!vars) PROVE J'
    <2> USE DEF Delivery!Settled, Delivery!NothingLost
    <2>1. \A e, f, g \in Finalized : Supersedes(g, f) /\ Supersedes(f, e) => Supersedes(g, e)
      BY GcsAssumption DEF Supersedes, Finalized
    <2>2. \A e \in Gone : e \in Taken \/ \E f \in Finalized \ Gone : Supersedes(f, e)
      BY <1>2
    <2>3. /\ Gone \subseteq Sent /\ Gone \subseteq Finalized
          /\ \A f \in Taken, e \in Sent : Supersedes(f, e) => e \in Taken
      BY <1>2
    <2>4. CASE UNCHANGED Delivery!vars
      BY <2>2, <2>3, <2>4 DEF Delivery!vars
    <2>5. CASE (\E e \in Finalized : Delivery!Announce(e)) \/ Delivery!Consume
      <3>1. /\ Gone' = Gone /\ Sent \subseteq Sent' /\ Taken \subseteq Taken'
            /\ \A f \in Taken', e \in Sent' : Supersedes(f, e) => e \in Taken'
        BY <2>5 DEF Delivery!Announce, Delivery!Consume, Delivery!Grows
      <3> QED
        BY <2>2, <2>3, <3>1
    <2>6. CASE Delivery!Ack
      <3>1. /\ Gone \subseteq Gone' /\ Gone' \subseteq Sent /\ Sent' = Sent /\ Taken' = Taken
            /\ \A e \in Gone' \ Gone :
                e \in Taken \/ \E f \in Finalized \ Gone' : Supersedes(f, e)
        BY <2>6 DEF Delivery!Ack
      <3>2. ASSUME NEW e \in Gone'
            PROVE  e \in Taken \/ \E f \in Finalized \ Gone' : Supersedes(f, e)
        <4>1. CASE e \in Gone /\ e \notin Taken
          <5>1. PICK f \in Finalized \ Gone : Supersedes(f, e)
            BY <2>2, <4>1
          <5>2. CASE f \in Gone'
            <6>1. f \in Taken \/ \E g \in Finalized \ Gone' : Supersedes(g, f)
              BY <3>1, <5>1, <5>2
            <6> QED
              BY <2>1, <2>3, <4>1, <5>1, <6>1
          <5> QED
            BY <5>1, <5>2
        <4> QED
          BY <3>1, <4>1
      <3> QED
        BY <2>3, <3>1, <3>2
    <2> QED
      BY <1>2, <2>4, <2>5, <2>6 DEF Delivery!Next
  <1>3. J => Delivery!NothingLost
    OBVIOUS
  <1> QED
    BY <1>1, <1>2, <1>3, PTL DEF Delivery!Spec
=============================================================================
