---------------------------- MODULE Rehydration ----------------------------
(* The rehydration receivers (Google Cloud Storage, Azure Blob, S3): the   *)
(* objects of a bucket are listed once, in batches; each object of a batch *)
(* is rehydrated by a goroutine of its own; when all of a batch are done,  *)
(* the checkpoint is saved: the latest time seen and the objects of that   *)
(* time that were parsed.  After a restart the listing starts again and    *)
(* the checkpoint says what to skip.                                       *)
(*                                                                         *)
(* Object i is the i-th of the listing.  A scenario says which receiver it *)
(* is, the times in the objects' paths and what happens besides: an object *)
(* cannot be consumed ("fail"), the receiver is shut down ("shutdown"),    *)
(* the process dies ("crash"), the checkpoint cannot be saved ("save") or  *)
(* loaded ("load").                                                        *)
EXTENDS Integers, FiniteSets

CONSTANTS
    N,                  \* objects in the listing
    Wanted(_),          \* valid path, time range and telemetry type
    BatchSize,
    DeleteOnRead,
    Scenarios,          \* [receiver, time, faults]
    MaxRuns             \* bound on the runs of the receiver

ASSUME RehydrationAssumption ==
    /\ N \in Nat /\ BatchSize \in Nat \ {0} /\ MaxRuns \in Nat
    /\ \A i \in 1 .. N : Wanted(i) \in BOOLEAN
    /\ Scenarios \subseteq [receiver : {"gcs", "azure", "s3"}, time : [1 .. N -> Nat \ {0}],
                            faults : SUBSET {"fail", "shutdown", "crash", "save", "load"}]
    /\ DeleteOnRead \in BOOLEAN

VARIABLES
    consumed, deleted,  \* objects the next consumer has taken, deleted ones
    store,              \* the saved checkpoint
    checkpoint,         \* ... and the one in memory
    last,               \* lastObject, lastObjectTime; 0 is nil
    rcv,                \* the goroutine that receives the batches
    next, upto,         \* objects gone through, end of the batch
    job,                \* the goroutine of each object
    phase, runs,
    scenario

external == <<consumed, deleted, store>>
receiver == <<checkpoint, last, rcv, next, upto, job>>
vars == <<external, receiver, phase, runs, scenario>>

Objects == 1 .. N
Receiver == scenario.receiver
Faults == scenario.faults
TimeOf(i) == scenario.time[i]

NewCheckpoint == [ts |-> 0, parsed |-> {}]

TypeOK ==
    /\ consumed \subseteq Objects /\ deleted \subseteq Objects
    /\ store \in [ts : Nat, parsed : SUBSET Objects]
    /\ checkpoint \in [ts : Nat, parsed : SUBSET Objects]
    /\ last \in Objects \cup {0}
    /\ rcv \in {"loop", "dispatch", "wait", "save", "ended"}
    /\ next \in 0 .. N /\ upto \in 0 .. N
    /\ job \in [Objects -> {"none", "start", "run", "delete", "check", "set"}]
    /\ phase \in {"running", "cancelled", "saving", "stopped"}
    /\ runs \in Nat /\ scenario \in Scenarios

Init ==
    /\ consumed = {} /\ deleted = {}
    /\ store = NewCheckpoint /\ checkpoint = NewCheckpoint
    /\ last = 0 /\ rcv = "loop" /\ next = 0 /\ upto = 0
    /\ job = [i \in Objects |-> "none"]
    /\ phase = "running" /\ runs = 1 /\ scenario \in Scenarios

Cancelled == phase # "running"

\* objects of the last time are taken for parsed
BadShouldParse(c, i) == c.ts < TimeOf(i) /\ i \notin c.parsed

ShouldParse(c, i) == ~(TimeOf(i) < c.ts) /\ i \notin c.parsed

UpdateCheckpoint(c, i) ==
    IF TimeOf(i) > c.ts THEN [ts |-> TimeOf(i), parsed |-> {i}]
                        ELSE [c EXCEPT !.parsed = @ \cup {i}]

-----------------------------------------------------------------------------
(* The stream of batches.                                                  *)

\* StreamObjects sends the next batch; for Azure and S3 a batch ends early
\* with its page.
TakeBatch(n) ==
    /\ rcv = "loop" /\ next < N
    /\ n \in 1 .. BatchSize /\ next + n <= N
    /\ Receiver = "gcs" => n = BatchSize \/ next + n = N
    /\ upto' = next + n
    /\ rcv' = "dispatch"
    /\ UNCHANGED <<external, checkpoint, last, next, job, phase, runs, scenario>>

\* the objects after the last whole batch are not sent
BadStreamEnds ==
    /\ rcv = "loop" /\ (N - next < BatchSize \/ Cancelled \/ "fail" \in Faults)
    /\ rcv' = "ended"
    /\ UNCHANGED <<external, checkpoint, last, next, upto, job, phase, runs, scenario>>

\* doneChan, errChan or ctx.Done()
StreamEnds ==
    /\ rcv = "loop" /\ (next = N \/ Cancelled \/ "fail" \in Faults)
    /\ rcv' = "ended"
    /\ UNCHANGED <<external, checkpoint, last, next, upto, job, phase, runs, scenario>>

\* rehydrateObjects: a goroutine for each object to parse.  A deleted object
\* is not listed.
Dispatch ==
    /\ rcv = "dispatch" /\ next < upto /\ ~Cancelled
    /\ next' = next + 1
    /\ job' = IF /\ ShouldParse(checkpoint, next + 1) /\ Wanted(next + 1)
                 /\ next + 1 \notin deleted
              THEN [job EXCEPT ![next + 1] = "start"] ELSE job
    /\ UNCHANGED <<external, checkpoint, last, rcv, upto, phase, runs, scenario>>

\* ... or ctx.Done()
Dispatched ==
    /\ rcv = "dispatch" /\ (next = upto \/ Cancelled)
    /\ rcv' = "wait"
    /\ UNCHANGED <<external, checkpoint, last, next, upto, job, phase, runs, scenario>>

Idle == \A i \in Objects : job[i] = "none"

\* r.wg.Wait()
Wait ==
    /\ rcv = "wait" /\ Idle
    /\ rcv' = "save"
    /\ UNCHANGED <<external, checkpoint, last, next, upto, job, phase, runs, scenario>>

\* SaveStorageData may fail
Save(c) ==
    \/ store' = c
    \/ ("save" \in Faults \/ Cancelled) /\ UNCHANGED store

makeCheckpoint ==
    IF last = 0
    THEN UNCHANGED <<checkpoint, store>>
    ELSE /\ checkpoint' = UpdateCheckpoint(checkpoint, last)
         /\ Save(checkpoint')

BatchSaved ==
    /\ rcv = "save"
    /\ makeCheckpoint
    /\ rcv' = "loop"
    /\ UNCHANGED <<consumed, deleted, last, next, upto, job, phase, runs, scenario>>

-----------------------------------------------------------------------------
(* The goroutine of object i.                                              *)

Goto(i, pc) == job' = [job EXCEPT ![i] = pc]

\* a cancelled context ends it; the S3 receiver only logs that
JobStart(i) ==
    /\ job[i] = "start"
    /\ Goto(i, IF Cancelled /\ Receiver # "s3" THEN "none" ELSE "run")
    /\ UNCHANGED <<external, checkpoint, last, rcv, next, upto, phase, runs, scenario>>

\* processObject: downloaded, decompressed and consumed
ProcessObject(i) ==
    /\ job[i] = "run"
    /\ consumed' = consumed \cup {i}
    /\ Goto(i, IF Receiver = "s3" THEN "check" ELSE "delete")
    /\ UNCHANGED <<deleted, store, checkpoint, last, rcv, next, upto, phase, runs, scenario>>

\* an object that fails is deleted as well
DeletingProcessFails(i) ==
    /\ job[i] = "run" /\ ("fail" \in Faults \/ Cancelled)
    /\ Goto(i, "delete")
    /\ UNCHANGED <<external, checkpoint, last, rcv, next, upto, phase, runs, scenario>>

\* an object that fails is tried again, without end
BadProcessFails(i) ==
    /\ job[i] = "run" /\ ("fail" \in Faults \/ Cancelled)
    /\ Goto(i, "start")
    /\ UNCHANGED <<external, checkpoint, last, rcv, next, upto, phase, runs, scenario>>

ProcessFails(i) ==
    /\ job[i] = "run" /\ ("fail" \in Faults \/ Cancelled)
    /\ Goto(i, "none")
    /\ UNCHANGED <<external, checkpoint, last, rcv, next, upto, phase, runs, scenario>>

\* conditionallyDeleteObject; an error is only logged.  For S3 it is the last
\* step, otherwise the checkpoint data follow.
DeleteObject(i) ==
    /\ job[i] = "delete"
    /\ \/ DeleteOnRead /\ deleted' = deleted \cup {i}
       \/ UNCHANGED deleted
    /\ Goto(i, IF Receiver = "s3" THEN "none" ELSE "check")
    /\ UNCHANGED <<consumed, store, checkpoint, last, rcv, next, upto, phase, runs, scenario>>

Later(i) == last = 0 \/ TimeOf(last) < TimeOf(i)

\* Google Cloud Storage and Azure: lastObjectTime is read without the mutex
CheckLast(i) ==
    /\ job[i] = "check" /\ Receiver # "s3"
    /\ Goto(i, IF Later(i) THEN "set" ELSE "none")
    /\ UNCHANGED <<external, checkpoint, last, rcv, next, upto, phase, runs, scenario>>

\* ... and set with it.
SetLast(i) ==
    /\ job[i] = "set"
    /\ last' = i
    /\ Goto(i, "none")
    /\ UNCHANGED <<external, checkpoint, rcv, next, upto, phase, runs, scenario>>

\* S3: saveCheckpointData holds the mutex all along
SaveCheckpointData(i) ==
    /\ job[i] = "check" /\ Receiver = "s3"
    /\ last' = IF Later(i) THEN i ELSE last
    /\ Goto(i, "delete")
    /\ UNCHANGED <<external, checkpoint, rcv, next, upto, phase, runs, scenario>>

-----------------------------------------------------------------------------
(* The receiver's life.                                                    *)

\* Shutdown cancels the context ...
Shutdown ==
    /\ "shutdown" \in Faults /\ phase = "running" /\ runs < MaxRuns
    /\ phase' = "cancelled"
    /\ UNCHANGED <<external, receiver, runs, scenario>>

\* ... waits for the objects being rehydrated, or until its timeout ...
ShutdownWait ==
    /\ phase = "cancelled"
    /\ phase' \in (IF Idle THEN {"saving"} ELSE {"stopped"})
    /\ UNCHANGED <<external, receiver, runs, scenario>>

\* ... and makes a checkpoint.
ShutdownSave ==
    /\ phase = "saving"
    /\ makeCheckpoint
    /\ phase' = "stopped"
    /\ UNCHANGED <<consumed, deleted, last, rcv, next, upto, job, runs, scenario>>

Crash ==
    /\ "crash" \in Faults /\ phase # "stopped" /\ runs < MaxRuns
    /\ phase' = "stopped"
    /\ UNCHANGED <<external, receiver, runs, scenario>>

\* A new instance loads the checkpoint and lists from the start.
Start ==
    /\ phase = "stopped"
    /\ phase' = "running" /\ runs' = runs + 1
    /\ \/ checkpoint' = store
       \/ "load" \in Faults /\ checkpoint' = NewCheckpoint
    /\ last' = 0 /\ rcv' = "loop" /\ next' = 0 /\ upto' = 0
    /\ job' = [i \in Objects |-> "none"]
    /\ UNCHANGED <<external, scenario>>

\* everything was listed
Finished ==
    /\ rcv = "ended" /\ phase = "running"
    /\ UNCHANGED vars

Alive == phase # "stopped"

Job(i) ==
    \/ JobStart(i) \/ ProcessObject(i) \/ ProcessFails(i) \/ DeleteObject(i)
    \/ CheckLast(i) \/ SetLast(i) \/ SaveCheckpointData(i)

Stream ==
    \/ (\E n \in 1 .. BatchSize : TakeBatch(n)) \/ StreamEnds \/ Dispatch
    \/ Dispatched \/ Wait \/ BatchSaved

Next ==
    \/ Alive /\ (Stream \/ \E i \in Objects : Job(i))
    \/ Shutdown \/ ShutdownWait \/ ShutdownSave \/ Crash \/ Start \/ Finished

Spec == Init /\ [][Next]_vars

\* Goroutines run, calls return, and the collector starts the receiver again.
Fairness ==
    /\ WF_vars(Alive /\ Stream)
    /\ \A i \in Objects : WF_vars(Alive /\ Job(i))
    /\ WF_vars(ShutdownWait \/ ShutdownSave) /\ WF_vars(Start)

FairSpec == Spec /\ Fairness

-----------------------------------------------------------------------------
(* Properties.                                                             *)

\* What the checkpoint skips, and what was deleted, was consumed.  A graceful
\* shutdown in the middle of a batch breaks it (Shutdown, makeCheckpoint).
NothingLost ==
    \A i \in Objects :
        Wanted(i) /\ (i \in deleted \/ ~ShouldParse(store, i)
                                    \/ ~ShouldParse(checkpoint, i)) => i \in consumed

Sorted == \A i, j \in Objects : i < j => TimeOf(i) <= TimeOf(j)

\* The listing is in the order of time, and nothing but crashes and failures
\* of the checkpoint storage happens.
Undisturbed == Sorted /\ "fail" \notin Faults /\ "shutdown" \notin Faults

\* A crash at any point, a lost checkpoint and the unlocked read of
\* lastObjectTime may repeat objects, but lose none.
NothingLostInCrash == Undisturbed => NothingLost

\* delete_on_read never deletes an object that was not consumed, whatever fails.
DeletedWereConsumed == deleted \subseteq consumed

\* The rehydration comes to its end, whatever fails: no batch waits for a
\* goroutine that is gone.
EventuallyEnds == <>(rcv = "ended" /\ phase = "running")

\* Everything in the time range is rehydrated, also when the process dies in
\* between.
EventuallyRehydrated ==
    Undisturbed => <>(\A i \in Objects : Wanted(i) => i \in consumed)

=============================================================================
