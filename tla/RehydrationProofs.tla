------------------------- MODULE RehydrationProofs -------------------------
(* When the listing is sorted by time, every object can be consumed and    *)
(* the receiver is not shut down in the middle of a batch, a rehydration   *)
(* loses nothing: for every listing, batch size, number of crashes and     *)
(* failure of the checkpoint storage.  And whatever happens, an object is  *)
(* deleted only after it was consumed.                                     *)
EXTENDS Rehydration, TLAPS

\* What checkpoint c skips was consumed.
Good(c) == \A i \in Objects : Wanted(i) /\ ~ShouldParse(c, i) => i \in consumed

\* Objects gone through are consumed, or their goroutine is at it.
Handled ==
    \A i \in Objects : i <= next /\ Wanted(i) =>
        i \in consumed \/ job[i] \in {"start", "run"}

Jobs ==
    \A i \in Objects :
        /\ job[i] # "none" => i <= next
        /\ job[i] \in {"delete", "check", "set"} => i \in consumed

IInv ==
    /\ TypeOK
    /\ phase \in {"running", "stopped"}
    /\ Handled /\ Jobs
    /\ last <= next /\ (last # 0 => last \in consumed)
    /\ rcv \in {"save", "loop", "ended"} => Idle
    /\ Good(checkpoint) /\ Good(store)
    /\ deleted \subseteq consumed

\* The times of a scenario are positive, and the scenario stays.
LEMMA Times == ASSUME TypeOK, NEW i \in Objects PROVE TimeOf(i) \in Nat /\ TimeOf(i) > 0
  BY RehydrationAssumption DEF TypeOK, TimeOf, Objects

LEMMA SameScenario == [Next]_vars => scenario' = scenario
  BY DEF Next, vars, Stream, Job, TakeBatch, StreamEnds, Dispatch, Dispatched, Wait,
     BatchSaved, JobStart, ProcessObject, ProcessFails, DeleteObject, CheckLast, SetLast,
     SaveCheckpointData, Shutdown, ShutdownWait, ShutdownSave, Crash, Start, Finished

\* A checkpoint made when all of a batch is done covers only consumed objects.
LEMMA UpdateGood ==
    ASSUME Undisturbed, IInv, Idle, last # 0
    PROVE  /\ Good(UpdateCheckpoint(checkpoint, last))
           /\ UpdateCheckpoint(checkpoint, last) \in [ts : Nat, parsed : SUBSET Objects]
  <1> DEFINE c == UpdateCheckpoint(checkpoint, last)
  <1>0. /\ last \in Objects /\ last \in consumed /\ TimeOf(last) \in Nat
        /\ checkpoint.ts \in Nat /\ checkpoint.parsed \subseteq Objects
        /\ checkpoint \in [ts : Nat, parsed : SUBSET Objects]
        /\ next \in Nat /\ last <= next
    <2>1. TypeOK /\ last <= next /\ last \in consumed
      BY DEF IInv
    <2>2. last \in Objects /\ next \in Nat
      BY <2>1, RehydrationAssumption DEF TypeOK, Objects
    <2>3. TimeOf(last) \in Nat
      BY <2>1, <2>2, Times
    <2>4. checkpoint \in [ts : Nat, parsed : SUBSET Objects]
      BY <2>1 DEF TypeOK
    <2> QED
      BY <2>1, <2>2, <2>3, <2>4
  <1>1. CASE TimeOf(last) > checkpoint.ts
    <2>1. c = [ts |-> TimeOf(last), parsed |-> {last}]
      BY <1>1 DEF UpdateCheckpoint
    <2>2. ASSUME NEW i \in Objects, Wanted(i), ~ShouldParse(c, i)
          PROVE  i \in consumed
      <3>1. TimeOf(i) < TimeOf(last) \/ i = last
        BY <2>1, <2>2 DEF ShouldParse
      <3>2. CASE TimeOf(i) < TimeOf(last)
        <4>1. TimeOf(i) \in Nat /\ i \in Int /\ last \in Int
          BY <1>0, RehydrationAssumption, Times DEF IInv, Objects
        <4>2. ~(last < i) /\ i # last
          BY <1>0, <3>2, <4>1 DEF Undisturbed, Sorted
        <4>3. i <= next
          BY <1>0, <4>1, <4>2
        <4> QED
          BY <2>2, <4>3 DEF IInv, Handled, Idle
      <3> QED
        BY <1>0, <3>1, <3>2
    <2> QED
      BY <1>0, <2>1, <2>2 DEF Good
  <1>2. CASE ~(TimeOf(last) > checkpoint.ts)
    <2>1. /\ c = [checkpoint EXCEPT !.parsed = @ \cup {last}]
          /\ c.ts = checkpoint.ts /\ c.parsed = checkpoint.parsed \cup {last}
      BY <1>0, <1>2 DEF UpdateCheckpoint
    <2>2. ASSUME NEW i \in Objects, Wanted(i), ~ShouldParse(c, i)
          PROVE  i \in consumed
      <3>1. ~ShouldParse(checkpoint, i) \/ i = last
        BY <2>1, <2>2 DEF ShouldParse
      <3> QED
        BY <1>0, <2>2, <3>1 DEF IInv, Good
    <2> QED
      BY <1>0, <2>1, <2>2 DEF Good
  <1> QED
    BY <1>1, <1>2

\* Nothing is skipped at the start.
LEMMA NewGood == TypeOK => Good(NewCheckpoint)
  BY Times DEF Good, NewCheckpoint, ShouldParse

\* The start of the receiver.
LEMMA InitIInv == Init => IInv
  <1> SUFFICES ASSUME Init PROVE IInv
    OBVIOUS
  <1>1. TypeOK
    BY RehydrationAssumption DEF Init, TypeOK, NewCheckpoint
  <1>2. Good(checkpoint) /\ Good(store)
    BY <1>1, NewGood DEF Init
  <1>3. Handled /\ Jobs /\ Idle
    BY DEF Init, Handled, Jobs, Idle, Objects
  <1> QED
    BY <1>1, <1>2, <1>3 DEF Init, IInv

\* The stream of batches keeps the invariant.
LEMMA StreamStep ==
    ASSUME Undisturbed, IInv, phase = "running", Stream
    PROVE  IInv'
  <1> USE DEF IInv, TypeOK, external
  <1>n. N \in Nat /\ BatchSize \in Nat
    BY RehydrationAssumption
  <1>1. ASSUME NEW n \in 1 .. BatchSize, TakeBatch(n) PROVE IInv'
    BY <1>1, <1>n DEF TakeBatch, Handled, Jobs, Good, ShouldParse, TimeOf
  <1>2. CASE StreamEnds
    BY <1>2 DEF StreamEnds, Handled, Jobs, Good, ShouldParse, TimeOf, Idle
  <1>3. CASE Dispatch
    <2>0. next + 1 \in Objects /\ next' = next + 1 /\ next' \in 0 .. N
      BY <1>3, <1>n DEF Dispatch, Objects
    <2>1. job' \in [Objects -> {"none", "start", "run", "delete", "check", "set"}]
      BY <1>3, <2>0 DEF Dispatch
    <2>2. \A i \in Objects : i # next + 1 => job'[i] = job[i]
      BY <1>3, <2>0 DEF Dispatch
    <2>3. ~Wanted(next + 1) \/ job'[next + 1] = "start" \/ next + 1 \in consumed
      BY <1>3, <2>0 DEF Dispatch, Good, ShouldParse, TimeOf
    <2>4. job'[next + 1] = "start" \/ job'[next + 1] = job[next + 1]
      BY <1>3, <2>0 DEF Dispatch
    <2>5. Handled'
      BY <1>3, <2>0, <2>2, <2>3, <1>n DEF Dispatch, Handled, Objects
    <2>6. Jobs'
      BY <1>3, <2>0, <2>2, <2>4, <1>n DEF Dispatch, Jobs, Objects
    <2>7. last' <= next' /\ (last' # 0 => last' \in consumed')
      BY <1>3, <2>0, <1>n DEF Dispatch, Objects
    <2> QED
      BY <1>3, <2>0, <2>1, <2>5, <2>6, <2>7 DEF Dispatch, Good, ShouldParse, TimeOf
  <1>4. CASE Dispatched
    BY <1>4 DEF Dispatched, Handled, Jobs, Good, ShouldParse, TimeOf
  <1>5. CASE Wait
    BY <1>5 DEF Wait, Handled, Jobs, Good, ShouldParse, TimeOf, Idle
  <1>6. CASE BatchSaved
    <2>1. /\ checkpoint' \in [ts : Nat, parsed : SUBSET Objects] /\ Good(checkpoint')
          /\ store' \in [ts : Nat, parsed : SUBSET Objects] /\ Good(store')
      <3>1. CASE last = 0
        BY <1>6, <3>1 DEF BatchSaved, makeCheckpoint
      <3>2. CASE last # 0
        <4>1. checkpoint' = UpdateCheckpoint(checkpoint, last) /\ store' \in {checkpoint', store}
          BY <1>6, <3>2 DEF BatchSaved, makeCheckpoint, Save
        <4> QED
          BY <1>6, <3>2, <4>1, UpdateGood DEF BatchSaved
      <3> QED
        BY <3>1, <3>2
    <2>2. UNCHANGED <<consumed, deleted, last, next, upto, job, phase, runs, scenario>> /\ rcv' = "loop" /\ Idle
      BY <1>6 DEF BatchSaved
    <2>3. Good(checkpoint)' /\ Good(store)'
      BY <2>1, <2>2 DEF Good, ShouldParse, TimeOf
    <2>4. Handled' /\ Jobs' /\ Idle'
      BY <2>2 DEF Handled, Jobs, Idle
    <2> QED
      BY <2>1, <2>2, <2>3, <2>4
  <1> QED
    BY <1>1, <1>2, <1>3, <1>4, <1>5, <1>6 DEF Stream

\* The goroutine of an object keeps the invariant.
LEMMA JobStep ==
    ASSUME Undisturbed, IInv, phase = "running", NEW i \in Objects, Job(i)
    PROVE  IInv'
  <1> USE DEF IInv, TypeOK, external, Goto
  <1>0. ~Cancelled /\ i \in Nat /\ N \in Nat
    BY RehydrationAssumption DEF Cancelled, Objects
  <1>i. job[i] # "none"
    BY DEF Job, JobStart, ProcessObject, ProcessFails, DeleteObject, CheckLast,
       SetLast, SaveCheckpointData
  <1>j. i <= next /\ ~Idle
    BY <1>i DEF Jobs, Idle
  <1>1. CASE JobStart(i)
    BY <1>0, <1>j, <1>1 DEF JobStart, Handled, Jobs, Good, ShouldParse, TimeOf
  <1>2. CASE ProcessObject(i)
    BY <1>0, <1>j, <1>2 DEF ProcessObject, Handled, Jobs, Good, ShouldParse, TimeOf
  <1>3. CASE ProcessFails(i)
    BY <1>0, <1>3 DEF ProcessFails, Undisturbed
  <1>4. CASE DeleteObject(i)
    BY <1>0, <1>j, <1>4 DEF DeleteObject, Handled, Jobs, Good, ShouldParse, TimeOf
  <1>5. CASE CheckLast(i)
    BY <1>0, <1>j, <1>5 DEF CheckLast, Handled, Jobs, Good, ShouldParse, TimeOf
  <1>6. CASE SetLast(i)
    BY <1>0, <1>j, <1>6 DEF SetLast, Handled, Jobs, Good, ShouldParse, TimeOf
  <1>7. CASE SaveCheckpointData(i)
    BY <1>0, <1>j, <1>7 DEF SaveCheckpointData, Handled, Jobs, Good, ShouldParse, TimeOf
  <1> QED
    BY <1>1, <1>2, <1>3, <1>4, <1>5, <1>6, <1>7 DEF Job

\* Every step keeps the invariant.
LEMMA NextIInv ==
    ASSUME Undisturbed, IInv, [Next]_vars
    PROVE  IInv'
  <1>1. CASE Alive /\ (Stream \/ \E i \in Objects : Job(i))
    <2>1. phase = "running"
      BY <1>1 DEF Alive, IInv
    <2> QED
      BY <1>1, <2>1, StreamStep, JobStep
  <1>2. CASE Shutdown \/ ShutdownWait \/ ShutdownSave
    BY <1>2 DEF Shutdown, ShutdownWait, ShutdownSave, Undisturbed, IInv
  <1>3. CASE Crash
    BY <1>3 DEF Crash, IInv, TypeOK, Handled, Jobs, Good, ShouldParse, TimeOf, Idle, external, receiver
  <1>4. CASE Start
    <2>1. checkpoint' \in {store, NewCheckpoint} /\ UNCHANGED <<external, scenario>>
      BY <1>4 DEF Start
    <2>2. Good(checkpoint)' /\ Good(store)'
      <3>1. TypeOK /\ Good(store) /\ Good(NewCheckpoint)
        BY NewGood DEF IInv
      <3> QED
        BY <2>1, <3>1 DEF Good, ShouldParse, TimeOf, external
    <2>3. TypeOK'
      BY <1>4, <2>1, RehydrationAssumption DEF Start, IInv, TypeOK, NewCheckpoint, external
    <2>4. Handled' /\ Jobs' /\ Idle'
      BY <1>4 DEF Start, Handled, Jobs, Idle, Objects
    <2> QED
      BY <1>4, <2>2, <2>3, <2>4 DEF Start, IInv, external
  <1>5. CASE Finished \/ UNCHANGED vars
    BY <1>5 DEF Finished, vars, IInv, TypeOK, Handled, Jobs, Good, ShouldParse, TimeOf, Idle, external, receiver
  <1> QED
    BY <1>1, <1>2, <1>3, <1>4, <1>5 DEF Next

\* Whatever crashes and whichever checkpoints are lost, what a checkpoint
\* skips and what was deleted was consumed.
THEOREM NothingLostCorrect == Spec => []NothingLostInCrash
  <1> DEFINE J == Undisturbed => IInv
  <1>1. J /\ [Next]_vars => J'
    <2> SUFFICES ASSUME J, [Next]_vars, Undisturbed' PROVE IInv'
      OBVIOUS
    <2>1. Undisturbed
      BY SameScenario DEF Undisturbed, Sorted, Faults, TimeOf
    <2> QED
      BY <2>1, NextIInv
  <1>2. J => NothingLostInCrash
    BY DEF IInv, Good, ShouldParse, TimeOf, NothingLost, NothingLostInCrash
  <1>3. Init => J
    BY InitIInv
  <1> QED
    BY <1>1, <1>2, <1>3, PTL DEF Spec

-----------------------------------------------------------------------------
(* The same without an assumption on the scenario.                         *)

\* A goroutine that is past processObject has consumed its object.
DInv ==
    /\ TypeOK
    /\ \A i \in Objects : job[i] \in {"delete", "check", "set"} => i \in consumed
    /\ deleted \subseteq consumed

\* A new checkpoint has the type of one.
LEMMA UpdateType ==
    ASSUME TypeOK, last # 0
    PROVE  UpdateCheckpoint(checkpoint, last) \in [ts : Nat, parsed : SUBSET Objects]
  <1>1. last \in Objects /\ TimeOf(last) \in Nat
    BY Times DEF TypeOK
  <1> QED
    BY <1>1 DEF UpdateCheckpoint, TypeOK

\* makeCheckpoint keeps the types.
LEMMA CheckpointType ==
    ASSUME TypeOK, makeCheckpoint
    PROVE  checkpoint' \in [ts : Nat, parsed : SUBSET Objects]
           /\ store' \in [ts : Nat, parsed : SUBSET Objects]
  BY UpdateType DEF makeCheckpoint, Save, TypeOK

\* Every step of the stream and of the receiver's life keeps DInv ...
LEMMA StreamDInv == ASSUME DInv, Stream PROVE DInv'
  <1> USE DEF DInv, TypeOK, external
  <1>n. N \in Nat /\ BatchSize \in Nat
    BY RehydrationAssumption
  <1>1. ASSUME NEW n \in 1 .. BatchSize, TakeBatch(n) PROVE DInv'
    BY <1>1, <1>n DEF TakeBatch
  <1>2. CASE StreamEnds \/ Dispatched \/ Wait
    BY <1>2 DEF StreamEnds, Dispatched, Wait
  <1>3. CASE Dispatch
    BY <1>3, <1>n DEF Dispatch, Objects
  <1>4. CASE BatchSaved
    BY <1>4, CheckpointType DEF BatchSaved
  <1> QED
    BY <1>1, <1>2, <1>3, <1>4 DEF Stream

LEMMA LifeDInv ==
    ASSUME DInv, Shutdown \/ ShutdownWait \/ ShutdownSave \/ Crash \/ Start \/ Finished
    PROVE  DInv'
  <1> USE DEF DInv, TypeOK, external, receiver
  <1>1. CASE Shutdown \/ ShutdownWait \/ Crash
    BY <1>1 DEF Shutdown, ShutdownWait, Crash
  <1>2. CASE ShutdownSave
    BY <1>2, CheckpointType DEF ShutdownSave
  <1>3. CASE Start
    BY <1>3, RehydrationAssumption DEF Start, NewCheckpoint
  <1>4. CASE Finished
    BY <1>4 DEF Finished, vars
  <1> QED
    BY <1>1, <1>2, <1>3, <1>4

\* ... and so does the goroutine of an object.
LEMMA JobDInv == ASSUME DInv, NEW i \in Objects, Job(i) PROVE DInv'
  <1> USE DEF DInv, TypeOK, external, Goto
  <1>1. CASE JobStart(i) \/ ProcessFails(i)
    BY <1>1 DEF JobStart, ProcessFails
  <1>2. CASE ProcessObject(i)
    BY <1>2 DEF ProcessObject
  <1>3. CASE DeleteObject(i)
    BY <1>3 DEF DeleteObject
  <1>4. CASE CheckLast(i)
    BY <1>4 DEF CheckLast
  <1>5. CASE SetLast(i)
    BY <1>5 DEF SetLast
  <1>6. CASE SaveCheckpointData(i)
    BY <1>6 DEF SaveCheckpointData
  <1> QED
    BY <1>1, <1>2, <1>3, <1>4, <1>5, <1>6 DEF Job

\* Whatever fails and whenever the receiver is shut down or dies, an object
\* is deleted (conditionallyDeleteObject) only after it was consumed.
THEOREM DeletedWereConsumedCorrect == Spec => []DeletedWereConsumed
  <1>1. Init => DInv
    BY RehydrationAssumption DEF Init, DInv, TypeOK, NewCheckpoint
  <1>2. DInv /\ [Next]_vars => DInv'
    <2> SUFFICES ASSUME DInv, [Next]_vars PROVE DInv'
      OBVIOUS
    <2>1. CASE UNCHANGED vars
      BY <2>1 DEF DInv, TypeOK, vars, external, receiver
    <2> QED
      BY <2>1, StreamDInv, JobDInv, LifeDInv DEF Next
  <1>3. DInv => DeletedWereConsumed
    BY DEF DInv, DeletedWereConsumed
  <1> QED
    BY <1>1, <1>2, <1>3, PTL DEF Spec
=============================================================================
