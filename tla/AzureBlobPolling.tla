-------------------------- MODULE AzureBlobPolling --------------------------
(* receiver/azureblobpollingreceiver: each poll lists the blobs whose time *)
(* lies in its window and reads those that changed, one goroutine each.    *)
(* Blobs that grow in place are read from the offset of the last read, the *)
(* identity of the blob being checked by a fingerprint of its first bytes; *)
(* once a blob has not changed for the revisit window its tail is flushed  *)
(* and it is sealed or deleted.  Gzip blobs are read whole, and so is      *)
(* every blob when incremental reading is off (format "otlp").             *)
(*                                                                         *)
(* Time passes in ticks, the resolution of LastModified.  Content is a     *)
(* sequence of units: the complete records of the blob, and at its end     *)
(* possibly an open one (an unterminated line of json or text, the         *)
(* array's close of records-json) or a cut one (which never parses).  The  *)
(* first unit differs between a blob and its replacement.                  *)
(* A blob is written to until Period after the time in its path.           *)
EXTENDS Integers, FiniteSets, Sequences

CONSTANTS
    Blobs,
    PathTime(_),            \* the time in the blob's path
    Gzip(_),                \* its name ends in .gz
    Period,                 \* how long a blob is written to
    GzipRewritten,          \* a gzip blob may be written again at a later time
    MaxLen, MaxGen,         \* bounds on the records and replacements of a blob
    MaxWrites,              \* and on their sum
    Scenarios,              \* blob_format, delete_on_read, the blobs written and
                            \* a bound on the faults
    InitialLookback, RevisitWindow, QuarantineRetention, SealSkewTolerance,
    MaxFinalizeFailures, FpSize,
    Horizon,                \* bound on the time
    Faults,                 \* subset of FaultKinds
    None

FaultKinds == {"read", "consume", "delete", "list", "save", "crash", "shutdown",
               "remove"}

\* Times start at 1, 0 is the zero time.  config.go Validate: the format is
\* one of four; README: the window is above the span a blob is written to.
ASSUME PollingAssumption ==
    /\ IsFiniteSet(Blobs)
    /\ \A b \in Blobs : PathTime(b) \in Nat \ {0} /\ Gzip(b) \in BOOLEAN
    /\ GzipRewritten \in BOOLEAN
    /\ Period \in Nat /\ RevisitWindow \in Nat /\ Period <= RevisitWindow
    /\ InitialLookback \in Nat /\ QuarantineRetention \in Nat
    /\ SealSkewTolerance \in Nat /\ MaxFinalizeFailures \in Nat \ {0}
    /\ FpSize \in Nat \ {0}
    /\ MaxLen \in Nat /\ MaxGen \in Nat /\ MaxWrites \in Nat /\ Horizon \in Nat \ {0}
    /\ Scenarios \subseteq [format : {"otlp", "json", "text", "records-json"},
                           delete : BOOLEAN, written : SUBSET Blobs, faults : Nat]
    /\ Faults \subseteq FaultKinds

\* What the checkpoint's map returns for a blob it does not hold is no entry.
ASSUME NoneAssumption ==
    None \notin [off : 0 .. MaxLen + 1,
                 fp : Seq([gen : Nat, pos : Nat, end : {"none", "open", "cut"}]),
                 lm : Nat, quarantined : BOOLEAN, sealed : BOOLEAN, err : BOOLEAN,
                 fails : Nat]

VARIABLES
    cfg,                    \* the scenario, never changed
    now,
    blob,                   \* the blobs of the container; gen 0 is none yet
    gone,                   \* blobs the receiver has deleted
    delivered, twice,       \* records the next consumer has, more than once
    warned,                 \* blobs whose records it says it may not have read
    cp, saved,              \* the checkpoint and its stored copy
    since,                  \* start of the first window polled to its end
    forgot,                 \* a run ended without saving its checkpoint
    poll,                   \* the poll: pc, start and end of its window (the
                            \* end is the time of the last poll between polls)
    todo,                   \* blobs the listing has not come to
    lastBlob,               \* with lastBlobTime
    aged,                   \* progress of blobs to finalize
    job,                    \* the work on each blob
    phase, failures

container == <<now, blob, gone>>
sink == <<delivered, twice, warned>>
store == <<saved, since, forgot>>
polling == <<poll, todo, lastBlob>>
vars == <<cfg, container, sink, cp, store, polling, aged, job, phase,
          failures>>

-----------------------------------------------------------------------------
(* Content, fingerprints and progress.                                     *)

Unit(g, i, k) == [gen |-> g, pos |-> i, end |-> k]

Exists(b) == blob[b].there

Content(b) ==
    LET x == blob[b] IN
    [i \in 1 .. x.len |-> Unit(x.gen, i, "none")]
        \o IF x.tail = "none" THEN <<>> ELSE <<Unit(x.gen, x.len + 1, x.tail)>>

Prefix(s, n) == SubSeq(s, 1, IF n < Len(s) THEN n ELSE Len(s))

Fingerprint(s) == Prefix(s, FpSize)

\* any blob of the name is taken for the same
BadSameBlob(fp, current) == fp # <<>>

SameBlob(fp, current) ==
    /\ fp # <<>> /\ Len(fp) <= Len(current)
    /\ Prefix(current, Len(fp)) = fp

isIncrementalFormat == cfg.format # "otlp"
useIncremental(b) == isIncrementalFormat /\ ~Gzip(b)

\* how many of the units are complete (SplitLineDelta, SplitRecordsJSONDelta)
Complete(s) == Cardinality({i \in DOMAIN s : s[i].end = "none"})
EndOf(s) == IF s = <<>> THEN "none" ELSE s[Len(s)].end

\* the last unit of a sealed blob holds a record
TailIsRecord(k) == \/ cfg.format = "json" /\ k = "open"
                   \/ cfg.format = "text" /\ k # "none"

\* the records among the units
RecordsOf(b, s) ==
    {<<b, s[i].gen, s[i].pos>> :
        i \in {j \in DOMAIN s : s[j].end = "none" \/ TailIsRecord(s[j].end)}}

NewProgress ==
    [off |-> 0, fp |-> <<>>, lm |-> 0, quarantined |-> FALSE, sealed |-> FALSE,
     err |-> FALSE, fails |-> 0]

NewPollingCheckpoint ==
    [lp |-> 0, progress |-> [b \in Blobs |-> None], ts |-> 0, parsed |-> {}]

NoJob == [pc |-> "none", lm |-> 0, off |-> 0, fp |-> <<>>, head |-> <<>>,
          data |-> <<>>]

NoPoll == [pc |-> "idle", start |-> 0, end |-> 0]

Idle == \A b \in Blobs : job[b] = NoJob
Cancelled == phase # "running"

ProgressOf(b) == IF cp.progress[b] = None THEN NewProgress ELSE cp.progress[b]

\* a call fails because the context is cancelled, or because of a fault
Fault(k) == k \in Faults /\ failures < cfg.faults /\ failures' = failures + 1
Fails(k) == (Cancelled /\ UNCHANGED failures) \/ Fault(k)

TypeOK ==
    /\ cfg \in Scenarios
    /\ now \in 1 .. Horizon
    /\ \A b \in Blobs :
        /\ blob[b].gen \in 0 .. MaxGen /\ blob[b].len \in 0 .. MaxLen
        /\ blob[b].tail \in {"none", "open", "cut"}
        /\ blob[b].mtime \in 0 .. now /\ blob[b].there \in BOOLEAN
        /\ job[b].pc \in {"none", "start", "head", "tail", "consume", "whole", "read"}
        /\ \A p \in {cp.progress[b], saved.progress[b], aged[b]} :
            p # None => /\ p.off \in 0 .. MaxLen + 1 /\ p.lm \in 1 .. now
                        /\ Len(p.fp) <= FpSize
    /\ gone \subseteq Blobs /\ warned \subseteq Blobs /\ todo \subseteq Blobs
    /\ twice \subseteq delivered
    /\ lastBlob \in Blobs \cup {None}
    /\ poll.pc \in {"idle", "listing", "finalize"}
    /\ phase \in {"running", "stopping", "down"}
    /\ failures \in 0 .. cfg.faults

Init ==
    /\ cfg \in Scenarios
    /\ now = 1
    /\ blob = [b \in Blobs |-> [gen |-> 0, len |-> 0, tail |-> "none", mtime |-> 0,
                                there |-> FALSE]]
    /\ gone = {} /\ delivered = {} /\ twice = {} /\ warned = {}
    /\ cp = NewPollingCheckpoint /\ saved = NewPollingCheckpoint
    /\ since = 0 /\ forgot = FALSE
    /\ poll = NoPoll
    /\ todo = {} /\ lastBlob = None
    /\ aged = [b \in Blobs |-> None] /\ job = [b \in Blobs |-> NoJob]
    /\ phase = "running" /\ failures = 0

-----------------------------------------------------------------------------
(* The container.                                                          *)

receiver == <<cfg, sink, cp, store, polling, aged, job, phase, failures>>

Tick == now < Horizon /\ now' = now + 1 /\ UNCHANGED <<blob, gone, receiver>>

Writing(b) == now \in PathTime(b) .. PathTime(b) + Period /\ b \notin gone

\* blobs that do not grow: gzip blobs, and otlp blobs
WrittenOnce(b) == ~useIncremental(b)

\* a blob is created, or replaced by another of the same name
Put(b, n) ==
    /\ Writing(b) /\ b \in cfg.written /\ blob[b].gen < MaxGen
    /\ IF WrittenOnce(b)
       THEN /\ n = MaxLen
            /\ blob[b].gen = 0 \/ (Gzip(b) /\ isIncrementalFormat /\ GzipRewritten
                                    /\ blob[b].mtime < now)
       ELSE n <= 1 /\ blob[b].gen + 1 + n <= MaxWrites
    /\ blob' = [blob EXCEPT ![b] = [gen |-> @.gen + 1, len |-> n, tail |-> "none",
                                    mtime |-> now, there |-> TRUE]]
    /\ UNCHANGED <<now, gone, receiver>>

\* one more record, or the beginning of one
Extend(b, k) ==
    /\ Writing(b) /\ Exists(b) /\ ~WrittenOnce(b) /\ blob[b].tail # "cut"
    /\ \/ /\ blob[b].len < MaxLen /\ blob[b].gen + blob[b].len < MaxWrites
          /\ blob' = [blob EXCEPT ![b].len = @ + 1, ![b].tail = k, ![b].mtime = now]
       \/ /\ blob[b].tail = "none" /\ k # "none"
          /\ blob' = [blob EXCEPT ![b].tail = k, ![b].mtime = now]
    /\ UNCHANGED <<now, gone, receiver>>

\* another party deletes the blob
Remove(b) ==
    /\ Exists(b) /\ Writing(b) /\ Fault("remove")
    /\ blob' = [blob EXCEPT ![b].there = FALSE]
    /\ UNCHANGED <<cfg, now, gone, sink, cp, store, polling, aged, job, phase>>

-----------------------------------------------------------------------------
(* A poll: its window, the listing and what it selects.                    *)

\* the window is not widened
BadHorizonStart(start) == start

incrementalHorizonStart(start) ==
    LET anchor == IF cp.lp # 0 /\ cp.lp < now THEN cp.lp ELSE now IN
    IF anchor - RevisitWindow < start THEN anchor - RevisitWindow ELSE start

\* poll_interval is above the resolution of LastModified
RunPoll ==
    /\ phase # "down" /\ poll.pc = "idle" /\ poll.end < now
    /\ LET start == IF cp.lp = 0 THEN now - InitialLookback ELSE cp.lp IN
       poll' = [pc |-> "listing", end |-> now,
                start |-> IF isIncrementalFormat THEN incrementalHorizonStart(start)
                          ELSE start]
    /\ todo' = cfg.written /\ lastBlob' = None
    /\ UNCHANGED <<cfg, container, sink, cp, store, aged, job, phase, failures>>

ShouldParse(b) == PathTime(b) >= cp.ts /\ b \notin cp.parsed

shouldParseBlob(b) ==
    LET p == cp.progress[b] IN
    IF isIncrementalFormat THEN p = None \/ p.err \/ p.lm # blob[b].mtime
    ELSE ShouldParse(b)

\* in a path-time mode
shouldProcessBlob(b) ==
    Exists(b) /\ shouldParseBlob(b) /\ PathTime(b) \in poll.start .. poll.end

\* the listing comes to b: processBlobs
List(b) ==
    /\ phase # "down" /\ poll.pc = "listing" /\ b \in todo /\ ~Cancelled
    /\ todo' = todo \ {b}
    /\ job' = IF shouldProcessBlob(b)
              THEN [job EXCEPT ![b] = [NoJob EXCEPT !.pc = "start", !.lm = blob[b].mtime]]
              ELSE job
    /\ UNCHANGED <<cfg, container, sink, cp, store, poll, lastBlob, aged, phase,
                   failures>>

\* a glob or listing error, or the cancelled context: the poll is not finalized
PollAborts ==
    /\ phase # "down" /\ poll.pc = "listing" /\ Idle /\ Fails("list")
    /\ poll' = [poll EXCEPT !.pc = "idle", !.start = 0] /\ todo' = {}
    /\ UNCHANGED <<cfg, container, sink, cp, store, lastBlob, aged, job, phase>>

-----------------------------------------------------------------------------
(* The work on one blob: processBlobGoRoutine.                             *)

jobless == <<cfg, container, store, polling, aged, phase>>

Leave(b) == job' = [job EXCEPT ![b] = NoJob]

saveProgress(b, p) == cp' = [cp EXCEPT !.progress[b] = p]

Deliver(R) == delivered' = delivered \cup R /\ twice' = twice \cup (R \cap delivered)

quarantineBlob(b) ==
    /\ saveProgress(b, [ProgressOf(b) EXCEPT !.lm = job[b].lm, !.quarantined = TRUE,
                                             !.err = FALSE])
    /\ warned' = IF ProgressOf(b).quarantined THEN warned ELSE warned \cup {b}
    /\ UNCHANGED <<delivered, twice>>

trackNeverReadFailure(b) ==
    /\ saveProgress(b, [NewProgress EXCEPT !.quarantined = ProgressOf(b).quarantined,
                                           !.lm = job[b].lm, !.err = TRUE])
    /\ UNCHANGED sink

\* The goroutine sees the cancelled context, or takes its way.
Start(b) ==
    /\ phase # "down" /\ job[b].pc = "start"
    /\ \/ Cancelled /\ Leave(b)
       \/ job' = [job EXCEPT ![b] =
            LET p == ProgressOf(b) IN
            [@ EXCEPT !.pc = IF ~useIncremental(b) THEN "whole"
                             ELSE IF p.off > 0 /\ p.fp # <<>> THEN "head" ELSE "tail",
                      !.off = p.off, !.fp = p.fp]]
    /\ UNCHANGED <<jobless, failures, sink, cp>>

\* verifyResumeIdentity, read by read: the blob may be replaced between two
needsReset(off, fp, content) ==
    ~SameBlob(fp, Fingerprint(content)) \/ Len(content) < off

ReadHead(b) ==
    /\ phase # "down" /\ job[b].pc = "head"
    /\ IF Exists(b)
       THEN job' = [job EXCEPT ![b].pc = "tail", ![b].head = Fingerprint(Content(b)),
                      ![b].off = IF needsReset(@, job[b].fp, Content(b)) THEN 0 ELSE @]
       ELSE Leave(b)
    /\ UNCHANGED <<jobless, failures, sink, cp>>

ReadTail(b) ==
    /\ phase # "down" /\ job[b].pc = "tail"
    /\ IF Exists(b)
       THEN job' = [job EXCEPT ![b].pc = "consume",
                      ![b].data = SubSeq(Content(b), job[b].off + 1, Len(Content(b)))]
       ELSE Leave(b)
    /\ UNCHANGED <<jobless, failures, sink, cp>>

PermanentReadError(b) ==
    /\ phase # "down" /\ job[b].pc \in {"head", "tail"} /\ Fault("read")
    /\ quarantineBlob(b) /\ Leave(b)
    /\ UNCHANGED jobless

TransientReadError(b) ==
    /\ phase # "down" /\ job[b].pc \in {"head", "tail"} /\ Fails("read")
    /\ IF job[b].pc = "tail" /\ job[b].off = 0
       THEN trackNeverReadFailure(b)
       ELSE UNCHANGED <<cp, sink>>
    /\ Leave(b) /\ UNCHANGED jobless

\* the fingerprint of the committed prefix
NewFingerprint(j, n) ==
    IF j.off = 0 THEN Fingerprint(SubSeq(j.data, 1, n))
    ELSE IF Len(j.fp) < FpSize /\ j.head # <<>>
    THEN Fingerprint(IF j.off <= Len(j.head)
                     THEN SubSeq(j.head, 1, j.off) \o SubSeq(j.data, 1, n) ELSE j.head)
    ELSE j.fp

\* consumeDelta and the new progress
ConsumeDelta(b) ==
    LET j == job[b] n == Complete(j.data) IN
    /\ phase # "down" /\ j.pc = "consume"
    /\ Deliver(RecordsOf(b, SubSeq(j.data, 1, n)))
    /\ saveProgress(b, [NewProgress EXCEPT !.off = j.off + n, !.lm = j.lm,
                                           !.fp = NewFingerprint(j, n)])
    /\ warned' = warned \ {b}
    /\ Leave(b) /\ UNCHANGED <<jobless, failures>>

\* RecordsJSONDeltaStuck: what follows the offset is no record (a cut record
\* may as well be one that is still being written)
DeltaStuck(b) ==
    LET j == job[b] IN
    /\ phase # "down" /\ j.pc = "consume" /\ cfg.format = "records-json"
    /\ Complete(j.data) = 0 /\ EndOf(j.data) = "cut"
    /\ quarantineBlob(b) /\ Leave(b) /\ UNCHANGED <<jobless, failures>>

ConsumeFails(b) ==
    /\ phase # "down" /\ job[b].pc = "consume" /\ Fails("consume")
    /\ Complete(job[b].data) > 0
    /\ IF job[b].off = 0 THEN trackNeverReadFailure(b) ELSE UNCHANGED <<cp, sink>>
    /\ Leave(b) /\ UNCHANGED jobless

\* processBlob; the offset of a gzip blob only says that it was read
ProcessWhole(b) ==
    /\ phase # "down" /\ job[b].pc = "whole" /\ Exists(b)
    /\ Deliver(RecordsOf(b, Content(b)))
    /\ IF isIncrementalFormat
       THEN /\ saveProgress(b, [NewProgress EXCEPT !.off = MaxLen, !.lm = job[b].lm])
            /\ warned' = warned \ {b} /\ Leave(b)
       ELSE UNCHANGED <<cp, warned>> /\ job' = [job EXCEPT ![b].pc = "read"]
    /\ UNCHANGED <<jobless, failures>>

\* a download or downstream error, or the blob is not found
WholeTransientError(b) ==
    /\ phase # "down" /\ job[b].pc = "whole"
    /\ Fails("read") \/ Fails("consume") \/ (~Exists(b) /\ UNCHANGED failures)
    /\ IF isIncrementalFormat /\ ProgressOf(b).off = 0
       THEN trackNeverReadFailure(b)
       ELSE UNCHANGED <<cp, sink>>
    /\ Leave(b) /\ UNCHANGED jobless

\* a permanent download error, or content that does not decompress
WholePermanentError(b) ==
    /\ phase # "down" /\ job[b].pc = "whole" /\ isIncrementalFormat
    /\ Fault("read")
    /\ quarantineBlob(b) /\ Leave(b) /\ UNCHANGED jobless

\* a blob read whole with incremental reading off is deleted, then may become
\* the one the watermark moves to
AfterWhole(b, ok) ==
    /\ phase # "down" /\ job[b].pc = "read"
    /\ IF cfg.delete /\ ok
       THEN /\ gone' = gone \cup {b} /\ blob' = [blob EXCEPT ![b].there = FALSE]
            /\ UNCHANGED failures
       ELSE /\ IF ok THEN UNCHANGED failures ELSE cfg.delete /\ Fails("delete")
            /\ UNCHANGED <<gone, blob>>
    /\ lastBlob' = IF lastBlob = None THEN b
                   ELSE IF PathTime(lastBlob) < PathTime(b) THEN b ELSE lastBlob
    /\ Leave(b)
    /\ UNCHANGED <<cfg, now, sink, cp, store, poll, todo, aged, phase>>

-----------------------------------------------------------------------------
(* The end of a poll: finalizePoll.                                        *)

Greater(m, n) == IF m > n THEN m ELSE n

\* AgedOutProgress, entry by entry
Pruned(p, end) ==
    \/ p.quarantined /\ p.lm < end - Greater(QuarantineRetention, RevisitWindow)
    \/ ~p.quarantined /\ p.sealed /\ p.lm < end - RevisitWindow

AgedOut(p, cutoff) == ~p.quarantined /\ ~p.sealed /\ p.lm < cutoff

GivenUp(p, cutoff) ==
    AgedOut(p, cutoff) /\ p.fails > 0 /\ p.lm < cutoff - QuarantineRetention

FinalizePoll ==
    LET cutoff == poll.start - SealSkewTolerance
        Drop == {b \in Blobs : cp.progress[b] # None /\
                    (Pruned(cp.progress[b], poll.end) \/ AgedOut(cp.progress[b], cutoff))}
        GiveUp == {b \in Drop : GivenUp(cp.progress[b], cutoff)}
        Aged == {b \in Drop \ GiveUp : AgedOut(cp.progress[b], cutoff)}
    IN
    /\ phase # "down" /\ poll.pc = "listing" /\ todo = {} /\ Idle /\ ~Cancelled
    /\ poll' = [poll EXCEPT !.pc = "finalize"]
    /\ cp' = [cp EXCEPT !.lp = poll.end,
                        !.progress = [b \in Blobs |-> IF b \in Drop THEN None ELSE @[b]]]
    /\ aged' = [b \in Blobs |-> IF b \in Aged THEN cp.progress[b] ELSE None]
    /\ warned' = warned \cup GiveUp
    /\ since' = IF cp.lp = 0 THEN poll.start ELSE since
    /\ UNCHANGED <<cfg, container, delivered, twice, saved, forgot, todo, lastBlob, job,
                   phase, failures>>

\* finalizeAgedBlobs, one blob after the other
finalizing == <<cfg, now, store, polling, job, phase>>

Finalizing(b) == phase # "down" /\ poll.pc = "finalize" /\ aged[b] # None

Done(b) == aged' = [aged EXCEPT ![b] = None]

DropNeverRead(b) ==
    /\ Finalizing(b) /\ aged[b].err /\ aged[b].off = 0
    /\ warned' = warned \cup {b} /\ Done(b)
    /\ UNCHANGED <<finalizing, failures, blob, gone, delivered, twice, cp>>

Finalizable(b) == Finalizing(b) /\ ~(aged[b].err /\ aged[b].off = 0)

\* flushSealedBlob: the progress it resumes from, and the tail it reads
Resumed(b) ==
    LET p == aged[b] c == Content(b) IN
    IF /\ Exists(b) /\ c # <<>> /\ p.off > 0 /\ p.fp # <<>>
       /\ needsReset(p.off, p.fp, c)
    THEN [p EXCEPT !.off = 0, !.fp = Fingerprint(c)] ELSE p

SealTail(b) ==
    IF Exists(b) THEN SubSeq(Content(b), Resumed(b).off + 1, Len(Content(b))) ELSE <<>>

\* the end of the tail is not looked at
BadCleanSeal(s) == s = s

\* the end of the tail is as it should be (validSealTail, IsJSONObject)
CleanSeal(s) ==
    CASE cfg.format = "records-json" -> s = <<>> \/ EndOf(s) = "open"
      [] cfg.format = "json" -> EndOf(s) # "cut"
      [] OTHER -> TRUE

\* an end of line is counted that the last line does not have
BadEmitted(s) == Len(s) + 1

\* what is emitted of the tail: all of its records
Emitted(s) == IF EndOf(s) # "none" /\ TailIsRecord(EndOf(s)) THEN Len(s) ELSE Complete(s)

\* the offset of before the flush is kept
BadFlushed(b) == Resumed(b)

Flushed(b) == [Resumed(b) EXCEPT !.off = @ + Emitted(SealTail(b))]

retrackOrQuarantine(b, p, quarantinable) ==
    LET n == p.fails + 1
        quarantine == quarantinable /\ n >= MaxFinalizeFailures
    IN
    IF Cancelled THEN saveProgress(b, p) /\ UNCHANGED warned
    ELSE /\ saveProgress(b, [p EXCEPT !.fails = n, !.quarantined = quarantine])
         /\ warned' = IF quarantine THEN warned \cup {b} ELSE warned

\* a sealed blob whose tail did not parse is kept
Unparseable(b) ==
    /\ Finalizable(b) /\ useIncremental(b) /\ ~CleanSeal(SealTail(b))
    /\ Deliver(RecordsOf(b, SealTail(b)))
    /\ saveProgress(b, [Flushed(b) EXCEPT !.quarantined = TRUE])
    /\ warned' = warned \cup {b} /\ Done(b)
    /\ UNCHANGED <<finalizing, failures, blob, gone>>

FlushReadFails(b, afterHead, permanent) ==
    /\ Finalizable(b) /\ useIncremental(b)
    /\ IF permanent THEN ~Cancelled /\ Fault("read") ELSE Fails("read")
    /\ retrackOrQuarantine(b, IF afterHead THEN Resumed(b) ELSE aged[b], permanent)
    /\ Done(b)
    /\ UNCHANGED <<finalizing, blob, gone, delivered, twice>>

\* the consumer fails, or for json it fails on the last line, after n others
FlushConsumeFails(b, n) ==
    LET s == SealTail(b) IN
    /\ Finalizable(b) /\ useIncremental(b) /\ Fails("consume") /\ Emitted(s) > 0
    /\ \/ n = 0
       \/ n = Complete(s) /\ cfg.format = "json" /\ Emitted(s) > n
    /\ Deliver(RecordsOf(b, SubSeq(s, 1, n)))
    /\ retrackOrQuarantine(b, [Resumed(b) EXCEPT !.off = @ + n], FALSE) /\ Done(b)
    /\ UNCHANGED <<finalizing, blob, gone>>

\* the blob is flushed, then deleted or kept
Retire(b, ok) ==
    /\ Finalizable(b)
    /\ useIncremental(b) => CleanSeal(SealTail(b))
    /\ Deliver(IF useIncremental(b) THEN RecordsOf(b, SealTail(b)) ELSE {})
    /\ LET p == IF useIncremental(b) THEN Flushed(b) ELSE aged[b] IN
       \/ /\ ~cfg.delete /\ ok
          /\ saveProgress(b, [p EXCEPT !.sealed = TRUE])
          /\ UNCHANGED <<blob, gone, warned, failures>>
       \/ /\ cfg.delete /\ ok
          /\ blob' = [blob EXCEPT ![b].there = FALSE]
          /\ gone' = IF Exists(b) THEN gone \cup {b} ELSE gone
          /\ UNCHANGED <<cp, warned, failures>>
       \/ /\ cfg.delete /\ ~ok /\ Exists(b) /\ Fails("delete")
          /\ retrackOrQuarantine(b, p, TRUE)
          /\ UNCHANGED <<blob, gone>>
    /\ Done(b) /\ UNCHANGED finalizing

\* makeCheckpoint: the checkpoint to save, if there is one
WithWatermark ==
    IF lastBlob = None THEN cp
    ELSE [cp EXCEPT !.ts = Greater(@, PathTime(lastBlob)),
                    !.parsed = {lastBlob} \cup IF PathTime(lastBlob) > cp.ts THEN {} ELSE @]

makeCheckpoint(ok) ==
    IF ~isIncrementalFormat /\ lastBlob = None THEN UNCHANGED <<cp, saved>>
    ELSE cp' = WithWatermark /\ saved' = IF ok THEN WithWatermark ELSE saved

SavePoll(ok) ==
    /\ phase # "down" /\ poll.pc = "finalize" /\ \A b \in Blobs : aged[b] = None
    /\ IF ok THEN UNCHANGED failures ELSE Fails("save")
    /\ makeCheckpoint(ok)
    /\ poll' = [poll EXCEPT !.pc = "idle", !.start = 0]
    /\ UNCHANGED <<cfg, container, sink, since, forgot, todo, lastBlob, aged, job, phase>>

-----------------------------------------------------------------------------
(* Shutdown, crash and restart.                                            *)

Shutdown ==
    /\ phase = "running" /\ Fault("shutdown")
    /\ phase' = "stopping"
    /\ UNCHANGED <<cfg, container, sink, cp, store, polling, aged, job>>

\* the poll loop and the goroutines have ended
ShutdownCompletes(ok) ==
    /\ phase = "stopping" /\ poll.pc = "idle" /\ Idle
    /\ IF ok THEN UNCHANGED failures ELSE Fault("save")
    /\ makeCheckpoint(ok) /\ phase' = "down"
    /\ forgot' = (forgot \/ ~ok)
    /\ UNCHANGED <<cfg, container, sink, since, polling, aged, job>>

\* the process dies, or Shutdown gives up waiting and it ends
Crash ==
    /\ phase # "down" /\ Fails("crash")
    /\ phase' = "down" /\ forgot' = TRUE
    /\ poll' = NoPoll /\ todo' = {}
    /\ aged' = [b \in Blobs |-> None] /\ job' = [b \in Blobs |-> NoJob]
    /\ UNCHANGED <<cfg, container, sink, cp, saved, since, lastBlob>>

\* Start; what the log says of the blobs the checkpoint holds quarantined
\* holds again
Restart ==
    /\ phase = "down" /\ phase' = "running"
    /\ cp' = saved /\ poll' = NoPoll /\ lastBlob' = None
    /\ warned' = warned \cup
         {b \in Blobs : saved.progress[b] # None /\ saved.progress[b].quarantined}
    /\ UNCHANGED <<cfg, container, delivered, twice, store, todo, aged, job,
                   failures>>

Next ==
    \/ Tick \/ RunPoll \/ PollAborts \/ FinalizePoll \/ Shutdown \/ Crash \/ Restart
    \/ \E ok \in BOOLEAN : SavePoll(ok) \/ ShutdownCompletes(ok)
    \/ \E b \in Blobs :
        \/ \E n \in 0 .. MaxLen : Put(b, n)
        \/ \E k \in {"none", "open", "cut"} : Extend(b, k)
        \/ Remove(b) \/ List(b) \/ Start(b) \/ ReadHead(b) \/ ReadTail(b)
        \/ PermanentReadError(b) \/ TransientReadError(b)
        \/ ConsumeDelta(b) \/ DeltaStuck(b) \/ ConsumeFails(b)
        \/ ProcessWhole(b) \/ WholeTransientError(b) \/ WholePermanentError(b)
        \/ DropNeverRead(b) \/ Unparseable(b)
        \/ \E afterHead, permanent \in BOOLEAN : FlushReadFails(b, afterHead, permanent)
        \/ \E n \in 0 .. MaxLen : FlushConsumeFails(b, n)
        \/ \E ok \in BOOLEAN : AfterWhole(b, ok) \/ Retire(b, ok)

Spec == Init /\ [][Next]_vars

-----------------------------------------------------------------------------
(* Properties.                                                             *)

Undelivered(b) == RecordsOf(b, Content(b)) \ delivered

\* the entry is flushed when it ages out
Active(p) == p # None /\ ~p.sealed /\ ~p.quarantined

\* the next poll to end lists the blob and reads it
WillBeRead(b) ==
    /\ PathTime(b) >= cp.lp - RevisitWindow
    /\ cp.progress[b] = None \/ cp.progress[b].err \/ cp.progress[b].lm # blob[b].mtime

\* README.md 109: a record "is delivered at least once and never silently
\* dropped".  While the receiver runs incrementally, a blob since the first
\* polled window that holds a record the next consumer does not have is being
\* read, will be read or flushed, or the log says that it was given up; so
\* after any crash between a delivery and the save of the checkpoint, any
\* sequence of failed reads and any write between two reads.
NoSilentLoss ==
    isIncrementalFormat /\ phase # "down" /\ cp.lp > 0 =>
        \A b \in Blobs :
            Exists(b) /\ PathTime(b) >= since /\ Undelivered(b) # {} =>
                \/ b \in warned \/ job[b] # NoJob \/ aged[b] # None
                \/ Active(cp.progress[b]) \/ WillBeRead(b)

\* README.md 118: "no unread data is removed from storage".  A blob the
\* receiver deleted held nothing the next consumer does not have, and no cut
\* record that a reader could still have repaired.
DeletedWereDelivered ==
    \A b \in gone :
        /\ Undelivered(b) = {}
        /\ useIncremental(b) /\ cfg.format # "text" => blob[b].tail # "cut"

\* verifyResumeIdentity: the offset of an entry, in memory or stored, never
\* runs ahead of what was delivered.  Whenever the blob in the container passes
\* the identity check of a resume, everything under the offset was delivered
\* from that blob and not from one it replaced, whatever was written between
\* the head read, the tail read and the save.
OffsetsCoverDelivered ==
    \A b \in Blobs : \A p \in {cp.progress[b], saved.progress[b], aged[b]} :
        /\ useIncremental(b) /\ Exists(b) /\ p # None
        /\ p.fp = <<>> \/ ~needsReset(p.off, p.fp, Content(b))
        => RecordsOf(b, SubSeq(Content(b), 1, p.off)) \subseteq delivered

\* receiver.go 410: "Fingerprint and offset dedup prevent any byte from being
\* consumed twice."  While no checkpoint is lost, failures, retries and seals
\* deliver no record of a blob twice unless the blob was replaced.
ExactlyOnce ==
    isIncrementalFormat /\ ~forgot => \A r \in twice : r[2] > 1

=============================================================================
