# A TLA+ verification of bindplane-otel-contrib

The repository holds components of OpenTelemetry collector pipelines: receivers, processors,
exporters and extensions, and the packages they share. Most are pure transformations or one
call to a service. The ones that are hard to get right keep state over several goroutines and
external services: a gateway that multiplexes agents over a few connections, and receivers that
must deliver every object, or every record of a list, at least once although messages come back,
processes die and calls fail, and a reporter that the processors of a collector share while they are started
and shut down. These are what is modelled.

`PROJECT.json` lists every component, run, mutant, finding, hazard and theorem, and maps each
definition to the lines it models. Paths below are relative to `src/`.

## Inventory

| component | state | operations and interaction | what is hard | what makes it correct |
|---|---|---|---|---|
| `extension/opampgateway` | upstream connections with a writer and a reader each, assignments, pending authentications, routes from agents to connections | HTTP handler, upgrade, read and write loops on both sides, close handlers, shutdown | six kinds of goroutines, unbuffered channels, reconnects, late answers | routes and assignments never outlive a connection, only accepted agents get in, nobody blocks the shared reader, shutdown ends |
| `receiver/awss3eventreceiver` | SQS messages, channel, workers, offsets in a storage extension | poller, workers, visibility goroutine, shutdown | redelivery, overwritten objects, crash between delivery, offset and delete | at least once; exactly once without crash; nothing is skipped |
| `receiver/gcspubsubeventreceiver` | Pub/Sub messages, recent keys, channel, workers, offsets | poller with two layers of deduplication, workers, eviction, shutdown | the same, and duplicates acknowledged unread | a generation is acknowledged unread only because of work that was, or will be, done |
| `receiver/{googlecloudstorage,azureblob,awss3}rehydrationreceiver`, `internal/blobconsume/checkpoint.go` | listing, a goroutine for each object, the last object, the checkpoint | stream of batches, jobs, checkpoint, delete, shutdown | a checkpoint by time over objects that finish in any order | what a checkpoint skips, or is deleted, was consumed |
| `receiver/azureblobpollingreceiver`, `internal/blobconsume/incremental.go` | polling window, an offset, fingerprint and age for each blob, quarantines, checkpoint | list a window, read what was added to a growing blob, flush and seal or delete a blob that no longer grows, save | a blob replaced or extended between two reads, failing reads at every age, deletion, crash before the save | nothing is dropped without a warning, nothing unread is deleted, an offset covers only what was delivered, nothing is repeated |
| `extension/{badger,pebble}extension` | a client per component, transactions, garbage collection | Get, Set, Delete, Batch, Close | use after close, collection during a batch | a batch is atomic; a client that was closed is opened anew |
| `pkg/measurements`, `processor/{throughputmeasurement,topology}processor`, `extension/bindplaneextension` | counters with a sequence number, a registry, one reporter with its references, its loop and its capability | start and shutdown of each processor, measure, tick, collect, send through the one slot of the OpAMP client | counters read while pipelines add, a loop replaced while it holds a report, waits under a mutex, failing starts, reloads | the loop lives as long as the processors, counters never go back, what was counted is reported, starts and shutdowns return |
| `pkg/snapshot`, `pkg/counter` and the processors on them | ring buffers and counters under a lock | add, construct a payload, reset | trimming at the limit, reset between read and write | nothing counted twice or lost |
| `processor/lookupprocessor` | cache with expiry | lookup, reload | reload while others look up | never a stale entry beyond its time |
| `receiver/restapireceiver` | pagination state (offset, token, page or timestamp), its checkpoint, the polling interval | poll: fetch, consume, paginate, save; page limit; adaptive interval; shutdown and restart | a list that grows between pages, partial pages, formats that cut a timestamp, crash between any two steps, a changed page size | no record is passed over or asked for for ever, back-off only when caught up, cursors repeat nothing |
| `receiver/{m365,splunksearchapi,okta,bindplaneauditlogs}receiver` | a time window, sometimes stored | poll, page | bounds of windows | no gap between polls |
| `internal/blobstream` | none beyond a stream | parse archives, Avro, JSON, lines; report a position | positions after a broken stream | a position never covers an unread record |
| the other processors and exporters, scrapers, test generators | none, or one call | transform, marshal, upload | formats | out of scope |

Components interact by calls: a receiver calls the next consumer synchronously, and a storage
client for offsets and checkpoints; a shutdown cancels a context and waits for goroutines.
`internal/storageclient` and the storage extensions appear in the models as a save, load or
delete step that may fail.

## Plan

1. `OpampGateway`: done, proved.
2. `S3EventReceiver`, `VisibilityMonitor`: done, proved.
3. `Rehydration`: done, proved; `NothingLostInCrash` under the hypotheses the findings call for.
4. `GcsEventReceiver`: done, proved.
5. `EventDelivery`, an abstract specification of at-least-once delivery that `S3EventReceiver` and
   `GcsEventReceiver` both implement: done, the refinements are properties of their runs and theorems.
6. `AzureBlobPolling`: done, proved; `NoSilentLoss` and `DeletedWereDelivered` for gzip blobs that are written once.
7. `RestApi`: done, proved; `NothingSkipped` under the hypothesis its finding calls for.
8. `ThroughputReporter`: done, both safety properties proved. Left: the routes of the topology processor, and the
   slot of the OpAMP client shared by the reporters of several capabilities.
9. Further components, in this order: the storage clients of the Badger and Pebble extensions against
   one abstract store; `pkg/snapshot`, `pkg/counter`; the lookup cache; the Splunk search receiver; an abstract
   gateway (an agent is refused, admitted or gone) that `OpampGateway` implements.

The project keeps few runs, each large enough to ask several questions; a new component takes
its place by merging runs of an older one.

## Modules

A definition whose name starts with `Bad` (or says what is wrong with it, as
`HastyStartGlobalAgain`) is a faulty variant of the definition after it; no specification uses it,
the mutants of `PROJECT.json` do. Modules named `MC...` only give constants their values, modules named
`...Proofs` only hold theorems.

### OpampGateway

Upstream `u` has a writer (`wpc`: dialing, entering the loop, looping, draining, closing) and a
reader (`rpc`, with the message `rmsg` it is handing over); `link` is its WebSocket,
`nextMessage` the message whose write failed. Downstream `d` is first an HTTP request, then a
connection: `hpc` is where `handleRequest` and the closing goroutine are, `dw` and `dr` its writer
and reader. `count`, `downstreamToUpstream`, `pendingAuthRequests`, `responseChan`,
`downstreamConnections`, `agentConnections` and `sentCustomCapabilities` are the fields of the
same name. A message waiting on an unbuffered channel is the state of its sender (`authSend`,
`send`), so `WriteUp` is a rendezvous of writer and sender. `srvAuth`, `srvAgents`, `srvCaps` are
what the OpAMP server may still answer, `accepted` and `first` are history. Every action is a step
between two points at which other goroutines can intervene: a lock is held inside one, a channel
or WebSocket operation ends one. So the close of a downstream connection is two steps, as
`downstreamConnections` and `agentConnections` have a mutex each (`server.go:208`, `:209`): between
them (`hpc` is "unregistered") a route may lead to a connection that is no longer registered, and
`RoutesAreLive` says that it is nowhere else. Where two updates are one step, no goroutine can tell the
difference: `Assign` (the assignment, then `addRequest`: nobody answers a request that has not been
sent), `AuthResult` and `RefuseRequest` (nobody reads the pending requests and the assignments
together), `Upgrade` (the registration, then the start of the goroutines). Messages are reduced to who
sent them and what `HandleUpstreamMessage` looks at.

### S3EventReceiver

`queue` is SQS, `version` and `announced` are S3, `offsets` the offset storage, `delivered` and
`twice` what the next consumer has got. The poller (`ppc`, `pending`) fills `msgChan`; worker `w`
takes a message through opening an object, loading its offset, reading records, flushing a batch,
checkpointing, and deleting message and offsets. `Content`, `ETag`, `StorageKey` and `Events`
are parameters: what the parsers yield for a version, what GetObject reports, the key that
`worker.go` builds, and what a notification names after the filters. A read may be cancelled at
every record, and every call may fail.

### VisibilityMonitor

One message, its worker (`worker`) and the goroutine that extends its visibility (`mon`, waiting for its
timer or for its call), with a clock in ticks: timeouts are
cut to whole seconds, as `int32(timeout.Seconds())` does. `MaxWait` is the time in the channel,
`MaxLate` the lateness of a timer or a call; the assumption `TimelyAssumption` says how
much of both the safety margin of 50 % tolerates. The context of the monitor (`cancelled`) derives from that of the
worker (`worker.go:262`): it ends when `ProcessMessage` returns, and also at a `Shutdown`, which may come while the
message is in the channel, under work or in a call. `ProcessMessage` then goes on without extensions: it flushes on a
drain context (`worker.go:603`), saves the offset and deletes the message on detached ones (`:624`, `:658`), each of which
has its own timeout. `HiddenWhileProcessed` therefore promises, after a `Shutdown`, only `Grace`: what is left at
least of a window whose extension was about to be asked for. A call may fail and still have taken effect. What becomes of the
message in the end (deleted, made visible, or seen again while it is under work) is in `S3EventReceiver`.

### GcsEventReceiver

`generation` and `sub` are Cloud Storage and Pub/Sub; a message has an object, a generation, an
event type (`Finalize`) and the live generation when it is sent (`LiveOf`), so that
events about a replaced object are possible. The poller pulls a set of messages (`pulled`), keeps one of
each key (`batchDedup`; the order in the batch is arbitrary), acknowledges what `recent` holds and
queues the rest. Workers work as in `S3EventReceiver`, but batches are counted instead of
records, and the end of an object is known by the generation of the reader (`wgen`), not of the
message. A stored offset has no bucket in its key; generations are taken to differ between buckets,
as they are timestamps. Steps that touch only the worker's own state (an error returned to
`handleProcessingError`, the end of the object before the acknowledgement) are merged with the
next one.

### Rehydration

A scenario fixes the receiver, the times of the objects and the faults that occur. `Receiver` is
Google Cloud Storage, Azure or S3, whose differences (who updates the
checkpoint, what is locked, what a shutdown saves) are guards of the actions. Objects are numbers
in listing order with a time; `job` is the goroutine of each, `last` the pair
`lastObject`, `lastObjectTime` that the jobs of a batch write. `CheckLast` and `SetLast` are two
steps: the comparison is made outside the lock. The check of the context and `wg.Add` in a
dispatch are one step. The empty batch that ends an Azure listing is left out.

### EventDelivery

What both event receivers promise: events are sent, what they announce is consumed, and the queue
forgets an event only if it is consumed or an event that `Serves` it is still to come. In
`S3EventReceiver` an event serves only itself; in `GcsEventReceiver` also the events of the same object
that are not newer, since `batchDedup` acknowledges an event because of another one. The mapping (`INSTANCE
EventDelivery WITH`) takes `consumed` from what the next consumer has; `ImplementsDelivery` says that
every step of the receiver, crashes included, is a step of `EventDelivery` or none.

### AzureBlobPolling

`blob` is the container (generation, records, an open or cut tail, LastModified), `cp` the checkpoint
with the progress of each blob (offset, fingerprint, LastModified, age, sealed, quarantined, failures) and
`saved` its stored copy. A poll (`poll`, `todo`) lists its window and starts a job for each blob that
changed; a job reads the head, checks the fingerprint, reads the tail and consumes it, and the blob may be
written to between any two of these steps. `aged` are the entries that `finalizeAgedBlobs` flushes, seals,
deletes, tracks again or quarantines. `warned` and `since` are history: what the log says was
given up, and the start of the first window that was polled to its end. A scenario fixes the format, `delete_on_read`, which blobs
are written and how many faults occur. Content is counted in records; a record is its blob, the
generation and its number.

### RestApi

The API is a list that only grows (`held`); `Answer` gives the page for a request. A scenario (`cfg`)
fixes both the API's habits and the receiver's configuration: mode, page size and its value after a
restart, page limit, how the response says that there is more, records missing from their pages,
timestamps and their format, and their order. The goroutine's cycle is `fetchDataPage`, `consume`, `Paginate`
(with the checkpoint), `adjustPollInterval`; `st` is `paginationState`, whose `pos` is an offset, the
offset a token stands for, a page number or a timestamp according to the mode. Time is in
microseconds, of which `Second` make a second. `Shutdown` cancels the calls, `Crash` drops the memory, `Start`
loads and reconciles the checkpoint; `forgot` is history. The retries within one request are
part of a fetch; a crash between `consume` and `Paginate` is the one that repeats a page.

### ThroughputReporter

The collector (`gen`, `proc`, `phase`, `failed`) starts its processors one by one, then shuts them down one by
one, and may be reloaded; a life of the service has its own processors, counters, reporter and OpAMP extension. `refs`,
`reg` and `handler` are the fields of `opampReporter`; `handler` names the processor whose global block set up the
loop that runs. `ctl` is where a start (`stopLocked`) or a shutdown (`releaseOpAMPReporter`) waits for a loop, with
`reporterMux` in its hands, so that nothing else starts or stops. `caps` are the capabilities registered with the
extension, `done` the closed channels, `loop` each loop: idle in its `select`, at a report (with the counters it has still to look at,
the one between its two reads of the sequence number, and what it has read), or waiting for the slot. A payload is two steps, the
sequence number and the counter; `Collect` and `Mark` are the first two and the last read of `OTLPMeasurements`.
`pending` is the slot of the OpAMP client, `server` what has arrived. The seven counters of a processor are one, which counts
payloads; 0 stands for a counter that is not in a report, as in `addOTLPSum`. A loop that a timed-out shutdown left
behind (`Orphan`) has a client that no longer sends. The reporter of the topology processor has the same functions
line for line, and the loop of the bindplane extension is this loop with one owner.

## Runs

| run | instance | what it shows |
|---|---|---|
| `gateway_one_upstream` | 1 upstream dialled up to twice, 2 downstreams, 1 agent that may use both | routes lead to live connections; no assignment leaks; the balancing count covers the assignments; the reader never blocks on an answer; only accepted requests connect; assignments only to an upstream that is up; capabilities come first; closing an old connection keeps the new route |
| `gateway_liveness` | 2 upstreams dialled once, 1 downstream, which holds one upstream for life, fairness | `Shutdown` ends with every goroutine gone, through the chain of upstream writer, reader and downstream writer; the loss of an upstream disconnects the registered agents on its list |
| `s3_overwrite` | 2 notifications for 2 versions of an object, 2 workers, failing saves, a crash, 1 early redelivery | a resumed read skips nothing; an offset covers only delivered records; the receiver implements `EventDelivery`, hence loses nothing |
| `s3_liveness` | a notification with 2 objects (one with a bad record and a cut end) and 2 with none, 1 worker, shutdown, fairness | no loss; shutdown ends also when the channel is full; exactly once; every notification is deleted once failures cease |
| `visibility` | timeout 14.5 s, interval 10.5 s, window 30.5 s, half-second ticks, a shutdown at any time | the message is hidden while it is processed, for `Grace` (2 s here) after a shutdown, and never longer than the window |
| `rehydration` | 4 objects, batches of up to 3, up to 3 runs, fairness; scenarios: each receiver with a sorted listing, crashes and failing checkpoints, and two of them with two folders, failing objects and shutdowns too | crashes lose nothing: a checkpoint or a deletion covers only consumed objects; only consumed objects are deleted, whatever fails; everything is rehydrated, and the rehydration ends |
| `rehydration_shutdown` | Google Cloud Storage, a shutdown | violation, see Findings |
| `gcs_events` | 2 notifications of a generation, its overwrite, and the deletion event of the first generation; 2 workers, failing saves, shutdown or crash | no announced generation is lost; only processed objects are called recent; an offset covers only delivered batches; the receiver implements `EventDelivery` |
| `azure_polling` | 5 scenarios: a json blob that grows and is deleted, a records-json blob that is kept, a gzip blob, otlp blobs read whole; up to 2 faults of any kind | no record is dropped without a warning; only delivered blobs are deleted; an offset that passes the identity check covers only delivered records; nothing is delivered twice while no checkpoint is lost |
| `rest_api` | 13 scenarios, a list of up to 5 records, up to 2 faults of any kind, fairness | no record is passed over; back-off only when caught up; tokens and timestamps repeat nothing; every record is delivered in the end |
| `rest_page_size_raised` | page numbers, `page_size` 2 and then 3 | violation, see Findings |
| `throughput_reporter` | 2 processors; 7 scenarios: one or two global blocks, one switched off, failing sends, reloads, failing starts, shutdowns that time out; fairness | the loop and its capability live as long as the processors; counters never go back at the server; what a counter holds when it is due is reported; starts and shutdowns return |

Bounds, and why they are enough for the cases they are there for:

- `MaxDials` 2: a loss, a reconnect and whatever survives the first session; 1 in
  `gateway_liveness`: there the downstream has one upstream for life, the other upstream never hears of its
  agent, and no message is written a second time (`WriteNext`). The retry after a reconnect is in
  `gateway_one_upstream`; two upstreams with messages for one agent are in the theorems only, hence without
  their liveness. Two
  downstreams let an agent have an old and a new connection, and two requests compete for one upstream.
- `MaxRuns` 2 (3 in `rehydration`): an interruption at every point of the first run and
  everything that its leftovers can do to the next; a third run for leftovers of leftovers.
- `s3_liveness` has one worker and no crash, failing save or early redelivery: a loss of records by those is
  caught by `ImplementsDelivery` in `s3_overwrite`, and by its theorem.
- `MaxEarly` 1: two workers with the same message. In `gcs_events` it is 0 and two messages
  with the same key do it.
- Two versions or generations, the second one shorter: an offset of the first lies inside or beyond the second.
- `Batches` 1 in `gcs_events`: an offset is absent or at the end. Offsets in the middle of an
  object are in `s3_overwrite`, which has two records and one per batch, and in the theorems.
- Four objects, three to a batch, the last two of one minute: a batch boundary inside a minute,
  an unwanted object, jobs of a batch in every order.
- `Horizon` 75 in `visibility`: past the end of the visibility window.
- `azure_polling`: `Horizon` 5 with `RevisitWindow`, `Period` and `QuarantineRetention` 1 lets a blob be
  written, read, aged, flushed, tracked again, quarantined and pruned; `MaxWrites` 3 puts a write into
  three of the gaps between reads, also a replacement that is shorter or longer; `FpSize` 2 is more
  than the first write of a blob may hold, so that fingerprints grow. Two faults cover a failure and the failure of
  its retry; one fault where two blobs share a run.
- `rest_api`: five records in pages of two are two full pages and a partial one, with the list growing at
  every step; two faults are a shutdown or crash and a failure on either side of it. `Second` 4 separates
  the three timestamp formats.
- `throughput_reporter`: two processors are one that sets the loop up and one that outlives it, or two that do; two payloads
  of two pipelines, and two reports, one waiting for the slot of the other; two lives are enough for leftovers of the first. The
  scenarios divide these, since payloads and reloads multiply.
- `Faults` names the failures a run includes beyond those any call may always have.

Symmetry over workers (and over downstreams in the gateway) is used in runs without liveness
properties only.

Deadlock is checked everywhere but in `visibility` and `azure_polling`, whose clocks stop at the horizon; a stopped
gateway and a finished rehydration have an explicit idle step.

## Fairness

Goroutines run and calls return (weak fairness of each step): external calls use contexts with
a timeout, or the transport's. In the gateway strong fairness is assumed for the steps that
compete in a `select` or for a queued channel, which Go decides at random or in order, and an
agent is assumed to drain its socket. Queues hand out visible messages and return the ones nobody holds.
The collector starts a stopped receiver again. In `RestApi` strong fairness is assumed for the end of a
shutdown, because the polling goroutine's `select` chooses at random between the timer and the cancelled context;
in `ThroughputReporter` for the end of a report loop, for the same reason, and there the OpAMP client is connected (`WF` of
`Deliver`): without that a start or shutdown may wait for ever, see the notes below.
Nobody is assumed to succeed: liveness that needs
success (`EventuallyAcked`) has the hypothesis that failures cease.

## Proofs

All theorems hold for every value of the constants that satisfies the named assumptions, in
particular for any number of connections, messages, workers and crashes.

- `OpampGatewayProofs`. `IInv` is the conjunction of the type invariant, the four properties on
  routes and assignments and three facts they need: a reader that hands over has a message,
  `connected` implies the writer is in its loop, and a connection is registered from its upgrade to the first
  step of its close, whose second step removes the routes. `CountCoversAssignments` is what makes the type of `count` inductive: a
  decrement happens only with an assignment it counted. For authentication `AuthInv` adds that a connect
  request or its answer is in at most one place (handler, retry slot, server, reader, response
  channel) and that every accept on its way was given by the server; then no answer finds the
  channel full and no request is let in by another's answer. `CloseKeepsNewRoute` is proved as an action property.
  `CapabilitiesFirst` has the hypothesis `OneUpstream` (the default of `connections`): `CapsInv` says that what the
  server sent in a session is cached, that a connection marked as sent was given a message or the reader holds the one
  with its capabilities, and that a reader holds a message without them only for a connection that was given
  one. With two upstreams it is false, see the notes.
- `S3EventReceiverProofs`. `IInv` says that whatever lies before the start of a worker's batch,
  under a stored offset, or in a version it has finished was delivered, and that the version read
  is at least the one announced. Hypotheses: `UniqueETags` (objects that share a storage key never report the
  same ETag: `worker.go` leaves the bucket out of the key) and `WellFormedContent` (a cut record is the last).
  For `ExactlyOnce`, `OnceInv` says that a message is in one place (queue, poller, once in the channel, one worker),
  that a worker reads no earlier than the offset of its object, and that every delivered record is settled: its
  message is deleted, the offset is past it, or a worker is about to save one that is. Hypotheses: `OneNotification`
  (an object and its key belong to one message), `Calm` (no failing save, crash or early end of a visibility timeout,
  and an ETag for every object) and `AbsentIsNoOffset`; failing reads, consumers, deletes and nacks, deadlines, shutdowns
  and restarts are all in it.
- `VisibilityMonitorProofs`. `Timely` relates timer, call and window: a window always outlasts the
  timer by two latenesses and `Grace`. `Granted`: a `Shutdown` finds a window that lasts for another `Grace` or to the
  end of the maximum window, and what fails afterwards takes nothing away from it. `Running`: the monitor starts with
  `ProcessMessage`. Assumptions are the checks of `config.go` and `TimelyAssumption`, from which `GraceFits`
  derives that `Grace` is positive.
- `RehydrationProofs`. Objects gone through are consumed or have a job before its end; a
  checkpoint is made only when all jobs are done; hence everything up to `last` was consumed. Hypotheses:
  `Sorted` (listing in order of time) and `Undisturbed` (no failing object, no shutdown): without
  them the property is false, as the finding and the notes below show. `DeletedWereConsumed` has no
  hypothesis: a job deletes after it has consumed, and a job past its consume was consumed.
- `GcsEventReceiverProofs`. `IInv` says that a worker reads the announced generation or a later
  one, that what it has read was delivered, and what it acknowledges was read to the end; hence
  `RecentWereProcessed` and `OffsetsCoverDelivered`, without any hypothesis. For `NoLoss` the
  invariant `AckedElsewhere` is needed: a message acknowledged while the poller holds it was
  processed, so that the survivor of `batchDedup` always stands for work done or to be done. Hypothesis:
  `KeysTellEvents` (see the notes below); the run `gcs_events` shows one case beyond it (the
  deletion event of a replaced generation).
- `EventDelivery` is refined by both event receivers (`ImplementsDeliveryCorrect`, from their `IInv`s, under the hypotheses
  of their `NoLoss`). `DeliveryLosesNothing`, in `GcsEventReceiverProofs`, where "serves" is not the identity, shows that
  the abstract specification is enough: chains of events that serve each other lose none, because "serves" is
  transitive.
- `AzureBlobPollingProofs`. `IInv` says what an entry (of the checkpoint, of its stored copy, or taken out for
  finalization) and a goroutine know about their blob. `Covers`: if the fingerprint begins with the first unit of the
  blob in the container, everything under the offset was delivered from that blob and is complete; a fingerprint is
  never of a later blob than the one there is; an offset without a fingerprint comes from a flush, when the blob is no
  longer written to. `DataSound`: what a goroutine has read after its head check is all from one
  generation, the one it checked or a later one, in which case the new fingerprint still begins with the old first unit and
  the entry claims nothing of the new blob. Every step keeps `Steady` (a write lengthens the generation
  there is or starts another, and writes nothing once the period of the blob is over), and what an entry or goroutine claims
  survives any steady step (`SoundStays`, `JobStays`). The window of a poll reaches `RevisitWindow` back and the period is
  not longer, so a blob that is aged out is closed; a clean seal then reads all of it (`FlushedIsRead`). Hypothesis of
  `DeletedCorrect`: `~GzipRewritten`, see the notes; `TypeCorrect` and `OffsetsCorrect` have none. The assumption
  `Horizon > 0` only says that the clock starts within its bound.
  For `ExactlyOnce`, `OnceInv` adds the converse of `Covers` for a blob that was never replaced: nothing past the offset of
  its entry was delivered (`Fits`), and the fingerprint is a prefix of the blob no longer than the offset, so that
  no resume and no flush starts over (`NeverReset`) and the next tail begins just past what was
  delivered. A blob without an entry was not delivered, or its time lies before the window of every later
  poll (`Past`): an entry is dropped or taken out only when it is older than the revisit window, and the end of the window
  is saved with it. A gzip blob with nothing but its time in the entry is not listed again at that time. All this is of
  the checkpoint in memory, hence the condition that no run ends without saving it. `NoneAssumption` says that the
  value standing for a missing entry is no entry.
  For `NoSilentLoss`, `LossInv` says of a blob with an undelivered record and no warning (`Lost`): if it has no entry, the
  window of the next poll of the checkpoint in memory and of the stored one reaches back to it (`Listed`), and if the poll
  under way has passed it by (`Passed`: its work ended without an entry) it is young enough for the window after this poll.
  An entry is sealed only when its blob is closed and read (`SealedSound`), and quarantined only with a warning, so what
  `FinalizePoll` drops is not lost. A blob still written to is younger than the period, hence in every window to come;
  work that ends without an entry was cut short by a shutdown, after which the poll is not finalized, or found no
  blob. The stored end of the window is never ahead of the one in memory (`Turns`), so a crash only widens what is listed.
  Hypothesis: `~GzipRewritten`, as for `DeletedCorrect`.
- `RestApiProofs`. `TypeCorrect` needs that a page number never falls below the API's first and that a
  response spans records of the list. For `NothingSkipped`, `IInv` says that every record still owed
  is asked for by the state and by the checkpoint (`Kept`), that after a fetch the response is the answer to
  the state's request, and after `consume` it was delivered; so what is owed lies beyond the page, and
  each mode is shown to move no further than the end of it. A timestamp that is not from the
  data is the configured one (`StartOrData`), since a checkpoint forgets the page counter and with it the
  step past the timestamp. Hypothesis: `Resumable`, a predicate on the configuration all
  scenarios of `rest_api` satisfy: in page mode the page size is not changed and a page total counts
  from one; no total with missing records; timestamps apart by the step at the resolution they are sent with;
  newest-first lists of at most a page. Each part is needed; see Findings and the notes.
  `BacksOffWhenCaughtUp` follows from the same `IInv` once it is shown that a cycle which ends, other than
  at `page_limit` with records in hand, ends with the last page (`CycleEnd`); hypothesis: `TellsMore`, no record
  is missing from a page unless `has_more_field_name` decides and there is no `page_limit`. `NoRepeats` needs no
  hypothesis; `RInv` is the converse of `Kept`: whatever was delivered lies before the
  position or on the page just consumed, unless a run resumed behind the one before it, and the page counter goes with
  a timestamp from the data, so that resetting it changes no request.

- `ThroughputReporterProofs`. `LInv` is about the lifecycle: `refs` is the number of running processors (the induction
  needs the cardinality of finite sets); loops are told to end only after they began, and end only when told; of the
  loops of a life at most one is alive, and it is the one of `handler` or the one `ctl` waits for; capabilities and loops
  of earlier lives are left only by a timeout. `ReporterFollowsProcessors` follows. `Values` adds, for each counter, that
  server <= slot <= report in a loop's hands <= counter. That there is one such loop is what makes it
  inductive: with two, the older report could be sent last, which is what `stopLocked` waits for.

Only model-checked: liveness and every property at instances outside
the hypotheses. The prover does not do
liveness under fairness or `ENABLED`, nor induction over data; no module has a recursive operator.

## Findings

1. `rehydration_shutdown`: the checkpoint made at a shutdown covers objects that the shutdown cut off.
2. `rest_page_size_raised`: a page number is kept when `page_size` changes, and stands for
   another record then: after the first page of two, page 2 of size three starts with the fourth
   record, and the third is never read.

Seen while modelling, true of the models, without a run of their own:

- gateway: an upstream that is lost between the server's accept and the registration of the connection
  leaves that agent connected (`server.go:214`), where `HandleUpstreamClose` says that it closes all
  (`gateway.go:245`).
- gateway: the loss of an upstream does not lower its `count`
  (`connection_assignments.go:73`), so that the pool no longer picks the upstream with the fewest
  connections (`extension/opampgateway/README.md:58`); the send of a connect request has no timeout
  (`upstream_connection.go:147`), so that a 504 may take longer than the 30 seconds of `README.md:119`.
- gateway: with two upstreams an agent that connects again may get a plain message before its custom capabilities
  (`gateway.go:208` has them in "the first message forwarded to each downstream agent"): a late reply on the upstream
  of its first connection marks it as served and waits to be sent, and the reader of the second upstream overtakes it.
- S3: offsets of two buckets share a key (`worker.go:428`); with equal key and content a worker skips the
  head of its object. A record whose body cannot be appended stays in the batch, empty
  (`worker.go:545`, comment at `:551`); an extension may shorten the visibility
  (`worker.go:709`, `README.md:83`), and the margin is 50 % where `README.md:87` has 80 %.
- S3: a shutdown ends the extensions while `ProcessMessage` goes on (`worker.go:262`, `:698`). With an interval of 10 s
  about 5 s of invisibility may remain, while the flush, the save and the delete that follow have up to 30 s each
  (`internal/blobstream/cleanup_context.go`): another consumer of the queue may get a message under work,
  where `README.md:91` has "Messages remain invisible during processing". In `S3EventReceiver` this is one of
  the early ends of a visibility timeout (`MaxEarly`); nothing is lost by it, but records may be delivered twice, and
  `Calm`, the hypothesis of `ExactlyOnce`, excludes it.
- rehydration: an object that failed is covered by a later checkpoint; a listing of two folders
  is not in order of time, and objects of the second are skipped after a restart; the parsed
  objects of a checkpoint are only the last of each batch (`checkpoint.go:31`).
- Pub/Sub: `batchDedup` ignores the event type (`receiver.go:352`) and acknowledges an OBJECT_FINALIZE event
  as the duplicate of a metadata update of the same generation, which the worker then ignores. At the end of
  `max_extension` the message is left to its deadline, not nacked as
  `gcspubsubeventreceiver/README.md:18` says.
- Azure: a gzip blob that is written again after it was read and before it is sealed is deleted unread
  (`receiver.go:1238`, `README.md:118`), with `GzipRewritten` true; as long as the first poll fails, the initial
  lookback slides with the clock.
- REST API: zero-based pages with `total_pages_field_name` (`pagination.go:407`) pass the last partial
  page; a newest-first API with more than a page of new records, and records that arrive later with the
  newest timestamp, lose records in timestamp mode; the default format cuts timestamps to seconds while the step
  past the last one is a microsecond, so that records repeat, and a full page within a second is fetched for ever,
  the first time inside `Start`; a record that cannot be parsed (`receiver.go:907`) makes a full page look partial;
  with token pagination a partial page at `page_limit` resets the interval (`README.md:889`); `PagesFetched`
  survives a failed cycle (`receiver.go:541`); `timestamp.page_size` does not change while there is a
  checkpoint; a record whose timestamp is the configured start time is fetched again until a newer one comes
  (`pagination.go:479`); a page all of whose records are missing backs off at `page_limit` although
  `has_more_field_name` says that there is more (`receiver.go:695`); offsets and page numbers read a partial page again in every cycle, as
  `README.md:897` says.

- throughput: `lastCollectedSequence` is called "a high water mark of the sequence number that has been reported"
  (`throughput.go:323`), but a payload counted between the reads of the counter and of the sequence number, and a
  report whose sending failed, are marked as well and wait for the next payload. `trace_count` in a report is `TraceSize()`
  (`custom_message.go:63`), where the README (`processor/throughputmeasurementprocessor/README.md:13`) has the number of spans. While the OpAMP client is not connected, a report waits for the slot
  without `doneChan` (`opamp_reporter.go:233`), and a start with a second global block waits for it without a context, holding
  the mutex (`:111`). A shutdown that times out leaves the capability registered (`:174`).

## Not modelled

Formats, parsers, configuration, logging and metrics; TLS and HTTP details; wait times and back-off
except in `VisibilityMonitor`, `AzureBlobPolling` and `RestApi`; memory limits. Two thirds of the repository's lines are the
tables of the OCSF and ASIM processors, and most of the rest are field mappings, marshalling, scrapers and
generated code, which keep no state between two calls; there is nothing for a state machine to say about
them. `PROJECT.json` has the reason for each component.
Of the measurements, `Reset` (called by the v1 agent, outside the repository) and the deprecated ways to register are
left out, as are other users of the slot of the OpAMP client.
The environments (SQS, Pub/Sub, S3, Cloud Storage, the OpAMP server, agents) are modelled from how
the code uses them.
