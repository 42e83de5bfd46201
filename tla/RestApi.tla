------------------------------ MODULE RestApi ------------------------------
(* receiver/restapireceiver: a receiver that polls an HTTP API page by     *)
(* page.  A poll cycle fetches a page, hands its records to the next       *)
(* consumer, moves the pagination state past them and stores it, until the *)
(* response says that there is no more or the page limit is reached.  The  *)
(* position (offset, token, page number or timestamp) outlives the cycle,  *)
(* and with a storage extension the process.                               *)
(*                                                                         *)
(* The API holds a list of records that only grows; records are numbered   *)
(* in its order.  What one answers to a request is external (Answer); the  *)
(* cfg of a behaviour says how the API behaves and how the receiver is     *)
(* configured for it.  Time is in ticks of a microsecond, 0 is the zero    *)
(* time, and Second is the ticks of a second.                              *)
EXTENDS Integers, FiniteSets, Sequences

CONSTANTS
    MaxItems,               \* bound on the records the API gets
    Second,
    Scenarios,              \* the configurations, one per behaviour
    MinPollInterval, MaxPollInterval, BackoffMultiplier,
    Faults, MaxFaults,      \* subset of FaultKinds, and a bound on them
    None

FaultKinds == {"fetch", "consume", "save", "load", "crash", "shutdown"}

Items == 1 .. MaxItems

\* mode:      pagination.mode, "token" when next_offset_field_name is set
\* size:      limit or page_size, resized: its value after a restart
\* page_limit, storage
\* start:     starting_offset, starting_page or start_time_value (0: none)
\* base:      the number the API gives its first page
\* more:      how the response says that there is more: by a full page,
\*            total_record_count_field or total_pages_field_name, or
\*            has_more_field_name
\* bookmark:  the last page has a next token too
\* hidden:    records missing from the page they are on, which the API filters
\*            out or the receiver cannot parse
\* format:    timestamp_format
\* newest:    the newest records come first
\* times:     the timestamps of the records
Configs ==
    [mode : {"none", "offset", "token", "page", "timestamp"},
     size : Nat \ {0}, resized : Nat \ {0}, page_limit : Nat, storage : BOOLEAN,
     start : Nat, base : {0, 1}, more : {"full", "total", "flag"},
     bookmark : BOOLEAN, hidden : SUBSET Items,
     format : {"epoch_us", "epoch_s", "rfc3339"}, newest : BOOLEAN,
     times : [Items -> Nat \ {0}]]

\* config.go Validate: has_more_field_name is for two modes, the intervals are
\* positive and the multiplier is above one.  A starting page is a page the
\* API has; every record has its timestamp.
ASSUME RestApiAssumption ==
    /\ MaxItems \in Nat /\ Second \in Nat \ {0} /\ MaxFaults \in Nat
    /\ MinPollInterval \in Nat \ {0} /\ MaxPollInterval \in Nat
    /\ MinPollInterval <= MaxPollInterval
    /\ BackoffMultiplier \in Nat \ {0, 1}
    /\ Scenarios \subseteq Configs
    /\ \A c \in Scenarios :
        /\ c.more = "flag" => c.mode \in {"offset", "token", "page"}
        /\ c.mode = "page" => c.start >= c.base
        /\ c.mode = "token" => c.start = 0
        /\ c.mode = "timestamp" => c.hidden = {}
        /\ c.newest => c.mode = "timestamp"
        /\ \A i, j \in Items : i < j => c.times[i] <= c.times[j]
    /\ Faults \subseteq FaultKinds

VARIABLES
    cfg,                    \* the scenario, never changed
    held,                   \* how many records the API holds
    delivered, twice,       \* records the next consumer has, more than once
    size,                   \* the page size configured now
    st,                     \* paginationState
    saved,                  \* the stored checkpoint
    pc,                     \* the next step of the polling goroutine
    resp, result,           \* the response it works on, how the cycle ended
    interval,               \* currentPollInterval
    phase,                  \* starting until the first poll is over
    forgot,                 \* a run resumed behind the last one
    failures

api == <<held>>
sink == <<delivered, twice>>
store == <<saved, size, forgot>>
vars == <<cfg, api, sink, store, st, pc, resp, result, interval, phase,
          failures>>

-----------------------------------------------------------------------------
(* Requests, and what the API answers.                                     *)

Least(a, b) == IF a <= b THEN a ELSE b
Greatest(a, b) == IF a >= b THEN a ELSE b

\* what formatting with timestamp_format keeps of a time
Truncated(t) == IF cfg.format = "epoch_us" THEN t ELSE t - (t % Second)

timestampResolution == IF cfg.format = "epoch_s" THEN Second ELSE 1

\* 0 stands for no start time
requestStartTime(s) ==
    IF s.pos = 0 THEN 0
    ELSE Truncated(IF s.pages > 0 \/ s.fromData THEN s.pos + timestampResolution
                   ELSE s.pos)

\* the record after those the request passes over
FirstAsked(s) ==
    CASE cfg.mode = "none" -> 1
      [] cfg.mode \in {"offset", "token"} -> s.pos + 1
      [] cfg.mode = "page" -> (s.pos - cfg.base) * s.size + 1
      [] cfg.mode = "timestamp" ->
            1 + Cardinality({i \in Items : cfg.times[i] < requestStartTime(s)})

\* The page from record "from" to "to" of the "total" the API holds.
Answer(s, n) ==
    LET from == FirstAsked(s)
        last == IF cfg.mode = "none" \/ cfg.newest THEN n
                ELSE Least(from + s.size - 1, n)
        first == IF cfg.newest THEN Greatest(from, n - s.size + 1) ELSE from
    IN [from |-> first, to |-> Greatest(last, first - 1), total |-> n]

Data(r) == (r.from .. r.to) \ cfg.hidden
Count(r) == Cardinality(Data(r))

NoResponse == [from |-> 1, to |-> 0, total |-> 0]

\* the local variables of a poll that is over
PollOver == resp' = NoResponse /\ result' = "none"

-----------------------------------------------------------------------------
(* The pagination state.                                                   *)

newPaginationState(n) ==
    [pos |-> cfg.start, size |-> n, pages |-> 0, fromData |-> FALSE]

At(s, p) == [s EXCEPT !.pos = p]
FromData(s) == [s EXCEPT !.fromData = TRUE]
OnePageMore(s) == [s EXCEPT !.pages = @ + 1]

\* PagesFetched is not part of the JSON
Checkpoint(s) == [s EXCEPT !.pages = 0]

\* the configured size over the stored one, except in timestamp mode; the
\* configured start time over a zero one
reconcileCheckpointWithConfig(s, n) ==
    CASE cfg.mode \in {"offset", "token", "page"} -> [s EXCEPT !.size = n]
      [] cfg.mode = "timestamp" /\ s.pos = 0 -> At(s, cfg.start)
      [] OTHER -> s

explicitHasMore(r) == r.to < r.total

FullPage(s, r) == Count(r) >= s.size

TotalPages(s, r) == (r.total + s.size - 1) \div s.size

parseNumericOffset(s, r) ==
    [st |-> s,
     more |-> CASE cfg.more = "flag" -> explicitHasMore(r)
                [] cfg.more = "total" /\ r.total > 0 -> s.pos + Count(r) < r.total
                [] OTHER -> FullPage(s, r)]

\* the token is kept only if it is followed now
BadNextToken(s, r) ==
    IF (cfg.bookmark \/ r.to < r.total) /\ FullPage(s, r)
    THEN [st |-> OnePageMore(At(s, r.to)), more |-> TRUE]
    ELSE [st |-> s, more |-> FALSE]

\* the token of the API is the position after the page
parseNextToken(s, r) ==
    IF cfg.bookmark \/ r.to < r.total
    THEN [st |-> OnePageMore(At(s, r.to)),
          more |-> IF cfg.more = "flag" THEN explicitHasMore(r) ELSE FullPage(s, r)]
    ELSE [st |-> s, more |-> FALSE]

parsePageSizeResponse(s, r) ==
    [st |-> s,
     more |-> CASE cfg.more = "flag" -> explicitHasMore(r)
                [] cfg.more = "total" /\ r.total > 0 -> s.pos < TotalPages(s, r)
                [] OTHER -> FullPage(s, r)]

\* the newest timestamp of the page, also when the page is the last
parseTimestampResponse(s, r) ==
    IF r.to < r.from THEN [st |-> s, more |-> FALSE]
    ELSE [st |-> IF cfg.times[r.to] > s.pos
                 THEN FromData(At(s, cfg.times[r.to])) ELSE s,
          more |-> r.to - r.from + 1 >= s.size]

parsePaginationResponse(s, r) ==
    CASE cfg.mode = "none" -> [st |-> s, more |-> FALSE]
      [] cfg.mode = "offset" -> parseNumericOffset(s, r)
      [] cfg.mode = "token" -> parseNextToken(s, r)
      [] cfg.mode = "page" -> parsePageSizeResponse(s, r)
      [] cfg.mode = "timestamp" -> parseTimestampResponse(s, r)

\* past the page just consumed; a token is already
AdvancePaginationState(s, r) ==
    CASE cfg.mode = "offset" ->
            OnePageMore(At(s, s.pos + IF Count(r) > 0 THEN Count(r) ELSE s.size))
      [] cfg.mode = "token" -> s
      [] cfg.mode = "page" -> OnePageMore(At(s, s.pos + 1))
      [] cfg.mode = "timestamp" -> OnePageMore(s)

checkPageLimit(s) == cfg.page_limit = 0 \/ s.pages < cfg.page_limit

\* stopping at the limit before moving on
BadHandlePagination(s, r) ==
    LET p == parsePaginationResponse(s, r)
        q == AdvancePaginationState(p.st, r)
    IN IF ~p.more \/ ~checkPageLimit(q) THEN [st |-> p.st, more |-> FALSE]
       ELSE [st |-> q, more |-> TRUE]

handlePagination(s, r) ==
    LET p == parsePaginationResponse(s, r)
        q == AdvancePaginationState(p.st, r)
    IN IF ~p.more THEN p ELSE [st |-> q, more |-> checkPageLimit(q)]

\* the counter is reset before it is looked at
BadLastPageFull(s, r) ==
    Count(r) > 0 /\ cfg.page_limit > 0 /\ ~checkPageLimit(Checkpoint(s))

lastPageFull(s, r) == Count(r) > 0 /\ cfg.page_limit > 0 /\ ~checkPageLimit(s)

-----------------------------------------------------------------------------

Results == {"none", "full", "partial", "error"}

TypeOK ==
    /\ cfg \in Scenarios
    /\ held \in 0 .. MaxItems
    /\ delivered \in SUBSET Items /\ twice \in SUBSET delivered
    /\ size \in {cfg.size, cfg.resized}
    /\ st \in [pos : Nat, size : {cfg.size, cfg.resized}, pages : Nat,
               fromData : BOOLEAN]
    /\ saved = None \/ saved \in [pos : Nat, size : {cfg.size, cfg.resized},
                                  pages : {0}, fromData : BOOLEAN]
    /\ pc \in {"idle", "fetch", "consume", "paginate", "adjust", "down"}
    /\ resp \in [from : Nat \ {0}, to : Nat, total : 0 .. held]
    /\ result \in Results
    /\ interval \in MinPollInterval .. MaxPollInterval
    /\ phase \in {"starting", "running", "stopping", "down"}
    /\ (phase = "down") <=> (pc = "down")
    /\ forgot \in BOOLEAN
    /\ failures \in 0 .. MaxFaults

Init ==
    /\ cfg \in Scenarios
    /\ held = 0
    /\ delivered = {} /\ twice = {}
    /\ size = cfg.size
    /\ st = newPaginationState(cfg.size)
    /\ saved = None
    /\ pc = "fetch" /\ resp = NoResponse /\ result = "none"
    /\ interval = MinPollInterval
    /\ phase = "starting"
    /\ forgot = FALSE
    /\ failures = 0

\* a call fails because the context is cancelled, or because of a fault
Cancelled == phase = "stopping"
Fault(k) == k \in Faults /\ failures < MaxFaults /\ failures' = failures + 1
Fails(k) == (Cancelled /\ UNCHANGED failures) \/ Fault(k)

\* external: a record is added to the list
Grow ==
    /\ held < MaxItems
    /\ held' = held + 1
    /\ UNCHANGED <<cfg, sink, store, st, pc, resp, result, interval, phase, failures>>

\* startPolling: the timer fires
TimerFires ==
    /\ pc = "idle"
    /\ pc' = "fetch"
    /\ UNCHANGED <<cfg, api, sink, store, st, resp, result, interval, phase, failures>>

\* an error ends the cycle; the page counter and the position stay
Abort == pc' = "adjust" /\ result' = "error"

fetchDataPage ==
    /\ pc = "fetch"
    /\ \/ /\ ~Cancelled
          /\ resp' = Answer(st, held)
          /\ pc' = "consume"
          /\ UNCHANGED <<result, failures>>
       \/ Fails("fetch") /\ Abort /\ UNCHANGED resp
    /\ UNCHANGED <<cfg, api, sink, store, st, interval, phase>>

\* a refused page is passed over
BadConsume ==
    /\ pc = "consume"
    /\ \/ /\ delivered' = delivered \cup Data(resp)
          /\ twice' = twice \cup (delivered \cap Data(resp))
          /\ UNCHANGED failures
       \/ Data(resp) # {} /\ Fails("consume") /\ UNCHANGED sink
    /\ pc' = "paginate"
    /\ UNCHANGED <<cfg, api, store, st, resp, result, interval, phase>>

consume ==
    /\ pc = "consume"
    /\ \/ /\ delivered' = delivered \cup Data(resp)
          /\ twice' = twice \cup (delivered \cap Data(resp))
          /\ pc' = "paginate"
          /\ UNCHANGED <<result, failures>>
       \/ Data(resp) # {} /\ Fails("consume") /\ Abort /\ UNCHANGED sink
    /\ UNCHANGED <<cfg, api, store, st, resp, interval, phase>>

\* without a storage extension the client keeps nothing
saveCheckpoint(s) ==
    /\ \/ saved' = (IF cfg.storage THEN Checkpoint(s) ELSE None) /\ UNCHANGED failures
       \/ cfg.storage /\ Fails("save") /\ UNCHANGED saved
    /\ UNCHANGED <<size, forgot>>

\* poll, after consume: another page, or the end of the cycle
Paginate ==
    LET h == handlePagination(st, resp) IN
    /\ pc = "paginate"
    /\ \/ /\ h.more
          /\ st' = h.st
          /\ pc' = "fetch"
          /\ UNCHANGED result
       \/ /\ ~h.more
          /\ result' = IF lastPageFull(h.st, resp) THEN "full" ELSE "partial"
          /\ st' = Checkpoint(h.st)
          /\ pc' = "adjust"
    /\ saveCheckpoint(st')
    /\ UNCHANGED <<cfg, api, sink, resp, interval, phase>>

\* with the first one Start returns
adjustPollInterval ==
    /\ pc = "adjust"
    /\ interval' = IF result = "full" THEN MinPollInterval
                   ELSE Least(interval * BackoffMultiplier, MaxPollInterval)
    /\ pc' = "idle"
    /\ phase' = IF phase = "starting" THEN "running" ELSE phase
    /\ PollOver
    /\ UNCHANGED <<cfg, api, sink, store, st, failures>>

\* Shutdown cancels the context of the polls...
Shutdown ==
    /\ phase = "running"
    /\ Fault("shutdown")
    /\ phase' = "stopping"
    /\ UNCHANGED <<cfg, api, sink, store, st, pc, resp, result, interval>>

\* ... waits for the goroutine and makes a checkpoint
ShutdownEnds ==
    /\ phase = "stopping" /\ pc = "idle"
    /\ phase' = "down" /\ pc' = "down"
    /\ saveCheckpoint(st)
    /\ UNCHANGED <<cfg, api, sink, st, resp, result, interval>>

\* a page that was consumed and not yet passed over is fetched again
Crash ==
    /\ phase # "down"
    /\ Fault("crash")
    /\ phase' = "down" /\ pc' = "down"
    /\ forgot' = (forgot \/ pc = "paginate")
    /\ PollOver
    /\ UNCHANGED <<cfg, api, sink, saved, size, st, interval>>

\* startBase with the page size configured now; a change of the query
\* discards the checkpoint like a failure to load it does
Start ==
    /\ phase = "down"
    /\ size' \in {size, cfg.resized}
    /\ \/ saved # None /\ st' = reconcileCheckpointWithConfig(saved, size')
          /\ UNCHANGED failures
       \/ saved = None /\ st' = newPaginationState(size') /\ UNCHANGED failures
       \/ saved # None /\ Fault("load") /\ st' = newPaginationState(size')
    /\ forgot' = (forgot \/ FirstAsked(st') < FirstAsked(st))
    /\ phase' = "starting" /\ pc' = "fetch" /\ interval' = MinPollInterval
    /\ UNCHANGED <<cfg, api, sink, saved, resp, result>>

Poll == TimerFires \/ fetchDataPage \/ consume \/ Paginate \/ adjustPollInterval

Next == Grow \/ Poll \/ Shutdown \/ ShutdownEnds \/ Crash \/ Start

Spec == Init /\ [][Next]_vars

-----------------------------------------------------------------------------
(* Properties.                                                             *)

\* The records the configured start leaves out are not owed, nor are those
\* the API itself leaves out.
Owed == {i \in Items : i >= FirstAsked(newPaginationState(cfg.size))} \ cfg.hidden

\* No record is passed over: whatever lies before the position in memory or
\* in the checkpoint has been consumed, through failing fetches, consumers and
\* saves, shutdowns, crashes and a changed page size (poll moves the position
\* only after consume, handlePagination, reconcileCheckpointWithConfig).
NothingSkipped ==
    \A i \in Owed \ delivered :
        /\ i >= FirstAsked(st)
        /\ saved # None => i >= FirstAsked(reconcileCheckpointWithConfig(saved, size))

\* The interval grows after a cycle without errors only when the receiver has
\* everything the API held at the last fetch; a cycle cut short by page_limit
\* is followed by another one after min_poll_interval (poll, lastPageFull).
BacksOffWhenCaughtUp ==
    pc = "adjust" /\ result = "partial" =>
        \A i \in Owed : i <= resp.total => i \in delivered

\* Configurations whose position passes over a partial page: the newest
\* timestamp does, unless it is the configured start time itself.
TracksRecords ==
    \/ cfg.mode = "token" /\ cfg.bookmark
    \/ /\ cfg.mode = "timestamp" /\ cfg.format # "rfc3339"
       /\ \A i \in Owed : cfg.times[i] > cfg.start

\* With a token for every page, or timestamps sent at their own resolution, a
\* record is consumed twice only if a run resumed behind the one before it:
\* failing fetches and consumers, the page limit and shutdowns repeat nothing.
NoRepeats == TracksRecords /\ twice # {} => forgot

\* The client and the consumer return and the goroutine runs; its select does
\* not take the timer for ever when the context is cancelled too; a collector
\* that went down is started again.
Fairness == WF_vars(Poll) /\ SF_vars(ShutdownEnds) /\ WF_vars(Start)

FairSpec == Spec /\ Fairness

\* Every record the API holds is consumed in the end, with the page limit and
\* after any failures: no cycle asks for the same page for ever.
EventuallyDelivered ==
    \A i \in Items : i \in Owed /\ i <= held ~> i \in delivered
=============================================================================
