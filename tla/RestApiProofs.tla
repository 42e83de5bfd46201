--------------------------- MODULE RestApiProofs ---------------------------
(* Proofs about RestApi, for every list, configuration and fault bound.    *)
EXTENDS RestApi, FiniteSetTheorems, TLAPS

-----------------------------------------------------------------------------
(* Pages.                                                                  *)

States == [pos : Nat, size : {cfg.size, cfg.resized}, pages : Nat,
           fromData : BOOLEAN]

\* A page number is one the API has.
PageExists(s) == cfg.mode = "page" => s.pos >= cfg.base

\* The steps from one state to another.
LEMMA AtState ==
    ASSUME NEW s \in States, NEW p \in Nat
    PROVE  /\ At(s, p) \in States /\ At(s, p).pos = p /\ At(s, p).size = s.size
           /\ At(s, p).pages = s.pages /\ At(s, p).fromData = s.fromData
  BY DEF At, States

LEMMA OnePageMoreState ==
    ASSUME NEW s \in States
    PROVE  /\ OnePageMore(s) \in States /\ OnePageMore(s).pos = s.pos
           /\ OnePageMore(s).size = s.size /\ OnePageMore(s).fromData = s.fromData
           /\ OnePageMore(s).pages = s.pages + 1
  BY DEF OnePageMore, States

LEMMA FromDataState ==
    ASSUME NEW s \in States
    PROVE  /\ FromData(s) \in States /\ FromData(s).pos = s.pos
           /\ FromData(s).size = s.size /\ FromData(s).fromData = TRUE
           /\ FromData(s).pages = s.pages
  BY DEF FromData, States

LEMMA ConfigFields ==
    ASSUME cfg \in Scenarios
    PROVE  /\ cfg.mode \in {"none", "offset", "token", "page", "timestamp"}
           /\ cfg.size \in Nat \ {0} /\ cfg.resized \in Nat \ {0}
           /\ cfg.page_limit \in Nat /\ cfg.storage \in BOOLEAN
           /\ cfg.start \in Nat /\ cfg.base \in Nat
           /\ cfg.more \in {"full", "total", "flag"}
           /\ cfg.hidden \subseteq Items
           /\ cfg.newest \in BOOLEAN /\ cfg.bookmark \in BOOLEAN
           /\ cfg.newest => cfg.mode = "timestamp"
           /\ cfg.mode = "page" => cfg.start >= cfg.base
           /\ cfg.mode = "timestamp" => cfg.hidden = {}
           /\ \A i \in Items : cfg.times[i] \in Nat \ {0}
           /\ \A i, j \in Items : i < j => cfg.times[i] <= cfg.times[j]
  <1>1. cfg \in Configs
    BY RestApiAssumption
  <1>2. /\ cfg.newest => cfg.mode = "timestamp"
        /\ cfg.mode = "page" => cfg.start >= cfg.base
        /\ cfg.mode = "timestamp" => cfg.hidden = {}
        /\ \A i, j \in Items : i < j => cfg.times[i] <= cfg.times[j]
    BY RestApiAssumption
  <1> QED
    BY <1>1, <1>2 DEF Configs

LEMMA ItemsFinite ==
    /\ IsFiniteSet(Items)
    /\ \A S \in SUBSET Items : IsFiniteSet(S) /\ Cardinality(S) \in Nat
  <1>1. IsFiniteSet(Items)
    BY RestApiAssumption, FS_Interval DEF Items
  <1> QED
    BY <1>1, FS_Subset, FS_CardinalityType

\* A request by timestamp passes over the records before its start time.
LEMMA FirstAskedByTime ==
    ASSUME cfg \in Scenarios, cfg.mode = "timestamp", NEW s,
           requestStartTime(s) \in Int
    PROVE  /\ FirstAsked(s) \in Nat \ {0}
           /\ \A i \in Items :
                i >= FirstAsked(s) <=> cfg.times[i] >= requestStartTime(s)
  <1> DEFINE t == requestStartTime(s)
             S == {i \in Items : cfg.times[i] < t}
  <1>1. FirstAsked(s) = 1 + Cardinality(S)
    BY DEF FirstAsked
  <1>2. S \subseteq Items /\ IsFiniteSet(S) /\ Cardinality(S) \in Nat
    BY ItemsFinite
  <1>3. ASSUME NEW i \in Items, cfg.times[i] < t
        PROVE  i <= Cardinality(S)
    <2>1. i \in Nat /\ \A j \in 1 .. i : j \in Items
      BY RestApiAssumption DEF Items
    <2>2. 1 .. i \subseteq S
      BY <2>1, <1>3, ConfigFields
    <2>3. IsFiniteSet(1 .. i) /\ Cardinality(1 .. i) = i
      <3>1. i >= 1
        BY RestApiAssumption DEF Items
      <3> QED
        BY <2>1, <3>1, FS_Interval
    <2> QED
      BY <2>2, <2>3, <1>2, FS_Subset
  <1>4. ASSUME NEW i \in Items, ~(cfg.times[i] < t)
        PROVE  Cardinality(S) <= i - 1
    <2>1. i \in Nat /\ i >= 1
      BY RestApiAssumption DEF Items
    <2>2. S \subseteq 1 .. (i - 1)
      <3> SUFFICES ASSUME NEW j \in S PROVE j \in 1 .. (i - 1)
        OBVIOUS
      <3>1. j \in Items /\ cfg.times[j] < t /\ j \in Nat /\ j >= 1
        BY RestApiAssumption DEF Items
      <3>2. ~(i < j) /\ i # j
        BY <3>1, <1>4, ConfigFields
      <3> QED
        BY <3>1, <3>2, <2>1
    <2>3. IsFiniteSet(1 .. (i - 1)) /\ Cardinality(1 .. (i - 1)) = i - 1
      BY <2>1, FS_Interval
    <2> QED
      BY <2>2, <2>3, FS_Subset
  <1>5. \A i \in Items : i \in Nat /\ cfg.times[i] \in Nat
    BY RestApiAssumption, ConfigFields DEF Items
  <1> HIDE DEF t, S
  <1>6. \A i \in Items : i >= 1 + Cardinality(S) <=> cfg.times[i] >= t
    <2> TAKE i \in Items
    <2>1. CASE cfg.times[i] < t
      BY <2>1, <1>3, <1>2, <1>5 DEF t
    <2>2. CASE ~(cfg.times[i] < t)
      BY <2>2, <1>4, <1>2, <1>5 DEF t
    <2> QED
      BY <2>1, <2>2
  <1> QED
    BY <1>1, <1>2, <1>6 DEF t

LEMMA StartTimeType ==
    ASSUME cfg \in Scenarios, NEW s \in States
    PROVE  requestStartTime(s) \in Int
  <1>1. timestampResolution \in Nat
    BY RestApiAssumption DEF timestampResolution
  <1>2. \A t \in Nat : Truncated(t) \in Int
    BY RestApiAssumption DEF Truncated
  <1>3. s.pos \in Nat
    BY DEF States
  <1>4. s.pos + timestampResolution \in Nat
    BY <1>1, <1>3
  <1> QED
    BY <1>2, <1>3, <1>4 DEF requestStartTime

\* The product in a page number's position.
LEMMA PageStart ==
    ASSUME NEW a \in Nat, NEW b \in Nat
    PROVE  a * b \in Nat /\ (a + 1) * b = a * b + b
  OBVIOUS

LEMMA FirstAskedType ==
    ASSUME cfg \in Scenarios, NEW s \in States, PageExists(s)
    PROVE  FirstAsked(s) \in Nat \ {0}
  <1> USE ConfigFields
  <1>0. s.pos \in Nat /\ s.size \in Nat
    BY DEF States
  <1>1. CASE cfg.mode = "none"
    BY <1>1 DEF FirstAsked
  <1>2. CASE cfg.mode \in {"offset", "token"}
    BY <1>2, <1>0 DEF FirstAsked
  <1>3. CASE cfg.mode = "page"
    <2>1. s.pos - cfg.base \in Nat
      BY <1>3, <1>0 DEF PageExists
    <2>2. (s.pos - cfg.base) * s.size \in Nat
      BY <2>1, <1>0, PageStart
    <2>3. FirstAsked(s) = (s.pos - cfg.base) * s.size + 1
      BY <1>3 DEF FirstAsked
    <2> QED
      BY <2>2, <2>3
  <1>4. CASE cfg.mode = "timestamp"
    BY <1>4, FirstAskedByTime, StartTimeType
  <1> QED
    BY <1>1, <1>2, <1>3, <1>4

\* What the API returns: a page no longer than asked for, of records it holds.
LEMMA AnswerPage ==
    ASSUME cfg \in Scenarios, NEW s \in States, PageExists(s),
           NEW n \in Nat, NEW a, a = Answer(s, n)
    PROVE  /\ a \in [from : Nat \ {0}, to : Nat, total : {n}]
           /\ a.to >= a.from - 1
           /\ a.to <= n \/ a.to < a.from
           /\ (cfg.newest => s.size >= n) => a.from = FirstAsked(s)
           /\ (cfg.newest => s.size >= n) /\ cfg.mode # "none" =>
                /\ a.to <= a.from + s.size - 1
                /\ a.to < n => a.to = a.from + s.size - 1
  <1>1. FirstAsked(s) \in Nat \ {0} /\ s.size \in Nat \ {0}
    BY FirstAskedType, ConfigFields DEF States
  <1> QED
    BY <1>1, ConfigFields DEF Answer, Least, Greatest

\* The counted records of a page are some of those it spans.
LEMMA CountOfPage ==
    ASSUME cfg \in Scenarios, NEW r \in [from : Nat \ {0}, to : Nat, total : Nat],
           r.to >= r.from - 1
    PROVE  /\ Count(r) \in Nat /\ Count(r) <= r.to - r.from + 1
           /\ cfg.hidden = {} => Count(r) = r.to - r.from + 1
  <1>1. r.from \in Int /\ r.to \in Int
    OBVIOUS
  <1>2. /\ IsFiniteSet(r.from .. r.to)
        /\ Cardinality(r.from .. r.to) = r.to - r.from + 1
    <2>1. \A a, b \in Int : /\ IsFiniteSet(a .. b)
                            /\ Cardinality(a .. b) = IF a > b THEN 0 ELSE b - a + 1
      BY FS_Interval
    <2>2. /\ IsFiniteSet(r.from .. r.to)
          /\ Cardinality(r.from .. r.to) = IF r.from > r.to THEN 0 ELSE r.to - r.from + 1
      BY <1>1, <2>1, Zenon
    <2> DEFINE f == r.from
               t == r.to
    <2>3. f \in Int /\ t \in Int /\ t >= f - 1
      BY <1>1
    <2>4. (IF f > t THEN 0 ELSE t - f + 1) = t - f + 1
      <3> HIDE DEF f, t
      <3> QED
        BY <2>3
    <2> QED
      BY <2>2, <2>4, Zenon
  <1>3. Data(r) \subseteq r.from .. r.to /\ (cfg.hidden = {} => Data(r) = r.from .. r.to)
    BY DEF Data
  <1>4. IsFiniteSet(Data(r)) /\ Cardinality(Data(r)) <= Cardinality(r.from .. r.to)
    BY <1>2, <1>3, FS_Subset
  <1>5. Cardinality(Data(r)) \in Nat
    BY <1>4, FS_CardinalityType
  <1> QED
    BY <1>2, <1>3, <1>4, <1>5 DEF Count

-----------------------------------------------------------------------------
(* Types.                                                                  *)

Responses == [from : Nat \ {0}, to : Nat, total : Nat]

\* A response spans records the API held, or none.
InList(r) == r.to >= r.from - 1 /\ (r.to <= MaxItems \/ r.to < r.from)

\* Parsing a response and moving on keep the type of the pagination state.
LEMMA ParseType ==
    ASSUME cfg \in Scenarios, NEW s \in States, PageExists(s),
           NEW r \in Responses, InList(r), NEW p, p = parsePaginationResponse(s, r)
    PROVE  /\ p.st \in States /\ PageExists(p.st)
           /\ p.st.size = s.size
  <1> USE ConfigFields
  <1>0. Count(r) \in Nat
    BY CountOfPage DEF Responses, InList
  <1>1. CASE cfg.mode = "none"
    BY <1>1 DEF parsePaginationResponse
  <1>2. CASE cfg.mode = "offset"
    <2>1. p = parseNumericOffset(s, r)
      BY <1>2 DEF parsePaginationResponse
    <2>2. p.st = s
      BY <2>1 DEF parseNumericOffset
    <2> QED
      BY <2>2
  <1>3. CASE cfg.mode = "token"
    <2>1. p = parseNextToken(s, r)
      BY <1>3 DEF parsePaginationResponse
    <2>2. r.to \in Nat
      BY DEF Responses
    <2>3. At(s, r.to) \in States /\ At(s, r.to).size = s.size
      BY <2>2, AtState
    <2>4. OnePageMore(At(s, r.to)) \in States
          /\ OnePageMore(At(s, r.to)).size = s.size
      BY <2>3, OnePageMoreState
    <2>5. p.st \in {s, OnePageMore(At(s, r.to))}
      BY <2>1 DEF parseNextToken
    <2> QED
      BY <2>4, <2>5, <1>3 DEF PageExists
  <1>4. CASE cfg.mode = "page"
    <2>1. p = parsePageSizeResponse(s, r)
      BY <1>4 DEF parsePaginationResponse
    <2>2. p.st = s
      BY <2>1 DEF parsePageSizeResponse
    <2> QED
      BY <2>2
  <1>5. CASE cfg.mode = "timestamp"
    <2>1. p = parseTimestampResponse(s, r)
      BY <1>5 DEF parsePaginationResponse
    <2>2. r.from <= r.to => cfg.times[r.to] \in Nat
      BY DEF InList, Responses, Items
    <2>3. PageExists(p.st)
      BY <1>5 DEF PageExists
    <2>4. CASE r.to < r.from
      BY <2>1, <2>3, <2>4 DEF parseTimestampResponse
    <2>5. CASE ~(r.to < r.from)
      <3>1. cfg.times[r.to] \in Nat
        BY <2>2, <2>5 DEF Responses
      <3> DEFINE a == At(s, cfg.times[r.to])
      <3>2. a \in States /\ a.size = s.size
        BY <3>1, AtState
      <3>3. p.st \in {s, FromData(a)}
        BY <2>1, <2>5 DEF parseTimestampResponse
      <3> HIDE DEF a
      <3>4. FromData(a) \in States /\ FromData(a).size = s.size
        BY <3>2, FromDataState
      <3> QED
        BY <3>3, <3>4, <2>3
    <2> QED
      BY <2>4, <2>5
  <1> QED
    BY <1>1, <1>2, <1>3, <1>4, <1>5

LEMMA HandleType ==
    ASSUME cfg \in Scenarios, NEW s \in States, PageExists(s),
           NEW r \in Responses, InList(r), NEW h, h = handlePagination(s, r)
    PROVE  h.st \in States /\ PageExists(h.st)
  <1> USE ConfigFields
  <1> DEFINE p == parsePaginationResponse(s, r)
             q == AdvancePaginationState(p.st, r)
  <1>1. p.st \in States /\ PageExists(p.st)
    BY ParseType
  <1>2. h = IF ~p.more THEN p ELSE [st |-> q, more |-> checkPageLimit(q)]
    BY DEF handlePagination
  <1>3. p.more => cfg.mode # "none"
    BY DEF parsePaginationResponse
  <1>4. Count(r) \in Nat
    BY CountOfPage DEF Responses, InList
  <1> HIDE DEF p
  <1>5. cfg.mode # "none" => q \in States /\ PageExists(q)
    <2>1. p.st.pos \in Nat /\ p.st.size \in Nat
      BY <1>1 DEF States
    <2>2. ASSUME NEW n \in Nat
          PROVE  OnePageMore(At(p.st, n)) \in States
                 /\ OnePageMore(At(p.st, n)).pos = n
      <3>1. At(p.st, n) \in States /\ At(p.st, n).pos = n
        BY <1>1, AtState
      <3> QED
        BY <3>1, OnePageMoreState
    <2>3. CASE cfg.mode = "offset"
      <3>1. p.st.pos + (IF Count(r) > 0 THEN Count(r) ELSE p.st.size) \in Nat
        BY <2>1, <1>4
      <3> QED
        BY <2>2, <2>3, <3>1 DEF AdvancePaginationState, PageExists
    <2>4. CASE cfg.mode = "page"
      BY <2>1, <2>2, <2>4, <1>1 DEF AdvancePaginationState, PageExists
    <2>5. CASE cfg.mode = "timestamp"
      <3>1. q = OnePageMore(p.st)
        BY <2>5 DEF AdvancePaginationState
      <3> QED
        BY <3>1, <2>5, <1>1, OnePageMoreState DEF PageExists
    <2>6. CASE cfg.mode = "token"
      BY <2>6, <1>1 DEF AdvancePaginationState
    <2> QED
      BY <2>3, <2>4, <2>5, <2>6
  <1> QED
    BY <1>1, <1>2, <1>3, <1>5

TInv ==
    /\ TypeOK /\ InList(resp)
    /\ PageExists(st) /\ (saved # None => PageExists(saved))

LEMMA CheckpointType ==
    ASSUME NEW s \in States
    PROVE  Checkpoint(s) \in [pos : Nat, size : {cfg.size, cfg.resized},
                              pages : {0}, fromData : BOOLEAN]
           /\ Checkpoint(s) \in States
           /\ (PageExists(s) => PageExists(Checkpoint(s)))
  BY DEF Checkpoint, States, PageExists

\* Storing a state that has its type keeps that of the checkpoint.
LEMMA SaveType ==
    ASSUME TInv, NEW s \in States, PageExists(s), saveCheckpoint(s), cfg' = cfg
    PROVE  /\ saved' = None \/ saved' \in [pos : Nat, size : {cfg.size, cfg.resized},
                                            pages : {0}, fromData : BOOLEAN]
           /\ saved' # None => PageExists(saved')
           /\ failures' \in 0 .. MaxFaults /\ size' = size /\ forgot' = forgot
  <1>1. saved' \in {saved, None, Checkpoint(s)}
    BY DEF saveCheckpoint
  <1>2. failures' \in 0 .. MaxFaults
    BY RestApiAssumption DEF saveCheckpoint, Fails, Fault, TInv, TypeOK
  <1> QED
    BY <1>1, <1>2, CheckpointType DEF TInv, TypeOK, saveCheckpoint, PageExists

LEMMA NewType ==
    ASSUME cfg \in Scenarios, NEW n \in {cfg.size, cfg.resized}
    PROVE  newPaginationState(n) \in States /\ PageExists(newPaginationState(n))
  BY ConfigFields DEF newPaginationState, States, PageExists

LEMMA ReconcileType ==
    ASSUME cfg \in Scenarios, NEW s \in States, PageExists(s),
           NEW n \in {cfg.size, cfg.resized}
    PROVE  /\ reconcileCheckpointWithConfig(s, n) \in States
           /\ PageExists(reconcileCheckpointWithConfig(s, n))
  <1> DEFINE q == reconcileCheckpointWithConfig(s, n)
  <1> USE ConfigFields
  <1>1. CASE cfg.mode \in {"offset", "token", "page"}
    <2>1. q = [s EXCEPT !.size = n]
      BY <1>1 DEF reconcileCheckpointWithConfig
    <2> QED
      BY <2>1 DEF States, PageExists
  <1>2. CASE cfg.mode = "timestamp" /\ s.pos = 0
    <2>1. q = At(s, cfg.start)
      BY <1>2 DEF reconcileCheckpointWithConfig
    <2> QED
      BY <2>1, <1>2, AtState DEF PageExists
  <1>3. CASE cfg.mode = "none" \/ (cfg.mode = "timestamp" /\ s.pos # 0)
    <2>1. q = s
      BY <1>3 DEF reconcileCheckpointWithConfig
    <2> QED
      BY <2>1
  <1> QED
    BY <1>1, <1>2, <1>3

LEMMA BackoffType ==
    ASSUME NEW a \in MinPollInterval .. MaxPollInterval
    PROVE  Least(a * BackoffMultiplier, MaxPollInterval) \in MinPollInterval .. MaxPollInterval
  <1>1. a \in Nat /\ MinPollInterval <= a /\ a <= MaxPollInterval
        /\ MinPollInterval \in Nat /\ MaxPollInterval \in Nat
    BY RestApiAssumption
  <1>2. PICK b \in Nat : BackoffMultiplier = b + 1
    <2>1. BackoffMultiplier - 1 \in Nat /\ BackoffMultiplier = (BackoffMultiplier - 1) + 1
      BY RestApiAssumption
    <2> QED
      BY <2>1
  <1>3. a * BackoffMultiplier \in Nat /\ a * BackoffMultiplier >= a
    <2>1. b * a \in Nat /\ (b + 1) * a = b * a + a
      BY <1>1, PageStart
    <2>2. a * (b + 1) = (b + 1) * a
      BY <1>1
    <2> QED
      BY <1>1, <1>2, <2>1, <2>2
  <1> QED
    BY <1>1, <1>3 DEF Least

LEMMA TypeInit ==
    ASSUME Init
    PROVE  TInv
  <1>1. cfg \in Scenarios
    BY DEF Init
  <1>2. st \in States /\ PageExists(st)
    BY <1>1, NewType DEF Init
  <1>3. /\ held \in 0 .. MaxItems /\ interval \in MinPollInterval .. MaxPollInterval
        /\ failures \in 0 .. MaxFaults
    BY RestApiAssumption DEF Init
  <1>4. resp \in [from : Nat \ {0}, to : Nat, total : 0 .. held] /\ InList(resp)
    <2>1. resp = [from |-> 1, to |-> 0, total |-> 0] /\ held = 0
      BY DEF Init, NoResponse
    <2> QED
      BY <2>1 DEF InList
  <1>5. forgot \in BOOLEAN
    BY DEF Init
  <1> QED
    BY <1>1, <1>2, <1>3, <1>4, <1>5 DEF Init, TInv, TypeOK, States, Results

LEMMA TypeGrow ==
    ASSUME TInv, Grow
    PROVE  TInv'
  BY RestApiAssumption
     DEF TInv, TypeOK, Grow, sink, store, InList, PageExists, Results

LEMMA TypeTimerFires ==
    ASSUME TInv, TimerFires
    PROVE  TInv'
  BY DEF TInv, TypeOK, TimerFires, api, sink, store, InList, PageExists, Results

LEMMA TypeFetch ==
    ASSUME TInv, fetchDataPage
    PROVE  TInv'
  <1>0. cfg \in Scenarios /\ st \in States /\ PageExists(st) /\ held \in Nat
        /\ held <= MaxItems /\ MaxItems \in Nat
    BY RestApiAssumption DEF TInv, TypeOK, States
  <1>1. CASE resp' = resp
    BY <1>1, RestApiAssumption
       DEF TInv, TypeOK, fetchDataPage, Fails, Fault, Abort, api, sink, store, InList,
           PageExists, Results
  <1>2. CASE resp' = Answer(st, held) /\ pc' = "consume" /\ UNCHANGED <<result, failures>>
    <2>1. /\ resp' \in [from : Nat \ {0}, to : Nat, total : {held}]
          /\ resp'.to >= resp'.from - 1
          /\ resp'.to <= held \/ resp'.to < resp'.from
      BY <1>0, <1>2, AnswerPage
    <2>2. resp' \in [from : Nat \ {0}, to : Nat, total : 0 .. held] /\ InList(resp')
      BY <2>1, <1>0 DEF InList
    <2> QED
      BY <1>2, <2>2 DEF TInv, TypeOK, fetchDataPage, api, sink, store, InList, PageExists,
                        Results
  <1> QED
    BY <1>1, <1>2 DEF fetchDataPage

LEMMA TypeConsume ==
    ASSUME TInv, consume
    PROVE  TInv'
  <1>1. Data(resp) \subseteq Items
    BY RestApiAssumption DEF Data, TInv, InList, TypeOK, Items
  <1>2. delivered' \in SUBSET Items /\ twice' \in SUBSET delivered'
    BY <1>1 DEF consume, TInv, TypeOK, sink
  <1>3. failures' \in 0 .. MaxFaults /\ result' \in Results
    BY RestApiAssumption DEF consume, Fails, Fault, Abort, TInv, TypeOK, Results
  <1>4. pc' \in {"paginate", "adjust"} /\ pc = "consume"
    BY DEF consume, Abort
  <1> QED
    BY <1>2, <1>3, <1>4 DEF TInv, TypeOK, consume, api, store, InList, PageExists

LEMMA TypePaginate ==
    ASSUME TInv, Paginate
    PROVE  TInv'
  <1> DEFINE h == handlePagination(st, resp)
  <1>0. cfg \in Scenarios /\ st \in States /\ PageExists(st) /\ cfg' = cfg
    BY DEF TInv, TypeOK, States, Paginate
  <1>1. resp \in Responses /\ InList(resp)
    BY RestApiAssumption DEF TInv, TypeOK, Responses
  <1>2. h.st \in States /\ PageExists(h.st)
    BY <1>0, <1>1, HandleType
  <1>3. st' \in States /\ PageExists(st')
    <2>1. st' \in {h.st, Checkpoint(h.st)}
      BY DEF Paginate
    <2> QED
      BY <1>2, <2>1, CheckpointType
  <1>4. saveCheckpoint(st')
    BY DEF Paginate
  <1>5. /\ saved' = None \/ saved' \in [pos : Nat, size : {cfg.size, cfg.resized},
                                         pages : {0}, fromData : BOOLEAN]
        /\ saved' # None => PageExists(saved')
        /\ failures' \in 0 .. MaxFaults /\ size' = size /\ forgot' = forgot
    BY <1>0, <1>3, <1>4, SaveType
  <1>6. result' \in Results /\ pc' \in {"fetch", "adjust"} /\ pc = "paginate"
    BY DEF Paginate, Results, TInv, TypeOK
  <1> QED
    BY <1>0, <1>3, <1>5, <1>6 DEF TInv, TypeOK, Paginate, api, sink, InList, PageExists, States

LEMMA TypeAdjust ==
    ASSUME TInv, adjustPollInterval
    PROVE  TInv'
  <1>1. interval' \in MinPollInterval .. MaxPollInterval
    BY BackoffType, RestApiAssumption DEF TInv, TypeOK, adjustPollInterval
  <1> QED
    BY <1>1 DEF TInv, TypeOK, adjustPollInterval, PollOver, NoResponse, api, sink, store,
                InList, PageExists, Results

LEMMA TypeShutdown ==
    ASSUME TInv, Shutdown
    PROVE  TInv'
  BY RestApiAssumption
     DEF TInv, TypeOK, Shutdown, Fault, api, sink, store, InList, PageExists, Results

LEMMA TypeShutdownEnds ==
    ASSUME TInv, ShutdownEnds
    PROVE  TInv'
  <1>1. st \in States /\ PageExists(st) /\ cfg' = cfg /\ saveCheckpoint(st)
    BY DEF TInv, TypeOK, States, ShutdownEnds
  <1>2. /\ saved' = None \/ saved' \in [pos : Nat, size : {cfg.size, cfg.resized},
                                         pages : {0}, fromData : BOOLEAN]
        /\ saved' # None => PageExists(saved')
        /\ failures' \in 0 .. MaxFaults /\ size' = size /\ forgot' = forgot
    BY <1>1, SaveType
  <1> QED
    BY <1>1, <1>2 DEF TInv, TypeOK, ShutdownEnds, api, sink, InList, PageExists, Results

LEMMA TypeCrash ==
    ASSUME TInv, Crash
    PROVE  TInv'
  BY RestApiAssumption
     DEF TInv, TypeOK, Crash, Fault, PollOver, NoResponse, api, sink, InList, PageExists,
         Results

LEMMA TypeStart ==
    ASSUME TInv, Start
    PROVE  TInv'
  <1>0. cfg \in Scenarios /\ cfg' = cfg /\ size' \in {cfg.size, cfg.resized}
    BY DEF TInv, TypeOK, Start
  <1>1. saved # None => saved \in States /\ PageExists(saved)
    BY DEF TInv, TypeOK, States
  <1>2. st' \in States /\ PageExists(st')
    BY <1>0, <1>1, NewType, ReconcileType DEF Start
  <1>3. failures' \in 0 .. MaxFaults /\ forgot' \in BOOLEAN
    BY RestApiAssumption DEF Start, Fault, TInv, TypeOK
  <1> QED
    BY <1>0, <1>2, <1>3, RestApiAssumption
       DEF TInv, TypeOK, Start, api, sink, InList, PageExists, States, Results

LEMMA TypeStep ==
    ASSUME TInv, [Next]_vars
    PROVE  TInv'
  <1>1. CASE UNCHANGED vars
    BY <1>1 DEF vars, api, sink, store, TInv, TypeOK, InList, PageExists, Results
  <1> QED
    BY <1>1, TypeGrow, TypeTimerFires, TypeFetch, TypeConsume, TypePaginate, TypeAdjust,
       TypeShutdown, TypeShutdownEnds, TypeCrash, TypeStart DEF Next, Poll

\* Every variable keeps its type, a page number is one the API has and a
\* response spans records of the list, whatever the configuration.
THEOREM TypeCorrect == Spec => []TypeOK
  <1>1. Init => TInv
    BY TypeInit
  <1>2. TInv /\ [Next]_vars => TInv'
    BY TypeStep
  <1>3. TInv => TypeOK
    BY DEF TInv
  <1> QED
    BY <1>1, <1>2, <1>3, PTL DEF Spec

-----------------------------------------------------------------------------
(* What is passed over.                                                    *)

\* The configurations whose position is the end of what was consumed.  The
\* page size of page mode does not change, total_pages_field_name counts pages
\* from one, the records an API filters out are not counted in its total, the
\* timestamps are apart by what is added to one, as sent, and an API that lists
\* the newest record first has no more than a page of them.
Resumable ==
    /\ cfg.mode = "page" =>
        cfg.resized = cfg.size /\ (cfg.more = "total" => cfg.base = 1)
    /\ cfg.mode = "offset" /\ cfg.hidden # {} => cfg.more # "total"
    /\ cfg.mode = "timestamp" =>
        /\ cfg.newest => cfg.size >= MaxItems /\ cfg.resized >= MaxItems
        /\ Truncated(cfg.start) = cfg.start
        /\ \A i, j \in Items : i < j =>
            Truncated(cfg.times[i] + timestampResolution) <= cfg.times[j]

\* Every record that is still owed is one the state asks for.
Kept(s) == \A i \in Owed \ delivered : i >= FirstAsked(s)

\* A time that is not from the data is the configured one.
StartOrData(s) ==
    cfg.mode = "timestamp" =>
        s.pos >= cfg.start /\ (~s.fromData => s.pos = cfg.start)

PageAsked == pc \in {"consume", "paginate"} => resp = Answer(st, resp.total)

PageConsumed == pc = "paginate" => Data(resp) \subseteq delivered

IInv ==
    /\ TInv
    /\ Resumable
    /\ Kept(st) /\ StartOrData(st)
    /\ saved # None =>
        /\ Kept(saved) /\ StartOrData(saved)
    /\ PageAsked
    /\ PageConsumed

\* Two states that send the same request.
LEMMA SameRequest ==
    ASSUME cfg \in Scenarios, NEW s \in States, NEW q \in States, q.pos = s.pos,
           cfg.mode = "page" => q.size = s.size,
           cfg.mode = "timestamp" => requestStartTime(q) = requestStartTime(s),
           Kept(s)
    PROVE  Kept(q)
  <1>1. FirstAsked(q) = FirstAsked(s)
    BY ConfigFields DEF FirstAsked
  <1> QED
    BY <1>1 DEF Kept

\* A record is owed from the configured start on.
LEMMA KeptNew ==
    ASSUME cfg \in Scenarios, Resumable, NEW n \in {cfg.size, cfg.resized}
    PROVE  Kept(newPaginationState(n)) /\ StartOrData(newPaginationState(n))
  <1> DEFINE s == newPaginationState(cfg.size)
             q == newPaginationState(n)
  <1>1. s \in States /\ q \in States
    BY NewType
  <1>2. Kept(s)
    BY DEF Kept, Owed
  <1>3. q.pos = s.pos /\ q.pages = s.pages /\ q.fromData = s.fromData
        /\ (cfg.mode = "page" => q.size = s.size)
    BY DEF newPaginationState, Resumable
  <1>4. requestStartTime(q) = requestStartTime(s)
    BY <1>3 DEF requestStartTime
  <1>5. q.pos = cfg.start /\ cfg.start \in Nat
    BY ConfigFields DEF newPaginationState
  <1>6. StartOrData(q)
    BY <1>5 DEF StartOrData
  <1> HIDE DEF s, q
  <1>7. Kept(q)
    BY <1>1, <1>2, <1>3, <1>4, SameRequest
  <1> QED
    BY <1>6, <1>7 DEF q

\* With the page counter the request by timestamp may fall back to the
\* configured start, from which everything was owed.
LEMMA KeptCheckpoint ==
    ASSUME cfg \in Scenarios, Resumable, NEW s \in States, Kept(s), StartOrData(s)
    PROVE  Kept(Checkpoint(s)) /\ StartOrData(Checkpoint(s))
  <1> DEFINE q == Checkpoint(s)
             n == newPaginationState(s.size)
  <1>1. q \in States /\ q.pos = s.pos /\ q.size = s.size /\ q.pages = 0
        /\ q.fromData = s.fromData
    BY CheckpointType DEF Checkpoint, States
  <1>2. s.size \in {cfg.size, cfg.resized}
    BY DEF States
  <1>3. n \in States /\ Kept(n) /\ n.pos = cfg.start /\ n.size = s.size
        /\ n.pages = 0 /\ n.fromData = FALSE
    BY <1>2, NewType, KeptNew DEF newPaginationState
  <1> HIDE DEF q, n
  <1>4. StartOrData(q)
    BY <1>1 DEF StartOrData
  <1>5. CASE cfg.mode = "timestamp" /\ ~s.fromData
    <2>1. q.pos = n.pos /\ q.size = n.size
      BY <1>1, <1>3, <1>5 DEF StartOrData
    <2>2. requestStartTime(q) = requestStartTime(n)
      BY <1>1, <1>3, <1>5, <2>1 DEF requestStartTime
    <2> QED
      BY <1>1, <1>3, <1>4, <2>1, <2>2, SameRequest DEF q
  <1>6. CASE ~(cfg.mode = "timestamp" /\ ~s.fromData)
    <2>1. cfg.mode = "timestamp" => requestStartTime(q) = requestStartTime(s)
      BY <1>1, <1>6 DEF requestStartTime
    <2> QED
      BY <1>1, <1>4, <2>1, SameRequest DEF q
  <1> QED
    BY <1>5, <1>6

\* A changed page size moves no position but that of page mode.
LEMMA KeptReconcile ==
    ASSUME cfg \in Scenarios, Resumable, NEW s \in States, Kept(s), StartOrData(s),
           NEW n \in {cfg.size, cfg.resized}
    PROVE  /\ Kept(reconcileCheckpointWithConfig(s, n))
           /\ StartOrData(reconcileCheckpointWithConfig(s, n))
  <1> DEFINE q == reconcileCheckpointWithConfig(s, n)
  <1>0. s.size \in {cfg.size, cfg.resized} /\ cfg.start \in Nat
    BY ConfigFields DEF States
  <1>1. CASE cfg.mode \in {"offset", "token", "page"}
    <2>1. q = [s EXCEPT !.size = n]
      BY <1>1 DEF reconcileCheckpointWithConfig
    <2>2. q \in States /\ q.pos = s.pos /\ q.size = n
      BY <2>1 DEF States
    <2>3. cfg.mode = "page" => q.size = s.size
      BY <1>0, <2>2 DEF Resumable
    <2>4. StartOrData(q)
      BY <1>1 DEF StartOrData
    <2> HIDE DEF q
    <2>5. Kept(q)
      BY <2>2, <2>3, <1>1, SameRequest
    <2> QED
      BY <2>4, <2>5 DEF q
  <1>2. CASE cfg.mode = "timestamp" /\ s.pos = 0
    <2>1. q = At(s, cfg.start)
      BY <1>2 DEF reconcileCheckpointWithConfig
    <2>2. cfg.start = 0
      BY <1>0, <1>2 DEF StartOrData
    <2>3. q \in States /\ q.pos = s.pos /\ q.size = s.size /\ q.pages = s.pages
          /\ q.fromData = s.fromData
      BY <2>1, <2>2, <1>0, <1>2, AtState
    <2> HIDE DEF q
    <2>4. requestStartTime(q) = requestStartTime(s)
      BY <2>3 DEF requestStartTime
    <2>5. StartOrData(q)
      BY <2>3 DEF StartOrData
    <2>6. Kept(q)
      BY <2>3, <2>4, SameRequest
    <2> QED
      BY <2>5, <2>6 DEF q
  <1>3. CASE cfg.mode = "none" \/ (cfg.mode = "timestamp" /\ s.pos # 0)
    <2>1. q = s
      BY <1>3 DEF reconcileCheckpointWithConfig
    <2> QED
      BY <2>1
  <1> QED
    BY <1>1, <1>2, <1>3, ConfigFields

\* A request by timestamp asks for what is at or after its start time.
LEMMA KeptByTime ==
    ASSUME cfg \in Scenarios, cfg.mode = "timestamp", NEW s \in States,
           \A i \in Owed \ delivered : cfg.times[i] >= requestStartTime(s)
    PROVE  Kept(s)
  <1>1. Owed \subseteq Items
    BY DEF Owed
  <1>2. \A i \in Items : i >= FirstAsked(s) <=> cfg.times[i] >= requestStartTime(s)
    BY StartTimeType, FirstAskedByTime
  <1> QED
    BY <1>1, <1>2 DEF Kept

\* The number of pages the API counts, from a total.
LEMMA BeforeLastPage ==
    ASSUME NEW p \in Nat, NEW n \in Nat, NEW k \in Nat \ {0},
           p < (n + k - 1) \div k
    PROVE  p * k < n
  <1>1. n + k - 1 \in Nat
    OBVIOUS
  <1> DEFINE d == (n + k - 1) \div k
  <1>2. d \in Nat /\ k * d <= n + k - 1
    BY <1>1
  <1> HIDE DEF d
  <1>3. p + 1 <= d
    BY <1>2 DEF d
  <1>4. PICK c \in Nat : d = (p + 1) + c
    <2>1. d - (p + 1) \in Nat /\ d = (p + 1) + (d - (p + 1))
      BY <1>2, <1>3
    <2> QED
      BY <2>1
  <1>5. k * d = p * k + k + k * c
    BY <1>4
  <1>6. k * c \in Nat /\ p * k \in Nat
    BY PageStart
  <1> QED
    BY <1>2, <1>5, <1>6

LEMMA AfterLastPage ==
    ASSUME NEW p \in Nat, NEW n \in Nat, NEW k \in Nat \ {0},
           ~(p < (n + k - 1) \div k)
    PROVE  n <= p * k
  <1> DEFINE d == (n + k - 1) \div k
  <1>1. n + k - 1 \in Nat
    OBVIOUS
  <1>2. d \in Nat /\ n + k - 1 < k * d + k
    BY <1>1
  <1> HIDE DEF d
  <1>3. d <= p
    BY <1>2 DEF d
  <1>4. PICK c \in Nat : p = d + c
    <2>1. p - d \in Nat /\ p = d + (p - d)
      BY <1>2, <1>3
    <2> QED
      BY <2>1
  <1>5. p * k = k * d + k * c
    BY <1>2, <1>4
  <1>6. k * c \in Nat /\ k * d \in Nat
    BY <1>2, PageStart
  <1> QED
    BY <1>2, <1>5, <1>6

\* The response to the request of a state, once its records are consumed.
Consumed(s, r) ==
    /\ s \in States /\ PageExists(s) /\ Kept(s) /\ StartOrData(s)
    /\ r \in Responses /\ r.total <= MaxItems /\ r = Answer(s, r.total)
    /\ Data(r) \subseteq delivered

LEMMA ConsumedPage ==
    ASSUME cfg \in Scenarios, Resumable, NEW s, NEW r, Consumed(s, r)
    PROVE  /\ InList(r) /\ r.from = FirstAsked(s) /\ r.from \in Nat \ {0}
           /\ r.to \in Nat /\ r.total \in Nat /\ r.to >= r.from - 1
           /\ s.size \in Nat \ {0} /\ s.pos \in Nat
           /\ cfg.mode # "none" => r.to <= r.from + s.size - 1
           /\ cfg.mode # "none" /\ r.to < r.total => r.to = r.from + s.size - 1
           /\ Count(r) \in Nat /\ Count(r) <= r.to - r.from + 1
           /\ cfg.hidden = {} => Count(r) = r.to - r.from + 1
           /\ \A i \in Owed \ delivered : i \in Items /\ i \in Nat /\ i > r.to
  <1>1. s \in States /\ PageExists(s) /\ r \in Responses /\ r.total \in Nat
        /\ r.total <= MaxItems /\ r = Answer(s, r.total)
    BY DEF Consumed, Responses
  <1>2. s.size \in Nat \ {0} /\ s.pos \in Nat
        /\ s.size \in {cfg.size, cfg.resized}
    BY <1>1, ConfigFields DEF States
  <1>3. cfg.newest => s.size >= r.total
    BY <1>1, <1>2, ConfigFields, RestApiAssumption DEF Resumable
  <1>4. /\ r.to >= r.from - 1
        /\ r.to <= r.total \/ r.to < r.from
        /\ r.from = FirstAsked(s)
        /\ cfg.mode # "none" =>
             /\ r.to <= r.from + s.size - 1
             /\ r.to < r.total => r.to = r.from + s.size - 1
    BY <1>1, <1>3, AnswerPage
  <1>5. r.from \in Nat \ {0} /\ r.to \in Nat
    BY <1>1 DEF Responses
  <1>6. Count(r) \in Nat /\ Count(r) <= r.to - r.from + 1
        /\ (cfg.hidden = {} => Count(r) = r.to - r.from + 1)
    BY <1>1, <1>4, CountOfPage DEF Responses
  <1>7. InList(r)
    BY <1>1, <1>4, <1>5, RestApiAssumption DEF InList
  <1>8. ASSUME NEW i \in Owed \ delivered
        PROVE  i \in Items /\ i \in Nat /\ i > r.to
    <2>1. i \in Items /\ i \in Nat /\ i \notin cfg.hidden
      BY RestApiAssumption DEF Owed, Items
    <2>2. i >= r.from
      BY <1>4 DEF Consumed, Kept
    <2>3. i \notin r.from .. r.to
      BY <2>1 DEF Consumed, Data
    <2> QED
      BY <2>1, <2>2, <2>3, <1>5
  <1> QED
    BY <1>1, <1>2, <1>4, <1>5, <1>6, <1>7, <1>8

\* A state that does not reach past the page keeps the rest.
LEMMA KeptUpTo ==
    ASSUME cfg \in Scenarios, Resumable, NEW s, NEW r, Consumed(s, r),
           NEW q, FirstAsked(q) \in Nat, FirstAsked(q) <= r.to + 1
    PROVE  Kept(q)
  <1>1. r.to \in Nat /\ \A i \in Owed \ delivered : i \in Nat /\ i > r.to
    BY ConsumedPage
  <1> QED
    BY <1>1 DEF Kept

\* Offset mode: past the records counted, or past a page all of whose records
\* are missing.
LEMMA KeptOffset ==
    ASSUME cfg \in Scenarios, Resumable, NEW s, NEW r, Consumed(s, r),
           cfg.mode = "offset", NEW h, h = handlePagination(s, r)
    PROVE  Kept(h.st)
  <1> DEFINE p == parseNumericOffset(s, r)
             n == s.pos + (IF Count(r) > 0 THEN Count(r) ELSE s.size)
             q == OnePageMore(At(s, n))
  <1>0. s \in States /\ Kept(s)
    BY DEF Consumed
  <1>1. h = IF ~p.more THEN p ELSE [st |-> AdvancePaginationState(p.st, r),
                                    more |-> checkPageLimit(AdvancePaginationState(p.st, r))]
    BY DEF handlePagination, parsePaginationResponse
  <1>2. p.st = s
    BY DEF parseNumericOffset
  <1>3. AdvancePaginationState(s, r) = q
    BY DEF AdvancePaginationState
  <1>4. p.more = (CASE cfg.more = "flag" -> explicitHasMore(r)
                    [] cfg.more = "total" /\ r.total > 0 -> s.pos + Count(r) < r.total
                    [] OTHER -> FullPage(s, r))
    BY DEF parseNumericOffset
  <1> HIDE DEF p
  <1>5. CASE ~p.more
    BY <1>0, <1>1, <1>2, <1>5
  <1>6. CASE p.more
    <2>1. h.st = q
      BY <1>1, <1>2, <1>3, <1>6
    <2>2. FirstAsked(s) = s.pos + 1
      BY DEF FirstAsked
    <2>3. n \in Nat /\ n <= r.to
      <3>1. CASE Count(r) > 0
        BY <3>1, <2>2, ConsumedPage
      <3>2. CASE Count(r) = 0
        <4>1. r.to < r.total
          <5>1. CASE cfg.more = "flag"
            BY <1>4, <1>6, <5>1 DEF explicitHasMore
          <5>2. CASE cfg.more = "total" /\ r.total > 0
            <6>1. cfg.hidden = {}
              BY <5>2 DEF Resumable
            <6>2. s.pos + Count(r) < r.total
              BY <1>4, <1>6, <5>2
            <6> QED
              BY <6>1, <6>2, <3>2, <2>2, ConsumedPage
          <5>3. CASE cfg.more # "flag" /\ ~(cfg.more = "total" /\ r.total > 0)
            <6>1. Count(r) >= s.size
              BY <1>4, <1>6, <5>3 DEF FullPage
            <6> QED
              BY <6>1, <3>2, ConsumedPage
          <5> QED
            BY <5>1, <5>2, <5>3
        <4> QED
          BY <4>1, <3>2, <2>2, ConsumedPage
      <3>3. Count(r) \in Nat
        BY ConsumedPage
      <3> QED
        BY <3>1, <3>2, <3>3
    <2> HIDE DEF n
    <2>4. At(s, n) \in States /\ At(s, n).pos = n
      BY <1>0, <2>3, AtState
    <2>5. q.pos = n
      BY <2>4, OnePageMoreState
    <2>6. FirstAsked(q) = n + 1
      BY <2>5 DEF FirstAsked
    <2> HIDE DEF q
    <2>7. FirstAsked(q) \in Nat /\ FirstAsked(q) <= r.to + 1
      BY <2>3, <2>6, ConsumedPage
    <2> QED
      BY <2>1, <2>7, KeptUpTo
  <1> QED
    BY <1>5, <1>6

\* Token mode: the token is the position after the page.
LEMMA KeptToken ==
    ASSUME cfg \in Scenarios, Resumable, NEW s, NEW r, Consumed(s, r),
           cfg.mode = "token", NEW h, h = handlePagination(s, r)
    PROVE  Kept(h.st)
  <1> DEFINE p == parseNextToken(s, r)
             q == OnePageMore(At(s, r.to))
  <1>0. s \in States /\ Kept(s) /\ r.to \in Nat
    BY ConsumedPage DEF Consumed
  <1>1. h.st = p.st
    BY DEF handlePagination, parsePaginationResponse, AdvancePaginationState
  <1>2. p.st \in {s, q}
    BY DEF parseNextToken
  <1>3. At(s, r.to) \in States /\ At(s, r.to).pos = r.to
    BY <1>0, AtState
  <1>4. q.pos = r.to
    BY <1>3, OnePageMoreState
  <1>5. FirstAsked(q) = r.to + 1
    BY <1>4 DEF FirstAsked
  <1> HIDE DEF p, q
  <1>6. Kept(q)
    BY <1>0, <1>5, KeptUpTo
  <1> QED
    BY <1>0, <1>1, <1>2, <1>6

\* Page mode: only a full page is passed.
LEMMA KeptPage ==
    ASSUME cfg \in Scenarios, Resumable, NEW s, NEW r, Consumed(s, r),
           cfg.mode = "page", NEW h, h = handlePagination(s, r)
    PROVE  Kept(h.st)
  <1> DEFINE p == parsePageSizeResponse(s, r)
             n == s.pos + 1
             q == OnePageMore(At(s, n))
             b == s.pos - cfg.base
  <1>0. s \in States /\ Kept(s)
    BY DEF Consumed
  <1>1. h = IF ~p.more THEN p ELSE [st |-> AdvancePaginationState(p.st, r),
                                    more |-> checkPageLimit(AdvancePaginationState(p.st, r))]
    BY DEF handlePagination, parsePaginationResponse
  <1>2. p.st = s
    BY DEF parsePageSizeResponse
  <1>3. AdvancePaginationState(s, r) = q
    BY DEF AdvancePaginationState
  <1>4. p.more = (CASE cfg.more = "flag" -> explicitHasMore(r)
                    [] cfg.more = "total" /\ r.total > 0 -> s.pos < TotalPages(s, r)
                    [] OTHER -> FullPage(s, r))
    BY DEF parsePageSizeResponse
  <1> HIDE DEF p
  <1>5. CASE ~p.more
    BY <1>0, <1>1, <1>2, <1>5
  <1>6. CASE p.more
    <2>1. h.st = q
      BY <1>1, <1>2, <1>3, <1>6
    <2>2. FirstAsked(s) = b * s.size + 1
      BY DEF FirstAsked
    <2>3. b \in Nat /\ s.size \in Nat \ {0}
      BY ConfigFields, ConsumedPage DEF Consumed, PageExists
    <2>4. b * s.size \in Nat /\ (b + 1) * s.size = b * s.size + s.size
      BY <2>3, PageStart
    <2>5. r.to >= r.from + s.size - 1
      <3>1. CASE cfg.more = "flag"
        <4>1. r.to < r.total
          BY <1>4, <1>6, <3>1 DEF explicitHasMore
        <4> QED
          BY <4>1, ConsumedPage
      <3>2. CASE cfg.more = "total" /\ r.total > 0
        <4>1. cfg.base = 1 /\ s.pos < (r.total + s.size - 1) \div s.size
          BY <1>4, <1>6, <3>2 DEF TotalPages, Resumable
        <4>2. s.pos * s.size < r.total
          BY <4>1, ConsumedPage, BeforeLastPage
        <4>3. s.pos = b + 1
          BY <4>1, ConsumedPage
        <4>4. r.from + s.size - 1 < r.total
          BY <4>2, <4>3, <2>4, <2>2, <2>3, ConsumedPage
        <4> QED
          BY <4>4, <2>3, ConsumedPage
      <3>3. CASE cfg.more # "flag" /\ ~(cfg.more = "total" /\ r.total > 0)
        <4>1. Count(r) >= s.size
          BY <1>4, <1>6, <3>3 DEF FullPage
        <4> QED
          BY <4>1, ConsumedPage
      <3> QED
        BY <3>1, <3>2, <3>3
    <2>6. n \in Nat /\ n - cfg.base = b + 1
      BY ConsumedPage, ConfigFields
    <2> HIDE DEF n
    <2>7. At(s, n) \in States /\ At(s, n).pos = n /\ At(s, n).size = s.size
      BY <1>0, <2>6, AtState
    <2>8. q.pos = n /\ q.size = s.size
      BY <2>7, OnePageMoreState
    <2>9. FirstAsked(q) = (n - cfg.base) * s.size + 1
      BY <2>8 DEF FirstAsked
    <2> HIDE DEF q, b
    <2>10. FirstAsked(q) = b * s.size + s.size + 1
      BY <2>9, <2>6, <2>4
    <2>11. FirstAsked(q) \in Nat /\ FirstAsked(q) <= r.to + 1
      <3>1. r.from = b * s.size + 1 /\ r.to \in Nat
        BY <2>2, ConsumedPage
      <3> QED
        BY <3>1, <2>10, <2>5, <2>4, <2>3
    <2> QED
      BY <2>1, <2>11, KeptUpTo
  <1> QED
    BY <1>5, <1>6

\* Timestamp mode: the newest timestamp of the page and the next one differ by
\* what is added to it; a timestamp that is not newer is the one asked for.
LEMMA KeptTimestamp ==
    ASSUME cfg \in Scenarios, Resumable, NEW s, NEW r, Consumed(s, r),
           cfg.mode = "timestamp", NEW h, h = handlePagination(s, r)
    PROVE  Kept(h.st) /\ StartOrData(h.st)
  <1> DEFINE p == parseTimestampResponse(s, r)
             q == OnePageMore(p.st)
  <1>0. s \in States /\ Kept(s) /\ StartOrData(s) /\ s.pos \in Nat /\ s.pages \in Nat
    BY DEF Consumed, States
  <1>1. h = IF ~p.more THEN p ELSE [st |-> AdvancePaginationState(p.st, r),
                                    more |-> checkPageLimit(AdvancePaginationState(p.st, r))]
    BY DEF handlePagination, parsePaginationResponse
  <1>2. AdvancePaginationState(p.st, r) = q
    BY DEF AdvancePaginationState
  <1>3. h.st \in {p.st, q}
    BY <1>1, <1>2
  <1>4. CASE r.to < r.from
    <2>1. p = [st |-> s, more |-> FALSE]
      BY <1>4 DEF parseTimestampResponse
    <2>2. h.st = s
      BY <1>1, <2>1
    <2> QED
      BY <1>0, <2>2
  <1>5. CASE ~(r.to < r.from)
    <2> DEFINE T == cfg.times[r.to]
    <2>1. r.to \in Items /\ T \in Nat \ {0} /\ r.from \in Nat \ {0} /\ r.from <= r.to
      <3>1. r.to \in Items /\ r.from \in Nat \ {0} /\ r.from <= r.to
        BY <1>5, ConsumedPage, RestApiAssumption DEF InList, Items
      <3> QED
        BY <3>1, ConfigFields
    <2>2. p.st = IF T > s.pos THEN FromData(At(s, T)) ELSE s
      BY <1>5 DEF parseTimestampResponse
    <2> HIDE DEF p
    <2>3. \A i \in Owed \ delivered :
            Truncated(T + timestampResolution) <= cfg.times[i]
      BY <2>1, ConsumedPage DEF Resumable
    <2>4. CASE T > s.pos
      <3> DEFINE a == At(s, T)
                 f == FromData(a)
      <3>1. a \in States /\ a.pos = T
        BY <1>0, <2>1, AtState
      <3>2. p.st = f
        BY <2>2, <2>4
      <3> HIDE DEF a
      <3>3. f \in States /\ f.pos = T /\ f.fromData = TRUE
        BY <3>1, FromDataState
      <3> HIDE DEF f
      <3>4. q \in States /\ q.pos = T /\ q.fromData = TRUE
        BY <3>2, <3>3, OnePageMoreState
      <3> HIDE DEF q, T
      <3>5. ASSUME NEW x \in States, x.pos = T, x.fromData = TRUE
            PROVE  Kept(x) /\ StartOrData(x)
        <4>1. requestStartTime(x) = Truncated(T + timestampResolution)
          BY <3>5, <2>1 DEF requestStartTime
        <4>2. \A i \in Owed \ delivered : cfg.times[i] >= requestStartTime(x)
          <5> SUFFICES ASSUME NEW i \in Owed \ delivered
                       PROVE  cfg.times[i] >= requestStartTime(x)
            OBVIOUS
          <5>1. Truncated(T + timestampResolution) <= cfg.times[i]
            BY <2>3
          <5>2. cfg.times[i] \in Nat
            BY ConfigFields DEF Owed
          <5>3. requestStartTime(x) \in Int
            BY StartTimeType
          <5> QED
            BY <5>1, <5>2, <5>3, <4>1
        <4>3. Kept(x)
          BY <4>2, KeptByTime
        <4>4. x.pos >= cfg.start
          BY <3>5, <2>1, <2>4, <1>0, ConfigFields DEF StartOrData
        <4> QED
          BY <4>3, <4>4, <3>5 DEF StartOrData
      <3> QED
        BY <1>3, <3>2, <3>3, <3>4, <3>5
    <2>5. CASE ~(T > s.pos)
      <3>1. p.st = s
        BY <2>2, <2>5
      <3>2. q \in States /\ q.pos = s.pos /\ q.size = s.size /\ q.fromData = s.fromData
            /\ q.pages = s.pages + 1
        BY <3>1, <1>0, OnePageMoreState
      <3>3. StartOrData(q)
        BY <3>2, <1>0 DEF StartOrData
      <3> HIDE DEF q
      <3>4. s.pos # 0
        BY <2>1, <2>5
      <3>5. requestStartTime(q) = Truncated(s.pos + timestampResolution)
        BY <3>2, <3>4, <1>0 DEF requestStartTime
      <3>6. CASE s.pages > 0 \/ s.fromData
        <4>1. requestStartTime(q) = requestStartTime(s)
          BY <3>4, <3>5, <3>6 DEF requestStartTime
        <4>2. Kept(q)
          BY <4>1, <3>2, <1>0, SameRequest
        <4> QED
          BY <1>3, <3>1, <1>0, <3>3, <4>2
      <3>7. CASE ~(s.pages > 0 \/ s.fromData)
        <4>1. s.pos = cfg.start
          BY <3>7, <1>0 DEF StartOrData
        <4>2. requestStartTime(s) = s.pos
          BY <3>4, <3>7, <4>1 DEF requestStartTime, Resumable
        <4>3. r.to >= FirstAsked(s)
          BY <2>1, ConsumedPage
        <4>4. T >= requestStartTime(s)
          BY <4>3, <2>1, <1>0, StartTimeType, FirstAskedByTime
        <4>5. T = s.pos
          BY <4>2, <4>4, <2>5, <2>1, <1>0
        <4>6. \A i \in Owed \ delivered : cfg.times[i] >= requestStartTime(q)
          <5> SUFFICES ASSUME NEW i \in Owed \ delivered
                       PROVE  cfg.times[i] >= requestStartTime(q)
            OBVIOUS
          <5>1. requestStartTime(q) <= cfg.times[i]
            BY <2>3, <3>5, <4>5
          <5>2. cfg.times[i] \in Nat
            BY ConfigFields DEF Owed
          <5>3. requestStartTime(q) \in Int
            BY <3>2, StartTimeType
          <5> QED
            BY <5>1, <5>2, <5>3
        <4>7. Kept(q)
          BY <4>6, <3>2, KeptByTime
        <4> QED
          BY <1>3, <3>1, <1>0, <3>3, <4>7
      <3> QED
        BY <3>6, <3>7
    <2> QED
      BY <2>4, <2>5
  <1> QED
    BY <1>4, <1>5

\* handlePagination moves past nothing that is still owed.
LEMMA KeptHandle ==
    ASSUME cfg \in Scenarios, Resumable, NEW s, NEW r, Consumed(s, r),
           NEW h, h = handlePagination(s, r)
    PROVE  Kept(h.st) /\ StartOrData(h.st)
  <1>1. cfg.mode \in {"none", "offset", "token", "page", "timestamp"}
    BY ConfigFields
  <1>2. CASE cfg.mode = "none"
    <2>1. parsePaginationResponse(s, r) = [st |-> s, more |-> FALSE]
      BY <1>2 DEF parsePaginationResponse
    <2>2. h.st = s
      BY <2>1 DEF handlePagination
    <2> QED
      BY <2>2 DEF Consumed
  <1>3. cfg.mode # "timestamp" => StartOrData(h.st)
    BY DEF StartOrData
  <1> QED
    BY <1>1, <1>2, <1>3, KeptOffset, KeptToken, KeptPage, KeptTimestamp

-----------------------------------------------------------------------------
(* The configuration of a behaviour does not change.                       *)

LEMMA SameFirstAsked ==
    ASSUME cfg' = cfg
    PROVE  /\ FirstAsked(st)' = FirstAsked(st')
           /\ FirstAsked(saved)' = FirstAsked(saved')
           /\ FirstAsked(newPaginationState(cfg.size))'
                = FirstAsked(newPaginationState(cfg.size))
  BY DEF FirstAsked, requestStartTime, Truncated, timestampResolution, newPaginationState

LEMMA SameConfig ==
    ASSUME cfg' = cfg
    PROVE  /\ Owed' = Owed
           /\ Resumable' = Resumable
           /\ Answer(st, resp.total)' = Answer(st', resp'.total)
           /\ Data(resp)' = Data(resp')
           /\ StartOrData(st)' = StartOrData(st')
           /\ StartOrData(saved)' = StartOrData(saved')
  <1>1. Owed' = Owed
    BY SameFirstAsked DEF Owed
  <1>2. Resumable' = Resumable
    BY DEF Resumable, Truncated, timestampResolution
  <1>3. Answer(st, resp.total)' = Answer(st', resp'.total)
    BY SameFirstAsked DEF Answer, Least, Greatest
  <1>4. Data(resp)' = Data(resp')
    BY DEF Data
  <1>5. StartOrData(st)' = StartOrData(st') /\ StartOrData(saved)' = StartOrData(saved')
    BY DEF StartOrData
  <1> QED
    BY <1>1, <1>2, <1>3, <1>4, <1>5

\* What is delivered is not owed any more.
LEMMA KeptInNext ==
    ASSUME cfg' = cfg, delivered \subseteq delivered', TInv', Resumable,
           Kept(st'), StartOrData(st'),
           saved' # None => Kept(saved') /\ StartOrData(saved'),
           pc' \in {"consume", "paginate"} => resp' = Answer(st', resp'.total),
           pc' = "paginate" => Data(resp') \subseteq delivered'
    PROVE  IInv'
  <1>1. Kept(st)'
    BY SameFirstAsked, SameConfig DEF Kept
  <1>2. (saved # None)' => Kept(saved)'
    BY SameFirstAsked, SameConfig DEF Kept
  <1>3. StartOrData(st)' /\ ((saved # None)' => StartOrData(saved)') /\ Resumable'
    BY SameConfig
  <1>4. PageAsked' /\ PageConsumed'
    BY SameConfig DEF PageAsked, PageConsumed
  <1> QED
    BY <1>1, <1>2, <1>3, <1>4 DEF IInv

LEMMA IInvInit ==
    ASSUME Init, Resumable
    PROVE  IInv
  <1>1. TInv
    BY TypeInit
  <1>2. Kept(st) /\ StartOrData(st)
    BY KeptNew DEF Init
  <1> QED
    BY <1>1, <1>2 DEF Init, IInv, PageAsked, PageConsumed

\* Storing a state that keeps what is owed.
LEMMA SaveKept ==
    ASSUME IInv, NEW s \in States, Kept(s), StartOrData(s), saveCheckpoint(s)
    PROVE  saved' # None => Kept(saved') /\ StartOrData(saved')
  <1>1. saved' \in {saved, None, Checkpoint(s)}
    BY DEF saveCheckpoint
  <1>2. Kept(Checkpoint(s)) /\ StartOrData(Checkpoint(s))
    BY KeptCheckpoint DEF IInv, TInv, TypeOK
  <1> QED
    BY <1>1, <1>2 DEF IInv

LEMMA IInvPaginate ==
    ASSUME IInv, Paginate
    PROVE  IInv'
  <1> DEFINE h == handlePagination(st, resp)
  <1>0. /\ TInv /\ cfg \in Scenarios /\ Resumable /\ st \in States /\ PageExists(st)
        /\ pc = "paginate"
    BY DEF IInv, TInv, TypeOK, States, Paginate
  <1>1. resp \in Responses /\ InList(resp) /\ resp.total <= MaxItems
    BY RestApiAssumption DEF IInv, TInv, TypeOK, Responses
  <1>2. Consumed(st, resp)
    BY <1>0, <1>1 DEF Consumed, IInv, PageAsked, PageConsumed
  <1>3. h.st \in States /\ Kept(h.st) /\ StartOrData(h.st)
    BY <1>0, <1>1, <1>2, HandleType, KeptHandle
  <1>4. st' \in {h.st, Checkpoint(h.st)}
    BY DEF Paginate
  <1> HIDE DEF h
  <1>5. st' \in States /\ Kept(st') /\ StartOrData(st')
    BY <1>0, <1>3, <1>4, CheckpointType, KeptCheckpoint
  <1>6. saved' # None => Kept(saved') /\ StartOrData(saved')
    BY <1>5, SaveKept DEF Paginate
  <1>7. TInv'
    BY <1>0, TypePaginate
  <1>8. cfg' = cfg /\ delivered' = delivered /\ pc' \in {"fetch", "adjust"}
    BY DEF Paginate, sink
  <1> QED
    BY <1>0, <1>5, <1>6, <1>7, <1>8, KeptInNext

LEMMA IInvFetch ==
    ASSUME IInv, fetchDataPage
    PROVE  IInv'
  <1>1. TInv' /\ Resumable
    BY TypeFetch DEF IInv
  <1>2. cfg' = cfg /\ delivered' = delivered /\ st' = st /\ saved' = saved
    BY DEF fetchDataPage, sink, store
  <1>3. pc' \in {"consume", "paginate"} => resp' = Answer(st', resp'.total) /\ pc' = "consume"
    <2>1. CASE pc' = "adjust"
      BY <2>1
    <2>2. CASE resp' = Answer(st, held) /\ pc' = "consume"
      <3>1. Answer(st, held).total = held
        BY DEF Answer
      <3> QED
        BY <2>2, <3>1, <1>2
    <2> QED
      BY <2>1, <2>2 DEF fetchDataPage, Abort
  <1> QED
    BY <1>1, <1>2, <1>3, KeptInNext DEF IInv

LEMMA IInvConsume ==
    ASSUME IInv, consume
    PROVE  IInv'
  <1>1. TInv' /\ Resumable
    BY TypeConsume DEF IInv
  <1>2. cfg' = cfg /\ st' = st /\ saved' = saved /\ resp' = resp /\ pc = "consume"
    BY DEF consume, store
  <1>3. delivered \subseteq delivered'
        /\ (pc' = "paginate" => Data(resp) \subseteq delivered')
    BY DEF consume, sink, Abort
  <1> QED
    BY <1>1, <1>2, <1>3, KeptInNext DEF IInv, PageAsked

LEMMA IInvStart ==
    ASSUME IInv, Start
    PROVE  IInv'
  <1>1. TInv' /\ Resumable /\ cfg \in Scenarios /\ size' \in {cfg.size, cfg.resized}
    BY TypeStart DEF IInv, TInv, TypeOK, Start
  <1>2. cfg' = cfg /\ saved' = saved /\ delivered' = delivered /\ pc' = "fetch"
    BY DEF Start, sink
  <1>3. saved # None => saved \in States /\ Kept(saved) /\ StartOrData(saved)
    BY DEF IInv, TInv, TypeOK, States
  <1>4. Kept(st') /\ StartOrData(st')
    <2>1. CASE saved # None /\ st' = reconcileCheckpointWithConfig(saved, size')
      BY <2>1, <1>1, <1>3, KeptReconcile
    <2>2. CASE st' = newPaginationState(size')
      BY <2>2, <1>1, KeptNew
    <2> QED
      BY <2>1, <2>2 DEF Start
  <1> QED
    BY <1>1, <1>2, <1>3, <1>4, KeptInNext

LEMMA IInvShutdownEnds ==
    ASSUME IInv, ShutdownEnds
    PROVE  IInv'
  <1>1. TInv' /\ Resumable /\ st \in States
    BY TypeShutdownEnds DEF IInv, TInv, TypeOK, States
  <1>2. cfg' = cfg /\ delivered' = delivered /\ st' = st /\ pc' = "down"
    BY DEF ShutdownEnds, sink
  <1>3. saved' # None => Kept(saved') /\ StartOrData(saved')
    BY <1>1, SaveKept DEF ShutdownEnds, IInv
  <1> QED
    BY <1>1, <1>2, <1>3, KeptInNext DEF IInv

\* The steps that touch neither the positions nor what is delivered.
LEMMA IInvOther ==
    ASSUME IInv,
           Grow \/ TimerFires \/ adjustPollInterval \/ Shutdown \/ Crash \/ UNCHANGED vars
    PROVE  IInv'
  <1>1. TInv' /\ Resumable
    <2>1. [Next]_vars
      BY DEF Next, Poll
    <2> QED
      BY <2>1, TypeStep DEF IInv
  <1>2. cfg' = cfg /\ delivered' = delivered /\ st' = st /\ saved' = saved
    BY DEF Grow, TimerFires, adjustPollInterval, Shutdown, Crash, vars, sink, store
  <1>3. (pc' = pc /\ resp' = resp) \/ pc' \in {"fetch", "idle", "down"}
    BY DEF Grow, TimerFires, adjustPollInterval, Shutdown, Crash, vars
  <1>4. pc' \in {"consume", "paginate"} => resp' = Answer(st', resp'.total)
    BY <1>2, <1>3 DEF IInv, PageAsked
  <1>5. pc' = "paginate" => Data(resp') \subseteq delivered'
    BY <1>2, <1>3 DEF IInv, PageConsumed
  <1> QED
    BY <1>1, <1>2, <1>4, <1>5, KeptInNext DEF IInv

LEMMA IInvStep ==
    ASSUME IInv, [Next]_vars
    PROVE  IInv'
  BY IInvPaginate, IInvFetch, IInvConsume, IInvStart, IInvShutdownEnds, IInvOther
     DEF Next, Poll

LEMMA IInvNothingSkipped ==
    ASSUME IInv
    PROVE  NothingSkipped
  <1>1. Kept(st) /\ cfg \in Scenarios /\ Resumable /\ size \in {cfg.size, cfg.resized}
    BY DEF IInv, TInv, TypeOK
  <1>2. saved # None => Kept(reconcileCheckpointWithConfig(saved, size))
    BY <1>1, KeptReconcile DEF IInv, TInv, TypeOK, States
  <1> QED
    BY <1>1, <1>2 DEF NothingSkipped, Kept

\* With a configuration whose position is the end of what was consumed no
\* record is passed over, for every list, page size, page limit and number of
\* failing fetches, consumers, saves and loads, shutdowns and crashes (poll
\* moves the position only after consume, handlePagination,
\* reconcileCheckpointWithConfig).
THEOREM NothingSkippedCorrect == Spec /\ Resumable => []NothingSkipped
  <1>1. Init /\ Resumable => IInv
    BY IInvInit
  <1>2. IInv /\ [Next]_vars => IInv'
    BY IInvStep
  <1>3. IInv => NothingSkipped
    BY IInvNothingSkipped
  <1> QED
    BY <1>1, <1>2, <1>3, PTL DEF Spec

-----------------------------------------------------------------------------
(* When the receiver backs off.                                            *)

\* The response tells whether there is more: no record is missing from a page
\* or, without page_limit, has_more_field_name says so.  (A page that all
\* records are missing from backs off at page_limit, whatever has_more says.)
TellsMore ==
    \/ cfg.hidden = {} \/ cfg.mode = "none"
    \/ cfg.more = "flag" /\ cfg.page_limit = 0

\* The page after which parsePaginationResponse sees no more is the last.
LEMMA NoMore ==
    ASSUME cfg \in Scenarios, Resumable, TellsMore, NEW s, NEW r, Consumed(s, r),
           ~parsePaginationResponse(s, r).more
    PROVE  r.to >= r.total
  <1> DEFINE p == parsePaginationResponse(s, r)
  <1>0. cfg.mode \in {"none", "offset", "token", "page", "timestamp"}
        /\ cfg.more \in {"full", "total", "flag"}
        /\ (cfg.more = "flag" => cfg.mode \in {"offset", "token", "page"})
    BY ConfigFields, RestApiAssumption
  <1>1. /\ r.from = FirstAsked(s) /\ r.from \in Nat \ {0}
        /\ r.to \in Nat /\ r.total \in Nat /\ r.to >= r.from - 1
        /\ s.size \in Nat \ {0} /\ s.pos \in Nat
        /\ cfg.mode # "none" /\ r.to < r.total => r.to = r.from + s.size - 1
        /\ Count(r) \in Nat
        /\ cfg.hidden = {} => Count(r) = r.to - r.from + 1
    BY ConsumedPage
  <1>p. ~p.more
    OBVIOUS
  <1>2. CASE cfg.mode = "none"
    <2>1. r = Answer(s, r.total)
      BY DEF Consumed
    <2>2. ~cfg.newest /\ FirstAsked(s) = 1
      BY <1>2, ConfigFields DEF FirstAsked
    <2>3. r.to = Greatest(r.total, 0)
      BY <1>2, <2>1, <2>2 DEF Answer
    <2> QED
      BY <1>1, <2>3 DEF Greatest
  <1>4. CASE cfg.mode # "none" /\ cfg.more # "flag" /\ ~FullPage(s, r)
    <2>1. cfg.hidden = {}
      BY <1>4 DEF TellsMore
    <2> QED
      BY <1>1, <1>4, <2>1 DEF FullPage
  <1>5. CASE cfg.mode = "offset"
    <2>1. p.more = (CASE cfg.more = "flag" -> explicitHasMore(r)
                      [] cfg.more = "total" /\ r.total > 0 -> s.pos + Count(r) < r.total
                      [] OTHER -> FullPage(s, r))
      BY <1>5 DEF parsePaginationResponse, parseNumericOffset
    <2> HIDE DEF p
    <2>2. CASE cfg.more = "total" /\ r.total > 0
      <3>1. ~(s.pos + Count(r) < r.total)
        BY <1>p, <2>1, <2>2
      <3>2. r.from = s.pos + 1 /\ cfg.hidden = {}
        BY <1>1, <1>5, <2>2 DEF FirstAsked, TellsMore
      <3> QED
        BY <1>1, <3>1, <3>2
    <2>3. CASE cfg.more = "flag"
      <3>1. ~explicitHasMore(r)
        BY <1>p, <2>1, <2>3
      <3> QED
        BY <1>1, <3>1 DEF explicitHasMore
    <2>4. CASE cfg.more # "flag" /\ ~(cfg.more = "total" /\ r.total > 0)
      BY <1>p, <1>4, <1>5, <2>1, <2>4
    <2> QED
      BY <2>2, <2>3, <2>4
  <1>6. CASE cfg.mode = "token"
    <2>1. cfg.bookmark \/ r.to < r.total =>
            p.more = (IF cfg.more = "flag" THEN explicitHasMore(r) ELSE FullPage(s, r))
      BY <1>6 DEF parsePaginationResponse, parseNextToken
    <2> HIDE DEF p
    <2>2. CASE ~(cfg.bookmark \/ r.to < r.total)
      BY <1>1, <2>2
    <2>3. CASE (cfg.bookmark \/ r.to < r.total) /\ cfg.more = "flag"
      <3>1. ~explicitHasMore(r)
        BY <1>p, <2>1, <2>3
      <3> QED
        BY <1>1, <3>1 DEF explicitHasMore
    <2>4. CASE (cfg.bookmark \/ r.to < r.total) /\ cfg.more # "flag"
      BY <1>p, <1>4, <1>6, <2>1, <2>4
    <2> QED
      BY <2>2, <2>3, <2>4
  <1>7. CASE cfg.mode = "page"
    <2>1. p.more = (CASE cfg.more = "flag" -> explicitHasMore(r)
                      [] cfg.more = "total" /\ r.total > 0 -> s.pos < TotalPages(s, r)
                      [] OTHER -> FullPage(s, r))
      BY <1>7 DEF parsePaginationResponse, parsePageSizeResponse
    <2> HIDE DEF p
    <2>2. CASE cfg.more = "total" /\ r.total > 0
      <3>1. ~(s.pos < TotalPages(s, r))
        BY <1>p, <2>1, <2>2
      <3>2. r.from = (s.pos - 1) * s.size + 1 /\ s.pos >= 1
        BY <1>1, <1>7, <2>2 DEF FirstAsked, Resumable, Consumed, PageExists
      <3>3. (s.pos - 1) * s.size + s.size = s.pos * s.size
        <4>1. s.pos - 1 \in Nat /\ (s.pos - 1) + 1 = s.pos
          BY <1>1, <3>2
        <4> QED
          BY <1>1, <4>1, PageStart
      <3>4. r.total <= s.pos * s.size
        BY <1>1, <3>1, AfterLastPage DEF TotalPages
      <3>5. (s.pos - 1) * s.size \in Nat
        BY <1>1, <3>2, PageStart
      <3>6. r.to < r.total => r.to = (s.pos - 1) * s.size + s.size
        BY <1>1, <1>7, <3>2, <3>5
      <3> QED
        BY <1>1, <3>3, <3>4, <3>6
    <2>3. CASE cfg.more = "flag"
      <3>1. ~explicitHasMore(r)
        BY <1>p, <2>1, <2>3
      <3> QED
        BY <1>1, <3>1 DEF explicitHasMore
    <2>4. CASE cfg.more # "flag" /\ ~(cfg.more = "total" /\ r.total > 0)
      BY <1>p, <1>4, <1>7, <2>1, <2>4
    <2> QED
      BY <2>2, <2>3, <2>4
  <1>8. CASE cfg.mode = "timestamp"
    <2>1. ~(r.to < r.from) => p.more = (r.to - r.from + 1 >= s.size)
      BY <1>8 DEF parsePaginationResponse, parseTimestampResponse
    <2> HIDE DEF p
    <2>2. r.to < r.from \/ ~(r.to - r.from + 1 >= s.size)
      BY <1>p, <2>1
    <2> QED
      BY <1>1, <1>8, <2>2
  <1> QED
    BY <1>0, <1>2, <1>5, <1>6, <1>7, <1>8

\* A cycle that ends, but not for page_limit on a page with records, ends
\* with the last page.
LEMMA CycleEnd ==
    ASSUME cfg \in Scenarios, Resumable, TellsMore, NEW s, NEW r, Consumed(s, r),
           NEW h, h = handlePagination(s, r), ~h.more, ~lastPageFull(h.st, r)
    PROVE  r.to >= r.total
  <1> DEFINE p == parsePaginationResponse(s, r)
             q == AdvancePaginationState(p.st, r)
  <1>1. h = IF ~p.more THEN p ELSE [st |-> q, more |-> checkPageLimit(q)]
    BY DEF handlePagination
  <1>2. CASE ~p.more
    BY <1>2, NoMore
  <1>3. CASE p.more
    <2>0. cfg.page_limit \in Nat
      BY ConfigFields
    <2>1. cfg.mode # "none"
      BY <1>3 DEF parsePaginationResponse
    <2> HIDE DEF p
    <2>2. h.st = q /\ ~checkPageLimit(q)
      BY <1>1, <1>3
    <2>3. cfg.page_limit > 0
      BY <2>0, <2>2 DEF checkPageLimit
    <2>4. ~(Count(r) > 0)
      BY <2>2, <2>3 DEF lastPageFull
    <2>5. cfg.hidden = {}
      BY <2>1, <2>3 DEF TellsMore
    <2>6. /\ r.from \in Nat \ {0} /\ r.to \in Nat /\ r.total \in Nat
          /\ s.size \in Nat \ {0} /\ Count(r) \in Nat
          /\ r.to < r.total => r.to = r.from + s.size - 1
          /\ Count(r) = r.to - r.from + 1
      BY <2>1, <2>5, ConsumedPage
    <2> QED
      BY <2>4, <2>6
  <1> QED
    BY <1>2, <1>3

\* Every step keeps it: the interval is adjusted after Paginate only.
LEMMA BacksOffStep ==
    ASSUME IInv, TellsMore, BacksOffWhenCaughtUp, [Next]_vars
    PROVE  BacksOffWhenCaughtUp' /\ TellsMore'
  <1>0. cfg' = cfg
    BY DEF Next, Poll, Grow, TimerFires, fetchDataPage, consume, Paginate,
       adjustPollInterval, Shutdown, ShutdownEnds, Crash, Start, vars
  <1>1. Owed' = Owed /\ TellsMore'
    BY <1>0, SameConfig DEF TellsMore
  <1>2. CASE Paginate
    <2> DEFINE h == handlePagination(st, resp)
    <2>1. delivered' = delivered /\ resp' = resp /\ pc = "paginate"
          /\ (h.more \/ result' = IF lastPageFull(h.st, resp) THEN "full" ELSE "partial")
          /\ (h.more => pc' = "fetch")
      BY <1>2 DEF Paginate, sink
    <2> SUFFICES ASSUME pc' = "adjust", result' = "partial"
                 PROVE  \A i \in Owed : i <= resp.total => i \in delivered
      BY <1>1, <2>1 DEF BacksOffWhenCaughtUp
    <2>2. ~h.more /\ ~lastPageFull(h.st, resp)
      BY <2>1
    <2>3. cfg \in Scenarios /\ Resumable /\ Consumed(st, resp)
      BY <2>1, RestApiAssumption
         DEF Consumed, IInv, TInv, TypeOK, States, Responses, PageAsked, PageConsumed
    <2> HIDE DEF h
    <2>4. resp.to >= resp.total
      BY <2>2, <2>3, CycleEnd DEF h
    <2>5. /\ resp.to \in Nat /\ resp.total \in Nat
          /\ \A i \in Owed \ delivered : i \in Nat /\ i > resp.to
      BY <2>3, ConsumedPage
    <2> QED
      BY <2>4, <2>5
  <1>3. CASE pc' = pc /\ result' = result /\ resp' = resp /\ delivered' = delivered
    BY <1>1, <1>3 DEF BacksOffWhenCaughtUp
  <1>4. CASE pc' # "adjust" \/ result' = "error"
    <2>1. ~(pc' = "adjust" /\ result' = "partial")
      BY <1>4
    <2> QED
      BY <1>1, <2>1 DEF BacksOffWhenCaughtUp
  <1> QED
    BY <1>2, <1>3, <1>4 DEF Next, Poll, Grow, TimerFires, fetchDataPage, consume, Abort,
       adjustPollInterval, Shutdown, ShutdownEnds, Crash, Start, vars, sink

\* The receiver backs off after a cycle without errors only when it has all
\* that the API held at the last fetch, for every list, page size, page limit
\* and number of faults, in the configurations of NothingSkippedCorrect whose
\* responses tell whether there is more (poll, lastPageFull).
THEOREM BacksOffCorrect == Spec /\ Resumable /\ TellsMore => []BacksOffWhenCaughtUp
  <1> DEFINE J == IInv /\ TellsMore /\ BacksOffWhenCaughtUp
  <1>1. Init /\ Resumable /\ TellsMore => J
    BY IInvInit DEF Init, BacksOffWhenCaughtUp
  <1>2. J /\ [Next]_vars => J'
    BY IInvStep, BacksOffStep
  <1>3. J => BacksOffWhenCaughtUp
    OBVIOUS
  <1> QED
    BY <1>1, <1>2, <1>3, PTL DEF Spec

-----------------------------------------------------------------------------
(* What is read again.                                                     *)

\* Every record delivered so far is before the ones the state asks for, or on
\* the page that was just consumed.
Behind(s) ==
    \A i \in delivered : i < FirstAsked(s) \/ (pc = "paginate" /\ i <= resp.to)

\* A page counter goes with a timestamp from the data: resetting it changes
\* no request.
CountedFromData(s) == cfg.mode = "timestamp" /\ s.pages > 0 => s.fromData

RInv ==
    /\ TInv /\ TracksRecords
    /\ PageAsked
    /\ StartOrData(st) /\ (saved # None => StartOrData(saved))
    /\ CountedFromData(st)
    /\ ~forgot => Behind(st) /\ twice = {}

\* A timestamp is before what follows it, as sent.
LEMMA PastTimestamp ==
    ASSUME cfg \in Scenarios, cfg.format # "rfc3339", NEW t \in Nat
    PROVE  Truncated(t + timestampResolution) > t
  <1>0. Second \in Nat \ {0} /\ cfg.format \in {"epoch_us", "epoch_s", "rfc3339"}
    BY RestApiAssumption DEF Configs
  <1>1. CASE cfg.format = "epoch_us"
    BY <1>1 DEF Truncated, timestampResolution
  <1>2. CASE cfg.format = "epoch_s"
    <2>1. Truncated(t + timestampResolution) = (t + Second) - ((t + Second) % Second)
      BY <1>2 DEF Truncated, timestampResolution
    <2>2. t + Second \in Nat /\ (t + Second) % Second \in 0 .. (Second - 1)
      BY <1>0
    <2> QED
      BY <1>0, <2>1, <2>2
  <1> QED
    BY <1>0, <1>1, <1>2

\* In timestamp mode a record of the page is newer than the position.
LEMMA NewerThanPosition ==
    ASSUME cfg \in Scenarios, cfg.mode = "timestamp", TracksRecords,
           NEW s \in States, StartOrData(s), CountedFromData(s),
           NEW i \in Items, i >= FirstAsked(s)
    PROVE  cfg.times[i] > s.pos
  <1>0. s.pos \in Nat /\ cfg.times[i] \in Nat \ {0} /\ cfg.start \in Nat
        /\ cfg.format # "rfc3339" /\ cfg.hidden = {}
    BY ConfigFields DEF States, TracksRecords
  <1>1. cfg.times[i] >= requestStartTime(s) /\ requestStartTime(s) \in Int
    BY StartTimeType, FirstAskedByTime
  <1>2. CASE s.pos = 0
    BY <1>0, <1>2
  <1>3. CASE s.pos # 0 /\ (s.pages > 0 \/ s.fromData)
    <2>1. requestStartTime(s) = Truncated(s.pos + timestampResolution)
      BY <1>3 DEF requestStartTime
    <2>2. Truncated(s.pos + timestampResolution) > s.pos
      BY <1>0, PastTimestamp
    <2> QED
      BY <1>0, <1>1, <2>1, <2>2
  <1>4. CASE s.pos # 0 /\ ~(s.pages > 0 \/ s.fromData)
    <2> DEFINE n == newPaginationState(cfg.size)
    <2>1. s.pos = cfg.start
      BY <1>4 DEF StartOrData
    <2>2. n.pos = cfg.start /\ ~(n.pages > 0 \/ n.fromData) /\ n \in States
      BY NewType DEF newPaginationState
    <2>3. requestStartTime(s) = requestStartTime(n)
      BY <1>4, <2>1, <2>2 DEF requestStartTime
    <2>4. FirstAsked(s) = FirstAsked(n)
      BY <2>3 DEF FirstAsked
    <2>5. i \in Owed
      BY <1>0, <2>4 DEF Owed
    <2> QED
      BY <2>1, <2>5 DEF TracksRecords
  <1> QED
    BY <1>2, <1>3, <1>4

\* The states that pagination leads to from a page that was asked for.
Follows(s, r, x) ==
    /\ x \in States /\ StartOrData(x) /\ CountedFromData(x)
    /\ FirstAsked(x) > r.to /\ FirstAsked(x) >= FirstAsked(s)

\* The response to the request of a state.
Asked(s, r) ==
    /\ s \in States /\ PageExists(s) /\ StartOrData(s) /\ CountedFromData(s)
    /\ r \in Responses /\ r = Answer(s, r.total) /\ InList(r)

\* It starts where the state asks, or later when the newest come first.
LEMMA AskedPage ==
    ASSUME cfg \in Scenarios, NEW s, NEW r, Asked(s, r)
    PROVE  /\ r.from >= FirstAsked(s)
           /\ r.to < r.from \/ ~cfg.newest => r.from = FirstAsked(s)
  <1>1. FirstAsked(s) \in Nat \ {0} /\ s.size \in Nat \ {0} /\ r.total \in Nat
    BY FirstAskedType, ConfigFields DEF Asked, States, Responses
  <1>2. r = Answer(s, r.total)
    BY DEF Asked
  <1> QED
    BY <1>1, <1>2 DEF Answer, Least, Greatest

LEMMA FollowsToken ==
    ASSUME cfg \in Scenarios, TracksRecords, NEW s, NEW r, Asked(s, r),
           cfg.mode = "token", NEW h, h = handlePagination(s, r)
    PROVE  Follows(s, r, h.st)
  <1> DEFINE p == parsePaginationResponse(s, r)
             a == At(s, r.to)
             q == OnePageMore(a)
  <1>0. s \in States /\ r.to \in Nat /\ s.pos \in Nat /\ cfg.bookmark
        /\ r.from \in Nat /\ r.to >= r.from - 1
    BY DEF Asked, Responses, States, TracksRecords, InList
  <1>1. p.st = q
    BY <1>0 DEF parsePaginationResponse, parseNextToken
  <1>2. AdvancePaginationState(p.st, r) = p.st
    BY DEF AdvancePaginationState
  <1>3. h.st = q
    <2>1. h = IF ~p.more THEN p ELSE [st |-> AdvancePaginationState(p.st, r),
                                      more |-> checkPageLimit(AdvancePaginationState(p.st, r))]
      BY DEF handlePagination
    <2> HIDE DEF p, q
    <2> QED
      BY <1>1, <1>2, <2>1
  <1>4. a \in States /\ a.pos = r.to
    BY <1>0, AtState
  <1> HIDE DEF a
  <1>5. q \in States /\ q.pos = r.to
    BY <1>4, OnePageMoreState
  <1> HIDE DEF q
  <1>6. FirstAsked(q) = r.to + 1 /\ FirstAsked(s) = s.pos + 1
    BY <1>5 DEF FirstAsked
  <1>7. FirstAsked(q) >= FirstAsked(s)
    BY <1>0, <1>6, AskedPage
  <1> QED
    BY <1>0, <1>3, <1>5, <1>6, <1>7 DEF Follows, StartOrData, CountedFromData

LEMMA FollowsTimestamp ==
    ASSUME cfg \in Scenarios, TracksRecords, NEW s, NEW r, Asked(s, r),
           cfg.mode = "timestamp", NEW h, h = handlePagination(s, r)
    PROVE  Follows(s, r, h.st)
  <1> DEFINE p == parseTimestampResponse(s, r)
             q == OnePageMore(p.st)
  <1>0. /\ s \in States /\ s.pos \in Nat /\ s.pages \in Nat
        /\ StartOrData(s) /\ CountedFromData(s)
        /\ r.from \in Nat \ {0} /\ r.to \in Nat /\ r.from >= FirstAsked(s)
        /\ FirstAsked(s) \in Nat
    BY FirstAskedType, AskedPage DEF Asked, States, Responses
  <1>1. h = IF ~p.more THEN p ELSE [st |-> AdvancePaginationState(p.st, r),
                                    more |-> checkPageLimit(AdvancePaginationState(p.st, r))]
    BY DEF handlePagination, parsePaginationResponse
  <1>2. AdvancePaginationState(p.st, r) = q
    BY DEF AdvancePaginationState
  <1>3. h.st \in {p.st, q}
    BY <1>1, <1>2
  <1>4. CASE r.to < r.from
    <2>1. p = [st |-> s, more |-> FALSE]
      BY <1>4 DEF parseTimestampResponse
    <2>2. h.st = s
      BY <1>1, <2>1
    <2>3. FirstAsked(s) > r.to
      BY <1>0, <1>4, AskedPage
    <2> QED
      BY <1>0, <2>2, <2>3 DEF Follows
  <1>5. CASE ~(r.to < r.from)
    <2> DEFINE T == cfg.times[r.to]
    <2>1. r.to \in Items /\ r.to >= FirstAsked(s)
      BY <1>0, <1>5, RestApiAssumption DEF Asked, InList, Items
    <2>2. T \in Nat \ {0} /\ T > s.pos /\ cfg.start \in Nat
      BY <1>0, <2>1, NewerThanPosition, ConfigFields
    <2>3. p.st = FromData(At(s, T))
      BY <1>5, <2>2 DEF parseTimestampResponse
    <2> DEFINE a == At(s, T)
               f == FromData(a)
    <2>4. a \in States /\ a.pos = T
      BY <1>0, <2>2, AtState
    <2> HIDE DEF a
    <2>5. f \in States /\ f.pos = T /\ f.fromData = TRUE
      BY <2>4, FromDataState
    <2> HIDE DEF f, p
    <2>6. q \in States /\ q.pos = T /\ q.fromData = TRUE
      BY <2>3, <2>5, OnePageMoreState DEF f, a
    <2> HIDE DEF q, T
    <2>7. ASSUME NEW x \in States, x.pos = T, x.fromData = TRUE
          PROVE  Follows(s, r, x)
      <3>1. requestStartTime(x) = Truncated(T + timestampResolution)
        BY <2>2, <2>7 DEF requestStartTime
      <3>2. requestStartTime(x) > T
        BY <2>2, <3>1, PastTimestamp DEF TracksRecords
      <3>3. ~(T >= requestStartTime(x)) /\ requestStartTime(x) \in Int
        BY <2>2, <3>2, StartTimeType
      <3>4. ~(r.to >= FirstAsked(x)) /\ FirstAsked(x) \in Nat
        BY <2>1, <3>3, FirstAskedByTime DEF T
      <3>5. FirstAsked(x) > r.to /\ FirstAsked(x) >= FirstAsked(s)
        BY <1>0, <2>1, <3>4
      <3>6. StartOrData(x) /\ CountedFromData(x)
        BY <1>0, <2>2, <2>7 DEF StartOrData, CountedFromData
      <3> QED
        BY <3>5, <3>6 DEF Follows
    <2> QED
      BY <1>3, <2>3, <2>5, <2>6, <2>7 DEF f, a
  <1> QED
    BY <1>4, <1>5

\* Resetting the page counter at the end of a cycle changes no request.
LEMMA CheckpointRequest ==
    ASSUME cfg \in Scenarios, TracksRecords, NEW x \in States, StartOrData(x),
           CountedFromData(x)
    PROVE  /\ FirstAsked(Checkpoint(x)) = FirstAsked(x)
           /\ StartOrData(Checkpoint(x)) /\ CountedFromData(Checkpoint(x))
  <1> DEFINE c == Checkpoint(x)
  <1>1. c.pos = x.pos /\ c.pages = 0 /\ c.fromData = x.fromData /\ x.pages \in Nat
    BY DEF Checkpoint, States
  <1> HIDE DEF c
  <1>2. cfg.mode = "token" => FirstAsked(c) = FirstAsked(x)
    BY <1>1 DEF FirstAsked
  <1>3. ASSUME cfg.mode = "timestamp" PROVE FirstAsked(c) = FirstAsked(x)
    <2>1. requestStartTime(c) = requestStartTime(x)
      BY <1>1, <1>3 DEF requestStartTime, CountedFromData
    <2> QED
      BY <1>3, <2>1 DEF FirstAsked
  <1>4. StartOrData(c) /\ CountedFromData(c)
    BY <1>1 DEF StartOrData, CountedFromData
  <1> QED
    BY <1>2, <1>3, <1>4 DEF TracksRecords, c

\* A state that is loaded is one that was stored, or the configured start.
LEMMA LoadedState ==
    ASSUME cfg \in Scenarios, NEW s \in States, s.pages = 0, StartOrData(s),
           NEW n \in {cfg.size, cfg.resized}
    PROVE  /\ StartOrData(reconcileCheckpointWithConfig(s, n))
           /\ CountedFromData(reconcileCheckpointWithConfig(s, n))
  <1> DEFINE q == reconcileCheckpointWithConfig(s, n)
  <1>0. s.pos \in Nat /\ cfg.start \in Nat
    BY ConfigFields DEF States
  <1>1. CASE cfg.mode # "timestamp"
    BY <1>1 DEF StartOrData, CountedFromData
  <1>2. CASE cfg.mode = "timestamp" /\ s.pos = 0
    <2>1. q = At(s, cfg.start)
      BY <1>2 DEF reconcileCheckpointWithConfig
    <2>2. cfg.start = 0
      BY <1>0, <1>2 DEF StartOrData
    <2>3. q.pos = s.pos /\ q.pages = s.pages /\ q.fromData = s.fromData
      BY <2>1, <2>2, <1>2, AtState
    <2> HIDE DEF q
    <2>4. StartOrData(q) /\ CountedFromData(q)
      BY <2>3 DEF StartOrData, CountedFromData
    <2> QED
      BY <2>4 DEF q
  <1>3. CASE cfg.mode = "timestamp" /\ s.pos # 0
    <2>1. q = s
      BY <1>3 DEF reconcileCheckpointWithConfig
    <2> QED
      BY <2>1 DEF CountedFromData
  <1> QED
    BY <1>1, <1>2, <1>3

\* What a step has to establish.
LEMMA RInvNext ==
    ASSUME cfg' = cfg, TInv', TracksRecords,
           pc' \in {"consume", "paginate"} => resp' = Answer(st', resp'.total),
           StartOrData(st'), saved' # None => StartOrData(saved'), CountedFromData(st'),
           ~forgot' =>
             /\ \A i \in delivered' :
                  i < FirstAsked(st') \/ (pc' = "paginate" /\ i <= resp'.to)
             /\ twice' = {}
    PROVE  RInv'
  <1>1. TracksRecords'
    BY SameConfig DEF TracksRecords
  <1>2. PageAsked'
    BY SameConfig DEF PageAsked
  <1>3. StartOrData(st)' /\ ((saved # None)' => StartOrData(saved)')
    BY SameConfig
  <1>4. CountedFromData(st)'
    BY DEF CountedFromData
  <1>5. ~forgot' => Behind(st)' /\ twice' = {}
    BY SameFirstAsked DEF Behind
  <1> QED
    BY <1>1, <1>2, <1>3, <1>4, <1>5 DEF RInv

LEMMA RInvInit ==
    ASSUME Init, TracksRecords
    PROVE  RInv
  <1>1. TInv
    BY TypeInit
  <1>2. st = newPaginationState(cfg.size) /\ cfg \in Scenarios
    BY DEF Init
  <1>3. st.pos = cfg.start /\ st.pages = 0 /\ cfg.start \in Nat
    BY <1>2, ConfigFields DEF newPaginationState
  <1>4. StartOrData(st) /\ CountedFromData(st)
    BY <1>3 DEF StartOrData, CountedFromData
  <1>5. PageAsked /\ Behind(st) /\ saved = None /\ twice = {}
    BY DEF Init, PageAsked, Behind
  <1> QED
    BY <1>1, <1>4, <1>5 DEF RInv

LEMMA RInvPaginate ==
    ASSUME RInv, Paginate
    PROVE  RInv'
  <1> DEFINE h == handlePagination(st, resp)
  <1>0. /\ TInv /\ cfg \in Scenarios /\ TracksRecords /\ pc = "paginate"
        /\ st \in States /\ PageExists(st)
    BY DEF RInv, TInv, TypeOK, States, Paginate
  <1>1. Asked(st, resp)
    BY <1>0, RestApiAssumption DEF Asked, RInv, TInv, TypeOK, Responses, PageAsked
  <1>2. Follows(st, resp, h.st)
    BY <1>0, <1>1, FollowsToken, FollowsTimestamp DEF TracksRecords
  <1>3. st' \in {h.st, Checkpoint(h.st)}
    BY DEF Paginate
  <1> HIDE DEF h
  <1>4. /\ st' \in States /\ StartOrData(st') /\ CountedFromData(st')
        /\ FirstAsked(st') = FirstAsked(h.st)
    BY <1>0, <1>2, <1>3, CheckpointRequest, CheckpointType DEF Follows
  <1>5. saved' # None => StartOrData(saved')
    <2>1. saved' \in {saved, None, Checkpoint(st')}
      BY DEF Paginate, saveCheckpoint
    <2>2. StartOrData(Checkpoint(st'))
      BY <1>0, <1>4, CheckpointRequest
    <2> QED
      BY <2>1, <2>2 DEF RInv
  <1>6. /\ cfg' = cfg /\ delivered' = delivered /\ twice' = twice /\ forgot' = forgot
        /\ pc' \in {"fetch", "adjust"}
    BY DEF Paginate, sink, saveCheckpoint
  <1>7. ASSUME ~forgot', NEW i \in delivered PROVE i < FirstAsked(st')
    <2>1. i < FirstAsked(st) \/ i <= resp.to
      BY <1>6, <1>7 DEF RInv, Behind
    <2>2. i \in Int /\ resp.to \in Int /\ FirstAsked(st) \in Int /\ FirstAsked(st') \in Int
      <3>1. i \in Int /\ resp.to \in Int
        BY <1>0, RestApiAssumption DEF TInv, TypeOK, Items
      <3>2. FirstAsked(st) \in Int
        BY <1>0, FirstAskedType
      <3>3. PageExists(st')
        BY <1>0 DEF PageExists, TracksRecords
      <3>4. FirstAsked(st') \in Int
        BY <1>0, <1>4, <3>3, FirstAskedType
      <3> QED
        BY <3>1, <3>2, <3>4
    <2> QED
      BY <1>2, <1>4, <2>1, <2>2 DEF Follows
  <1>8. TInv'
    BY <1>0, TypePaginate
  <1> QED
    BY <1>0, <1>4, <1>5, <1>6, <1>7, <1>8, RInvNext DEF RInv

LEMMA RInvFetch ==
    ASSUME RInv, fetchDataPage
    PROVE  RInv'
  <1>1. TInv' /\ TracksRecords
    BY TypeFetch DEF RInv
  <1>2. /\ cfg' = cfg /\ delivered' = delivered /\ twice' = twice /\ forgot' = forgot
        /\ st' = st /\ saved' = saved /\ pc = "fetch"
    BY DEF fetchDataPage, sink, store
  <1>3. pc' \in {"consume", "paginate"} => resp' = Answer(st', resp'.total)
    <2>1. CASE pc' = "adjust"
      BY <2>1
    <2>2. CASE resp' = Answer(st, held) /\ pc' = "consume"
      <3>1. Answer(st, held).total = held
        BY DEF Answer
      <3> QED
        BY <2>2, <3>1, <1>2
    <2> QED
      BY <2>1, <2>2 DEF fetchDataPage, Abort
  <1>4. ~forgot => (\A i \in delivered : i < FirstAsked(st)) /\ twice = {}
    BY <1>2 DEF RInv, Behind
  <1> QED
    BY <1>1, <1>2, <1>3, <1>4, RInvNext DEF RInv

\* A page holds none of the records that were consumed before it.
LEMMA RInvConsume ==
    ASSUME RInv, consume
    PROVE  RInv'
  <1>1. TInv' /\ TracksRecords /\ TInv /\ cfg \in Scenarios
        /\ st \in States /\ PageExists(st)
    BY TypeConsume DEF RInv, TInv, TypeOK, States
  <1>2. /\ cfg' = cfg /\ forgot' = forgot /\ st' = st /\ saved' = saved /\ resp' = resp
        /\ pc = "consume"
    BY DEF consume, store
  <1>3. ~forgot => (\A i \in delivered : i < FirstAsked(st)) /\ twice = {}
    BY <1>2 DEF RInv, Behind
  <1>4. resp.from >= FirstAsked(st) /\ FirstAsked(st) \in Nat /\ resp.from \in Nat
    <2>1. Asked(st, resp)
      BY <1>1, <1>2, RestApiAssumption DEF Asked, RInv, TInv, TypeOK, Responses, PageAsked
    <2> QED
      BY <1>1, <2>1, AskedPage, FirstAskedType DEF Asked, Responses
  <1>5. delivered \subseteq Int /\ resp.to \in Nat
    BY <1>1, RestApiAssumption DEF TInv, TypeOK, Items
  <1>6. ~forgot => delivered \cap Data(resp) = {}
    <2> SUFFICES ASSUME ~forgot, NEW i \in delivered, i \in Data(resp) PROVE FALSE
      OBVIOUS
    <2>1. i >= resp.from
      BY <1>4, <1>5 DEF Data
    <2> QED
      BY <1>3, <1>4, <1>5, <2>1
  <1>7. \A i \in Data(resp) : i <= resp.to
    BY <1>4, <1>5 DEF Data
  <1>8. ~forgot' =>
             /\ \A i \in delivered' :
                  i < FirstAsked(st') \/ (pc' = "paginate" /\ i <= resp'.to)
             /\ twice' = {}
    BY <1>2, <1>3, <1>6, <1>7 DEF consume, sink
  <1> QED
    BY <1>1, <1>2, <1>8, RInvNext DEF RInv, PageAsked

LEMMA RInvStart ==
    ASSUME RInv, Start
    PROVE  RInv'
  <1>1. /\ TInv' /\ TInv /\ TracksRecords /\ cfg \in Scenarios
        /\ size' \in {cfg.size, cfg.resized} /\ st \in States /\ pc # "paginate"
    BY TypeStart DEF RInv, TInv, TypeOK, Start, States
  <1>2. /\ cfg' = cfg /\ saved' = saved /\ delivered' = delivered /\ twice' = twice
        /\ pc' = "fetch" /\ forgot' = (forgot \/ FirstAsked(st') < FirstAsked(st))
    BY DEF Start, sink
  <1>3. saved # None => saved \in States /\ saved.pages = 0 /\ StartOrData(saved)
    BY DEF RInv, TInv, TypeOK, States
  <1>4. StartOrData(st') /\ CountedFromData(st')
    <2>1. CASE saved # None /\ st' = reconcileCheckpointWithConfig(saved, size')
      BY <2>1, <1>1, <1>3, LoadedState
    <2>2. CASE st' = newPaginationState(size')
      <3>1. st'.pos = cfg.start /\ st'.pages = 0 /\ cfg.start \in Nat
        BY <1>1, <2>2, ConfigFields DEF newPaginationState
      <3> QED
        BY <3>1 DEF StartOrData, CountedFromData
    <2> QED
      BY <2>1, <2>2 DEF Start
  <1>5. FirstAsked(st) \in Nat /\ FirstAsked(st') \in Nat /\ delivered \subseteq Int
    <2>1. PageExists(st) /\ PageExists(st')
      BY <1>1 DEF PageExists, TracksRecords
    <2>2. st' \in States
      BY <1>1, <1>2 DEF TInv, TypeOK, States
    <2> QED
      BY <1>1, <2>1, <2>2, FirstAskedType, RestApiAssumption DEF TInv, TypeOK, Items
  <1>6. ASSUME ~forgot'
        PROVE  (\A i \in delivered' : i < FirstAsked(st')) /\ twice' = {}
    <2>1. ~forgot /\ ~(FirstAsked(st') < FirstAsked(st))
      BY <1>2, <1>6
    <2>2. (\A i \in delivered : i < FirstAsked(st)) /\ twice = {}
      BY <1>1, <2>1 DEF RInv, Behind
    <2> QED
      BY <1>2, <1>5, <2>1, <2>2
  <1> QED
    BY <1>1, <1>2, <1>3, <1>4, <1>6, RInvNext

LEMMA RInvShutdownEnds ==
    ASSUME RInv, ShutdownEnds
    PROVE  RInv'
  <1>1. TInv' /\ TracksRecords /\ st \in States /\ cfg \in Scenarios
    BY TypeShutdownEnds DEF RInv, TInv, TypeOK, States
  <1>2. /\ cfg' = cfg /\ delivered' = delivered /\ twice' = twice /\ forgot' = forgot
        /\ st' = st /\ pc' = "down" /\ pc = "idle"
    BY DEF ShutdownEnds, sink, saveCheckpoint
  <1>3. saved' # None => StartOrData(saved')
    <2>1. saved' \in {saved, None, Checkpoint(st)}
      BY DEF ShutdownEnds, saveCheckpoint
    <2>2. StartOrData(Checkpoint(st))
      BY <1>1, CheckpointRequest DEF RInv
    <2> QED
      BY <2>1, <2>2 DEF RInv
  <1>4. ~forgot => (\A i \in delivered : i < FirstAsked(st)) /\ twice = {}
    BY <1>2 DEF RInv, Behind
  <1> QED
    BY <1>1, <1>2, <1>3, <1>4, RInvNext DEF RInv

\* The steps that touch neither the position nor what is delivered: a crash
\* between consume and Paginate is the one that forgets a page.
LEMMA RInvOther ==
    ASSUME RInv,
           Grow \/ TimerFires \/ adjustPollInterval \/ Shutdown \/ Crash \/ UNCHANGED vars
    PROVE  RInv'
  <1>1. TInv' /\ TracksRecords
    <2>1. [Next]_vars
      BY DEF Next, Poll
    <2> QED
      BY <2>1, TypeStep DEF RInv
  <1>2. /\ cfg' = cfg /\ delivered' = delivered /\ twice' = twice
        /\ st' = st /\ saved' = saved
    BY DEF Grow, TimerFires, adjustPollInterval, Shutdown, Crash, vars, sink, store
  <1>3. \/ pc' = pc /\ resp' = resp /\ forgot' = forgot
        \/ /\ pc' \in {"fetch", "idle", "down"}
           /\ (forgot => forgot') /\ (pc = "paginate" => forgot')
    BY DEF Grow, TimerFires, adjustPollInterval, Shutdown, Crash, vars, store
  <1>4. pc' \in {"consume", "paginate"} => resp' = Answer(st', resp'.total)
    BY <1>2, <1>3 DEF RInv, PageAsked
  <1>5. ASSUME ~forgot'
        PROVE  /\ \A i \in delivered' :
                    i < FirstAsked(st') \/ (pc' = "paginate" /\ i <= resp'.to)
               /\ twice' = {}
    <2>1. ~forgot
      BY <1>3, <1>5
    <2>2. Behind(st) /\ twice = {}
      BY <2>1 DEF RInv
    <2>3. \/ pc' = pc /\ resp' = resp
          \/ pc # "paginate"
      BY <1>3, <1>5
    <2> QED
      BY <1>2, <2>2, <2>3 DEF Behind
  <1> QED
    BY <1>1, <1>2, <1>4, <1>5, RInvNext DEF RInv

\* With a token for every page, or timestamps sent at their own resolution, a
\* record is consumed twice only if a run resumed behind the one before it,
\* for every list, page size, page limit and number of failing fetches and
\* consumers, shutdowns and crashes (parseNextToken, parseTimestampResponse,
\* requestStartTime).
THEOREM NoRepeatsCorrect == Spec => []NoRepeats
  <1>1. Init /\ TracksRecords => RInv
    BY RInvInit
  <1>2. RInv /\ [Next]_vars => RInv'
    BY RInvPaginate, RInvFetch, RInvConsume, RInvStart, RInvShutdownEnds, RInvOther
       DEF Next, Poll
  <1>3. RInv => NoRepeats
    BY DEF RInv, NoRepeats
  <1>4. ~TracksRecords /\ [Next]_vars => ~TracksRecords'
    <2> SUFFICES ASSUME ~TracksRecords, [Next]_vars PROVE ~TracksRecords'
      OBVIOUS
    <2>1. cfg' = cfg
      BY DEF Next, Poll, Grow, TimerFires, fetchDataPage, consume, Paginate,
         adjustPollInterval, Shutdown, ShutdownEnds, Crash, Start, vars
    <2> QED
      BY <2>1, SameConfig DEF TracksRecords
  <1>5. ~TracksRecords => NoRepeats
    BY DEF NoRepeats
  <1> QED
    BY <1>1, <1>2, <1>3, <1>4, <1>5, PTL DEF Spec
=============================================================================
