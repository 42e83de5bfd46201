---------------------- MODULE ThroughputReporterProofs ----------------------
(* The reporter follows its processors, and the reports never go back: for *)
(* any number of processors, of global blocks, of reloads and of payloads, *)
(* whatever fails.                                                         *)
EXTENDS ThroughputReporter, FiniteSetTheorems, TLAPS

Alive(l) == loop[l].pc \in {"idle", "report", "wait"}

\* The loops that have not been started, and those that were told to end.
Loops ==
    \A l \in Ids :
        /\ l[1] > gen => loop[l].pc = "none"
        /\ l \in done => loop[l].pc # "none"
        /\ loop[l].pc = "gone" => l \in done
        /\ l[1] = gen /\ proc[l[2]] = "new" => loop[l].pc = "none"

\* The references count the processors that run.
Refs ==
    /\ refs = Cardinality(Running)
    /\ Running \subseteq reg[gen]
    /\ phase = "up" => \A p \in P : proc[p] # "stopped"
    /\ phase = "down" /\ ~failed => \A p \in P : proc[p] # "new"

\* Who is waited for, and the loop that is set up.
Waits ==
    /\ ctl = "stopping" =>
          /\ phase = "up" /\ who \in Running /\ handler # None /\ Of(handler) \in done
          /\ Global(who) # "none" /\ loop[Of(who)].pc = "none"
    /\ ctl = "releasing" =>
          /\ phase = "down" /\ who \in P /\ handler = None /\ Running = {}
          /\ Of(who) \in done
    /\ handler # None =>
          /\ Running # {} /\ Of(handler) \in caps /\ loop[Of(handler)].pc # "none"
          /\ proc[handler] # "new"
          /\ ctl = "idle" => Of(handler) \notin done

\* A report loop is called for, and it is there.
Wanted ==
    /\ ctl = "idle" /\ Running # {} /\ ~failed
    /\ \A p \in P : Global(p) # "off"
    /\ \E p \in P : Global(p) = "on" /\ proc[p] # "new"

SetUp == Wanted => handler # None

\* The loop that has been set up, or the one whose end is waited for.
Current(l) ==
    \/ handler # None /\ l = Of(handler)
    \/ ctl = "releasing" /\ l = Of(who)

\* Without timeouts nothing else is left.
Left ==
    ~Fault("timeout") => /\ caps \subseteq {l \in Ids : Current(l)}
                         /\ \A l \in Ids : Alive(l) => Current(l)

\* One loop at a time has the registry of a life.
One ==
    /\ \A l, m \in Ids : l[1] = m[1] /\ Alive(l) /\ Alive(m) => l = m
    /\ phase = "up" => \A l \in Ids : l[1] = gen /\ Alive(l) => Current(l)

\* A report in the hands of a loop is not behind what is on its way or has
\* arrived, and none is ahead of the counter.
Values ==
    \A l \in Ids : \A q \in P :
        LET i == <<l[1], q>> IN
        /\ loop[l].report[q] <= val[i] /\ server[i] <= val[i]
        /\ loop[l].report[q] > 0 => Alive(l) /\ loop[l].report[q] >= server[i]
        /\ pending # None /\ pending.gen = l[1] =>
              /\ pending.report[q] <= val[i]
              /\ pending.report[q] > 0 => pending.report[q] >= server[i]
              /\ loop[l].report[q] > 0 => loop[l].report[q] >= pending.report[q]

LInv == TypeOK /\ Loops /\ Refs /\ Waits /\ SetUp /\ Left /\ One

IInv == LInv /\ Values

-----------------------------------------------------------------------------
(* Types.                                                                  *)

LEMMA LoopType ==
    ASSUME NEW pc \in {"none", "idle", "report", "wait", "gone"}
    PROVE  Loop(pc) \in [pc : {"none", "idle", "report", "wait", "gone"}, todo : SUBSET P,
                         cur : P \cup {None}, report : [P -> Nat]]
  BY DEF Loop

LEMMA OfType == ASSUME TypeOK, NEW p \in P PROVE Of(p) \in Ids
  BY DEF TypeOK, Of, Ids

\* The start of the first service.
LEMMA InitType == Init => TypeOK
  <1> SUFFICES ASSUME Init PROVE TypeOK
    OBVIOUS
  <1>1. 1 \in 1 .. MaxLives
    BY ReporterAssumption
  <1>2. loop \in [Ids -> [pc : {"none", "idle", "report", "wait", "gone"}, todo : SUBSET P,
                          cur : P \cup {None}, report : [P -> Nat]]]
    BY LoopType DEF Init
  <1>3. failed \in BOOLEAN /\ proc \in [P -> {"new", "running", "stopped"}]
    BY DEF Init
  <1>4. /\ reg \in [1 .. MaxLives -> SUBSET P] /\ seq \in [Ids -> Nat]
        /\ val \in [Ids -> Nat] /\ mark \in [Ids -> Nat] /\ server \in [Ids -> Nat]
    BY DEF Init
  <1> QED
    BY <1>1, <1>2, <1>3, <1>4 DEF Init, TypeOK

\* startLocked keeps the types.
LEMMA startLockedType ==
    ASSUME TypeOK, NEW p \in P, NEW c \in SUBSET Ids, startLocked(p, c)
    PROVE  /\ handler' \in P \cup {None} /\ caps' \subseteq Ids /\ failed' \in BOOLEAN
           /\ loop' \in [Ids -> [pc : {"none", "idle", "report", "wait", "gone"}, todo : SUBSET P,
                                 cur : P \cup {None}, report : [P -> Nat]]]
  <1>1. Of(p) \in Ids
    BY OfType
  <1>2. CASE UNCHANGED loop
    BY <1>1, <1>2 DEF startLocked, TypeOK
  <1>3. CASE Goto(Of(p), "idle")
    BY <1>1, <1>3, LoopType DEF startLocked, TypeOK, Goto
  <1> QED
    BY <1>2, <1>3 DEF startLocked

\* Starts and shutdowns keep the types.
LEMMA ConfigureType == ASSUME TypeOK, NEW p \in P, Configure(p) PROVE TypeOK'
  <1>0. Of(p) \in Ids /\ (handler # None => Of(handler) \in Ids)
    BY OfType DEF TypeOK
  <1>1. CASE Register(p)
    <2>0. proc' \in [P -> {"new", "running", "stopped"}] /\ refs' \in Int
      BY <1>1 DEF Register, TypeOK
    <2>a. /\ reg \in [1 .. MaxLives -> SUBSET P] /\ gen \in 1 .. MaxLives
          /\ reg' = [reg EXCEPT ![gen] = reg[gen] \cup {p}]
      BY <1>1 DEF Register, TypeOK
    <2>b. reg[gen] \cup {p} \in SUBSET P
      BY <2>a
    <2>1. proc' \in [P -> {"new", "running", "stopped"}] /\ refs' \in Int
          /\ reg' \in [1 .. MaxLives -> SUBSET P]
      BY <2>0, <2>a, <2>b
    <2>2. CASE Start(p)
      BY <1>1, <2>1, <2>2 DEF Start, Register, TypeOK, counters, opamp
    <2>3. CASE StartGlobal(p)
      <3>1. caps \in SUBSET Ids /\ startLocked(p, caps)
        BY <2>3 DEF StartGlobal, TypeOK
      <3>2. /\ handler' \in P \cup {None} /\ caps' \subseteq Ids /\ failed' \in BOOLEAN
            /\ loop' \in [Ids -> [pc : {"none", "idle", "report", "wait", "gone"}, todo : SUBSET P,
                                  cur : P \cup {None}, report : [P -> Nat]]]
        BY <3>1, startLockedType
      <3> QED
        BY <1>1, <2>1, <2>3, <3>2 DEF StartGlobal, Register, TypeOK, counters, opamp
    <2>4. CASE StartGlobalAgain(p)
      BY <1>0, <1>1, <2>1, <2>4 DEF StartGlobalAgain, Register, TypeOK, counters, opamp
    <2>5. CASE ShutdownNew(p) \/ Shutdown(p)
      BY <1>1, <2>5 DEF Register, ShutdownNew, Shutdown
    <2> QED
      BY <2>2, <2>3, <2>4, <2>5 DEF Configure
  <1>2. CASE ShutdownNew(p)
    BY <1>2 DEF ShutdownNew, TypeOK, counters, opamp
  <1>3. CASE Shutdown(p)
    <2>1. /\ proc' \in [P -> {"new", "running", "stopped"}] /\ refs' \in Int
          /\ done' \subseteq Ids /\ handler' \in P \cup {None} /\ who' \in P \cup {None}
          /\ ctl' \in {"idle", "stopping", "releasing"}
      BY <1>0, <1>3 DEF Shutdown, TypeOK
    <2> QED
      BY <1>3, <2>1 DEF Shutdown, TypeOK, counters, opamp
  <1> QED
    BY <1>1, <1>2, <1>3 DEF Configure, Start, StartGlobal, StartGlobalAgain

\* So does the rest of the collector's life.
LEMMA ServiceType ==
    ASSUME TypeOK, Restart \/ Released \/ BeginShutdown \/ Reload \/ Finished,
           ctl = "stopping" => who \in P
    PROVE  TypeOK'
  <1>1. CASE Restart
    <2>1. caps \ {Of(handler)} \in SUBSET Ids /\ startLocked(who, caps \ {Of(handler)}) /\ who \in P
      BY <1>1 DEF Restart, TypeOK
    <2>2. /\ handler' \in P \cup {None} /\ caps' \subseteq Ids /\ failed' \in BOOLEAN
          /\ loop' \in [Ids -> [pc : {"none", "idle", "report", "wait", "gone"}, todo : SUBSET P,
                                cur : P \cup {None}, report : [P -> Nat]]]
      BY <2>1, startLockedType
    <2> QED
      BY <1>1, <2>2 DEF Restart, TypeOK, counters, opamp
  <1>2. CASE Released \/ BeginShutdown
    BY <1>2 DEF Released, BeginShutdown, TypeOK, counters, opamp
  <1>3. CASE Reload
    <2>1. gen' \in 1 .. MaxLives
      <3>1. scenario.lives \in 1 .. MaxLives /\ gen \in 1 .. MaxLives
        BY ReporterAssumption DEF TypeOK
      <3> QED
        BY <1>3, <3>1, ReporterAssumption DEF Reload
    <2> QED
      BY <1>3, <2>1 DEF Reload, TypeOK, counters, opamp
  <1>4. CASE Finished
    BY <1>4 DEF Finished, TypeOK, vars, service, counters, opamp
  <1> QED
    BY <1>1, <1>2, <1>3, <1>4

LEMMA CounterType ==
    ASSUME TypeOK, (\E p \in P : AddBegin(p)) \/ (\E i \in Ids : AddEnd(i))
    PROVE  TypeOK'
  <1>1. ASSUME NEW p \in P, AddBegin(p) PROVE TypeOK'
    <2>1. Of(p) \in Ids /\ seq[Of(p)] \in Nat
      BY OfType DEF TypeOK
    <2>2. seq' \in [Ids -> Nat]
      BY <1>1, <2>1 DEF AddBegin, TypeOK
    <2> QED
      BY <1>1, <2>2 DEF AddBegin, TypeOK, service, opamp
  <1>2. ASSUME NEW i \in Ids, AddEnd(i) PROVE TypeOK'
    BY <1>2 DEF AddEnd, TypeOK, service, opamp
  <1> QED
    BY <1>1, <1>2

\* So do the loops and the client.
LEMMA ReportType ==
    ASSUME TypeOK, NEW l \in Ids, Report(l) \/ Exit(l)
    PROVE  TypeOK'
  <1> DEFINE L == [pc : {"none", "idle", "report", "wait", "gone"}, todo : SUBSET P,
                   cur : P \cup {None}, report : [P -> Nat]]
  <1>0. loop \in [Ids -> L] /\ loop[l] \in L /\ l[1] \in 1 .. MaxLives
    BY DEF TypeOK, Ids
  <1>1. CASE Tick(l)
    <2>1. [Loop("report") EXCEPT !.todo = reg[l[1]]] \in L
      BY <1>0, LoopType DEF TypeOK, Loop
    <2> QED
      BY <1>0, <1>1, <2>1 DEF Tick, TypeOK, service, counters, opamp
  <1>2. ASSUME NEW q \in P, Collect(l, q) PROVE TypeOK'
    <2>0. loop'[l] \in {[loop[l] EXCEPT !.cur = q, !.report[q] = val[<<l[1], q>>]],
                       [loop[l] EXCEPT !.todo = @ \ {q}]}
      BY <1>0, <1>2 DEF Collect
    <2>1. val[<<l[1], q>>] \in Nat
      BY <1>0 DEF TypeOK, Ids
    <2>2. loop'[l] \in L
      <3>1. [loop[l] EXCEPT !.cur = q, !.report[q] = val[<<l[1], q>>]] \in L
        BY <1>0, <2>1
      <3>2. [loop[l] EXCEPT !.todo = @ \ {q}] \in L
        BY <1>0
      <3> QED
        BY <1>2, <2>0, <3>1, <3>2
    <2>3. loop' \in [Ids -> L]
      <3>1. /\ \A m \in Ids : m # l => loop'[m] = loop[m]
            /\ loop' = [m \in Ids |-> loop'[m]]
        BY <1>0, <1>2 DEF Collect
      <3> QED
        BY <1>0, <2>2, <3>1
    <2> QED
      BY <1>2, <2>3 DEF Collect, TypeOK, service, counters, opamp
  <1>3. CASE Mark(l)
    <2>1. <<l[1], loop[l].cur>> \in Ids
      BY <1>0, <1>3 DEF Mark, Ids
    <2>2. [loop[l] EXCEPT !.cur = None, !.todo = @ \ {loop[l].cur}] \in L
      BY <1>0
    <2>3. loop' \in [Ids -> L]
      BY <1>0, <1>3, <2>2 DEF Mark
    <2>4. mark' \in [Ids -> Nat]
      BY <1>3, <2>1 DEF Mark, TypeOK
    <2> QED
      BY <1>3, <2>3, <2>4 DEF Mark, TypeOK, service, opamp
  <1>4. CASE SendMessage(l)
    <2>1. loop' \in [Ids -> L]
      BY <1>0, <1>4, LoopType DEF SendMessage, Goto
    <2>2. pending' \in [gen : 1 .. MaxLives, report : [P -> Nat]]
      BY <1>0, <1>4 DEF SendMessage
    <2> QED
      BY <1>4, <2>1, <2>2 DEF SendMessage, TypeOK, service, counters
  <1>5. CASE SendPending(l)
    BY <1>0, <1>5 DEF SendPending, TypeOK, service, counters, opamp
  <1>6. CASE SendFails(l) \/ Exit(l)
    <2>1. loop' \in [Ids -> L]
      BY <1>0, <1>6, LoopType DEF SendFails, Exit, Goto
    <2> QED
      BY <1>6, <2>1 DEF SendFails, Exit, TypeOK, service, counters, opamp
  <1> QED
    BY <1>1, <1>2, <1>3, <1>4, <1>5, <1>6 DEF Report

LEMMA DeliverType == ASSUME TypeOK, Deliver PROVE TypeOK'
  <1> DEFINE L == [pc : {"none", "idle", "report", "wait", "gone"}, todo : SUBSET P,
                   cur : P \cup {None}, report : [P -> Nat]]
  <1>1. loop' \in [Ids -> L]
    <2>1. ASSUME NEW l \in Ids PROVE [loop[l] EXCEPT !.pc = "report"] \in L /\ loop[l] \in L
      BY DEF TypeOK
    <2> QED
      BY <2>1 DEF Deliver
  <1>2. server' \in [Ids -> Nat]
    BY DEF Deliver, TypeOK, Ids
  <1> QED
    BY <1>1, <1>2 DEF Deliver, TypeOK, service, counters

-----------------------------------------------------------------------------
(* The life of the service.                                                *)

\* What a step of a loop does to a loop.
LStep(l) ==
    \/ loop'[l].pc = loop[l].pc
    \/ Alive(l) /\ loop'[l].pc \in {"idle", "report", "wait"}
    \/ Alive(l) /\ l \in done /\ loop'[l].pc = "gone"

\* Steps of the loops, the pipelines and the client.
LEMMA LoopsOnly ==
    ASSUME LInv, TypeOK', UNCHANGED service, \A l \in Ids : LStep(l)
    PROVE  LInv'
  <1> USE DEF service
  <1>0. Running' = Running /\ \A p : Of(p)' = Of(p)
    BY DEF Running, Of
  <1>1. \A l \in Ids : Alive(l)' => Alive(l)
    BY DEF LStep, Alive
  <1>2. \A l \in Ids : loop'[l].pc = "none" <=> loop[l].pc = "none"
    BY DEF LStep, Alive
  <1>3. Loops'
    BY <1>2 DEF LInv, Loops, LStep, Alive
  <1>4. Refs' /\ SetUp'
    BY <1>0 DEF LInv, Refs, SetUp, Wanted, Global
  <1>5. Waits'
    <2>1. /\ handler # None => Of(handler) \in Ids
          /\ who # None => Of(who) \in Ids
      BY OfType DEF LInv, TypeOK
    <2>2. ctl = "stopping" => who # None
      BY ReporterAssumption DEF LInv, Waits, Running
    <2> QED
      BY <1>0, <1>2, <2>1, <2>2 DEF LInv, Waits, Global, Of
  <1>6. \A l \in Ids : Current(l)' <=> Current(l)
    BY DEF Current, Of
  <1>7. Left' /\ One'
    BY <1>1, <1>6 DEF LInv, Left, One, Fault
  <1> QED
    BY <1>3, <1>4, <1>5, <1>7 DEF LInv

\* A processor registers itself.
LEMMA Registers ==
    ASSUME LInv, NEW p \in P, Register(p)
    PROVE  /\ Running' = Running \cup {p} /\ p \notin Running
           /\ Refs' /\ loop[Of(p)].pc = "none" /\ Of(p) \notin done /\ Of(p) \in Ids
           /\ UNCHANGED <<scenario, gen, phase>> /\ phase = "up" /\ ctl = "idle"
           /\ \A q \in P : q # p => proc'[q] = proc[q]
           /\ proc'[p] = "running"
  <1>1. /\ Running' = Running \cup {p} /\ p \notin Running
        /\ UNCHANGED <<scenario, gen, phase>> /\ phase = "up" /\ ctl = "idle"
        /\ \A q \in P : q # p => proc'[q] = proc[q]
        /\ proc'[p] = "running"
    BY DEF LInv, TypeOK, Register, Running
  <1>2. Of(p) \in Ids /\ loop[Of(p)].pc = "none" /\ Of(p) \notin done
    <2>1. Of(p) \in Ids /\ Of(p)[1] = gen /\ Of(p)[2] = p
      BY OfType DEF LInv, Of
    <2> QED
      BY <2>1 DEF LInv, Loops, Register
  <1>3. refs' = Cardinality(Running')
    <2>1. IsFiniteSet(Running)
      BY ReporterAssumption, FS_Subset DEF Running
    <2> QED
      BY <1>1, <2>1, FS_AddElement DEF LInv, Refs, Register
  <1>4. Running' \subseteq reg'[gen]
    BY <1>1 DEF LInv, TypeOK, Refs, Register
  <1>5. \A q \in P : proc'[q] # "stopped"
    BY <1>1 DEF LInv, Refs
  <1> QED
    BY <1>1, <1>2, <1>3, <1>4, <1>5 DEF Refs

\* Without a global block: nothing is set up.
LEMMA StartInv == ASSUME LInv, TypeOK', NEW p \in P, Start(p) PROVE LInv'
  <1>0. Register(p) /\ UNCHANGED <<ctl, who, handler, caps, done, loop>>
    BY DEF Start
  <1>1. /\ Running' = Running \cup {p} /\ Refs' /\ loop[Of(p)].pc = "none"
        /\ UNCHANGED <<scenario, gen, phase>> /\ phase = "up" /\ ctl = "idle"
        /\ \A q \in P : q # p => proc'[q] = proc[q]
        /\ proc'[p] = "running"
    BY <1>0, Registers
  <1>2. Loops'
    BY <1>0, <1>1 DEF LInv, Loops, Ids
  <1>3. Waits'
    BY <1>0, <1>1 DEF LInv, Waits, Of, TypeOK
  <1>4. SetUp'
    <2>1. failed' \/ (Global(p) = "none" /\ failed' = failed)
      BY DEF Start
    <2>2. CASE failed'
      BY <2>2 DEF SetUp, Wanted
    <2>3. CASE Global(p) = "none" /\ ~failed' /\ ~failed
      <3> SUFFICES ASSUME Wanted' PROVE handler' # None
        BY DEF SetUp
      <3>1. PICK q \in P : Global(q) = "on" /\ proc'[q] # "new"
        BY <1>1 DEF Wanted, Global
      <3>2. proc[q] # "new" /\ \A x \in P : Global(x) # "off"
        BY <1>1, <2>3, <3>1 DEF Wanted, Global
      <3>3. q \in Running
        BY <1>1, <3>2 DEF LInv, Refs, TypeOK, Running
      <3> QED
        BY <1>0, <1>1, <2>3, <3>1, <3>2, <3>3 DEF LInv, SetUp, Wanted
    <2> QED
      BY <2>1, <2>2, <2>3
  <1>5. Left' /\ One'
    BY <1>0, <1>1 DEF LInv, Left, One, Current, Alive, Of, Fault
  <1> QED
    BY <1>1, <1>2, <1>3, <1>4, <1>5 DEF LInv

\* What startLocked leaves: the loop it has started, or none.
LEMMA startLockedInv ==
    ASSUME TypeOK, NEW p \in P, NEW c, startLocked(p, c), loop[Of(p)].pc = "none"
    PROVE  \/ /\ handler' = None /\ caps' = c /\ loop' = loop
              /\ failed' \/ Global(p) = "off"
           \/ /\ handler' = p /\ caps' = c \cup {Of(p)}
              /\ loop'[Of(p)].pc = "idle"
              /\ \A l \in Ids : l # Of(p) => loop'[l] = loop[l]
  BY OfType DEF startLocked, Goto, Loop, TypeOK

\* The first to set up the reporter.
LEMMA StartGlobalInv == ASSUME LInv, TypeOK', NEW p \in P, StartGlobal(p) PROVE LInv'
  <1>0. Register(p) /\ handler = None /\ startLocked(p, caps) /\ UNCHANGED <<ctl, who, done>>
    BY DEF StartGlobal
  <1>1. /\ Running' = Running \cup {p} /\ Refs' /\ loop[Of(p)].pc = "none"
        /\ UNCHANGED <<scenario, gen, phase>> /\ phase = "up" /\ ctl = "idle"
        /\ Of(p) \notin done /\ Of(p) \in Ids
        /\ \A q \in P : q # p => proc'[q] = proc[q]
        /\ proc'[p] = "running"
    BY <1>0, Registers
  <1>2. \A q : Of(q)' = Of(q)
    BY <1>1 DEF Of
  <1>3. \A l \in Ids : l[1] = gen => ~Alive(l)
    BY <1>0, <1>1 DEF LInv, One, Current
  <1>4. CASE handler' = None /\ caps' = caps /\ loop' = loop /\ (failed' \/ Global(p) = "off")
    <2>1. Loops'
      BY <1>0, <1>1, <1>4 DEF LInv, Loops, Ids
    <2>2. Waits' /\ SetUp'
      BY <1>0, <1>1, <1>4 DEF Waits, SetUp, Wanted, Global
    <2>3. Left' /\ One'
      BY <1>0, <1>1, <1>4 DEF LInv, Left, One, Current, Alive, Of, Fault
    <2> QED
      BY <1>1, <2>1, <2>2, <2>3 DEF LInv
  <1>5. CASE /\ handler' = p /\ caps' = caps \cup {Of(p)}
             /\ loop'[Of(p)].pc = "idle"
             /\ \A l \in Ids : l # Of(p) => loop'[l] = loop[l]
    <2>0. Of(p)[1] = gen /\ Of(p)[2] = p /\ ~(gen > gen)
      BY DEF Of, LInv, TypeOK
    <2>1. Loops'
      <3> SUFFICES ASSUME NEW l \in Ids
                   PROVE  /\ l[1] > gen => loop'[l].pc = "none"
                          /\ l \in done => loop'[l].pc # "none"
                          /\ loop'[l].pc = "gone" => l \in done
                          /\ l[1] = gen /\ proc'[l[2]] = "new" => loop'[l].pc = "none"
        BY <1>0, <1>1 DEF Loops
      <3>1. CASE l = Of(p)
        BY <1>1, <1>5, <2>0, <3>1
      <3>2. CASE l # Of(p)
        <4>1. l[2] \in P /\ (l[1] = gen => l[2] # p)
          BY <3>2 DEF Of, Ids
        <4> QED
          BY <1>1, <1>5, <3>2, <4>1 DEF LInv, Loops
      <3> QED
        BY <3>1, <3>2
    <2>2. Waits' /\ SetUp'
      BY <1>0, <1>1, <1>2, <1>5, ReporterAssumption DEF Waits, SetUp
    <2>3. \A l \in Ids : Current(l)' <=> l = Of(p)
      BY <1>0, <1>1, <1>2, <1>5, ReporterAssumption DEF Current
    <2>4. \A l \in Ids : Alive(l)' <=> (l = Of(p) \/ Alive(l))
      BY <1>1, <1>5 DEF Alive
    <2>5. \A l \in Ids : ~Current(l)
      BY <1>0, <1>1 DEF Current
    <2>6. Left'
      BY <1>1, <1>5, <2>3, <2>4, <2>5 DEF LInv, Left, Fault
    <2>7. One'
      BY <1>1, <1>3, <2>0, <2>3, <2>4 DEF LInv, One
    <2> QED
      BY <1>1, <2>1, <2>2, <2>6, <2>7 DEF LInv
  <1> QED
    BY <1>0, <1>1, <1>4, <1>5, startLockedInv DEF LInv

\* The next one tells the loop there is to end ...
LEMMA StartGlobalAgainInv ==
    ASSUME LInv, TypeOK', NEW p \in P, StartGlobalAgain(p)
    PROVE  LInv'
  <1>0. /\ Register(p) /\ handler # None /\ done' = done \cup {Of(handler)}
        /\ ctl' = "stopping" /\ who' = p /\ Global(p) # "none"
        /\ UNCHANGED <<failed, handler, caps, loop>>
    BY DEF StartGlobalAgain
  <1>1. /\ Running' = Running \cup {p} /\ Refs' /\ loop[Of(p)].pc = "none"
        /\ UNCHANGED <<scenario, gen, phase>> /\ phase = "up" /\ ctl = "idle"
        /\ \A q \in P : q # p => proc'[q] = proc[q]
        /\ proc'[p] = "running"
    BY <1>0, Registers
  <1>2. Loops'
    BY <1>0, <1>1 DEF LInv, Loops, Waits, Ids
  <1>3. Waits'
    BY <1>0, <1>1 DEF LInv, Waits, Of, Global, TypeOK
  <1>4. SetUp'
    BY <1>0 DEF SetUp, Wanted
  <1>5. Left' /\ One'
    BY <1>0, <1>1 DEF LInv, Left, One, Current, Alive, Of, Fault
  <1> QED
    BY <1>1, <1>2, <1>3, <1>4, <1>5 DEF LInv

\* ... and starts its own when it has.
LEMMA RestartInv == ASSUME LInv, TypeOK', Restart PROVE LInv'
  <1>0. /\ ctl = "stopping" /\ loop[Of(handler)].pc = "gone"
        /\ startLocked(who, caps \ {Of(handler)})
        /\ ctl' = "idle" /\ who' = None
        /\ UNCHANGED <<scenario, gen, proc, phase, refs, reg, done>>
    BY DEF Restart
  <1>1. /\ phase = "up" /\ who \in Running /\ handler # None /\ Of(handler) \in done
        /\ Global(who) # "none" /\ loop[Of(who)].pc = "none"
        /\ who \in P /\ proc[who] = "running" /\ handler \in P
        /\ Of(who) \in Ids /\ Of(who)[1] = gen /\ Of(who)[2] = who
    BY <1>0, OfType DEF LInv, Waits, TypeOK, Running, Of
  <1>2. Running' = Running /\ \A q : Of(q)' = Of(q)
    BY <1>0 DEF Of, Running
  <1>3. \A l \in Ids : l[1] = gen => ~Alive(l)
    BY <1>0, <1>1 DEF LInv, One, Current, Alive
  <1>r. Refs'
    BY <1>0, <1>1, <1>2 DEF LInv, Refs
  <1>d. Of(who) \notin done
    BY <1>1 DEF LInv, Loops
  <1>n. \A l \in Ids : ~Fault("timeout") => ~Alive(l) /\ (l \in caps => l = Of(handler))
    BY <1>0, <1>1 DEF LInv, Left, Current, Alive
  <1>4. CASE /\ handler' = None /\ caps' = caps \ {Of(handler)} /\ loop' = loop
             /\ failed' \/ Global(who) = "off"
    <2>1. Loops'
      BY <1>0, <1>4 DEF LInv, Loops
    <2>2. Waits' /\ SetUp'
      BY <1>0, <1>1, <1>4 DEF Waits, SetUp, Wanted, Global
    <2>3. Left'
      BY <1>0, <1>4, <1>n DEF LInv, TypeOK, Left, Alive, Fault
    <2>4. One'
      BY <1>0, <1>3, <1>4 DEF LInv, One, Alive
    <2> QED
      BY <1>r, <2>1, <2>2, <2>3, <2>4 DEF LInv
  <1>5. CASE /\ handler' = who /\ caps' = (caps \ {Of(handler)}) \cup {Of(who)}
             /\ loop'[Of(who)].pc = "idle"
             /\ \A l \in Ids : l # Of(who) => loop'[l] = loop[l]
    <2>1. Loops'
      <3> SUFFICES ASSUME NEW l \in Ids
                   PROVE  /\ l[1] > gen => loop'[l].pc = "none"
                          /\ l \in done => loop'[l].pc # "none"
                          /\ loop'[l].pc = "gone" => l \in done
                          /\ l[1] = gen /\ proc[l[2]] = "new" => loop'[l].pc = "none"
        BY <1>0 DEF Loops
      <3>1. CASE l = Of(who)
        <4>1. gen \in Int
          BY DEF LInv, TypeOK
        <4>2. loop'[l].pc = "idle" /\ l[1] = gen /\ l[2] = who /\ proc[who] = "running"
          BY <1>1, <1>5, <3>1
        <4> QED
          BY <4>1, <4>2
      <3>2. CASE l # Of(who)
        BY <1>5, <3>2 DEF LInv, Loops
      <3> QED
        BY <3>1, <3>2
    <2>2. Waits' /\ SetUp'
      BY <1>0, <1>1, <1>2, <1>5, <1>d, ReporterAssumption DEF Waits, SetUp
    <2>3. \A l \in Ids : Current(l)' <=> l = Of(who)
      BY <1>0, <1>1, <1>2, <1>5, ReporterAssumption DEF Current
    <2>4. \A l \in Ids : Alive(l)' <=> (l = Of(who) \/ Alive(l))
      BY <1>1, <1>5 DEF Alive
    <2>5. Left'
      BY <1>0, <1>1, <1>5, <1>n, <2>3, <2>4 DEF LInv, TypeOK, Left, Fault
    <2>6. One'
      BY <1>0, <1>1, <1>3, <2>3, <2>4 DEF LInv, One
    <2> QED
      BY <1>r, <2>1, <2>2, <2>5, <2>6 DEF LInv
  <1> QED
    BY <1>0, <1>1, <1>4, <1>5, startLockedInv DEF LInv

\* Nothing changes when the shutdown begins, nor for a processor that has not
\* been started.
LEMMA BeginShutdownInv == ASSUME LInv, TypeOK', BeginShutdown PROVE LInv'
  <1>0. /\ phase' = "down" /\ phase = "up" /\ ctl = "idle"
        /\ failed \/ \A p \in P : proc[p] = "running"
        /\ UNCHANGED <<scenario, gen, proc, failed, ctl, who, refs, reg, handler, caps, done, loop>>
    BY DEF BeginShutdown
  <1>1. Running' = Running /\ \A q : Of(q)' = Of(q)
    BY <1>0 DEF Of, Running
  <1>2. Loops' /\ Refs'
    BY <1>0, <1>1 DEF LInv, Loops, Refs
  <1>3. Waits' /\ SetUp'
    BY <1>0, <1>1 DEF LInv, Waits, SetUp, Wanted, Global
  <1>4. Left' /\ One'
    BY <1>0, <1>1 DEF LInv, Left, One, Current, Alive, Fault
  <1> QED
    BY <1>2, <1>3, <1>4 DEF LInv

LEMMA ShutdownNewInv == ASSUME LInv, TypeOK', NEW p \in P, ShutdownNew(p) PROVE LInv'
  <1>0. /\ phase = "down" /\ ctl = "idle" /\ proc[p] = "new"
        /\ proc' = [proc EXCEPT ![p] = "stopped"]
        /\ UNCHANGED <<scenario, gen, phase, failed, ctl, who, refs, reg, handler, caps, done, loop>>
    BY DEF ShutdownNew
  <1>1. /\ Running' = Running /\ \A q : Of(q)' = Of(q)
        /\ \A q \in P : proc'[q] = "new" => proc[q] = "new"
    BY <1>0 DEF LInv, TypeOK, Of, Running
  <1>2. failed
    BY <1>0 DEF LInv, Refs
  <1>3. Loops' /\ Refs'
    BY <1>0, <1>1, <1>2 DEF LInv, Loops, Refs, Ids
  <1>4. Waits' /\ SetUp'
    BY <1>0, <1>1, <1>2 DEF LInv, TypeOK, Waits, SetUp, Wanted
  <1>5. Left' /\ One'
    BY <1>0, <1>1 DEF LInv, Left, One, Current, Alive, Fault
  <1> QED
    BY <1>3, <1>4, <1>5 DEF LInv

\* The last one tells the loop to end.
LEMMA ShutdownInv == ASSUME LInv, TypeOK', NEW p \in P, Shutdown(p) PROVE LInv'
  <1>0. /\ phase = "down" /\ ctl = "idle" /\ proc[p] = "running"
        /\ proc' = [proc EXCEPT ![p] = "stopped"] /\ refs' = refs - 1
        /\ UNCHANGED <<scenario, gen, phase, failed, reg, caps, loop>>
    BY DEF Shutdown
  <1>1. /\ Running' = Running \ {p} /\ p \in Running /\ \A q : Of(q)' = Of(q)
        /\ \A q \in P : proc'[q] = "new" <=> proc[q] = "new"
    BY <1>0 DEF LInv, TypeOK, Of, Running
  <1>2. IsFiniteSet(Running) /\ IsFiniteSet(Running')
    BY <1>1, ReporterAssumption, FS_Subset DEF Running
  <1>3. refs' = Cardinality(Running')
    BY <1>0, <1>1, <1>2, FS_RemoveElement DEF LInv, Refs
  <1>4. refs' = 0 <=> Running' = {}
    BY <1>2, <1>3, FS_EmptySet
  <1>5. refs' \in Nat
    BY <1>2, <1>3, FS_CardinalityType
  <1>6. Refs'
    BY <1>0, <1>1, <1>3 DEF LInv, Refs
  <1>7. CASE refs > 1 \/ handler = None
    <2>1. UNCHANGED <<ctl, who, handler, done>>
      BY <1>7 DEF Shutdown
    <2>2. Running' # {} \/ handler = None
      BY <1>0, <1>4, <1>7 DEF LInv, TypeOK
    <2>3. Loops'
      BY <1>0, <1>1, <2>1 DEF LInv, Loops, Ids
    <2>4. Waits'
      BY <1>0, <1>1, <2>1, <2>2 DEF LInv, TypeOK, Waits
    <2>5. SetUp'
      BY <1>0, <1>1, <2>1 DEF LInv, SetUp, Wanted, Global
    <2>6. Left' /\ One'
      BY <1>0, <1>1, <2>1 DEF LInv, Left, One, Current, Alive, Fault
    <2> QED
      BY <1>6, <2>3, <2>4, <2>5, <2>6 DEF LInv
  <1>8. CASE ~(refs > 1) /\ handler # None
    <2>1. /\ handler' = None /\ done' = done \cup {Of(handler)}
          /\ ctl' = "releasing" /\ who' = handler
      BY <1>8 DEF Shutdown
    <2>2. Running' = {}
      BY <1>0, <1>4, <1>5, <1>8 DEF LInv, TypeOK
    <2>3. handler \in P
      BY <1>8 DEF LInv, TypeOK
    <2>4. Loops'
      BY <1>0, <1>1, <1>8, <2>1 DEF LInv, Loops, Waits, Ids
    <2>5. Waits' /\ SetUp'
      BY <1>0, <1>1, <2>1, <2>2, <2>3 DEF Waits, SetUp, Wanted
    <2>6. \A l \in Ids : Current(l)' <=> Current(l)
      BY <1>0, <1>1, <1>8, <2>1 DEF Current
    <2>7. Left' /\ One'
      BY <1>0, <2>6 DEF LInv, Left, One, Alive, Fault
    <2> QED
      BY <1>6, <2>4, <2>5, <2>7 DEF LInv
  <1> QED
    BY <1>7, <1>8

\* It returns when the loop has ended, or the context.
LEMMA ReleasedInv == ASSUME LInv, TypeOK', Released PROVE LInv'
  <1>0. /\ ctl = "releasing" /\ ctl' = "idle" /\ who' = None
        /\ UNCHANGED <<scenario, gen, proc, phase, failed, refs, reg, handler, done, loop>>
    BY DEF Released
  <1>1. Running' = Running /\ \A q : Of(q)' = Of(q)
    BY <1>0 DEF Of, Running
  <1>2. handler = None /\ Running = {} /\ phase = "down" /\ who \in P
    BY <1>0 DEF LInv, Waits
  <1>3. Loops' /\ Refs' /\ Waits' /\ SetUp'
    BY <1>0, <1>1, <1>2 DEF LInv, Loops, Refs, Waits, SetUp, Wanted
  <1>4. One'
    BY <1>0, <1>2 DEF LInv, One, Alive
  <1>5. Left'
    <2>1. CASE Fault("timeout")
      BY <1>0, <2>1 DEF Left, Fault
    <2>2. CASE ~Fault("timeout")
      <3>1. loop[Of(who)].pc = "gone" /\ caps' = caps \ {Of(who)}
        BY <2>2 DEF Released
      <3>2. caps \subseteq {Of(who)} /\ \A l \in Ids : Alive(l) => l = Of(who)
        BY <1>2, <2>2 DEF LInv, Left, Current
      <3> QED
        BY <1>0, <3>1, <3>2 DEF Left, Alive
    <2> QED
      BY <2>1, <2>2
  <1> QED
    BY <1>3, <1>4, <1>5 DEF LInv

\* The next service has a reporter of its own.
LEMMA ReloadInv == ASSUME LInv, TypeOK', Reload PROVE LInv'
  <1>0. /\ phase = "down" /\ ctl = "idle" /\ (\A p \in P : proc[p] = "stopped")
        /\ gen' = gen + 1 /\ proc' = [p \in P |-> "new"] /\ phase' = "up" /\ failed' = FALSE
        /\ UNCHANGED <<scenario, ctl, who, refs, reg, handler, caps, done, loop>>
    BY DEF Reload
  <1>1. Running = {} /\ Running' = {} /\ gen \in Int
    BY <1>0 DEF LInv, TypeOK, Running
  <1>2. handler = None
    BY <1>1 DEF LInv, Waits
  <1>3. \A l \in Ids : l[1] \in Int /\ (l[1] >= gen + 1 => loop[l].pc = "none")
    BY <1>1 DEF LInv, Loops, Ids
  <1>4. Loops'
    BY <1>0, <1>1, <1>3 DEF LInv, Loops
  <1>5. Refs' /\ Waits' /\ SetUp'
    BY <1>0, <1>1, <1>2 DEF LInv, Refs, Waits, SetUp, Wanted
  <1>6. Left' /\ One'
    BY <1>0, <1>1, <1>2, <1>3 DEF LInv, Left, One, Current, Alive, Fault
  <1> QED
    BY <1>4, <1>5, <1>6 DEF LInv

-----------------------------------------------------------------------------
(* The values of the reports.                                              *)

\* The part of Values for one loop and one counter.
Value(l, q) ==
    LET i == <<l[1], q>> IN
    /\ loop[l].report[q] <= val[i] /\ server[i] <= val[i]
    /\ loop[l].report[q] > 0 => Alive(l) /\ loop[l].report[q] >= server[i]
    /\ pending # None /\ pending.gen = l[1] =>
          /\ pending.report[q] <= val[i]
          /\ pending.report[q] > 0 => pending.report[q] >= server[i]
          /\ loop[l].report[q] > 0 => loop[l].report[q] >= pending.report[q]

LEMMA ValuesParts == Values <=> \A l \in Ids : \A q \in P : Value(l, q)
  BY DEF Values, Value

LEMMA ValueTypes ==
    ASSUME TypeOK, NEW l \in Ids, NEW q \in P
    PROVE  /\ loop[l].report[q] \in Nat /\ <<l[1], q>> \in Ids
           /\ val[<<l[1], q>>] \in Nat /\ server[<<l[1], q>>] \in Nat
           /\ pending # None => pending.report[q] \in Nat
  BY DEF TypeOK, Ids

\* A loop that begins, idles or is told to end has no report in its hands.
LEMMA ValuesService ==
    ASSUME TypeOK, Values, UNCHANGED <<counters, server>>, pending' \in {pending, None},
           \A l \in Ids : loop'[l] = loop[l] \/ \E pc : loop'[l] = Loop(pc)
    PROVE  Values'
  <1> SUFFICES ASSUME NEW l \in Ids, NEW q \in P PROVE Value(l, q)'
    BY ValuesParts DEF Values, Value
  <1>1. Value(l, q)
    BY ValuesParts
  <1>2. CASE loop'[l] = loop[l]
    BY <1>1, <1>2 DEF Value, Alive, counters
  <1>3. ASSUME NEW pc, loop'[l] = Loop(pc) PROVE Value(l, q)'
    <2>1. loop'[l].report[q] = 0
      BY <1>3 DEF Loop
    <2> QED
      BY <1>1, <2>1, ValueTypes DEF Value, counters
  <1> QED
    BY <1>2, <1>3

\* Payloads only add.
LEMMA ValuesCounters ==
    ASSUME TypeOK, Values, UNCHANGED <<loop, opamp>>,
           \A i \in Ids : val'[i] \in Nat /\ val'[i] >= val[i]
    PROVE  Values'
  <1> SUFFICES ASSUME NEW l \in Ids, NEW q \in P PROVE Value(l, q)'
    BY ValuesParts DEF Values, Value
  <1>1. Value(l, q)
    BY ValuesParts
  <1> QED
    BY <1>1, ValueTypes DEF Value, Alive, opamp

\* A counter is read: nothing is ahead of it.
LEMMA ValuesCollect ==
    ASSUME TypeOK, Values, NEW m \in Ids, NEW r \in P, Collect(m, r)
    PROVE  Values'
  <1> SUFFICES ASSUME NEW l \in Ids, NEW q \in P PROVE Value(l, q)'
    BY ValuesParts DEF Values, Value
  <1>1. Value(l, q)
    BY ValuesParts
  <1>2. \/ loop'[l].report[q] = loop[l].report[q] /\ loop'[l].pc = loop[l].pc
        \/ /\ loop'[l].report[q] = val[<<l[1], q>>] /\ loop'[l].pc = loop[l].pc
           /\ loop[l].pc = "report"
    BY DEF Collect, TypeOK
  <1> QED
    BY <1>1, <1>2, ValueTypes DEF Value, Alive, Collect, counters, opamp

\* A report is handed over to the client; no other loop of that life has one.
LEMMA ValuesSend ==
    ASSUME LInv, Values, NEW m \in Ids, SendMessage(m)
    PROVE  Values'
  <1> SUFFICES ASSUME NEW l \in Ids, NEW q \in P PROVE Value(l, q)'
    BY ValuesParts DEF Values, Value
  <1>0. TypeOK /\ Alive(m) /\ UNCHANGED <<counters, server>>
    BY DEF LInv, SendMessage, Collected, Alive
  <1>1. Value(l, q) /\ Value(m, q)
    BY ValuesParts
  <1>2. pending' = [gen |-> m[1], report |-> loop[m].report]
    BY DEF SendMessage
  <1>3. CASE l = m
    <2>1. loop'[l].report[q] = 0
      BY <1>0, <1>3 DEF SendMessage, Goto, Loop, TypeOK
    <2> QED
      BY <1>0, <1>1, <1>2, <1>3, <2>1, ValueTypes DEF Value, counters
  <1>4. CASE l # m
    <2>1. loop'[l] = loop[l]
      BY <1>0, <1>4 DEF SendMessage, Goto, TypeOK
    <2>2. l[1] = m[1] => loop[l].report[q] = 0
      <3>1. l[1] = m[1] => ~Alive(l)
        BY <1>0, <1>4 DEF LInv, One
      <3> QED
        BY <1>0, <1>1, <3>1, ValueTypes DEF Value
    <2> QED
      BY <1>0, <1>1, <1>2, <2>1, <2>2, ValueTypes DEF Value, Alive, counters
  <1> QED
    BY <1>3, <1>4

\* The message arrives.
LEMMA ValuesDeliver ==
    ASSUME TypeOK, Values, Deliver
    PROVE  Values' /\ \A i \in Ids : server'[i] >= server[i]
  <1>0. ASSUME NEW l \in Ids, NEW q \in P
        PROVE  LET i == <<l[1], q>> IN
               server'[i] = IF l[1] = pending.gen /\ pending.report[q] > 0
                            THEN pending.report[q] ELSE server[i]
    BY ValueTypes DEF Deliver
  <1>1. ASSUME NEW l \in Ids, NEW q \in P PROVE Value(l, q)'
    <2>1. Value(l, q)
      BY ValuesParts
    <2>2. loop'[l].report = loop[l].report /\ (Alive(l) => Alive(l)')
      BY DEF Deliver, TypeOK, Alive
    <2>3. pending' = None /\ pending # None /\ UNCHANGED counters
      BY DEF Deliver
    <2> QED
      BY <1>0, <2>1, <2>2, <2>3, ValueTypes DEF Value, counters
  <1>2. ASSUME NEW i \in Ids PROVE server'[i] >= server[i]
    <2>1. i[2] \in P /\ i = <<i[1], i[2]>>
      BY DEF Ids
    <2>2. Value(i, i[2]) /\ pending # None
      BY <2>1, ValuesParts DEF Deliver
    <2> QED
      BY <1>0, <2>1, <2>2, ValueTypes DEF Value
  <1> QED
    BY <1>1, <1>2, ValuesParts DEF Values, Value

-----------------------------------------------------------------------------
(* Together.                                                               *)

LEMMA InitIInv == Init => IInv
  <1> SUFFICES ASSUME Init PROVE IInv
    OBVIOUS
  <1>1. TypeOK
    BY InitType
  <1>2. Running = {} /\ \A l \in Ids : loop[l].pc = "none" /\ loop[l].report = [p \in P |-> 0]
    BY DEF Init, Running, Loop
  <1>3. Loops /\ Waits /\ SetUp /\ Left /\ One
    BY <1>2 DEF Init, Loops, Waits, SetUp, Wanted, Left, One, Alive
  <1>4. Refs
    BY <1>2, FS_EmptySet DEF Init, Refs
  <1>5. Values
    <2>1. ASSUME NEW l \in Ids, NEW q \in P PROVE Value(l, q)
      BY <1>1, <1>2, ValueTypes DEF Init, Value
    <2> QED
      BY <2>1, ValuesParts
  <1> QED
    BY <1>1, <1>3, <1>4, <1>5 DEF IInv, LInv

\* Starts and shutdowns.
LEMMA ConfigureStep ==
    ASSUME IInv, NEW p \in P, Configure(p)
    PROVE  IInv' /\ UNCHANGED server
  <1>1. TypeOK'
    BY ConfigureType DEF IInv, LInv
  <1>2. LInv'
    BY <1>1, StartInv, StartGlobalInv, StartGlobalAgainInv, ShutdownNewInv, ShutdownInv
       DEF IInv, Configure
  <1>3. UNCHANGED <<counters, opamp>>
    BY DEF Configure, Start, StartGlobal, StartGlobalAgain, Register, ShutdownNew, Shutdown
  <1>4. \A l \in Ids : loop'[l] = loop[l] \/ \E pc : loop'[l] = Loop(pc)
    <2>1. UNCHANGED loop \/ Goto(Of(p), "idle")
      BY DEF Configure, Start, StartGlobal, StartGlobalAgain, ShutdownNew, Shutdown, startLocked
    <2> QED
      BY <2>1 DEF Goto, IInv, LInv, TypeOK
  <1> QED
    BY <1>2, <1>3, <1>4, ValuesService DEF IInv, LInv, opamp

\* The rest of the service's life.
LEMMA ServiceStep ==
    ASSUME IInv, Restart \/ Released \/ BeginShutdown \/ Reload \/ Finished
    PROVE  IInv' /\ UNCHANGED server
  <1>1. TypeOK'
    BY ServiceType DEF IInv, LInv, Waits, Running
  <1>2. CASE Finished
    <2>1. UNCHANGED service /\ UNCHANGED loop /\ UNCHANGED counters /\ UNCHANGED opamp
      BY <1>2 DEF Finished, vars
    <2>2. LInv'
      BY <1>1, <2>1, LoopsOnly DEF LStep, IInv
    <2> QED
      BY <2>1, <2>2, ValuesService DEF IInv, LInv, opamp
  <1>3. CASE Restart \/ Released \/ BeginShutdown \/ Reload
    <2>1. LInv'
      BY <1>1, <1>3, RestartInv, ReleasedInv, BeginShutdownInv, ReloadInv DEF IInv
    <2>2. UNCHANGED <<counters, server>> /\ pending' \in {pending, None}
      BY <1>3 DEF Restart, Released, BeginShutdown, Reload, opamp
    <2>3. \A l \in Ids : loop'[l] = loop[l] \/ \E pc : loop'[l] = Loop(pc)
      <3>1. UNCHANGED loop \/ Goto(Of(who), "idle")
        BY <1>3 DEF Restart, Released, BeginShutdown, Reload, startLocked
      <3> QED
        BY <3>1 DEF Goto, IInv, LInv, TypeOK
    <2> QED
      BY <2>1, <2>2, <2>3, ValuesService DEF IInv, LInv, opamp
  <1> QED
    BY <1>2, <1>3

\* The pipelines.
LEMMA CounterStep ==
    ASSUME IInv, (\E p \in P : AddBegin(p)) \/ (\E i \in Ids : AddEnd(i))
    PROVE  IInv' /\ UNCHANGED server
  <1>1. TypeOK'
    BY CounterType DEF IInv, LInv
  <1>2. UNCHANGED service /\ UNCHANGED loop /\ UNCHANGED opamp
    BY DEF AddBegin, AddEnd
  <1>3. LInv'
    BY <1>1, <1>2, LoopsOnly DEF LStep, IInv
  <1>4. \A i \in Ids : val'[i] \in Nat /\ val'[i] >= val[i]
    <2>1. \A i \in Ids : val[i] \in Nat /\ val'[i] \in Nat
      BY <1>1 DEF IInv, LInv, TypeOK
    <2>2. CASE \E p \in P : AddBegin(p)
      BY <2>1, <2>2 DEF AddBegin
    <2>3. ASSUME NEW i \in Ids, AddEnd(i) PROVE \A j \in Ids : val'[j] >= val[j]
      BY <2>1, <2>3 DEF AddEnd, IInv, LInv, TypeOK
    <2> QED
      BY <2>1, <2>2, <2>3
  <1> QED
    BY <1>2, <1>3, <1>4, ValuesCounters DEF IInv, LInv, opamp

\* A step of loop m: the other loops stay, it goes on or ends.
LEMMA ReportLoops ==
    ASSUME TypeOK, NEW m \in Ids, Report(m) \/ Exit(m)
    PROVE  \A l \in Ids : LStep(l)
  <1>1. CASE Tick(m)
    <2>1. Alive(m) /\ loop'[m].pc = "report" /\ \A l \in Ids : l # m => loop'[l] = loop[l]
      BY <1>1 DEF Tick, Loop, Alive, TypeOK
    <2> QED
      BY <2>1 DEF LStep
  <1>2. ASSUME NEW q \in P, Collect(m, q) PROVE \A l \in Ids : loop'[l].pc = loop[l].pc
    BY <1>2 DEF Collect, TypeOK
  <1>3. ASSUME Mark(m) PROVE \A l \in Ids : loop'[l].pc = loop[l].pc
    BY <1>3 DEF Mark, TypeOK
  <1>4. CASE SendMessage(m) \/ SendFails(m)
    <2>1. Alive(m) /\ loop'[m].pc = "idle" /\ \A l \in Ids : l # m => loop'[l] = loop[l]
      BY <1>4 DEF SendMessage, SendFails, Collected, Goto, Loop, Alive, TypeOK
    <2> QED
      BY <2>1 DEF LStep
  <1>5. CASE SendPending(m)
    <2>1. Alive(m) /\ loop'[m].pc = "wait" /\ \A l \in Ids : l # m => loop'[l] = loop[l]
      BY <1>5 DEF SendPending, Collected, Alive, TypeOK
    <2> QED
      BY <2>1 DEF LStep
  <1>6. CASE Exit(m)
    <2>1. Alive(m) /\ m \in done /\ loop'[m].pc = "gone"
          /\ \A l \in Ids : l # m => loop'[l] = loop[l]
      BY <1>6 DEF Exit, Goto, Loop, Alive, TypeOK
    <2> QED
      BY <2>1 DEF LStep
  <1> QED
    BY <1>1, <1>2, <1>3, <1>4, <1>5, <1>6 DEF Report, LStep

\* ... and whatever is not a read or a send keeps its report or drops it.
LEMMA ReportKept ==
    ASSUME TypeOK, NEW m \in Ids, NEW l \in Ids, NEW q \in P,
           Tick(m) \/ Mark(m) \/ SendPending(m) \/ SendFails(m) \/ Exit(m)
    PROVE  \/ loop'[l].report[q] = 0
           \/ loop'[l].report[q] = loop[l].report[q] /\ (Alive(l) => loop'[l].pc \in {"idle", "report", "wait"})
  <1>1. CASE Tick(m)
    BY <1>1 DEF Tick, Loop, Alive, TypeOK
  <1>2. CASE Mark(m)
    BY <1>2 DEF Mark, Alive, TypeOK
  <1>3. CASE SendPending(m)
    BY <1>3 DEF SendPending, Alive, TypeOK
  <1>4. CASE SendFails(m) \/ Exit(m)
    <2>1. loop'[m].report[q] = 0 /\ (l # m => loop'[l] = loop[l])
      BY <1>4 DEF SendFails, Exit, Goto, Loop, TypeOK
    <2> QED
      BY <2>1 DEF Alive
  <1> QED
    BY <1>1, <1>2, <1>3, <1>4

\* The loops.
LEMMA ReportStep ==
    ASSUME IInv, NEW m \in Ids, Report(m) \/ Exit(m)
    PROVE  IInv' /\ UNCHANGED server
  <1>0. TypeOK /\ TypeOK'
    BY ReportType DEF IInv, LInv
  <1>1. UNCHANGED service /\ UNCHANGED server
    BY DEF Report, Tick, Collect, Mark, SendMessage, SendPending, SendFails, Exit, opamp
  <1>3. LInv'
    BY <1>0, <1>1, ReportLoops, LoopsOnly DEF IInv
  <1>4. CASE SendMessage(m)
    BY <1>1, <1>3, <1>4, ValuesSend DEF IInv
  <1>5. ASSUME NEW q \in P, Collect(m, q) PROVE Values'
    BY <1>0, <1>5, ValuesCollect DEF IInv
  <1>6. ASSUME Tick(m) \/ Mark(m) \/ SendPending(m) \/ SendFails(m) \/ Exit(m)
        PROVE  Values'
    <2> SUFFICES ASSUME NEW l \in Ids, NEW q \in P PROVE Value(l, q)'
      BY ValuesParts DEF Values, Value
    <2>1. Value(l, q)
      BY ValuesParts DEF IInv
    <2>2. UNCHANGED <<val, server, pending>>
      BY <1>6 DEF Tick, Mark, SendPending, SendFails, Exit, counters, opamp
    <2>3. \/ loop'[l].report[q] = 0
          \/ loop'[l].report[q] = loop[l].report[q] /\ (Alive(l) => Alive(l)')
      BY <1>0, <1>6, ReportKept DEF Alive
    <2> QED
      BY <1>0, <2>1, <2>2, <2>3, ValueTypes DEF Value
  <1> QED
    BY <1>1, <1>3, <1>4, <1>5, <1>6 DEF IInv, Report

\* The client.
LEMMA DeliverStep ==
    ASSUME IInv, Deliver
    PROVE  IInv' /\ \A i \in Ids : server'[i] >= server[i]
  <1>0. TypeOK /\ TypeOK' /\ UNCHANGED service
    BY DeliverType DEF IInv, LInv, Deliver
  <1>1. \A l \in Ids : LStep(l)
    BY <1>0 DEF Deliver, LStep, Alive, TypeOK
  <1>2. LInv'
    BY <1>0, <1>1, LoopsOnly DEF IInv
  <1> QED
    BY <1>0, <1>2, ValuesDeliver DEF IInv

\* Every step keeps the invariant, and what has arrived does not go back.
LEMMA NextIInv ==
    ASSUME IInv, [Next]_vars
    PROVE  IInv' /\ \A i \in Ids : server'[i] >= server[i]
  <1>0. \A i \in Ids : server[i] \in Nat
    BY DEF IInv, LInv, TypeOK
  <1>1. CASE UNCHANGED vars
    <2>1. UNCHANGED service /\ UNCHANGED loop /\ UNCHANGED counters /\ UNCHANGED opamp
      BY <1>1 DEF vars
    <2>2. TypeOK'
      BY <2>1 DEF IInv, LInv, TypeOK, service, counters, opamp
    <2>3. LInv'
      BY <2>1, <2>2, LoopsOnly DEF LStep, IInv
    <2> QED
      BY <1>0, <2>1, <2>3, ValuesService DEF IInv, LInv, opamp
  <1>2. CASE Next
    BY <1>0, <1>2, ConfigureStep, ServiceStep, CounterStep, ReportStep, DeliverStep DEF Next
  <1> QED
    BY <1>1, <1>2

\* Whatever the order of starts and shutdowns and whatever fails, the report
\* loop and its capability live as long as the processors (reporter.refs).
THEOREM ReporterFollowsProcessorsCorrect == Spec => []ReporterFollowsProcessors
  <1>1. IInv /\ [Next]_vars => IInv'
    BY NextIInv
  <1>2. IInv => ReporterFollowsProcessors
    <2> SUFFICES ASSUME IInv, ctl = "idle" PROVE ReporterFollowsProcessors
      BY DEF ReporterFollowsProcessors
    <2>1. handler # None => /\ Of(handler) \in caps \ done /\ Of(handler) \in Ids
                            /\ loop[Of(handler)].pc \notin {"none", "gone"}
      BY OfType DEF IInv, LInv, TypeOK, Waits, Loops
    <2>2. Running = {} => handler = None
      BY DEF IInv, LInv, Waits
    <2>3. Running = {} /\ ~Fault("timeout") =>
             caps = {} /\ \A l \in Ids : loop[l].pc \in {"none", "gone"}
      BY <2>2 DEF IInv, LInv, Left, Current, Alive, TypeOK
    <2>4. Wanted => handler # None /\ Running \subseteq reg[gen]
      BY DEF IInv, LInv, SetUp, Refs
    <2> QED
      BY <2>1, <2>2, <2>3, <2>4 DEF ReporterFollowsProcessors, Wanted
  <1> QED
    BY <1>1, <1>2, InitIInv, PTL DEF Spec

\* However often the reporter is set up anew and whoever waits for the slot,
\* the counters the server is sent never go back (stopLocked, report).
THEOREM ReportsNeverGoBackCorrect == Spec => ReportsNeverGoBack
  <1>1. IInv /\ [Next]_vars => IInv'
    BY NextIInv
  <1>2. IInv /\ [Next]_vars => [\A i \in Ids : server'[i] >= server[i]]_vars
    BY NextIInv
  <1> QED
    BY <1>1, <1>2, InitIInv, PTL DEF Spec, ReportsNeverGoBack
=============================================================================
