------------------------- MODULE ThroughputReporter -------------------------
(* The throughput measurements and the reporter that all throughput        *)
(* measurement processors of a collector share (the topology processors    *)
(* have one of the same shape, the bindplane extension the same loop).     *)
(*                                                                         *)
(* The collector starts its processors one by one, and shuts them down one *)
(* by one for a reload.  The first to start creates the reporter, the one  *)
(* with the global block sets up its report loop, the last one to shut     *)
(* down tears it down.  Meanwhile pipelines add payloads to the counters   *)
(* of their processors, and at every tick the loop sends those that        *)
(* changed, through the one slot the OpAMP client has for custom messages. *)
(*                                                                         *)
(* A scenario says which processors have a global block ("on", or "off"    *)
(* for an interval of 0) and what fails: a processor's start ("start"),    *)
(* the sending of a message ("send"), a shutdown whose context ends        *)
(* ("timeout"), and bounds the service's lives and, in each of them, the   *)
(* payloads of a processor.  A counter counts payloads.                    *)
EXTENDS Integers, FiniteSets

CONSTANTS
    P,                  \* the processors configured with opamp
    None,               \* no processor, no message
    Scenarios,          \* [global, faults, lives, payloads]
    MaxLives,           \* bound on the lives of the collector's service
    MaxPayloads,        \* bound on the payloads of a processor in a life
    Pipelines           \* how many payloads a processor measures at a time

ASSUME ReporterAssumption ==
    /\ IsFiniteSet(P) /\ None \notin P
    /\ MaxLives \in Nat \ {0} /\ MaxPayloads \in Nat /\ Pipelines \in Nat \ {0}
    /\ Scenarios \subseteq [global : [P -> {"none", "off", "on"}],
                            faults : SUBSET {"start", "send", "timeout"},
                            lives : 1 .. MaxLives, payloads : [P -> 0 .. MaxPayloads]]

VARIABLES
    scenario,
    gen, proc,          \* the life of the service and its processors
    phase, failed,      \* it starts and runs, or shuts down; a start has failed
    ctl, who,           \* what the collector waits for, and for whose loop
    refs, reg,          \* the references to the reporter and its registry
    handler,            \* the processor whose loop is set up
    caps, done,         \* capabilities registered, closed doneChans, by loop
    loop,               \* the report loops
    seq, val, mark,     \* sequence number, counter, lastCollectedSequence
    pending,            \* the message the OpAMP client is to send
    server              \* the last report of each counter that has arrived

service == <<scenario, gen, proc, phase, failed, ctl, who, refs, reg, handler, caps, done>>
counters == <<seq, val, mark>>
opamp == <<pending, server>>
vars == <<service, loop, counters, opamp>>

\* What belongs to processor p in the n-th life of the service: its counters,
\* and the loop it set up.  Every life has its own reporter.
Ids == (1 .. MaxLives) \X P
Of(p) == <<gen, p>>

Fault(f) == f \in scenario.faults
Global(p) == scenario.global[p]

\* A loop that is not at a report.  A report has 0 for what it leaves out.
Loop(pc) == [pc |-> pc, todo |-> {}, cur |-> None, report |-> [p \in P |-> 0]]
Goto(l, pc) == loop' = [loop EXCEPT ![l] = Loop(pc)]

TypeOK ==
    /\ scenario \in Scenarios
    /\ gen \in 1 .. MaxLives
    /\ proc \in [P -> {"new", "running", "stopped"}]
    /\ phase \in {"up", "down"} /\ failed \in BOOLEAN
    /\ ctl \in {"idle", "stopping", "releasing"} /\ who \in P \cup {None}
    /\ refs \in Int /\ reg \in [1 .. MaxLives -> SUBSET P]
    /\ handler \in P \cup {None}
    /\ caps \subseteq Ids /\ done \subseteq Ids
    /\ loop \in [Ids -> [pc : {"none", "idle", "report", "wait", "gone"}, todo : SUBSET P,
                         cur : P \cup {None}, report : [P -> Nat]]]
    /\ seq \in [Ids -> Nat] /\ val \in [Ids -> Nat] /\ mark \in [Ids -> Nat]
    /\ pending \in [gen : 1 .. MaxLives, report : [P -> Nat]] \cup {None}
    /\ server \in [Ids -> Nat]

Init ==
    /\ scenario \in Scenarios
    /\ gen = 1 /\ proc = [p \in P |-> "new"]
    /\ phase = "up" /\ failed = FALSE /\ ctl = "idle" /\ who = None
    /\ refs = 0 /\ reg = [n \in 1 .. MaxLives |-> {}] /\ handler = None
    /\ caps = {} /\ done = {}
    /\ loop = [l \in Ids |-> Loop("none")]
    /\ seq = [i \in Ids |-> 0] /\ val = [i \in Ids |-> 0] /\ mark = [i \in Ids |-> 0]
    /\ pending = None /\ server = [i \in Ids |-> 0]

-----------------------------------------------------------------------------
(* The start of a processor.                                               *)

\* startLocked, with the capabilities c: registers the capability and starts
\* the loop, unless the interval is 0.  Registering may fail.
startLocked(p, c) ==
    \/ /\ Global(p) = "off"
       /\ handler' = None /\ caps' = c
       /\ UNCHANGED <<loop, failed>>
    \/ /\ Global(p) = "on"
       /\ handler' = p /\ caps' = c \cup {Of(p)}
       /\ Goto(Of(p), "idle")
       /\ UNCHANGED failed
    \/ /\ Global(p) = "on" /\ Fault("start")
       /\ handler' = None /\ caps' = c /\ failed' = TRUE
       /\ UNCHANGED loop

\* registerWithOpAMPReporter
Register(p) ==
    /\ phase = "up" /\ ~failed /\ ctl = "idle" /\ proc[p] = "new"
    /\ proc' = [proc EXCEPT ![p] = "running"]
    /\ refs' = refs + 1
    /\ reg' = [reg EXCEPT ![gen] = @ \cup {p}]
    /\ UNCHANGED <<scenario, gen, phase, counters, opamp>>

\* A processor without a global block, or one whose extension is missing.
Start(p) ==
    /\ Register(p)
    /\ \/ Global(p) = "none" /\ UNCHANGED failed
       \/ Fault("start") /\ failed' = TRUE
    /\ UNCHANGED <<ctl, who, handler, caps, done, loop>>

\* configureOpAMPReporter
StartGlobal(p) ==
    /\ Register(p)
    /\ handler = None
    /\ startLocked(p, caps)
    /\ UNCHANGED <<ctl, who, done>>

\* the loop there is goes on while the next one is started
HastyStartGlobalAgain(p) ==
    /\ Register(p)
    /\ Global(p) # "none" /\ handler # None
    /\ done' = done \cup {Of(handler)}
    /\ startLocked(p, caps \ {Of(handler)})
    /\ UNCHANGED <<ctl, who>>

\* ... when another processor has set up the reporter: stopLocked
StartGlobalAgain(p) ==
    /\ Register(p)
    /\ Global(p) # "none" /\ handler # None
    /\ done' = done \cup {Of(handler)}
    /\ ctl' = "stopping" /\ who' = p
    /\ UNCHANGED <<failed, handler, caps, loop>>

\* r.wg.Wait()
Restart ==
    /\ ctl = "stopping" /\ loop[Of(handler)].pc = "gone"
    /\ startLocked(who, caps \ {Of(handler)})
    /\ ctl' = "idle" /\ who' = None
    /\ UNCHANGED <<scenario, gen, proc, phase, refs, reg, done, counters, opamp>>

-----------------------------------------------------------------------------
(* The shutdown of a processor.                                            *)

\* Everything has started, or something has failed to.
BeginShutdown ==
    /\ phase = "up" /\ ctl = "idle"
    /\ failed \/ \A p \in P : proc[p] = "running"
    /\ phase' = "down"
    /\ UNCHANGED <<scenario, gen, proc, failed, ctl, who, refs, reg, handler, caps, done,
                   loop, counters, opamp>>

\* A processor that has not been started.
ShutdownNew(p) ==
    /\ phase = "down" /\ ctl = "idle" /\ proc[p] = "new"
    /\ proc' = [proc EXCEPT ![p] = "stopped"]
    /\ UNCHANGED <<scenario, gen, phase, failed, ctl, who, refs, reg, handler, caps, done,
                   loop, counters, opamp>>

\* the processor that set the loop up takes it down
OwnerShutdown(p) ==
    /\ phase = "down" /\ ctl = "idle" /\ proc[p] = "running"
    /\ proc' = [proc EXCEPT ![p] = "stopped"]
    /\ refs' = refs - 1
    /\ IF handler # p
       THEN UNCHANGED <<ctl, who, handler, done>>
       ELSE /\ handler' = None /\ done' = done \cup {Of(handler)}
            /\ ctl' = "releasing" /\ who' = handler
    /\ UNCHANGED <<scenario, gen, phase, failed, reg, caps, loop, counters, opamp>>

\* the loop is not told to end
SilentShutdown(p) ==
    /\ phase = "down" /\ ctl = "idle" /\ proc[p] = "running"
    /\ proc' = [proc EXCEPT ![p] = "stopped"]
    /\ refs' = refs - 1
    /\ IF refs > 1 \/ handler = None
       THEN UNCHANGED <<ctl, who, handler>>
       ELSE handler' = None /\ ctl' = "releasing" /\ who' = handler
    /\ UNCHANGED <<scenario, gen, phase, failed, reg, caps, done, loop, counters, opamp>>

\* releaseOpAMPReporter
Shutdown(p) ==
    /\ phase = "down" /\ ctl = "idle" /\ proc[p] = "running"
    /\ proc' = [proc EXCEPT ![p] = "stopped"]
    /\ refs' = refs - 1
    /\ IF refs > 1 \/ handler = None
       THEN UNCHANGED <<ctl, who, handler, done>>
       ELSE /\ handler' = None /\ done' = done \cup {Of(handler)}
            /\ ctl' = "releasing" /\ who' = handler
    /\ UNCHANGED <<scenario, gen, phase, failed, reg, caps, loop, counters, opamp>>

\* The loop has ended in time; otherwise the capability stays registered.
Released ==
    /\ ctl = "releasing"
    /\ \/ loop[Of(who)].pc = "gone" /\ caps' = caps \ {Of(who)}
       \/ Fault("timeout") /\ UNCHANGED caps
    /\ ctl' = "idle" /\ who' = None
    /\ UNCHANGED <<scenario, gen, proc, phase, failed, refs, reg, handler, done, loop,
                   counters, opamp>>

\* The collector is given a new configuration: new processors, and a new OpAMP
\* extension with a client of its own.  What the old client has not sent is lost.
Reload ==
    /\ phase = "down" /\ ctl = "idle" /\ \A p \in P : proc[p] = "stopped"
    /\ gen < scenario.lives
    /\ gen' = gen + 1
    /\ proc' = [p \in P |-> "new"]
    /\ phase' = "up" /\ failed' = FALSE
    /\ pending' = None
    /\ UNCHANGED <<scenario, ctl, who, refs, reg, handler, caps, done, loop, counters, server>>

-----------------------------------------------------------------------------
(* The counters.                                                           *)

\* AddLogs, AddMetrics, AddTraces: first the sequence number ...
AddBegin(p) ==
    /\ proc[p] = "running"
    /\ seq[Of(p)] < scenario.payloads[p] /\ seq[Of(p)] - val[Of(p)] < Pipelines
    /\ seq' = [seq EXCEPT ![Of(p)] = @ + 1]
    /\ UNCHANGED <<service, loop, val, mark, opamp>>

\* ... and then the counter.
AddEnd(i) ==
    /\ val[i] < seq[i]
    /\ val' = [val EXCEPT ![i] = @ + 1]
    /\ UNCHANGED <<service, loop, seq, mark, opamp>>

-----------------------------------------------------------------------------
(* Loop l.                                                                 *)

\* The ticker fires, also when doneChan is closed: OTLPMeasurements.
Tick(l) ==
    /\ loop[l].pc = "idle"
    /\ loop' = [loop EXCEPT ![l] = [Loop("report") EXCEPT !.todo = reg[l[1]]]]
    /\ UNCHANGED <<service, counters, opamp>>

\* The counter of q is read when its sequence number has moved ...
Collect(l, q) ==
    /\ loop[l].pc = "report" /\ loop[l].cur = None /\ q \in loop[l].todo
    /\ loop' = IF seq[<<l[1], q>>] > mark[<<l[1], q>>]
               THEN [loop EXCEPT ![l].cur = q, ![l].report[q] = val[<<l[1], q>>]]
               ELSE [loop EXCEPT ![l].todo = @ \ {q}]
    /\ UNCHANGED <<service, counters, opamp>>

\* ... and then the sequence number again.
Mark(l) ==
    LET i == <<l[1], loop[l].cur>> IN
    /\ loop[l].pc = "report" /\ loop[l].cur # None
    /\ mark' = [mark EXCEPT ![i] = seq[i]]
    /\ loop' = [loop EXCEPT ![l].cur = None, ![l].todo = @ \ {loop[l].cur}]
    /\ UNCHANGED <<service, seq, val, opamp>>

Collected(l) == loop[l].pc = "report" /\ loop[l].cur = None /\ loop[l].todo = {}

\* A loop that a shutdown did not wait for may outlive its client.
Orphan(l) == l[1] < gen

SendMessage(l) ==
    /\ Collected(l) /\ ~Orphan(l) /\ pending = None
    /\ pending' = [gen |-> l[1], report |-> loop[l].report]
    /\ Goto(l, "idle")
    /\ UNCHANGED <<service, counters, server>>

\* the report is given up
DroppedPending(l) ==
    /\ Collected(l) /\ pending # None
    /\ Goto(l, "idle")
    /\ UNCHANGED <<service, counters, opamp>>

\* ErrCustomMessagePending: waits until that message is sent
SendPending(l) ==
    /\ Collected(l) /\ (pending # None \/ Orphan(l))
    /\ loop' = [loop EXCEPT ![l].pc = "wait"]
    /\ UNCHANGED <<service, counters, opamp>>

\* Any other error is logged; a client that has stopped sends nothing.
SendFails(l) ==
    /\ Collected(l) /\ (Fault("send") \/ Orphan(l))
    /\ Goto(l, "idle")
    /\ UNCHANGED <<service, counters, opamp>>

\* doneChan is closed
Exit(l) ==
    /\ loop[l].pc = "idle" /\ l \in done
    /\ Goto(l, "gone")
    /\ UNCHANGED <<service, counters, opamp>>

\* The OpAMP client sends its message, which wakes those that wait for it.
Deliver ==
    /\ pending # None
    /\ server' = [i \in Ids |-> IF i[1] = pending.gen /\ pending.report[i[2]] > 0
                                THEN pending.report[i[2]] ELSE server[i]]
    /\ pending' = None
    /\ loop' = [l \in Ids |-> IF loop[l].pc = "wait" /\ ~Orphan(l)
                               THEN [loop[l] EXCEPT !.pc = "report"] ELSE loop[l]]
    /\ UNCHANGED <<service, counters>>

\* The last service is down.
Finished ==
    /\ phase = "down" /\ ctl = "idle" /\ gen = scenario.lives /\ \A p \in P : proc[p] = "stopped"
    /\ UNCHANGED vars

Report(l) ==
    \/ Tick(l) \/ (\E q \in P : Collect(l, q)) \/ Mark(l)
    \/ SendMessage(l) \/ SendPending(l) \/ SendFails(l)

Configure(p) ==
    Start(p) \/ StartGlobal(p) \/ StartGlobalAgain(p) \/ ShutdownNew(p) \/ Shutdown(p)

Next ==
    \/ \E p \in P : Configure(p) \/ AddBegin(p)
    \/ Restart \/ Released \/ BeginShutdown \/ Reload \/ Deliver \/ Finished
    \/ \E i \in Ids : AddEnd(i) \/ Report(i) \/ Exit(i)

Spec == Init /\ [][Next]_vars

\* Goroutines run, the ticker fires, and the OpAMP client is connected.  A
\* select with both cases ready takes each of them now and then, so a loop
\* whose doneChan is closed does end.  Nothing makes the collector reload,
\* nor a context end.
Fairness ==
    /\ WF_vars(Restart) /\ WF_vars(Released) /\ WF_vars(Deliver)
    /\ \A i \in Ids : WF_vars(AddEnd(i)) /\ WF_vars(Report(i)) /\ SF_vars(Exit(i))

FairSpec == Spec /\ Fairness

-----------------------------------------------------------------------------
(* Properties.                                                             *)

\* The cumulative counters the server is sent never go back, however often
\* the reporter is set up anew: stopLocked waits for the old loop, whose
\* report may still be in its hands.
ReportsNeverGoBack == [][\A i \in Ids : server'[i] >= server[i]]_vars

Running == {p \in P : proc[p] = "running"}

\* "The first of them to start creates it; the last one to shut down tears it
\* down": the loop lives on after the processor that set it up, as long as any
\* other runs, and nothing is left when none does (unless a shutdown timed out).
ReporterFollowsProcessors ==
    ctl = "idle" =>
        /\ Running # {} /\ ~failed /\ (\A p \in P : Global(p) # "off")
           /\ (\E p \in P : Global(p) = "on" /\ proc[p] # "new")
           => /\ handler # None /\ Of(handler) \in caps \ done
              /\ loop[Of(handler)].pc \notin {"none", "gone"}
              /\ Running \subseteq reg[gen]
        /\ Running = {} /\ ~Fault("timeout")
           => /\ handler = None /\ caps = {}
              /\ \A l \in Ids : loop[l].pc \in {"none", "gone"}

Reporting(p) == handler # None /\ ctl = "idle" /\ proc[p] = "running"

\* What a counter holds when its sequence number is ahead of the last one
\* collected is reported, also when a report finds the slot taken.  (What is
\* added between the read of a counter and the second read of its sequence
\* number waits for the next payload.)
NextPayloadReports ==
    \A n \in 1 .. MaxLives, p \in P : \A v \in 1 .. MaxPayloads :
        (/\ ~Fault("send") /\ gen = n /\ Reporting(p) /\ loop[Of(handler)].cur # p
         /\ seq[Of(p)] > mark[Of(p)] /\ val[Of(p)] >= v)
        ~> (gen # n \/ ~Reporting(p) \/ server[<<n, p>>] >= v)

\* Starts and shutdowns return: the loop they wait for never waits for them.
LifecycleReturns == []<>(ctl = "idle")

=============================================================================
