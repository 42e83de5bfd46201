------------------------- MODULE VisibilityMonitor -------------------------
(* receiver/awss3eventreceiver/internal/worker: while a worker processes a *)
(* message, extendMessageVisibility keeps it invisible in SQS by setting a *)
(* new visibility timeout each time its timer fires, up to the maximum     *)
(* window.  The monitor's context derives from the worker's, so Shutdown   *)
(* ends the monitor, while ProcessMessage goes on: it flushes, saves and   *)
(* deletes on detached contexts.  Times are ticks since SQS handed the     *)
(* message out, Second of them to a second.  MaxWait bounds the time a     *)
(* message waits in msgChan, MaxLate how late a timer is seen and how long *)
(* an SQS call takes, Horizon the time that is looked at.                  *)
EXTENDS Integers

CONSTANTS VisibilityTimeout, ExtensionInterval, MaxVisibilityWindow,
          Second, MaxWait, MaxLate, Horizon

VARIABLES
    now,
    worker,             \* ProcessMessage
    cancelled,          \* visibilityCtx is done
    shutdownAt,         \* history: when Shutdown cancelled it
    mon,                \* the monitor goroutine
    startTime,
    timer,              \* when it fires next
    calledAt, target,   \* ChangeMessageVisibility: since when, which timeout
    toMax,              \* ... is it the last one
    failed,             \* a call failed before the context was done
    until               \* SQS: the end of the current visibility window

workVars == <<worker, cancelled, shutdownAt>>
callVars == <<calledAt, target, toMax>>
vars == <<now, workVars, mon, startTime, timer, callVars, failed, until>>

\* int32(timeout.Seconds())
InSeconds(d) == d - (d % Second)

getSafetyMargin(timeout) == (timeout * 50) \div 100

\* config.go Validate
ASSUME ConfigAssumption ==
    /\ Second \in Nat \ {0} /\ MaxWait \in Nat /\ MaxLate \in Nat /\ Horizon \in Nat
    /\ {VisibilityTimeout, ExtensionInterval, MaxVisibilityWindow} \subseteq Nat
    /\ 10 * Second <= ExtensionInterval
    /\ ExtensionInterval <= VisibilityTimeout
    /\ VisibilityTimeout < MaxVisibilityWindow

\* A timer that is late and a slow call fit into the safety margin, for the
\* first window also the wait in msgChan.
ASSUME TimelyAssumption ==
    /\ MaxWait + getSafetyMargin(VisibilityTimeout) + 2 * MaxLate
         < InSeconds(VisibilityTimeout)
    /\ getSafetyMargin(ExtensionInterval) + 2 * MaxLate
         < InSeconds(ExtensionInterval)

maxVisibilityEndTime == startTime + MaxVisibilityWindow

TypeOK ==
    /\ now \in Nat
    /\ worker \in {"queued", "processing", "done"}
    /\ cancelled \in BOOLEAN /\ shutdownAt \in Nat
    /\ mon \in {"idle", "wait", "call", "stopped"}
    /\ startTime \in Nat /\ timer \in Nat /\ calledAt \in Nat /\ target \in Int
    /\ toMax \in BOOLEAN /\ failed \in BOOLEAN
    /\ until \in Int

\* ReceiveMessage returned the message
Init ==
    /\ now = 0 /\ worker = "queued" /\ mon = "idle"
    /\ cancelled = FALSE /\ shutdownAt = 0
    /\ startTime = 0 /\ timer = 0 /\ calledAt = 0 /\ target = 0
    /\ toMax = FALSE /\ failed = FALSE
    /\ until = InSeconds(VisibilityTimeout)

Tick ==
    /\ now < Horizon
    /\ worker = "queued" => now < MaxWait
    /\ mon = "wait" => now < timer + MaxLate
    /\ mon = "call" => now < calledAt + MaxLate
    /\ now' = now + 1
    /\ UNCHANGED <<workVars, mon, startTime, timer, callVars, failed, until>>

-----------------------------------------------------------------------------
(* The worker.                                                             *)

\* ProcessMessage starts the monitor; after a Shutdown the worker may still
\* take a message from msgChan, since its select picks at random.
newVisibilityMonitor ==
    /\ worker = "queued"
    /\ worker' = "processing" /\ mon' = "wait"
    /\ startTime' = now
    /\ timer' = now + getSafetyMargin(VisibilityTimeout)
    /\ UNCHANGED <<now, cancelled, shutdownAt, callVars, failed, until>>

\* Shutdown cancels the context of the workers, and with it the monitor's;
\* ProcessMessage goes on for as long as its flush, save and delete take.
Shutdown ==
    /\ worker # "done" /\ ~cancelled
    /\ cancelled' = TRUE /\ shutdownAt' = now
    /\ UNCHANGED <<now, worker, mon, startTime, timer, callVars, failed, until>>

\* ProcessMessage returns and cancels the monitor's context.
ProcessingEnds ==
    /\ worker = "processing"
    /\ worker' = "done" /\ cancelled' = TRUE
    /\ UNCHANGED <<now, shutdownAt, mon, startTime, timer, callVars, failed, until>>

-----------------------------------------------------------------------------
(* The monitor.                                                            *)

\* ctx.Done()
MonitorCancelled ==
    /\ mon = "wait" /\ cancelled
    /\ mon' = "stopped"
    /\ UNCHANGED <<now, workVars, startTime, timer, callVars, failed, until>>

\* the window ends before the next extension would be asked for
BadShouldExtendToMax == now >= maxVisibilityEndTime

shouldExtendToMax == now + ExtensionInterval >= maxVisibilityEndTime

\* the timer fires: one more interval, or what remains of the window.  The
\* select may take it although the context is done too.
TimerFires ==
    /\ mon = "wait" /\ now >= timer
    /\ mon' = "call"
    /\ calledAt' = now
    /\ toMax' = shouldExtendToMax
    /\ target' = IF shouldExtendToMax THEN maxVisibilityEndTime - now
                                      ELSE ExtensionInterval
    /\ UNCHANGED <<now, workVars, startTime, timer, failed, until>>

\* SQS accepts the call for a message that is still invisible
Accepted ==
    /\ now < until /\ target >= 0
    /\ until' = now + InSeconds(target)

\* the timer is set without the safety margin
BadExtended ==
    /\ mon = "call" /\ Accepted
    /\ IF toMax THEN mon' = "stopped" /\ UNCHANGED timer
                ELSE mon' = "wait" /\ timer' = now + ExtensionInterval
    /\ UNCHANGED <<now, workVars, startTime, callVars, failed>>

\* scheduleNextExtension sets the timer, after the last call the monitor ends
Extended ==
    /\ mon = "call" /\ Accepted
    /\ IF toMax THEN mon' = "stopped" /\ UNCHANGED timer
                ELSE /\ mon' = "wait"
                     /\ timer' = now + getSafetyMargin(ExtensionInterval)
    /\ UNCHANGED <<now, workVars, startTime, callVars, failed>>

\* An error ends the monitor, also one of the cancelled context.  SQS may
\* have accepted the call before it failed.
ExtensionFails ==
    /\ mon = "call"
    /\ Accepted \/ UNCHANGED until
    /\ mon' = "stopped" /\ failed' = ~cancelled
    /\ UNCHANGED <<now, workVars, startTime, timer, callVars>>

Next ==
    \/ Tick \/ newVisibilityMonitor \/ Shutdown \/ ProcessingEnds
    \/ MonitorCancelled \/ TimerFires \/ Extended \/ ExtensionFails

Spec == Init /\ [][Next]_vars

-----------------------------------------------------------------------------
(* Properties.                                                             *)

\* What is left of a window when the timer of its extension is late and the
\* call is slow
First == InSeconds(VisibilityTimeout) - MaxWait - getSafetyMargin(VisibilityTimeout)
Later == InSeconds(ExtensionInterval) - getSafetyMargin(ExtensionInterval)
Grace == (IF First < Later THEN First ELSE Later) - 2 * MaxLate

\* Nobody else gets a message that is being processed, until the last second
\* of the maximum window, unless an extension failed: each extension takes
\* effect before the window it extends ends.  A Shutdown ends the extensions
\* of a message that is still worked on: the message stays hidden for Grace
\* from then on, at most half an interval, and for no more than that if the
\* worker takes longer to finish.
HiddenWhileProcessed ==
    /\ worker = "processing" /\ ~failed
    /\ now + Second <= maxVisibilityEndTime
    /\ cancelled => now < shutdownAt + Grace
    => now < until

\* A message that hangs is not hidden for ever: no extension reaches beyond
\* the maximum window, but for the time the call takes, also one that is under
\* way when ProcessMessage returns or the receiver shuts down.
WindowRespected == until <= maxVisibilityEndTime + MaxLate
=============================================================================
