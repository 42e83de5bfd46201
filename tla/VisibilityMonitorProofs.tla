---------------------- MODULE VisibilityMonitorProofs ----------------------
(* For every configuration that Validate accepts, and delays that fit into *)
(* the safety margin: a message under work stays hidden, for a while also  *)
(* after a shutdown, and not for longer than the maximum window.           *)
EXTENDS VisibilityMonitor, TLAPS

\* Rounding down to seconds loses less than a second.
LEMMA Rounding ==
    ASSUME NEW d \in Int
    PROVE  InSeconds(d) \in Int /\ d - Second < InSeconds(d) /\ InSeconds(d) <= d
  <1>1. d % Second \in 0 .. Second - 1
    BY ConfigAssumption
  <1> QED
    BY <1>1, ConfigAssumption DEF InSeconds

\* The margin is a number of ticks, at most the timeout.
LEMMA Margin ==
    ASSUME NEW d \in Nat
    PROVE  getSafetyMargin(d) \in Nat /\ getSafetyMargin(d) <= d
  BY DEF getSafetyMargin

\* Grace is positive, and fits into both windows with the delays.
LEMMA GraceFits ==
    /\ Grace \in Int /\ 0 < Grace
    /\ Grace + 2 * MaxLate
         <= InSeconds(VisibilityTimeout) - MaxWait - getSafetyMargin(VisibilityTimeout)
    /\ Grace + 2 * MaxLate
         <= InSeconds(ExtensionInterval) - getSafetyMargin(ExtensionInterval)
  <1>1. /\ InSeconds(VisibilityTimeout) \in Int /\ InSeconds(ExtensionInterval) \in Int
        /\ getSafetyMargin(VisibilityTimeout) \in Nat
        /\ getSafetyMargin(ExtensionInterval) \in Nat
        /\ MaxWait \in Nat /\ MaxLate \in Nat
    BY ConfigAssumption, Rounding, Margin
  <1> QED
    BY <1>1, TimelyAssumption DEF Grace, First, Later

\* While the monitor waits, the window outlasts the late timer, the slow call
\* and Grace; while it calls, the slow call and Grace; once it stopped after
\* the last extension, the window ends with the last second of the maximum
\* window.
Timely ==
    /\ mon = "idle" =>
         /\ now <= MaxWait
         /\ until = InSeconds(VisibilityTimeout)
    /\ mon = "wait" =>
         /\ now <= timer + MaxLate
         /\ timer + 2 * MaxLate + Grace <= until
    /\ mon = "call" =>
         /\ calledAt <= now /\ now <= calledAt + MaxLate
         /\ calledAt + MaxLate + Grace <= until
         /\ target = IF toMax THEN maxVisibilityEndTime - calledAt
                              ELSE ExtensionInterval
         /\ ~toMax => calledAt + ExtensionInterval < maxVisibilityEndTime
    /\ mon = "stopped" /\ ~failed /\ ~cancelled =>
         maxVisibilityEndTime - Second < until

\* Once Shutdown has cancelled the monitor's context, the window it left
\* outlasts Grace, unless it was the last one.
Granted ==
    /\ cancelled /\ worker # "done" => shutdownAt <= now
    /\ cancelled /\ worker = "processing" /\ ~failed =>
         \/ shutdownAt + Grace <= until
         \/ maxVisibilityEndTime - Second < until

\* The monitor runs from the start of ProcessMessage, and ends when a call
\* fails.
Running ==
    /\ worker = "queued" <=> mon = "idle"
    /\ failed => mon = "stopped"

IInv == TypeOK /\ Timely /\ Granted /\ Running /\ WindowRespected

\* The window SQS gave the message outlasts the wait in msgChan.
LEMMA InitIInv == Init => IInv
  <1> SUFFICES ASSUME Init PROVE IInv
    OBVIOUS
  <1>1. /\ InSeconds(VisibilityTimeout) \in Int
        /\ InSeconds(VisibilityTimeout) <= VisibilityTimeout
    BY Rounding, ConfigAssumption
  <1>2. toMax \in BOOLEAN /\ failed \in BOOLEAN /\ cancelled \in BOOLEAN
    BY DEF Init
  <1>3. TypeOK
    BY <1>1, <1>2 DEF Init, TypeOK
  <1>4. Timely /\ Granted /\ Running
    BY ConfigAssumption DEF Init, Timely, Granted, Running
  <1>5. WindowRespected
    BY <1>1, ConfigAssumption DEF Init, WindowRespected, maxVisibilityEndTime
  <1> QED
    BY <1>3, <1>4, <1>5 DEF IInv

\* The bounds on the constants that the steps rely on.
LEMMA Bounds ==
    /\ VisibilityTimeout \in Nat /\ ExtensionInterval \in Nat
    /\ MaxVisibilityWindow \in Nat /\ Second \in Nat /\ Second > 0
    /\ MaxWait \in Nat /\ MaxLate \in Nat
    /\ VisibilityTimeout < MaxVisibilityWindow
    /\ Grace \in Int /\ 0 < Grace
  BY ConfigAssumption, GraceFits

\* The timer fires early enough for the call it starts.
LEMMA TimerFiresIInv ==
    ASSUME IInv, TimerFires
    PROVE  IInv'
  <1> USE DEF IInv, TypeOK, maxVisibilityEndTime
  <1>1. /\ mon = "wait" /\ mon' = "call" /\ calledAt' = now
        /\ toMax' = shouldExtendToMax
        /\ UNCHANGED <<now, worker, cancelled, shutdownAt, startTime, timer,
                       failed, until>>
    BY DEF TimerFires, workVars
  <1>2. shouldExtendToMax \in BOOLEAN
    BY DEF shouldExtendToMax
  <1>3. failed' \in BOOLEAN /\ toMax' \in BOOLEAN /\ cancelled' \in BOOLEAN
    BY <1>1, <1>2
  <1>4. /\ target' \in Int
        /\ target' = IF toMax' THEN maxVisibilityEndTime - now ELSE ExtensionInterval
        /\ ~toMax' => now + ExtensionInterval < maxVisibilityEndTime
    <2>1. CASE shouldExtendToMax
      <3>1. target' = maxVisibilityEndTime - now
        BY <2>1 DEF TimerFires
      <3> QED
        BY <1>1, <2>1, <3>1, Bounds
    <2>2. CASE ~shouldExtendToMax
      <3>1. target' = ExtensionInterval
        BY <2>2 DEF TimerFires
      <3>2. now + ExtensionInterval < maxVisibilityEndTime
        BY <2>2, Bounds DEF shouldExtendToMax
      <3> QED
        BY <1>1, <2>2, <3>1, <3>2, Bounds
    <2> QED
      BY <2>1, <2>2
  <1>5. TypeOK'
    BY <1>1, <1>3, <1>4
  <1>6. Timely'
    BY <1>1, <1>4, Bounds DEF Timely
  <1>7. Granted' /\ Running' /\ WindowRespected'
    BY <1>1 DEF Granted, Running, WindowRespected
  <1> QED
    BY <1>5, <1>6, <1>7

\* What an accepted call makes of the window: it lasts for another interval,
\* or to the last second of the maximum window, and not past it.
LEMMA AcceptedWindow ==
    ASSUME IInv, mon = "call", Accepted
    PROVE  /\ until' \in Int
           /\ until' <= maxVisibilityEndTime + MaxLate
           /\ toMax => maxVisibilityEndTime - Second < until'
           /\ ~toMax => now + getSafetyMargin(ExtensionInterval) + 2 * MaxLate + Grace
                          <= until'
           /\ ~toMax => now + Grace <= until'
  <1> USE DEF IInv, TypeOK, maxVisibilityEndTime
  <1>1. /\ InSeconds(target) \in Int /\ target - Second < InSeconds(target)
        /\ InSeconds(target) <= target
    BY Rounding
  <1>2. until' = now + InSeconds(target)
    BY DEF Accepted
  <1>3. CASE toMax
    BY <1>1, <1>2, <1>3, Bounds DEF Timely
  <1>4. CASE ~toMax
    <2>1. target = ExtensionInterval /\ calledAt + ExtensionInterval < maxVisibilityEndTime
          /\ now <= calledAt + MaxLate
      BY <1>4 DEF Timely
    <2>2. getSafetyMargin(ExtensionInterval) \in Nat
      BY Bounds, Margin
    <2>3. now + InSeconds(target) >= now + getSafetyMargin(ExtensionInterval)
                                       + 2 * MaxLate + Grace
      BY <1>1, <2>1, <2>2, GraceFits, Bounds
    <2> QED
      BY <1>1, <1>2, <1>4, <2>1, <2>2, <2>3, Bounds
  <1> QED
    BY <1>3, <1>4

\* A successful call leaves the window long enough for the next timer.
LEMMA ExtendedIInv ==
    ASSUME IInv, Extended
    PROVE  IInv'
  <1> USE DEF IInv, TypeOK, maxVisibilityEndTime
  <1>1. /\ mon = "call" /\ Accepted
        /\ UNCHANGED <<now, worker, cancelled, shutdownAt, startTime, calledAt,
                       target, toMax, failed>>
    BY DEF Extended, workVars, callVars
  <1>b. failed' \in BOOLEAN /\ toMax' \in BOOLEAN /\ cancelled' \in BOOLEAN
    BY <1>1
  <1>2. /\ until' \in Int
        /\ until' <= maxVisibilityEndTime + MaxLate
        /\ toMax => maxVisibilityEndTime - Second < until'
        /\ ~toMax => now + getSafetyMargin(ExtensionInterval) + 2 * MaxLate + Grace
                       <= until'
        /\ ~toMax => now + Grace <= until'
    BY <1>1, AcceptedWindow
  <1>3. getSafetyMargin(ExtensionInterval) \in Nat
    BY Bounds, Margin
  <1>4. /\ toMax => mon' = "stopped" /\ timer' = timer
        /\ ~toMax => /\ mon' = "wait"
                     /\ timer' = now + getSafetyMargin(ExtensionInterval)
    BY DEF Extended
  <1>5. TypeOK'
    BY <1>1, <1>b, <1>2, <1>3, <1>4
  <1>6. Timely'
    BY <1>1, <1>2, <1>3, <1>4, Bounds DEF Timely
  <1>7. Granted'
    BY <1>1, <1>2, Bounds DEF Granted
  <1>8. Running' /\ WindowRespected'
    BY <1>1, <1>2, <1>4 DEF Running, WindowRespected
  <1> QED
    BY <1>5, <1>6, <1>7, <1>8

\* A call that fails after the cancellation leaves at least the window that
\* the Shutdown found.
LEMMA ExtensionFailsIInv ==
    ASSUME IInv, ExtensionFails
    PROVE  IInv'
  <1> USE DEF IInv, TypeOK, maxVisibilityEndTime
  <1>1. /\ mon = "call" /\ mon' = "stopped"
        /\ failed' = ~cancelled
        /\ UNCHANGED <<now, worker, cancelled, shutdownAt, startTime, timer,
                       calledAt, target, toMax>>
    BY DEF ExtensionFails, workVars, callVars
  <1>b. failed' \in BOOLEAN /\ toMax' \in BOOLEAN /\ cancelled' \in BOOLEAN
    BY <1>1
  <1>2. /\ until' \in Int
        /\ until' <= maxVisibilityEndTime + MaxLate
        /\ \/ until' = until
           \/ maxVisibilityEndTime - Second < until'
           \/ now + Grace <= until'
    <2>1. CASE Accepted
      BY <1>1, <2>1, AcceptedWindow
    <2>2. CASE UNCHANGED until
      BY <2>2 DEF WindowRespected
    <2> QED
      BY <2>1, <2>2 DEF ExtensionFails
  <1>3. ~failed
    BY <1>1 DEF Running
  <1>4. TypeOK'
    BY <1>1, <1>b, <1>2
  <1>5. ~failed' => cancelled'
    BY <1>1, <1>b
  <1>6. Timely'
    BY <1>1, <1>5 DEF Timely
  <1>7. Granted'
    BY <1>1, <1>2, <1>3, Bounds DEF Granted
  <1>8. Running' /\ WindowRespected'
    BY <1>1, <1>2 DEF Running, WindowRespected
  <1> QED
    BY <1>4, <1>6, <1>7, <1>8

\* Shutdown finds every window with Grace left, unless it is the last one.
LEMMA ShutdownIInv ==
    ASSUME IInv, Shutdown
    PROVE  IInv'
  <1> USE DEF IInv, TypeOK, maxVisibilityEndTime
  <1>1. /\ worker # "done" /\ ~cancelled /\ cancelled' = TRUE /\ shutdownAt' = now
        /\ UNCHANGED <<now, worker, mon, startTime, timer, calledAt, target,
                       toMax, failed, until>>
    BY DEF Shutdown, callVars
  <1>b. failed' \in BOOLEAN /\ toMax' \in BOOLEAN /\ cancelled' \in BOOLEAN
    BY <1>1
  <1>2. TypeOK'
    BY <1>1, <1>b
  <1>3. Timely' /\ Running' /\ WindowRespected'
    BY <1>1 DEF Timely, Running, WindowRespected
  <1>4. ASSUME worker = "processing", ~failed
        PROVE  now + Grace <= until \/ maxVisibilityEndTime - Second < until
    BY <1>1, <1>4, Bounds DEF Timely, Running
  <1>5. Granted'
    BY <1>1, <1>4 DEF Granted
  <1> QED
    BY <1>2, <1>3, <1>5

\* Every step keeps the windows long enough, and short enough.
LEMMA NextIInv == IInv /\ [Next]_vars => IInv'
  <1> SUFFICES ASSUME IInv, [Next]_vars PROVE IInv'
    OBVIOUS
  <1> USE DEF IInv, TypeOK, maxVisibilityEndTime, workVars, callVars
  <1>1. CASE Tick
    BY <1>1, Bounds DEF Tick, Timely, Granted, Running, WindowRespected
  <1>2. CASE newVisibilityMonitor
    <2>1. /\ getSafetyMargin(VisibilityTimeout) \in Nat
          /\ InSeconds(VisibilityTimeout) \in Int
          /\ InSeconds(VisibilityTimeout) <= VisibilityTimeout
          /\ Grace + 2 * MaxLate <= InSeconds(VisibilityTimeout) - MaxWait
                                      - getSafetyMargin(VisibilityTimeout)
      BY Bounds, Margin, Rounding, GraceFits
    <2>2. TypeOK' /\ Running'
      BY <1>2, <2>1 DEF newVisibilityMonitor, Running
    <2>3. Timely'
      BY <1>2, <2>1, Bounds DEF newVisibilityMonitor, Timely, Running
    <2>4. Granted'
      BY <1>2, <2>1, Bounds DEF newVisibilityMonitor, Timely, Granted, Running
    <2>5. WindowRespected'
      BY <1>2, <2>1, Bounds DEF newVisibilityMonitor, Timely, Running, WindowRespected
    <2> QED
      BY <2>2, <2>3, <2>4, <2>5
  <1>3. CASE ProcessingEnds
    <2>1. /\ worker = "processing" /\ worker' = "done" /\ cancelled' = TRUE
          /\ UNCHANGED <<now, shutdownAt, mon, startTime, timer, calledAt, target,
                         toMax, failed, until>>
      BY <1>3 DEF ProcessingEnds
    <2> QED
      BY <2>1 DEF Timely, Granted, Running, WindowRespected
  <1>4. CASE MonitorCancelled
    <2>1. /\ mon = "wait" /\ cancelled = TRUE /\ mon' = "stopped"
          /\ UNCHANGED <<now, worker, cancelled, shutdownAt, startTime, timer,
                         calledAt, target, toMax, failed, until>>
      BY <1>4 DEF MonitorCancelled
    <2> QED
      BY <2>1 DEF Timely, Granted, Running, WindowRespected
  <1>5. CASE UNCHANGED vars
    BY <1>5 DEF vars, Timely, Granted, Running, WindowRespected
  <1> QED
    BY <1>1, <1>2, <1>3, <1>4, <1>5, TimerFiresIInv, ExtendedIInv,
       ExtensionFailsIInv, ShutdownIInv DEF Next

\* A message that is being processed stays invisible to other consumers until
\* the last second of the maximum window, unless an extension failed; after a
\* Shutdown, for Grace.
THEOREM HiddenWhileProcessedCorrect == Spec => []HiddenWhileProcessed
  <1>1. IInv => HiddenWhileProcessed
    <2> SUFFICES ASSUME IInv, worker = "processing", ~failed,
                        now + Second <= maxVisibilityEndTime,
                        cancelled => now < shutdownAt + Grace
                 PROVE  now < until
      BY DEF HiddenWhileProcessed
    <2> USE DEF IInv, TypeOK, maxVisibilityEndTime
    <2>1. CASE mon \in {"wait", "call"}
      BY <2>1, Bounds DEF Timely
    <2>2. CASE mon = "stopped" /\ ~cancelled
      BY <2>2, Bounds DEF Timely
    <2>3. CASE mon = "stopped" /\ cancelled
      BY <2>3, Bounds DEF Granted
    <2> QED
      BY <2>1, <2>2, <2>3 DEF Running
  <1> QED
    BY <1>1, InitIInv, NextIInv, PTL DEF Spec

\* No extension hides a message beyond the maximum window, but for the time
\* the call takes.
THEOREM WindowRespectedCorrect == Spec => []WindowRespected
  <1>1. IInv => WindowRespected
    BY DEF IInv
  <1> QED
    BY <1>1, InitIInv, NextIInv, PTL DEF Spec
=============================================================================
