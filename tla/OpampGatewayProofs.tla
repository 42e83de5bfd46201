------------------------- MODULE OpampGatewayProofs -------------------------
(***************************************************************************)
(* Proofs about OpampGateway for any number of upstreams, downstreams,     *)
(* agents and dials.                                                       *)
(***************************************************************************)
EXTENDS OpampGateway, FiniteSetTheorems, TLAPS

USE DEF writerVars, readerVars, assignVars, authVars, routeVars, connVars,
        capsVars, srvVars

-----------------------------------------------------------------------------
(* Types.                                                                  *)

\* Written and NotWritten keep the types of what they assign.
LEMMA WriteTypes ==
    ASSUME TypeOK, NEW u \in Upstreams, NEW m \in Message,
           Written(u, m) \/ NotWritten(u, m)
    PROVE  /\ nextMessage' \in [Upstreams -> Message \cup {None}]
           /\ wpc' \in [Upstreams -> {"dialing", "enter", "loop", "drain",
                                      "closing", "stopped", "gone"}]
           /\ connected' \in [Upstreams -> BOOLEAN]
           /\ srvAuth' \in [Upstreams -> SUBSET Downstreams]
           /\ srvAgents' \in [Upstreams -> SUBSET Agents]
           /\ srvCaps' \in [Upstreams -> BOOLEAN]
           /\ accepted' \in SUBSET Downstreams
  <1>1. CASE NotWritten(u, m)
    BY <1>1 DEF TypeOK, NotWritten
  <1>2. CASE Written(u, m) /\ link[u] # "open"
    BY <1>2 DEF TypeOK, Written
  <1>3. CASE Written(u, m) /\ link[u] = "open" /\ m.agent = None
    <2>1. /\ nextMessage' = [nextMessage EXCEPT ![u] = None]
          /\ srvAuth' = [srvAuth EXCEPT ![u] = @ \cup {m.from}]
          /\ UNCHANGED <<wpc, connected, srvAgents, srvCaps, accepted>>
      BY <1>3 DEF Written, Receive
    <2>2. m.from \in Downstreams
      BY DEF Message
    <2> QED
      BY <2>1, <2>2 DEF TypeOK
  <1>4. CASE Written(u, m) /\ link[u] = "open" /\ m.agent # None
    <2>1. /\ nextMessage' = [nextMessage EXCEPT ![u] = None]
          /\ srvAgents' = [srvAgents EXCEPT ![u] = @ \cup {m.agent}]
          /\ UNCHANGED <<wpc, connected, srvAuth, srvCaps, accepted>>
      BY <1>4 DEF Written, Receive
    <2>2. m.agent \in Agents
      BY <1>4 DEF Message
    <2> QED
      BY <2>1, <2>2 DEF TypeOK
  <1> QED
    BY <1>1, <1>2, <1>3, <1>4

\* Complete keeps the types of what it assigns.
LEMMA CompleteTypes ==
    ASSUME TypeOK, NEW m \in Message, NEW ok \in BOOLEAN, Complete(m, ok)
    PROVE  /\ hpc' \in [Downstreams -> {"none", "authSend", "authWait", "upgrade",
                                "unassign", "refused", "live", "closing",
                                "unregistered", "closed"}]
           /\ dr' \in [Downstreams -> {"none", "read", "handle", "send", "done"}]
           /\ dmsg' \in [Downstreams -> Agents \cup {None}]
           /\ ctxDone' \in [Downstreams -> BOOLEAN]
  <1>1. m.from \in Downstreams /\ m.agent \in Agents \cup {None}
    BY DEF Message
  <1>2. CASE m.agent = None
    <2>1. /\ hpc' = [hpc EXCEPT ![m.from] = IF ok THEN "authWait" ELSE "unassign"]
          /\ UNCHANGED <<dr, dmsg, ctxDone>>
      BY <1>2 DEF Complete
    <2> QED
      BY <1>1, <2>1 DEF TypeOK
  <1>3. CASE m.agent # None /\ ok
    <2>1. /\ dr' = [dr EXCEPT ![m.from] = "read"]
          /\ dmsg' = [dmsg EXCEPT ![m.from] = None]
          /\ ctxDone' = [ctxDone EXCEPT ![m.from] = @]
          /\ hpc' = hpc
      BY <1>3 DEF Complete
    <2> QED
      BY <1>1, <2>1 DEF TypeOK
  <1>4. CASE m.agent # None /\ ~ok
    <2>1. /\ dr' = [dr EXCEPT ![m.from] = "done"]
          /\ dmsg' = [dmsg EXCEPT ![m.from] = None]
          /\ ctxDone' = [ctxDone EXCEPT ![m.from] = TRUE]
          /\ hpc' = hpc
      BY <1>4 DEF Complete
    <2> QED
      BY <1>1, <2>1 DEF TypeOK
  <1> QED
    BY <1>2, <1>3, <1>4

\* An assigned downstream is counted, so giving its place back cannot make
\* the count negative.
LEMMA AssignedIsCounted ==
    ASSUME TypeOK, CountCoversAssignments, AssignedUpstreamIsUp,
           NEW d \in Downstreams, downstreamToUpstream[d] # None
    PROVE  /\ downstreamToUpstream[d] \in Upstreams
           /\ wpc[downstreamToUpstream[d]] # "gone"
           /\ count[downstreamToUpstream[d]] \in Nat
           /\ count[downstreamToUpstream[d]] >= 1
  <1> DEFINE u == downstreamToUpstream[d]
  <1>1. u \in Upstreams /\ wpc[u] # "gone" /\ count[u] \in Nat
    BY DEF TypeOK, AssignedUpstreamIsUp
  <1>2. IsFiniteSet(Assigned(u))
    BY FiniteAssumption, FS_Subset DEF Assigned
  <1>3. d \in Assigned(u)
    BY DEF Assigned
  <1>4. Cardinality(Assigned(u)) \in Nat /\ Cardinality(Assigned(u)) # 0
    BY <1>2, <1>3, FS_CardinalityType, FS_EmptySet
  <1>5. count[u] >= Cardinality(Assigned(u))
    BY <1>1 DEF CountCoversAssignments
  <1> QED
    BY <1>1, <1>4, <1>5

\* unassignDownstreamConnection keeps the count a natural number.
LEMMA UnassignTypes ==
    ASSUME TypeOK, CountCoversAssignments, AssignedUpstreamIsUp,
           NEW d \in Downstreams, UnassignDownstreamConnection(d)
    PROVE  /\ count' \in [Upstreams -> Nat]
           /\ downstreamToUpstream' \in [Downstreams -> Upstreams \cup {None}]
  <1>1. downstreamToUpstream' \in [Downstreams -> Upstreams \cup {None}]
    BY DEF TypeOK, UnassignDownstreamConnection
  <1>2. CASE downstreamToUpstream[d] = None
    BY <1>1, <1>2 DEF TypeOK, UnassignDownstreamConnection
  <1>3. CASE downstreamToUpstream[d] # None
    <2>1. count' = [count EXCEPT ![downstreamToUpstream[d]] = @ - 1]
      BY <1>3, AssignedIsCounted DEF UnassignDownstreamConnection
    <2> QED
      BY <1>1, <1>3, <2>1, AssignedIsCounted DEF TypeOK
  <1> QED
    BY <1>2, <1>3

\* Every step of an upstream's writer keeps the types.
LEMMA TypeUpstreamWriter ==
    ASSUME TypeOK, NEW u \in Upstreams, UpstreamWriter(u)
    PROVE  TypeOK'
  <1>1. CASE Dial(u)
    BY <1>1, MaxDialsAssumption DEF TypeOK, Dial
  <1>2. CASE SetConnected(u)
    BY <1>2 DEF TypeOK, SetConnected
  <1>3. CASE WriteNext(u)
    <2>1. nextMessage[u] \in Message
      BY <1>3 DEF TypeOK, WriteNext
    <2> QED
      BY <1>3, <2>1, WriteTypes DEF TypeOK, WriteNext
  <1>4. CASE WriteUp(u)
    <2>1. PICK m \in Message : \/ Written(u, m) /\ Complete(m, TRUE)
                               \/ NotWritten(u, m) /\ Complete(m, FALSE)
      BY <1>4 DEF WriteUp
    <2>2. PICK ok \in BOOLEAN : Complete(m, ok)
      BY <2>1
    <2> QED
      BY <1>4, <2>1, <2>2, WriteTypes, CompleteTypes DEF TypeOK, WriteUp
  <1>5. CASE WriterContextDone(u)
    BY <1>5 DEF TypeOK, WriterContextDone
  <1>6. CASE RemoveDownstreamConnectionIDs(u)
    BY <1>6 DEF TypeOK, RemoveDownstreamConnectionIDs, Assigned
  <1>7. CASE \E d \in Downstreams : CloseDownstreamConnection(u, d)
    BY <1>7 DEF TypeOK, CloseDownstreamConnection
  <1>8. CASE Redial(u)
    BY <1>8 DEF TypeOK, Redial
  <1>9. CASE WriterDone(u)
    BY <1>9 DEF TypeOK, WriterDone
  <1>10. CASE RemoveUpstream(u)
    BY <1>10 DEF TypeOK, RemoveUpstream
  <1> QED
    BY <1>1, <1>2, <1>3, <1>4, <1>5, <1>6, <1>7, <1>8, <1>9, <1>10
    DEF UpstreamWriter

\* The reader holds a message whenever it is handing one over.
HandingOver ==
    \A u \in Upstreams : rpc[u] \in {"auth", "send"} => rmsg[u] \in Handing

CachedTypes ==
    /\ customCapabilities \in [Upstreams -> BOOLEAN]
    /\ srvCaps \in [Upstreams -> BOOLEAN]

\* processUpstreamMessage's capability cache stays Boolean.
LEMMA CacheTypes ==
    ASSUME TypeOK, NEW u \in Upstreams, CacheCapabilities(u)
    PROVE  CachedTypes'
  <1>1. (customCapabilities[u] \/ ~srvCaps[u]) \in BOOLEAN
    OBVIOUS
  <1> QED
    BY <1>1 DEF TypeOK, CacheCapabilities, CachedTypes

\* What a connect result does: the request leaves the server's list, and if
\* it is still pending the reader turns to its responseChan.
LEMMA ReadAuthResultStep ==
    ASSUME TypeOK, NEW u \in Upstreams, ReadAuthResult(u)
    PROVE  \E h \in Handing :
             /\ h.to \in srvAuth[u]
             /\ srvAuth' = [srvAuth EXCEPT ![u] = @ \ {h.to}]
             /\ accepted' \in {accepted, accepted \cup {h.to}}
             /\ h.flag => h.to \in accepted'
             /\ \/ UNCHANGED <<rpc, rmsg>>
                \/ /\ rpc' = [rpc EXCEPT ![u] = "auth"]
                   /\ rmsg' = [rmsg EXCEPT ![u] = h]
  <1>1. PICK d \in srvAuth[u], accept \in BOOLEAN :
          /\ srvAuth' = [srvAuth EXCEPT ![u] = @ \ {d}]
          /\ accepted' = IF accept THEN accepted \cup {d} ELSE accepted
          /\ IF d \in pendingAuthRequests
             THEN /\ rpc' = [rpc EXCEPT ![u] = "auth"]
                  /\ rmsg' = [rmsg EXCEPT ![u] = [to |-> d, flag |-> accept]]
             ELSE UNCHANGED <<rpc, rmsg>>
    BY DEF ReadAuthResult
  <1> DEFINE h == [to |-> d, flag |-> accept]
  <1>2. d \in Downstreams
    BY DEF TypeOK
  <1>3. h \in Handing /\ h.to = d /\ h.flag = accept
    BY <1>2 DEF Handing
  <1>4. accepted' \in {accepted, accepted \cup {d}} /\ (accept => d \in accepted')
    BY <1>1
  <1>5. \/ UNCHANGED <<rpc, rmsg>>
        \/ /\ rpc' = [rpc EXCEPT ![u] = "auth"]
           /\ rmsg' = [rmsg EXCEPT ![u] = h]
    BY <1>1
  <1>6. srvAuth' = [srvAuth EXCEPT ![u] = @ \ {d}]
    BY <1>1
  <1> HIDE DEF h
  <1> QED
    BY <1>3, <1>4, <1>5, <1>6

\* What a message for an agent does: it is dropped or handed over.
LEMMA ReadAgentMessageStep ==
    ASSUME TypeOK, NEW u \in Upstreams, ReadAgentMessage(u)
    PROVE  /\ sentCustomCapabilities' \in [Downstreams -> BOOLEAN]
           /\ \/ UNCHANGED <<rpc, rmsg>>
              \/ \E h \in Handing :
                   /\ rpc' = [rpc EXCEPT ![u] = "send"]
                   /\ rmsg' = [rmsg EXCEPT ![u] = h]
  <1>1. PICK a \in srvAgents[u] :
          LET d == agentConnections[a]
              inject == ~srvCaps[u] \/ (~sentCustomCapabilities[d]
                                        /\ customCapabilities[u])
          IN  IF d = None
              THEN UNCHANGED <<rpc, rmsg, sentCustomCapabilities>>
              ELSE /\ rpc' = [rpc EXCEPT ![u] = "send"]
                   /\ rmsg' = [rmsg EXCEPT ![u] = [to |-> d, flag |-> inject]]
                   /\ sentCustomCapabilities' =
                        [sentCustomCapabilities EXCEPT ![d] = @ \/ inject]
    BY DEF ReadAgentMessage
  <1> DEFINE d == agentConnections[a]
             inject == ~srvCaps[u] \/ (~sentCustomCapabilities[d]
                                       /\ customCapabilities[u])
             h == [to |-> d, flag |-> inject]
  <1>2. d \in Downstreams \cup {None} /\ inject \in BOOLEAN
    BY DEF TypeOK
  <1>3. CASE d = None
    BY <1>1, <1>3 DEF TypeOK
  <1>4. CASE d # None
    <2>1. h \in Handing
      BY <1>2, <1>4 DEF Handing
    <2>2. /\ rpc' = [rpc EXCEPT ![u] = "send"]
          /\ rmsg' = [rmsg EXCEPT ![u] = h]
          /\ sentCustomCapabilities' =
               [sentCustomCapabilities EXCEPT ![d] = @ \/ inject]
      BY <1>1, <1>4
    <2> HIDE DEF h, inject
    <2>3. (sentCustomCapabilities[d] \/ inject) \in BOOLEAN
      OBVIOUS
    <2>4. sentCustomCapabilities' \in [Downstreams -> BOOLEAN]
      BY <1>2, <1>4, <2>2, <2>3 DEF TypeOK
    <2> QED
      BY <2>1, <2>2, <2>4
  <1> QED
    BY <1>3, <1>4

\* Every step of an upstream's reader keeps the types.
LEMMA TypeUpstreamReader ==
    ASSUME TypeOK, HandingOver, NEW u \in Upstreams, UpstreamReader(u)
    PROVE  TypeOK'
  <1>1. CASE UpstreamReadFails(u)
    BY <1>1 DEF TypeOK, UpstreamReadFails
  <1>2. CASE ReadAuthResult(u)
    <2>1. CachedTypes'
      BY <1>2, CacheTypes DEF ReadAuthResult
    <2>2. PICK h \in Handing :
            /\ srvAuth' = [srvAuth EXCEPT ![u] = @ \ {h.to}]
            /\ accepted' \in {accepted, accepted \cup {h.to}}
            /\ \/ UNCHANGED <<rpc, rmsg>>
               \/ /\ rpc' = [rpc EXCEPT ![u] = "auth"]
                  /\ rmsg' = [rmsg EXCEPT ![u] = h]
      BY <1>2, ReadAuthResultStep
    <2>3. h.to \in Downstreams
      BY DEF Handing
    <2>4. /\ srvAuth' \in [Upstreams -> SUBSET Downstreams]
          /\ accepted' \in SUBSET Downstreams
      BY <2>2, <2>3 DEF TypeOK
    <2>5. /\ rpc' \in [Upstreams -> {"none", "read", "auth", "send", "done"}]
          /\ rmsg' \in [Upstreams -> Handing \cup {None}]
      <3>1. CASE UNCHANGED <<rpc, rmsg>>
        BY <3>1 DEF TypeOK
      <3>2. CASE /\ rpc' = [rpc EXCEPT ![u] = "auth"]
                 /\ rmsg' = [rmsg EXCEPT ![u] = h]
        BY <3>2 DEF TypeOK
      <3> QED
        BY <2>2, <3>1, <3>2
    <2> QED
      BY <1>2, <2>1, <2>4, <2>5 DEF TypeOK, ReadAuthResult, CachedTypes
  <1>3. CASE PutAuthResponse(u)
    BY <1>3 DEF TypeOK, PutAuthResponse, HandingOver, Handing
  <1>4. CASE ReadAgentMessage(u)
    <2>1. CachedTypes'
      BY <1>4, CacheTypes DEF ReadAgentMessage
    <2>2. /\ rpc' \in [Upstreams -> {"none", "read", "auth", "send", "done"}]
          /\ rmsg' \in [Upstreams -> Handing \cup {None}]
          /\ sentCustomCapabilities' \in [Downstreams -> BOOLEAN]
      <3>1. CASE UNCHANGED <<rpc, rmsg>>
        BY <1>4, <3>1, ReadAgentMessageStep DEF TypeOK
      <3>2. CASE \E h \in Handing : /\ rpc' = [rpc EXCEPT ![u] = "send"]
                                    /\ rmsg' = [rmsg EXCEPT ![u] = h]
        <4>1. /\ rpc' \in [Upstreams -> {"none", "read", "auth", "send", "done"}]
              /\ rmsg' \in [Upstreams -> Handing \cup {None}]
          BY <3>2 DEF TypeOK
        <4> QED
          BY <1>4, <4>1, ReadAgentMessageStep
      <3> QED
        BY <1>4, <3>1, <3>2, ReadAgentMessageStep
    <2> QED
      BY <1>4, <2>1, <2>2 DEF TypeOK, ReadAgentMessage, CachedTypes
  <1>5. CASE SendDown(u)
    BY <1>5 DEF TypeOK, SendDown, HandingOver, Handing
  <1>6. CASE SendDownClosed(u)
    BY <1>6 DEF TypeOK, SendDownClosed
  <1> QED
    BY <1>1, <1>2, <1>3, <1>4, <1>5, <1>6 DEF UpstreamReader

\* Every step of a request's handler keeps the types.
LEMMA TypeHandleRequest ==
    ASSUME TypeOK, CountCoversAssignments, AssignedUpstreamIsUp,
           NEW d \in Downstreams, HandleRequest(d)
    PROVE  TypeOK'
  <1>1. CASE Assign(d)
    BY <1>1 DEF TypeOK, Assign
  <1>2. CASE RefuseUnavailable(d)
    BY <1>2 DEF TypeOK, RefuseUnavailable
  <1>3. CASE AuthSendClosed(d)
    BY <1>3 DEF TypeOK, AuthSendClosed
  <1>4. CASE AuthTimeout(d)
    BY <1>4 DEF TypeOK, AuthTimeout
  <1>5. CASE AuthResult(d)
    BY <1>5 DEF TypeOK, AuthResult
  <1>6. CASE RefuseRequest(d)
    BY <1>6, UnassignTypes DEF TypeOK, RefuseRequest
  <1>7. CASE UpgradeFails(d)
    BY <1>7 DEF TypeOK, UpgradeFails
  <1>8. CASE Upgrade(d)
    BY <1>8 DEF TypeOK, Upgrade
  <1> QED
    BY <1>1, <1>2, <1>3, <1>4, <1>5, <1>6, <1>7, <1>8 DEF HandleRequest

\* Every step of a downstream connection keeps the types.
LEMMA TypeDownstreamConnection ==
    ASSUME TypeOK, CountCoversAssignments, AssignedUpstreamIsUp,
           NEW d \in Downstreams, DownstreamConnection(d)
    PROVE  TypeOK'
  <1>1. CASE \E a \in Agents : HandleDownstreamMessage(d, a)
    BY <1>1 DEF TypeOK, HandleDownstreamMessage
  <1>2. CASE DownstreamReadFails(d)
    BY <1>2 DEF TypeOK, DownstreamReadFails
  <1>8. CASE DownstreamRead(d)
    BY <1>8 DEF TypeOK, DownstreamRead
  <1>3. CASE DownstreamSendClosed(d)
    BY <1>3 DEF TypeOK, DownstreamSendClosed
  <1>4. CASE DownstreamWrite(d)
    <2>1. /\ dw' \in [Downstreams -> {"none", "idle", "writing", "done"}]
          /\ ctxDone' \in [Downstreams -> BOOLEAN]
      <3>1. CASE dw' = [dw EXCEPT ![d] = "idle"] /\ UNCHANGED ctxDone
        BY <3>1 DEF TypeOK
      <3>2. CASE /\ dw' = [dw EXCEPT ![d] = "done"]
                 /\ ctxDone' = [ctxDone EXCEPT ![d] = TRUE]
        BY <3>2 DEF TypeOK
      <3> QED
        BY <1>4, <3>1, <3>2 DEF DownstreamWrite
    <2> QED
      BY <1>4, <2>1 DEF TypeOK, DownstreamWrite
  <1>5. CASE DownstreamWriterStops(d)
    BY <1>5 DEF TypeOK, DownstreamWriterStops
  <1>6. CASE HandleDownstreamClose(d)
    BY <1>6, UnassignTypes DEF TypeOK, HandleDownstreamClose
  <1>7. CASE RemoveDownstreamConnection(d)
    BY <1>7 DEF TypeOK, RemoveDownstreamConnection
  <1>9. CASE RemoveAgentConnections(d)
    BY <1>9 DEF TypeOK, RemoveAgentConnections, RemoveByValue
  <1> QED
    BY <1>1, <1>2, <1>3, <1>4, <1>5, <1>6, <1>7, <1>8, <1>9
       DEF DownstreamConnection

\* Shutdown, the breaking transports and stuttering keep the types.
LEMMA TypeOther ==
    ASSUME TypeOK,
           \/ Shutdown \/ ClientStopped \/ ServerStopped \/ Terminated
           \/ \E u \in Upstreams : UpstreamBreaks(u)
           \/ \E d \in Downstreams : DownstreamBreaks(d)
           \/ UNCHANGED vars
    PROVE  TypeOK'
  <1>1. CASE Shutdown
    BY <1>1 DEF TypeOK, Shutdown
  <1>2. CASE ClientStopped
    BY <1>2 DEF TypeOK, ClientStopped
  <1>3. CASE ServerStopped
    BY <1>3 DEF TypeOK, ServerStopped
  <1>4. CASE Terminated \/ UNCHANGED vars
    BY <1>4 DEF TypeOK, Terminated, vars
  <1>5. CASE \E u \in Upstreams : UpstreamBreaks(u)
    BY <1>5 DEF TypeOK, UpstreamBreaks
  <1>6. CASE \E d \in Downstreams : DownstreamBreaks(d)
    BY <1>6 DEF TypeOK, DownstreamBreaks
  <1> QED
    BY <1>1, <1>2, <1>3, <1>4, <1>5, <1>6

-----------------------------------------------------------------------------
(* Facts each of which every step preserves, given the others.             *)

\* writerLoop's setConnected(true) and its deferred setConnected(false)
ConnectedInLoop == \A u \in Upstreams : connected[u] => wpc[u] = "loop"

\* A connection is registered from the upgrade until its close handler
\* removes it, and its reader runs only while it is live.
RegisteredWhileOpen ==
    \A d \in Downstreams :
        /\ d \in downstreamConnections <=> hpc[d] \in {"live", "closing"}
        /\ dr[d] \in {"read", "handle", "send"} => hpc[d] = "live"

\* Only the goroutines of an upstream move its reader, writer and connected
\* flag.
LEMMA ReaderFrame ==
    ASSUME \/ \E d \in Downstreams :
                HandleRequest(d) \/ DownstreamConnection(d) \/ DownstreamBreaks(d)
           \/ Shutdown \/ ClientStopped \/ ServerStopped \/ Terminated
           \/ \E u \in Upstreams : UpstreamBreaks(u)
           \/ UNCHANGED vars
    PROVE  UNCHANGED <<rpc, rmsg, wpc, connected>>
  BY DEF HandleRequest, Assign, RefuseUnavailable, AuthSendClosed, AuthTimeout,
         AuthResult, RefuseRequest, UpgradeFails, Upgrade, DownstreamConnection,
         HandleDownstreamMessage, DownstreamRead, DownstreamReadFails,
         DownstreamSendClosed,
         DownstreamWrite, DownstreamWriterStops, HandleDownstreamClose,
         RemoveDownstreamConnection, RemoveAgentConnections, DownstreamBreaks,
         UpstreamBreaks, Shutdown,
         ClientStopped, ServerStopped, Terminated, vars

\* Every step of the gateway preserves HandingOver.
LEMMA HandingOverStep ==
    ASSUME TypeOK, HandingOver, [Next]_vars
    PROVE  HandingOver'
  <1>1. ASSUME NEW u \in Upstreams, UpstreamReader(u) PROVE HandingOver'
    <2>1. CASE UpstreamReadFails(u)
      BY <2>1 DEF UpstreamReadFails, TypeOK, HandingOver
    <2>2. CASE ReadAuthResult(u)
      <3>1. CASE UNCHANGED <<rpc, rmsg>>
        BY <3>1 DEF HandingOver
      <3>2. CASE \E h \in Handing : /\ rpc' = [rpc EXCEPT ![u] = "auth"]
                                    /\ rmsg' = [rmsg EXCEPT ![u] = h]
        BY <3>2 DEF TypeOK, HandingOver
      <3> QED
        BY <2>2, <3>1, <3>2, ReadAuthResultStep
    <2>3. CASE PutAuthResponse(u)
      BY <2>3 DEF PutAuthResponse, TypeOK, HandingOver
    <2>4. CASE ReadAgentMessage(u)
      BY <2>4, ReadAgentMessageStep DEF TypeOK, HandingOver
    <2>5. CASE SendDown(u)
      BY <2>5 DEF SendDown, TypeOK, HandingOver
    <2>6. CASE SendDownClosed(u)
      BY <2>6 DEF SendDownClosed, TypeOK, HandingOver
    <2> QED
      BY <1>1, <2>1, <2>2, <2>3, <2>4, <2>5, <2>6 DEF UpstreamReader
  <1>2. ASSUME NEW u \in Upstreams, UpstreamWriter(u) PROVE HandingOver'
    <2>1. CASE Dial(u)
      BY <2>1 DEF Dial, TypeOK, HandingOver
    <2>2. CASE Redial(u)
      BY <2>2 DEF Redial, TypeOK, HandingOver
    <2>3. CASE ~Dial(u) /\ ~Redial(u)
      <3>1. UNCHANGED <<rpc, rmsg>>
        BY <1>2, <2>3
        DEF UpstreamWriter, SetConnected, WriteNext, WriteUp, WriterContextDone,
            RemoveDownstreamConnectionIDs, CloseDownstreamConnection,
            WriterDone, RemoveUpstream
      <3> QED
        BY <3>1 DEF HandingOver
    <2> QED
      BY <2>1, <2>2, <2>3
  <1>3. CASE UNCHANGED <<rpc, rmsg>>
    BY <1>3 DEF HandingOver
  <1> QED
    BY <1>1, <1>2, <1>3, ReaderFrame DEF Next

\* Steps that only move the shutdown, break a transport or stutter
Minor ==
    \/ Shutdown \/ ClientStopped \/ ServerStopped \/ Terminated
    \/ \E u \in Upstreams : UpstreamBreaks(u)
    \/ \E d \in Downstreams : DownstreamBreaks(d)
    \/ UNCHANGED vars

\* Every step is one of an upstream's goroutines, of a request or connection,
\* or a minor one.
LEMMA NextCases ==
    ASSUME [Next]_vars
    PROVE  \/ \E u \in Upstreams : UpstreamWriter(u) \/ UpstreamReader(u)
           \/ \E d \in Downstreams : HandleRequest(d) \/ DownstreamConnection(d)
           \/ Minor
  BY DEF Next, Minor

\* Shutdown and breaking transports touch none of the gateway's maps.
LEMMA MinorFrame ==
    ASSUME Minor
    PROVE  UNCHANGED <<writerVars, readerVars, assignVars, authVars, routeVars,
                       hpc, upstreamConnection, dr, dmsg, srvVars>>
  BY DEF Minor, Shutdown, ClientStopped, ServerStopped, Terminated,
         UpstreamBreaks, DownstreamBreaks, vars

\* The upstream reader changes no assignment, route or connection.
LEMMA UpstreamReaderFrame ==
    ASSUME NEW u \in Upstreams, UpstreamReader(u)
    PROVE  UNCHANGED <<writerVars, assignVars, routeVars, pendingAuthRequests,
                       hpc, upstreamConnection, dr, dmsg>>
  BY DEF UpstreamReader, UpstreamReadFails, ReadAuthResult, PutAuthResponse,
         ReadAgentMessage, SendDown, SendDownClosed

\* Every step preserves ConnectedInLoop.
LEMMA ConnectedInLoopStep ==
    ASSUME TypeOK, ConnectedInLoop, [Next]_vars
    PROVE  ConnectedInLoop'
  <1>1. ASSUME NEW u \in Upstreams, UpstreamWriter(u) PROVE ConnectedInLoop'
    <2>1. CASE Dial(u)
      BY <2>1 DEF Dial, TypeOK, ConnectedInLoop
    <2>2. CASE SetConnected(u)
      BY <2>2 DEF SetConnected, TypeOK, ConnectedInLoop
    <2>3. CASE WriteNext(u) \/ WriteUp(u)
      <3>1. \/ UNCHANGED <<wpc, connected>>
            \/ /\ wpc' = [wpc EXCEPT ![u] = "drain"]
               /\ connected' = [connected EXCEPT ![u] = FALSE]
        BY <2>3 DEF WriteNext, WriteUp, Written, NotWritten
      <3>2. CASE UNCHANGED <<wpc, connected>>
        BY <3>2 DEF ConnectedInLoop
      <3>3. CASE /\ wpc' = [wpc EXCEPT ![u] = "drain"]
                 /\ connected' = [connected EXCEPT ![u] = FALSE]
        BY <3>3 DEF TypeOK, ConnectedInLoop
      <3> QED
        BY <3>1, <3>2, <3>3
    <2>4. CASE WriterContextDone(u)
      BY <2>4 DEF WriterContextDone, TypeOK, ConnectedInLoop
    <2>5. CASE RemoveDownstreamConnectionIDs(u)
      BY <2>5 DEF RemoveDownstreamConnectionIDs, TypeOK, ConnectedInLoop
    <2>6. CASE \E d \in Downstreams : CloseDownstreamConnection(u, d)
      BY <2>6 DEF CloseDownstreamConnection, TypeOK, ConnectedInLoop
    <2>7. CASE Redial(u) \/ WriterDone(u) \/ RemoveUpstream(u)
      BY <2>7 DEF Redial, WriterDone, RemoveUpstream, TypeOK, ConnectedInLoop
    <2> QED
      BY <1>1, <2>1, <2>2, <2>3, <2>4, <2>5, <2>6, <2>7 DEF UpstreamWriter
  <1>2. CASE UNCHANGED <<wpc, connected>>
    BY <1>2 DEF ConnectedInLoop
  <1> QED
    BY <1>1, <1>2, ReaderFrame, UpstreamReaderFrame, NextCases DEF Minor

\* The assignments only change in Assign, the two unassigns and the removal
\* of an upstream's ids.
LEMMA AssignmentFrame ==
    ASSUME NEW u \in Upstreams, UpstreamWriter(u),
           ~RemoveDownstreamConnectionIDs(u)
    PROVE  UNCHANGED <<assignVars, upstreamConnection>>
  BY DEF UpstreamWriter, Dial, SetConnected, WriteNext, WriteUp,
         WriterContextDone, CloseDownstreamConnection, Redial, WriterDone,
         RemoveUpstream

\* Where the writer may go: it leaves drain only by removing its ids.
LEMMA WriterMoves ==
    ASSUME TypeOK, NEW u \in Upstreams, UpstreamWriter(u)
    PROVE  /\ \A v \in Upstreams : v # u => wpc'[v] = wpc[v]
           /\ \/ wpc[u] \in {"loop", "drain"} /\ wpc'[u] \in {"loop", "drain"}
              \/ RemoveDownstreamConnectionIDs(u)
              \/ wpc[u] \notin {"loop", "drain"}
           /\ wpc[u] # "gone"
  <1>1. CASE Dial(u) \/ SetConnected(u)
    BY <1>1 DEF Dial, SetConnected, TypeOK
  <1>2. CASE WriteNext(u) \/ WriteUp(u)
    <2>1. \/ UNCHANGED <<wpc, connected>>
          \/ wpc' = [wpc EXCEPT ![u] = "drain"]
      BY <1>2 DEF WriteNext, WriteUp, Written, NotWritten
    <2>2. wpc[u] = "loop"
      BY <1>2 DEF WriteNext, WriteUp
    <2> QED
      BY <2>1, <2>2 DEF TypeOK
  <1>3. CASE WriterContextDone(u)
    BY <1>3 DEF WriterContextDone, TypeOK
  <1>4. CASE RemoveDownstreamConnectionIDs(u)
    BY <1>4 DEF RemoveDownstreamConnectionIDs, TypeOK
  <1>5. CASE \E d \in Downstreams : CloseDownstreamConnection(u, d)
    BY <1>5 DEF CloseDownstreamConnection, TypeOK
  <1>6. CASE Redial(u) \/ WriterDone(u) \/ RemoveUpstream(u)
    BY <1>6 DEF Redial, WriterDone, RemoveUpstream, TypeOK
  <1> QED
    BY <1>1, <1>2, <1>3, <1>4, <1>5, <1>6 DEF UpstreamWriter

\* Every step preserves AssignedUpstreamIsUp: an upstream that goes down
\* drops its assignments before it leaves the writer.
LEMMA AssignedUpstreamIsUpStep ==
    ASSUME TypeOK, ConnectedInLoop, AssignedUpstreamIsUp, [Next]_vars
    PROVE  AssignedUpstreamIsUp'
  <1>1. ASSUME NEW u \in Upstreams, UpstreamWriter(u)
        PROVE  AssignedUpstreamIsUp'
    <2>1. CASE RemoveDownstreamConnectionIDs(u)
      BY <2>1 DEF RemoveDownstreamConnectionIDs, Assigned, TypeOK,
                  AssignedUpstreamIsUp
    <2>2. CASE ~RemoveDownstreamConnectionIDs(u)
      <3>1. UNCHANGED downstreamToUpstream
        BY <1>1, <2>2, AssignmentFrame
      <3>2. \A v \in Upstreams :
              wpc[v] \in {"loop", "drain"} => wpc'[v] \in {"loop", "drain"}
        BY <1>1, <2>2, WriterMoves
      <3>3. \A d \in Downstreams :
              downstreamToUpstream[d] # None => downstreamToUpstream[d] \in Upstreams
        BY DEF TypeOK
      <3> QED
        BY <3>1, <3>2, <3>3 DEF AssignedUpstreamIsUp
    <2> QED
      BY <2>1, <2>2
  <1>2. ASSUME NEW d \in Downstreams, HandleRequest(d)
        PROVE  AssignedUpstreamIsUp'
    <2>0. UNCHANGED wpc
      BY <1>2, ReaderFrame
    <2>1. CASE Assign(d)
      BY <2>0, <2>1 DEF Assign, PoolNext, Connected, ConnectedInLoop, TypeOK,
                        AssignedUpstreamIsUp
    <2>2. CASE RefuseRequest(d)
      BY <2>0, <2>2 DEF RefuseRequest, UnassignDownstreamConnection, TypeOK,
                        AssignedUpstreamIsUp
    <2>3. CASE ~Assign(d) /\ ~RefuseRequest(d)
      <3>1. UNCHANGED downstreamToUpstream
        BY <1>2, <2>3 DEF HandleRequest, RefuseUnavailable, AuthSendClosed,
           AuthTimeout, AuthResult, UpgradeFails, Upgrade
      <3> QED
        BY <2>0, <3>1 DEF AssignedUpstreamIsUp
    <2> QED
      BY <2>1, <2>2, <2>3
  <1>3. ASSUME NEW d \in Downstreams, DownstreamConnection(d)
        PROVE  AssignedUpstreamIsUp'
    <2>0. UNCHANGED wpc
      BY <1>3, ReaderFrame
    <2>1. CASE HandleDownstreamClose(d)
      BY <2>0, <2>1 DEF HandleDownstreamClose, UnassignDownstreamConnection,
                        TypeOK, AssignedUpstreamIsUp
    <2>2. CASE ~HandleDownstreamClose(d)
      <3>1. UNCHANGED downstreamToUpstream
        BY <1>3, <2>2 DEF DownstreamConnection, HandleDownstreamMessage,
           DownstreamRead, DownstreamReadFails, DownstreamSendClosed, DownstreamWrite,
           DownstreamWriterStops, RemoveDownstreamConnection, RemoveAgentConnections
      <3> QED
        BY <2>0, <3>1 DEF AssignedUpstreamIsUp
    <2> QED
      BY <2>1, <2>2
  <1>4. CASE UNCHANGED <<wpc, downstreamToUpstream>>
    BY <1>4 DEF AssignedUpstreamIsUp
  <1> QED
    BY <1>1, <1>2, <1>3, <1>4, MinorFrame, UpstreamReaderFrame, NextCases

\* Completing the write of an offered message moves its handler from
\* authSend, or its reader from send, and nothing else.
LEMMA WriteUpMoves ==
    ASSUME TypeOK, NEW u \in Upstreams, UpstreamWriter(u)
    PROVE  \/ UNCHANGED <<hpc, dr>>
           \/ \E d \in Downstreams :
                /\ hpc[d] = "authSend"
                /\ \E pc \in {"authWait", "unassign"} :
                     hpc' = [hpc EXCEPT ![d] = pc]
                /\ UNCHANGED dr
           \/ \E d \in Downstreams :
                /\ dr[d] = "send"
                /\ \E pc \in {"read", "done"} : dr' = [dr EXCEPT ![d] = pc]
                /\ UNCHANGED hpc
  <1>1. CASE WriteUp(u)
    <2>1. PICK m \in Message : Offers(u, m) /\ \E ok \in BOOLEAN : Complete(m, ok)
      BY <1>1 DEF WriteUp
    <2>2. m.from \in Downstreams
      BY DEF Message
    <2> QED
      BY <2>1, <2>2 DEF Offers, Complete
  <1>2. CASE ~WriteUp(u)
    BY <1>2 DEF UpstreamWriter, Dial, SetConnected, WriteNext, WriterContextDone,
       RemoveDownstreamConnectionIDs, CloseDownstreamConnection, Redial,
       WriterDone, RemoveUpstream
  <1> QED
    BY <1>1, <1>2

\* Every step preserves NoAssignmentLeak: whichever way a request or a
\* connection ends, its assignment is given back.
LEMMA NoAssignmentLeakStep ==
    ASSUME TypeOK, NoAssignmentLeak, [Next]_vars
    PROVE  NoAssignmentLeak'
  <1>1. ASSUME NEW u \in Upstreams, UpstreamWriter(u) PROVE NoAssignmentLeak'
    <2>1. CASE RemoveDownstreamConnectionIDs(u)
      BY <2>1 DEF RemoveDownstreamConnectionIDs, Assigned, TypeOK, NoAssignmentLeak
    <2>2. CASE ~RemoveDownstreamConnectionIDs(u)
      <3>1. UNCHANGED <<downstreamToUpstream, upstreamConnection>>
        BY <1>1, <2>2, AssignmentFrame DEF assignVars
      <3>2. CASE UNCHANGED hpc
        BY <3>1, <3>2 DEF NoAssignmentLeak
      <3>3. CASE \E d \in Downstreams : \E pc \in {"authWait", "unassign"} :
                   hpc' = [hpc EXCEPT ![d] = pc]
        BY <3>1, <3>3 DEF TypeOK, NoAssignmentLeak
      <3> QED
        BY <1>1, <3>2, <3>3, WriteUpMoves
    <2> QED
      BY <2>1, <2>2
  <1>2. ASSUME NEW d \in Downstreams, HandleRequest(d) PROVE NoAssignmentLeak'
    <2>1. CASE Assign(d)
      BY <2>1 DEF Assign, TypeOK, NoAssignmentLeak
    <2>2. CASE RefuseRequest(d)
      BY <2>2 DEF RefuseRequest, UnassignDownstreamConnection, TypeOK,
                  NoAssignmentLeak
    <2>3. CASE AuthSendClosed(d) \/ AuthTimeout(d) \/ UpgradeFails(d) \/ Upgrade(d)
      <3>1. /\ UNCHANGED <<downstreamToUpstream, upstreamConnection>>
            /\ \E p \in {"unassign", "live"} : hpc' = [hpc EXCEPT ![d] = p]
        BY <2>3 DEF AuthSendClosed, AuthTimeout, UpgradeFails, Upgrade, assignVars
      <3> QED
        BY <3>1 DEF TypeOK, NoAssignmentLeak
    <2>4. CASE AuthResult(d)
      BY <2>4 DEF AuthResult, TypeOK, NoAssignmentLeak
    <2>5. CASE RefuseUnavailable(d)
      BY <2>5 DEF RefuseUnavailable, TypeOK, NoAssignmentLeak
    <2> QED
      BY <1>2, <2>1, <2>2, <2>3, <2>4, <2>5 DEF HandleRequest
  <1>3. ASSUME NEW d \in Downstreams, DownstreamConnection(d)
        PROVE  NoAssignmentLeak'
    <2>1. CASE HandleDownstreamClose(d)
      BY <2>1 DEF HandleDownstreamClose, UnassignDownstreamConnection, TypeOK,
                  NoAssignmentLeak
    <2>2. CASE RemoveDownstreamConnection(d)
      BY <2>2 DEF RemoveDownstreamConnection, TypeOK, NoAssignmentLeak
    <2>4. CASE RemoveAgentConnections(d)
      BY <2>4 DEF RemoveAgentConnections, TypeOK, NoAssignmentLeak
    <2>3. CASE /\ ~HandleDownstreamClose(d)
               /\ ~RemoveDownstreamConnection(d) /\ ~RemoveAgentConnections(d)
      <3>1. UNCHANGED <<downstreamToUpstream, hpc, upstreamConnection>>
        BY <1>3, <2>3 DEF DownstreamConnection, HandleDownstreamMessage,
           DownstreamRead, DownstreamReadFails, DownstreamSendClosed, DownstreamWrite,
           DownstreamWriterStops
      <3> QED
        BY <3>1 DEF NoAssignmentLeak
    <2> QED
      BY <2>1, <2>2, <2>3, <2>4
  <1>4. CASE UNCHANGED <<downstreamToUpstream, hpc, upstreamConnection>>
    BY <1>4 DEF NoAssignmentLeak
  <1> QED
    BY <1>1, <1>2, <1>3, <1>4, MinorFrame, UpstreamReaderFrame, NextCases

-----------------------------------------------------------------------------
(* The counts.                                                             *)

\* The connections assigned to an upstream can be counted.
LEMMA AssignedFinite ==
    ASSUME NEW u \in Upstreams
    PROVE  /\ IsFiniteSet(Assigned(u))
           /\ Cardinality(Assigned(u)) \in Nat
  BY FiniteAssumption, FS_Subset, FS_CardinalityType DEF Assigned

\* Giving an assignment back lowers the count and the set together.
LEMMA UnassignCounts ==
    ASSUME TypeOK, CountCoversAssignments, AssignedUpstreamIsUp,
           NEW d \in Downstreams, UnassignDownstreamConnection(d),
           UNCHANGED wpc
    PROVE  CountCoversAssignments'
  <1>1. CASE downstreamToUpstream[d] = None
    <2>1. downstreamToUpstream' = downstreamToUpstream /\ count' = count
      BY <1>1 DEF UnassignDownstreamConnection, TypeOK
    <2> QED
      BY <2>1 DEF CountCoversAssignments, Assigned
  <1>2. CASE downstreamToUpstream[d] # None
    <2>0. PICK u \in Upstreams : u = downstreamToUpstream[d]
      BY <1>2 DEF TypeOK
    <2>1. wpc[u] # "gone" /\ count[u] \in Nat
      BY <1>2, <2>0, AssignedIsCounted
    <2>2. count' = [count EXCEPT ![u] = @ - 1]
      BY <1>2, <2>0, <2>1 DEF UnassignDownstreamConnection
    <2>3. d \in Assigned(u) /\ Assigned(u)' = Assigned(u) \ {d}
      BY <2>0, NoneAssumption DEF UnassignDownstreamConnection, Assigned, TypeOK
    <2>4. Cardinality(Assigned(u)') = Cardinality(Assigned(u)) - 1
      BY <2>1, <2>3, AssignedFinite, FS_RemoveElement
    <2> SUFFICES ASSUME NEW v \in Upstreams, wpc'[v] # "gone"
                 PROVE  count'[v] >= Cardinality(Assigned(v)')
      BY DEF CountCoversAssignments
    <2>5. CASE v = u
      <3>1. count[u] >= Cardinality(Assigned(u))
        BY <2>1 DEF CountCoversAssignments
      <3>2. count'[u] = count[u] - 1
        BY <2>1, <2>2 DEF TypeOK
      <3>3. Cardinality(Assigned(u)) \in Nat
        BY <2>1, AssignedFinite
      <3> QED
        BY <2>1, <2>4, <2>5, <3>1, <3>2, <3>3
    <2>6. CASE v # u
      <3>1. Assigned(v)' = Assigned(v)
        BY <2>0, <2>6, NoneAssumption
        DEF UnassignDownstreamConnection, Assigned, TypeOK
      <3>2. count'[v] = count[v]
        BY <2>1, <2>2, <2>6 DEF TypeOK
      <3> QED
        BY <3>1, <3>2 DEF CountCoversAssignments
    <2> QED
      BY <2>5, <2>6
  <1> QED
    BY <1>1, <1>2

\* An assignment raises the count and the set together.
LEMMA AssignCounts ==
    ASSUME TypeOK, CountCoversAssignments, NoAssignmentLeak,
           NEW d \in Downstreams, Assign(d)
    PROVE  CountCoversAssignments'
  <1>1. PICK u \in Upstreams :
          /\ PoolNext(u)
          /\ downstreamToUpstream' = [downstreamToUpstream EXCEPT ![d] = u]
          /\ count' = [count EXCEPT ![u] = @ + 1]
    BY DEF Assign
  <1>2. wpc' = wpc /\ wpc[u] # "gone"
    BY <1>1 DEF Assign, PoolNext, Connected
  <1>3. downstreamToUpstream[d] = None
    BY DEF Assign, NoAssignmentLeak
  <1>4. d \notin Assigned(u) /\ Assigned(u)' = Assigned(u) \cup {d}
    BY <1>1, <1>3, NoneAssumption DEF Assigned, TypeOK
  <1>5. Cardinality(Assigned(u)') = Cardinality(Assigned(u)) + 1
    BY <1>4, AssignedFinite, FS_AddElement
  <1> SUFFICES ASSUME NEW v \in Upstreams, wpc'[v] # "gone"
               PROVE  count'[v] >= Cardinality(Assigned(v)')
    BY DEF CountCoversAssignments
  <1>6. CASE v = u
    <2>1. count[u] >= Cardinality(Assigned(u)) /\ count[u] \in Nat
      BY <1>2 DEF CountCoversAssignments, TypeOK
    <2>2. count'[u] = count[u] + 1
      BY <1>1 DEF TypeOK
    <2> QED
      BY <1>5, <1>6, <2>1, <2>2, AssignedFinite
  <1>7. CASE v # u
    <2>1. Assigned(v)' = Assigned(v)
      BY <1>1, <1>3, <1>7, NoneAssumption DEF Assigned, TypeOK
    <2>2. count'[v] = count[v]
      BY <1>1, <1>7 DEF TypeOK
    <2> QED
      BY <1>2, <2>1, <2>2 DEF CountCoversAssignments
  <1> QED
    BY <1>6, <1>7

\* The loss of an upstream empties its set and leaves its count.
LEMMA LossCounts ==
    ASSUME TypeOK, CountCoversAssignments,
           NEW u \in Upstreams, RemoveDownstreamConnectionIDs(u)
    PROVE  CountCoversAssignments'
  <1>1. count' = count /\ wpc[u] # "gone" /\ \A v \in Upstreams : v # u => wpc'[v] = wpc[v]
    BY DEF RemoveDownstreamConnectionIDs, TypeOK
  <1> SUFFICES ASSUME NEW v \in Upstreams, wpc'[v] # "gone"
               PROVE  count'[v] >= Cardinality(Assigned(v)')
    BY DEF CountCoversAssignments
  <1>2. CASE v = u
    <2>1. Assigned(u)' = {}
      BY NoneAssumption DEF RemoveDownstreamConnectionIDs, Assigned, TypeOK
    <2> QED
      BY <1>1, <1>2, <2>1, FS_EmptySet DEF TypeOK
  <1>3. CASE v # u
    <2>1. Assigned(v)' = Assigned(v)
      BY <1>3, NoneAssumption DEF RemoveDownstreamConnectionIDs, Assigned, TypeOK
    <2> QED
      BY <1>1, <1>3, <2>1 DEF CountCoversAssignments
  <1> QED
    BY <1>2, <1>3

\* Every step preserves CountCoversAssignments: assigning adds one to both
\* sides, unassigning takes one from the count only with the assignment.
LEMMA CountCoversAssignmentsStep ==
    ASSUME TypeOK, CountCoversAssignments, AssignedUpstreamIsUp,
           NoAssignmentLeak, [Next]_vars
    PROVE  CountCoversAssignments'
  <1>1. ASSUME NEW u \in Upstreams, UpstreamWriter(u)
        PROVE  CountCoversAssignments'
    <2>1. CASE RemoveDownstreamConnectionIDs(u)
      BY <2>1, LossCounts
    <2>2. CASE ~RemoveDownstreamConnectionIDs(u)
      <3>1. UNCHANGED <<count, downstreamToUpstream>>
        BY <1>1, <2>2, AssignmentFrame
      <3>2. \A v \in Upstreams : wpc'[v] # "gone" => wpc[v] # "gone"
        BY <1>1, WriterMoves
      <3>3. \A v \in Upstreams : Assigned(v)' = Assigned(v)
        BY <3>1 DEF Assigned
      <3> QED
        BY <3>1, <3>2, <3>3 DEF CountCoversAssignments
    <2> QED
      BY <2>1, <2>2
  <1>2. ASSUME NEW d \in Downstreams, HandleRequest(d)
        PROVE  CountCoversAssignments'
    <2>0. UNCHANGED wpc
      BY <1>2, ReaderFrame
    <2>1. CASE Assign(d)
      BY <2>1, AssignCounts
    <2>2. CASE RefuseRequest(d)
      BY <2>0, <2>2, UnassignCounts DEF RefuseRequest
    <2>3. CASE ~Assign(d) /\ ~RefuseRequest(d)
      <3>1. UNCHANGED <<count, downstreamToUpstream>>
        BY <1>2, <2>3 DEF HandleRequest, RefuseUnavailable, AuthSendClosed,
           AuthTimeout, AuthResult, UpgradeFails, Upgrade
      <3> QED
        BY <2>0, <3>1 DEF CountCoversAssignments, Assigned
    <2> QED
      BY <2>1, <2>2, <2>3
  <1>3. ASSUME NEW d \in Downstreams, DownstreamConnection(d)
        PROVE  CountCoversAssignments'
    <2>0. UNCHANGED wpc
      BY <1>3, ReaderFrame
    <2>1. CASE HandleDownstreamClose(d)
      BY <2>0, <2>1, UnassignCounts DEF HandleDownstreamClose
    <2>2. CASE ~HandleDownstreamClose(d)
      <3>1. UNCHANGED <<count, downstreamToUpstream>>
        BY <1>3, <2>2 DEF DownstreamConnection, HandleDownstreamMessage,
           DownstreamRead, DownstreamReadFails, DownstreamSendClosed, DownstreamWrite,
           DownstreamWriterStops, RemoveDownstreamConnection, RemoveAgentConnections
      <3> QED
        BY <2>0, <3>1 DEF CountCoversAssignments, Assigned
    <2> QED
      BY <2>1, <2>2
  <1>4. CASE UNCHANGED <<wpc, count, downstreamToUpstream>>
    BY <1>4 DEF CountCoversAssignments, Assigned
  <1> QED
    BY <1>1, <1>2, <1>3, <1>4, MinorFrame, UpstreamReaderFrame, NextCases

-----------------------------------------------------------------------------
(* Registration and routes.                                                *)

\* The upstream writer changes neither the registry nor the routes.
LEMMA UpstreamWriterRoutes ==
    ASSUME NEW u \in Upstreams, UpstreamWriter(u)
    PROVE  UNCHANGED routeVars
  BY DEF UpstreamWriter, Dial, SetConnected, WriteNext, WriteUp,
         WriterContextDone, RemoveDownstreamConnectionIDs,
         CloseDownstreamConnection, Redial, WriterDone, RemoveUpstream

\* Every step preserves RegisteredWhileOpen: start() waits for the reader
\* before the close handler runs.
LEMMA RegisteredWhileOpenStep ==
    ASSUME TypeOK, RegisteredWhileOpen, [Next]_vars
    PROVE  RegisteredWhileOpen'
  <1>1. ASSUME NEW u \in Upstreams, UpstreamWriter(u) PROVE RegisteredWhileOpen'
    <2>1. UNCHANGED downstreamConnections
      BY <1>1, UpstreamWriterRoutes DEF routeVars
    <2>2. CASE UNCHANGED <<hpc, dr>>
      BY <2>1, <2>2 DEF RegisteredWhileOpen
    <2>3. CASE \E d \in Downstreams :
                 /\ hpc[d] = "authSend"
                 /\ \E pc \in {"authWait", "unassign"} :
                      hpc' = [hpc EXCEPT ![d] = pc]
                 /\ UNCHANGED dr
      BY <2>1, <2>3 DEF TypeOK, RegisteredWhileOpen
    <2>4. CASE \E d \in Downstreams :
                 /\ dr[d] = "send"
                 /\ \E pc \in {"read", "done"} : dr' = [dr EXCEPT ![d] = pc]
                 /\ UNCHANGED hpc
      BY <2>1, <2>4 DEF TypeOK, RegisteredWhileOpen
    <2> QED
      BY <1>1, <2>2, <2>3, <2>4, WriteUpMoves
  <1>2. ASSUME NEW d \in Downstreams, HandleRequest(d) PROVE RegisteredWhileOpen'
    <2>1. CASE Assign(d) \/ RefuseUnavailable(d)
      BY <2>1 DEF Assign, RefuseUnavailable, TypeOK, RegisteredWhileOpen
    <2>2. CASE AuthSendClosed(d) \/ AuthTimeout(d) \/ UpgradeFails(d)
      BY <2>2 DEF AuthSendClosed, AuthTimeout, UpgradeFails, TypeOK,
                  RegisteredWhileOpen
    <2>3. CASE AuthResult(d)
      BY <2>3 DEF AuthResult, TypeOK, RegisteredWhileOpen
    <2>4. CASE RefuseRequest(d)
      BY <2>4 DEF RefuseRequest, TypeOK, RegisteredWhileOpen
    <2>5. CASE Upgrade(d)
      BY <2>5 DEF Upgrade, TypeOK, RegisteredWhileOpen
    <2> QED
      BY <1>2, <2>1, <2>2, <2>3, <2>4, <2>5 DEF HandleRequest
  <1>3. ASSUME NEW d \in Downstreams, DownstreamConnection(d)
        PROVE  RegisteredWhileOpen'
    <2>1. CASE \E a \in Agents : HandleDownstreamMessage(d, a)
      BY <2>1 DEF HandleDownstreamMessage, TypeOK, RegisteredWhileOpen
    <2>2. CASE DownstreamRead(d) \/ DownstreamReadFails(d) \/ DownstreamSendClosed(d)
      BY <2>2 DEF DownstreamRead, DownstreamReadFails, DownstreamSendClosed, TypeOK,
                  RegisteredWhileOpen
    <2>3. CASE DownstreamWrite(d) \/ DownstreamWriterStops(d)
      BY <2>3 DEF DownstreamWrite, DownstreamWriterStops, RegisteredWhileOpen
    <2>4. CASE HandleDownstreamClose(d)
      BY <2>4 DEF HandleDownstreamClose, TypeOK, RegisteredWhileOpen
    <2>5. CASE RemoveDownstreamConnection(d) \/ RemoveAgentConnections(d)
      BY <2>5 DEF RemoveDownstreamConnection, RemoveAgentConnections, TypeOK,
                  RegisteredWhileOpen
    <2> QED
      BY <1>3, <2>1, <2>2, <2>3, <2>4, <2>5 DEF DownstreamConnection
  <1>4. CASE UNCHANGED <<routeVars, hpc, dr>>
    BY <1>4 DEF RegisteredWhileOpen
  <1> QED
    BY <1>1, <1>2, <1>3, <1>4, MinorFrame, UpstreamReaderFrame, NextCases

\* Every step preserves RoutesAreLive: a route is set by the reader of a live
\* connection, which is registered, and removed by the close handler of the
\* connection it leads to after the connection itself.
LEMMA RoutesAreLiveStep ==
    ASSUME TypeOK, RegisteredWhileOpen, RoutesAreLive, [Next]_vars
    PROVE  RoutesAreLive'
  <1>1. ASSUME NEW u \in Upstreams, UpstreamWriter(u) PROVE RoutesAreLive'
    <2>1. UNCHANGED routeVars
      BY <1>1, UpstreamWriterRoutes
    <2>2. CASE UNCHANGED hpc
      BY <2>1, <2>2 DEF routeVars, RoutesAreLive
    <2>3. CASE \E d \in Downstreams :
                 /\ hpc[d] = "authSend"
                 /\ \E pc \in {"authWait", "unassign"} :
                      hpc' = [hpc EXCEPT ![d] = pc]
      BY <2>1, <2>3 DEF TypeOK, routeVars, RoutesAreLive
    <2> QED
      BY <1>1, <2>2, <2>3, WriteUpMoves
  <1>2. ASSUME NEW d \in Downstreams, HandleRequest(d) PROVE RoutesAreLive'
    <2>1. UNCHANGED agentConnections
      BY <1>2 DEF HandleRequest, Assign, RefuseUnavailable, AuthSendClosed,
         AuthTimeout, AuthResult, RefuseRequest, UpgradeFails, Upgrade
    <2>2. \A e \in Downstreams : hpc[e] = "unregistered" => hpc'[e] = hpc[e]
      BY <1>2 DEF HandleRequest, Assign, RefuseUnavailable, AuthSendClosed,
         AuthTimeout, AuthResult, RefuseRequest, UpgradeFails, Upgrade, TypeOK
    <2>3. downstreamConnections \subseteq downstreamConnections'
      BY <1>2 DEF HandleRequest, Assign, RefuseUnavailable, AuthSendClosed,
         AuthTimeout, AuthResult, RefuseRequest, UpgradeFails, Upgrade
    <2> QED
      BY <2>1, <2>2, <2>3 DEF TypeOK, RoutesAreLive
  <1>3. ASSUME NEW d \in Downstreams, DownstreamConnection(d)
        PROVE  RoutesAreLive'
    <2>1. CASE \E a \in Agents : HandleDownstreamMessage(d, a)
      BY <2>1 DEF HandleDownstreamMessage, TypeOK, RegisteredWhileOpen,
                  RoutesAreLive
    <2>2. CASE DownstreamRead(d) \/ DownstreamReadFails(d) \/ DownstreamSendClosed(d)
               \/ DownstreamWrite(d) \/ DownstreamWriterStops(d)
      BY <2>2 DEF DownstreamRead, DownstreamReadFails, DownstreamSendClosed, DownstreamWrite,
                  DownstreamWriterStops, RoutesAreLive
    <2>3. CASE HandleDownstreamClose(d)
      BY <2>3 DEF HandleDownstreamClose, TypeOK, RoutesAreLive
    <2>4. CASE RemoveDownstreamConnection(d)
      BY <2>4 DEF RemoveDownstreamConnection, TypeOK, RoutesAreLive
    <2>5. CASE RemoveAgentConnections(d)
      BY <2>5, NoneAssumption DEF RemoveAgentConnections, RemoveByValue, TypeOK,
                  RoutesAreLive
    <2> QED
      BY <1>3, <2>1, <2>2, <2>3, <2>4, <2>5 DEF DownstreamConnection
  <1>4. CASE UNCHANGED <<routeVars, hpc>>
    BY <1>4 DEF RoutesAreLive
  <1> QED
    BY <1>1, <1>2, <1>3, <1>4, MinorFrame, UpstreamReaderFrame, NextCases

-----------------------------------------------------------------------------
(* The inductive invariant.                                                *)

IInv ==
    /\ TypeOK
    /\ HandingOver
    /\ ConnectedInLoop
    /\ AssignedUpstreamIsUp
    /\ NoAssignmentLeak
    /\ CountCoversAssignments
    /\ RegisteredWhileOpen
    /\ RoutesAreLive

\* The gateway starts with no connection, so the invariant holds at first.
LEMMA InitIInv == Init => IInv
  <1> SUFFICES ASSUME Init PROVE IInv
    OBVIOUS
  <1>1. TypeOK
    BY MaxDialsAssumption DEF Init, TypeOK
  <1>2. \A u \in Upstreams : Assigned(u) = {}
    BY NoneAssumption DEF Init, Assigned
  <1>3. CountCoversAssignments
    <2>1. \A u \in Upstreams : Cardinality(Assigned(u)) = 0
      BY <1>2, FS_EmptySet
    <2>2. \A u \in Upstreams : count[u] = 0
      BY DEF Init
    <2> QED
      BY <2>1, <2>2 DEF CountCoversAssignments
  <1>4. HandingOver /\ ConnectedInLoop /\ AssignedUpstreamIsUp /\ NoAssignmentLeak
    BY NoneAssumption
    DEF Init, HandingOver, ConnectedInLoop, AssignedUpstreamIsUp, NoAssignmentLeak
  <1>5. RegisteredWhileOpen /\ RoutesAreLive
    BY DEF Init, RegisteredWhileOpen, RoutesAreLive
  <1> QED
    BY <1>1, <1>3, <1>4, <1>5 DEF IInv

\* Every step keeps the types.
LEMMA TypeStep ==
    ASSUME TypeOK, HandingOver, CountCoversAssignments, AssignedUpstreamIsUp,
           [Next]_vars
    PROVE  TypeOK'
  BY NextCases, TypeUpstreamWriter, TypeUpstreamReader, TypeHandleRequest,
     TypeDownstreamConnection, TypeOther DEF Minor

\* IInv is inductive.
LEMMA NextIInv == IInv /\ [Next]_vars => IInv'
  BY TypeStep, HandingOverStep, ConnectedInLoopStep, AssignedUpstreamIsUpStep,
     NoAssignmentLeakStep, CountCoversAssignmentsStep, RegisteredWhileOpenStep,
     RoutesAreLiveStep DEF IInv

\* IInv holds of every reachable state of the gateway.
LEMMA AlwaysIInv == Spec => []IInv
  BY InitIInv, NextIInv, PTL DEF Spec

\* The values keep their types; in particular no upstream's count (a signed
\* counter that assign increments and two unassigns decrement) is negative.
THEOREM TypeCorrect == Spec => []TypeOK
  <1>1. IInv => TypeOK
    BY DEF IInv
  <1> QED
    BY <1>1, AlwaysIInv, PTL

\* A route of agentConnections leads to a registered connection, or to one
\* whose close handler is about to remove the route, and never outlives that
\* handler, for any number of agents and connections.
THEOREM RoutesCorrect == Spec => []RoutesAreLive
  <1>1. IInv => RoutesAreLive
    BY DEF IInv
  <1> QED
    BY <1>1, AlwaysIInv, PTL

\* No request or connection keeps an assignment after its end, whichever of
\* the handler's replies or close handlers ends it.
THEOREM AssignmentsCorrect == Spec => []NoAssignmentLeak
  <1>1. IInv => NoAssignmentLeak
    BY DEF IInv
  <1> QED
    BY <1>1, AlwaysIInv, PTL

\* assign and the two unassigns never count an upstream below the agents
\* assigned to it, so that the pool balances on no less than its load.
THEOREM CountCorrect == Spec => []CountCoversAssignments
  <1>1. IInv => CountCoversAssignments
    BY DEF IInv
  <1> QED
    BY <1>1, AlwaysIInv, PTL

\* An assignment exists only while the upstream's writer is between
\* setConnected(true) and HandleUpstreamClose: next() picks connected upstreams
\* only, and a loss takes every assignment away.
THEOREM AssignedUpstreamCorrect == Spec => []AssignedUpstreamIsUp
  <1>1. IInv => AssignedUpstreamIsUp
    BY DEF IInv
  <1> QED
    BY <1>1, AlwaysIInv, PTL

-----------------------------------------------------------------------------
(* Authentication.  The connect request of d or its answer is in at most   *)
(* one place: still with its handler, kept for a retry, at the server, in  *)
(* the reader's hands or in the response channel.                          *)

Sent(d)        == hpc[d] \notin {"none", "authSend"}
Retry(u, d)    == /\ nextMessage[u] # None
                  /\ nextMessage[u].from = d
                  /\ nextMessage[u].agent = None
AtServer(u, d) == d \in srvAuth[u]
AtReader(u, d) == rpc[u] = "auth" /\ rmsg[u].to = d

OnePlace ==
    \A u \in Upstreams, d \in Downstreams :
        /\ AtServer(u, d) \/ Retry(u, d) \/ AtReader(u, d)
           => upstreamConnection[d] = u /\ Sent(d)
        /\ responseChan[d] # None => Sent(d)
        /\ AtServer(u, d) => ~Retry(u, d) /\ ~AtReader(u, d) /\ responseChan[d] = None
        /\ Retry(u, d) => ~AtReader(u, d) /\ responseChan[d] = None
        /\ AtReader(u, d) => responseChan[d] = None

\* An accept on its way was given by the server.
AcceptsAreReal ==
    /\ \A d \in Downstreams : responseChan[d] = TRUE => d \in accepted
    /\ \A u \in Upstreams :
         rpc[u] = "auth" /\ rmsg[u].flag = TRUE => rmsg[u].to \in accepted

\* What a successful write of the upstream writer hands to the server.
LEMMA WrittenFacts ==
    ASSUME TypeOK, NEW u \in Upstreams, NEW m \in Message, Written(u, m)
    PROVE  /\ nextMessage' = [nextMessage EXCEPT ![u] = None]
           /\ accepted' = accepted
           /\ \/ srvAuth' = srvAuth
              \/ /\ m.agent = None
                 /\ srvAuth' = [srvAuth EXCEPT ![u] = @ \cup {m.from}]
  BY DEF Written, Receive

\* The places other actors than the writer and the reader do not touch
LEMMA PlacesFrame ==
    ASSUME NEW d \in Downstreams, HandleRequest(d) \/ DownstreamConnection(d)
    PROVE  UNCHANGED <<nextMessage, rpc, rmsg, srvAuth, accepted>>
  BY DEF HandleRequest, Assign, RefuseUnavailable, AuthSendClosed, AuthTimeout,
         AuthResult, RefuseRequest, UpgradeFails, Upgrade, DownstreamConnection,
         HandleDownstreamMessage, DownstreamRead, DownstreamReadFails,
         DownstreamSendClosed,
         DownstreamWrite, DownstreamWriterStops, HandleDownstreamClose,
         RemoveDownstreamConnection, RemoveAgentConnections

\* The upstream writer moves a connect request from its handler or its retry
\* slot to the server, and leaves none behind.
LEMMA OnePlaceWriter ==
    ASSUME TypeOK, OnePlace, NEW u \in Upstreams, UpstreamWriter(u)
    PROVE  OnePlace'
  <1> USE DEF OnePlace, Sent, Retry, AtServer, AtReader
  <1>1. CASE Dial(u)
    BY <1>1 DEF Dial, TypeOK
  <1>2. CASE WriteNext(u)
    <2>1. nextMessage[u] \in Message /\ nextMessage[u].from \in Downstreams
      BY <1>2 DEF WriteNext, TypeOK, Message
    <2>2. UNCHANGED <<rpc, rmsg, responseChan, hpc, upstreamConnection>>
      BY <1>2 DEF WriteNext
    <2>3. CASE Written(u, nextMessage[u])
      <3>1. /\ nextMessage' = [nextMessage EXCEPT ![u] = None]
            /\ \/ srvAuth' = srvAuth
               \/ /\ nextMessage[u].agent = None
                  /\ srvAuth' = [srvAuth EXCEPT ![u] = @ \cup {nextMessage[u].from}]
        BY <2>1, <2>3, WrittenFacts
      <3> QED
        BY <1>2, <2>1, <2>2, <3>1 DEF TypeOK, WriteNext
    <2>4. CASE NotWritten(u, nextMessage[u])
      <3>1. nextMessage' = nextMessage /\ srvAuth' = srvAuth
        BY <2>4 DEF NotWritten, TypeOK
      <3> QED
        BY <2>2, <3>1
    <2> QED
      BY <1>2, <2>3, <2>4 DEF WriteNext
  <1>3. CASE WriteUp(u)
    <2>1. PICK m \in Message :
            /\ Offers(u, m)
            /\ \/ Written(u, m) /\ Complete(m, TRUE)
               \/ NotWritten(u, m) /\ Complete(m, FALSE)
      BY <1>3 DEF WriteUp
    <2>2. m.from \in Downstreams /\ upstreamConnection[m.from] = u
      BY <2>1 DEF Offers, Message
    <2>3. UNCHANGED <<rpc, rmsg, responseChan, upstreamConnection>>
          /\ nextMessage[u] = None
      BY <1>3 DEF WriteUp
    <2>4. CASE m.agent = None
      <3>1. hpc[m.from] = "authSend"
        BY <2>1, <2>4 DEF Offers
      <3>2. CASE Written(u, m) /\ Complete(m, TRUE)
        <4>1. hpc' = [hpc EXCEPT ![m.from] = "authWait"]
          BY <2>4, <3>2 DEF Complete
        <4>2. /\ nextMessage' = [nextMessage EXCEPT ![u] = None]
              /\ \/ srvAuth' = srvAuth
                 \/ srvAuth' = [srvAuth EXCEPT ![u] = @ \cup {m.from}]
          BY <3>2, WrittenFacts
        <4> QED
          BY <2>2, <2>3, <3>1, <4>1, <4>2 DEF TypeOK
      <3>3. CASE NotWritten(u, m) /\ Complete(m, FALSE)
        <4>1. hpc' = [hpc EXCEPT ![m.from] = "unassign"]
          BY <2>4, <3>3 DEF Complete
        <4>2. nextMessage' = [nextMessage EXCEPT ![u] = m] /\ srvAuth' = srvAuth
          BY <3>3 DEF NotWritten
        <4> QED
          BY <2>2, <2>3, <3>1, <4>1, <4>2 DEF TypeOK
      <3> QED
        BY <2>1, <3>2, <3>3
    <2>5. CASE m.agent # None
      <3>1. hpc' = hpc
        BY <2>1, <2>5 DEF Complete
      <3>2. srvAuth' = srvAuth
        BY <2>1, <2>5, WrittenFacts DEF NotWritten
      <3>3. nextMessage' \in {[nextMessage EXCEPT ![u] = None],
                              [nextMessage EXCEPT ![u] = m]}
        BY <2>1, WrittenFacts DEF NotWritten
      <3>4. ASSUME NEW v \in Upstreams, NEW d \in Downstreams, Retry(v, d)'
            PROVE  Retry(v, d)
        <4>1. CASE v = u
          BY <2>5, <3>3, <3>4, <4>1 DEF TypeOK
        <4>2. CASE v # u
          BY <3>3, <3>4, <4>2 DEF TypeOK
        <4> QED
          BY <4>1, <4>2
      <3> QED
        BY <2>3, <3>1, <3>2, <3>4
    <2> QED
      BY <2>4, <2>5
  <1>4. CASE Redial(u)
    BY <1>4 DEF Redial, TypeOK
  <1>5. CASE ~Dial(u) /\ ~WriteNext(u) /\ ~WriteUp(u) /\ ~Redial(u)
    <2>1. UNCHANGED <<nextMessage, rpc, rmsg, srvAuth, responseChan, hpc,
                      upstreamConnection>>
      BY <1>5 DEF UpstreamWriter, SetConnected, WriterContextDone,
         RemoveDownstreamConnectionIDs, CloseDownstreamConnection, WriterDone,
         RemoveUpstream
    <2> QED
      BY <2>1
  <1> QED
    BY <1>1, <1>2, <1>3, <1>4, <1>5

\* The upstream reader moves the answer to a connect request from the server
\* to the response channel of its handler.
LEMMA OnePlaceReader ==
    ASSUME TypeOK, HandingOver, OnePlace, NEW u \in Upstreams, UpstreamReader(u)
    PROVE  OnePlace'
  <1> USE DEF OnePlace, Sent, Retry, AtServer, AtReader
  <1>0. UNCHANGED <<nextMessage, hpc, upstreamConnection>>
    BY UpstreamReaderFrame
  <1>1. CASE UpstreamReadFails(u)
    BY <1>0, <1>1 DEF UpstreamReadFails, TypeOK
  <1>2. CASE ReadAuthResult(u)
    <2>1. PICK h \in Handing :
            /\ h.to \in srvAuth[u]
            /\ srvAuth' = [srvAuth EXCEPT ![u] = @ \ {h.to}]
            /\ \/ UNCHANGED <<rpc, rmsg>>
               \/ /\ rpc' = [rpc EXCEPT ![u] = "auth"]
                  /\ rmsg' = [rmsg EXCEPT ![u] = h]
      BY <1>2, ReadAuthResultStep
    <2>2. responseChan' = responseChan /\ rpc[u] = "read"
      BY <1>2 DEF ReadAuthResult
    <2> QED
      BY <1>0, <2>1, <2>2 DEF TypeOK
  <1>3. CASE PutAuthResponse(u)
    <2>1. rmsg[u].to \in Downstreams
      BY <1>3 DEF PutAuthResponse, HandingOver, Handing
    <2> QED
      BY <1>0, <1>3, <2>1 DEF PutAuthResponse, TypeOK
  <1>4. CASE ReadAgentMessage(u)
    <2>1. srvAuth' = srvAuth /\ responseChan' = responseChan /\ rpc[u] = "read"
      BY <1>4 DEF ReadAgentMessage
    <2>2. ASSUME NEW v \in Upstreams, NEW d \in Downstreams, AtReader(v, d)'
          PROVE  AtReader(v, d)
      <3>1. CASE UNCHANGED <<rpc, rmsg>>
        BY <2>2, <3>1
      <3>2. CASE \E h \in Handing : /\ rpc' = [rpc EXCEPT ![u] = "send"]
                                    /\ rmsg' = [rmsg EXCEPT ![u] = h]
        BY <2>2, <3>2 DEF TypeOK
      <3> QED
        BY <1>4, <3>1, <3>2, ReadAgentMessageStep
    <2> QED
      BY <1>0, <2>1, <2>2
  <1>5. CASE SendDown(u)
    BY <1>0, <1>5 DEF SendDown, TypeOK
  <1>6. CASE SendDownClosed(u)
    BY <1>0, <1>6 DEF SendDownClosed, TypeOK
  <1> QED
    BY <1>1, <1>2, <1>3, <1>4, <1>5, <1>6 DEF UpstreamReader

\* Every step preserves OnePlace.
LEMMA OnePlaceStep ==
    ASSUME TypeOK, HandingOver, OnePlace, [Next]_vars
    PROVE  OnePlace'
  <1> USE DEF OnePlace, Sent, Retry, AtServer, AtReader
  <1>1. ASSUME NEW d \in Downstreams, HandleRequest(d) PROVE OnePlace'
    <2>0. UNCHANGED <<nextMessage, rpc, rmsg, srvAuth>>
      BY <1>1, PlacesFrame
    <2>1. CASE Assign(d)
      BY <2>0, <2>1 DEF Assign, TypeOK
    <2>2. CASE RefuseUnavailable(d)
      BY <2>0, <2>2 DEF RefuseUnavailable, TypeOK
    <2>3. CASE AuthSendClosed(d) \/ AuthTimeout(d) \/ UpgradeFails(d)
      BY <2>0, <2>3 DEF AuthSendClosed, AuthTimeout, UpgradeFails, TypeOK
    <2>4. CASE AuthResult(d)
      BY <2>0, <2>4 DEF AuthResult, TypeOK
    <2>5. CASE RefuseRequest(d) \/ Upgrade(d)
      BY <2>0, <2>5 DEF RefuseRequest, Upgrade, TypeOK
    <2> QED
      BY <1>1, <2>1, <2>2, <2>3, <2>4, <2>5 DEF HandleRequest
  <1>2. ASSUME NEW d \in Downstreams, DownstreamConnection(d) PROVE OnePlace'
    <2>0. UNCHANGED <<nextMessage, rpc, rmsg, srvAuth>>
      BY <1>2, PlacesFrame
    <2>1. UNCHANGED <<responseChan, upstreamConnection>>
      BY <1>2 DEF DownstreamConnection, HandleDownstreamMessage,
         DownstreamRead, DownstreamReadFails, DownstreamSendClosed, DownstreamWrite,
         DownstreamWriterStops, HandleDownstreamClose, RemoveDownstreamConnection,
         RemoveAgentConnections
    <2>2. \A e \in Downstreams : Sent(e) => Sent(e)'
      BY <1>2 DEF DownstreamConnection, HandleDownstreamMessage,
         DownstreamRead, DownstreamReadFails, DownstreamSendClosed, DownstreamWrite,
         DownstreamWriterStops, HandleDownstreamClose, RemoveDownstreamConnection,
         RemoveAgentConnections, TypeOK
    <2> QED
      BY <2>0, <2>1, <2>2
  <1>3. CASE Minor
    BY <1>3, MinorFrame
  <1> QED
    BY <1>1, <1>2, <1>3, OnePlaceWriter, OnePlaceReader, NextCases

\* The upstream writer makes no accept.
LEMMA WriterAccepts ==
    ASSUME TypeOK, NEW u \in Upstreams, UpstreamWriter(u)
    PROVE  /\ UNCHANGED <<responseChan, rmsg, accepted>>
           /\ \A v \in Upstreams : rpc'[v] = "auth" => rpc[v] = "auth"
  <1>1. CASE WriteNext(u)
    <2>1. nextMessage[u] \in Message
      BY <1>1 DEF WriteNext, TypeOK
    <2> QED
      BY <1>1, <2>1, WrittenFacts DEF WriteNext, NotWritten
  <1>2. CASE WriteUp(u)
    BY <1>2, WrittenFacts DEF WriteUp, NotWritten
  <1>3. CASE ~WriteNext(u) /\ ~WriteUp(u)
    BY <1>3 DEF UpstreamWriter, Dial, SetConnected, WriterContextDone,
       RemoveDownstreamConnectionIDs, CloseDownstreamConnection, Redial,
       WriterDone, RemoveUpstream, TypeOK
  <1> QED
    BY <1>1, <1>2, <1>3

\* The upstream reader passes on only accepts that the server gave.
LEMMA AcceptsAreRealReader ==
    ASSUME TypeOK, HandingOver, AcceptsAreReal, NEW u \in Upstreams,
           UpstreamReader(u)
    PROVE  AcceptsAreReal' /\ accepted \subseteq accepted'
  <1>1. CASE ReadAuthResult(u)
    <2>1. PICK h \in Handing :
            /\ accepted' \in {accepted, accepted \cup {h.to}}
            /\ h.flag => h.to \in accepted'
            /\ \/ UNCHANGED <<rpc, rmsg>>
               \/ /\ rpc' = [rpc EXCEPT ![u] = "auth"]
                  /\ rmsg' = [rmsg EXCEPT ![u] = h]
      BY <1>1, ReadAuthResultStep
    <2>2. responseChan' = responseChan
      BY <1>1 DEF ReadAuthResult
    <2>3. accepted \subseteq accepted'
      BY <2>1
    <2>4. ASSUME NEW v \in Upstreams, rpc'[v] = "auth", rmsg'[v].flag = TRUE
          PROVE  rmsg'[v].to \in accepted'
      <3>1. CASE UNCHANGED <<rpc, rmsg>>
        BY <2>3, <2>4, <3>1 DEF AcceptsAreReal
      <3>2. CASE /\ rpc' = [rpc EXCEPT ![u] = "auth"]
                 /\ rmsg' = [rmsg EXCEPT ![u] = h]
        <4>1. CASE v = u
          BY <2>1, <2>4, <3>2, <4>1 DEF TypeOK
        <4>2. CASE v # u
          BY <2>3, <2>4, <3>2, <4>2 DEF TypeOK, AcceptsAreReal
        <4> QED
          BY <4>1, <4>2
      <3> QED
        BY <2>1, <3>1, <3>2
    <2> QED
      BY <2>2, <2>3, <2>4 DEF AcceptsAreReal
  <1>2. CASE PutAuthResponse(u)
    <2>1. rmsg[u] \in Handing /\ rpc[u] = "auth"
      BY <1>2 DEF PutAuthResponse, HandingOver
    <2>2. accepted' = accepted
      BY <1>2 DEF PutAuthResponse
    <2>3. rmsg[u].flag = TRUE => rmsg[u].to \in accepted
      BY <2>1 DEF AcceptsAreReal
    <2>4. ASSUME NEW d \in Downstreams, responseChan'[d] = TRUE
          PROVE  d \in accepted
      <3>1. CASE d = rmsg[u].to
        BY <1>2, <2>3, <2>4, <3>1 DEF PutAuthResponse, TypeOK
      <3>2. CASE d # rmsg[u].to
        BY <1>2, <2>4, <3>2 DEF PutAuthResponse, TypeOK, AcceptsAreReal
      <3> QED
        BY <3>1, <3>2
    <2>5. \A v \in Upstreams : rpc'[v] = "auth" => rpc[v] = "auth" /\ rmsg'[v] = rmsg[v]
      BY <1>2 DEF PutAuthResponse, TypeOK
    <2> QED
      BY <2>2, <2>4, <2>5 DEF AcceptsAreReal
  <1>3. CASE UpstreamReadFails(u) \/ SendDown(u) \/ SendDownClosed(u)
    BY <1>3 DEF UpstreamReadFails, SendDown, SendDownClosed, TypeOK, AcceptsAreReal
  <1>4. CASE ReadAgentMessage(u)
    <2>1. UNCHANGED <<responseChan, accepted>>
      BY <1>4 DEF ReadAgentMessage
    <2>2. \A v \in Upstreams : rpc'[v] = "auth" => rpc[v] = "auth" /\ rmsg'[v] = rmsg[v]
      BY <1>4, ReadAgentMessageStep DEF TypeOK
    <2> QED
      BY <2>1, <2>2 DEF AcceptsAreReal
  <1> QED
    BY <1>1, <1>2, <1>3, <1>4 DEF UpstreamReader

\* Every step preserves AcceptsAreReal.
LEMMA AcceptsAreRealStep ==
    ASSUME TypeOK, HandingOver, AcceptsAreReal, [Next]_vars
    PROVE  AcceptsAreReal' /\ accepted \subseteq accepted'
  <1>1. ASSUME NEW u \in Upstreams, UpstreamWriter(u)
        PROVE  AcceptsAreReal' /\ accepted \subseteq accepted'
    BY <1>1, WriterAccepts DEF AcceptsAreReal
  <1>2. ASSUME NEW d \in Downstreams, HandleRequest(d) \/ DownstreamConnection(d)
        PROVE  AcceptsAreReal' /\ accepted \subseteq accepted'
    <2>1. UNCHANGED <<rpc, rmsg, accepted>>
      BY <1>2, PlacesFrame
    <2>2. \/ responseChan' = responseChan
          \/ responseChan' = [responseChan EXCEPT ![d] = None]
      BY <1>2 DEF HandleRequest, Assign, RefuseUnavailable, AuthSendClosed,
         AuthTimeout, AuthResult, RefuseRequest, UpgradeFails, Upgrade,
         DownstreamConnection, HandleDownstreamMessage, DownstreamRead, DownstreamReadFails,
         DownstreamSendClosed, DownstreamWrite, DownstreamWriterStops,
         HandleDownstreamClose, RemoveDownstreamConnection, RemoveAgentConnections
    <2>3. \A e \in Downstreams : responseChan'[e] = TRUE => responseChan[e] = TRUE
      <3>1. CASE responseChan' = responseChan
        BY <3>1
      <3>2. CASE responseChan' = [responseChan EXCEPT ![d] = None]
        <4>1. responseChan \in [Downstreams -> BOOLEAN \cup {None}]
          BY DEF TypeOK
        <4> QED
          BY <3>2, <4>1, NoneIsNoFlag
      <3> QED
        BY <2>2, <3>1, <3>2
    <2> QED
      BY <2>1, <2>3 DEF AcceptsAreReal
  <1>3. CASE Minor
    BY <1>3, MinorFrame DEF AcceptsAreReal
  <1> QED
    BY <1>1, <1>2, <1>3, AcceptsAreRealReader, NextCases

\* Every step preserves OnlyAcceptedConnect: acceptOpAMPConnection upgrades
\* only on an accept taken from the response channel.
LEMMA OnlyAcceptedConnectStep ==
    ASSUME TypeOK, HandingOver, AcceptsAreReal, OnlyAcceptedConnect, [Next]_vars
    PROVE  OnlyAcceptedConnect'
  <1>0. accepted \subseteq accepted'
    BY AcceptsAreRealStep
  <1>1. ASSUME NEW u \in Upstreams, UpstreamWriter(u) PROVE OnlyAcceptedConnect'
    <2>1. \A d \in Downstreams :
            hpc'[d] \in {"upgrade", "live", "closing", "unregistered", "closed"}
              => hpc'[d] = hpc[d]
      <3>1. DOMAIN hpc = Downstreams
        BY DEF TypeOK
      <3>2. CASE UNCHANGED hpc
        BY <3>2
      <3>3. CASE \E d \in Downstreams : \E pc \in {"authWait", "unassign"} :
                   hpc' = [hpc EXCEPT ![d] = pc]
        BY <3>1, <3>3
      <3> QED
        BY <1>1, <3>2, <3>3, WriteUpMoves
    <2> QED
      BY <1>0, <2>1 DEF OnlyAcceptedConnect
  <1>2. ASSUME NEW d \in Downstreams, HandleRequest(d) PROVE OnlyAcceptedConnect'
    <2>1. CASE AuthResult(d)
      <3>1. CASE responseChan[d] = TRUE
        <4>1. d \in accepted
          BY <3>1 DEF AcceptsAreReal
        <4> QED
          BY <1>0, <2>1, <4>1 DEF AuthResult, TypeOK, OnlyAcceptedConnect
      <3>2. CASE responseChan[d] # TRUE
        BY <1>0, <2>1, <3>2 DEF AuthResult, TypeOK, OnlyAcceptedConnect
      <3> QED
        BY <3>1, <3>2
    <2>2. CASE Assign(d) \/ RefuseUnavailable(d) \/ RefuseRequest(d)
      BY <1>0, <2>2 DEF Assign, RefuseUnavailable, RefuseRequest, TypeOK,
                        OnlyAcceptedConnect
    <2>3. CASE AuthSendClosed(d) \/ AuthTimeout(d) \/ UpgradeFails(d) \/ Upgrade(d)
      BY <1>0, <2>3 DEF AuthSendClosed, AuthTimeout, UpgradeFails, Upgrade,
                        TypeOK, OnlyAcceptedConnect
    <2> QED
      BY <1>2, <2>1, <2>2, <2>3 DEF HandleRequest
  <1>3. ASSUME NEW d \in Downstreams, DownstreamConnection(d)
        PROVE  OnlyAcceptedConnect'
    <2>1. CASE \/ HandleDownstreamClose(d)
               \/ RemoveDownstreamConnection(d) \/ RemoveAgentConnections(d)
      BY <1>0, <2>1 DEF HandleDownstreamClose, RemoveDownstreamConnection,
                        RemoveAgentConnections, TypeOK, OnlyAcceptedConnect
    <2>2. CASE /\ ~HandleDownstreamClose(d)
               /\ ~RemoveDownstreamConnection(d) /\ ~RemoveAgentConnections(d)
      <3>1. UNCHANGED hpc
        BY <1>3, <2>2 DEF DownstreamConnection, HandleDownstreamMessage,
           DownstreamRead, DownstreamReadFails, DownstreamSendClosed, DownstreamWrite,
           DownstreamWriterStops
      <3> QED
        BY <1>0, <3>1 DEF OnlyAcceptedConnect
    <2> QED
      BY <2>1, <2>2
  <1>4. CASE UNCHANGED hpc
    BY <1>0, <1>4 DEF OnlyAcceptedConnect
  <1> QED
    BY <1>1, <1>2, <1>3, <1>4, MinorFrame, UpstreamReaderFrame, NextCases

AuthInv == OnePlace /\ AcceptsAreReal /\ OnlyAcceptedConnect

\* AuthInv holds of every reachable state of the gateway.
LEMMA AlwaysAuthInv == Spec => []AuthInv
  <1>1. Init => AuthInv
    <2> SUFFICES ASSUME Init PROVE AuthInv
      OBVIOUS
    <2>1. OnePlace
      BY DEF Init, OnePlace, Retry, AtServer, AtReader
    <2>2. AcceptsAreReal
      BY NoneIsNoFlag DEF Init, AcceptsAreReal
    <2>3. OnlyAcceptedConnect
      BY DEF Init, OnlyAcceptedConnect
    <2> QED
      BY <2>1, <2>2, <2>3 DEF AuthInv
  <1>2. IInv /\ AuthInv /\ [Next]_vars => AuthInv'
    BY OnePlaceStep, AcceptsAreRealStep, OnlyAcceptedConnectStep DEF IInv, AuthInv
  <1> QED
    BY <1>1, <1>2, AlwaysIInv, PTL DEF Spec

\* An agent is let in only on the server's accept of its own connect request,
\* whatever is retried, late or lost.
THEOREM AuthenticationCorrect == Spec => []OnlyAcceptedConnect
  <1>1. AuthInv => OnlyAcceptedConnect
    BY DEF AuthInv
  <1> QED
    BY <1>1, AlwaysAuthInv, PTL

\* The upstream reader, shared by many agents, never blocks on a response
\* channel: a connect request or its answer is in at most one place.
THEOREM ReaderNeverBlocks == Spec => []AuthReaderNeverBlocks
  <1>1. IInv /\ AuthInv => AuthReaderNeverBlocks
    <2> SUFFICES ASSUME IInv, AuthInv, NEW u \in Upstreams, rpc[u] = "auth"
                 PROVE  responseChan[rmsg[u].to] = None
      BY DEF AuthReaderNeverBlocks
    <2>1. rmsg[u].to \in Downstreams
      BY DEF IInv, HandingOver, Handing
    <2> QED
      BY <2>1 DEF AuthInv, OnePlace, AtReader
  <1> QED
    BY <1>1, AlwaysIInv, AlwaysAuthInv, PTL

-----------------------------------------------------------------------------
(* CustomCapabilities.  With one upstream (the default of the extension) a  *)
(* single reader hands messages down, in the order in which it read them.   *)
(* With more, the reader of another upstream can overtake the one that      *)
(* holds the message with the capabilities, and CapabilitiesFirst is false. *)

OneUpstream == \A u, v \in Upstreams : u = v

\* A reader has ended before its writer closes, dials again or stops.
ReaderOver ==
    \A u \in Upstreams :
        wpc[u] \in {"closing", "dialing", "stopped", "gone"} => rpc[u] \in {"none", "done"}

\* The writer of a connection starts with the upgrade.
WriterBegun ==
    \A d \in Downstreams :
        dw[d] # "none" => hpc[d] \in {"live", "closing", "unregistered", "closed"}

\* What the server sent once in a session is cached.
CapsCached == \A u \in Upstreams : srvCaps[u] => customCapabilities[u]

\* d was given a message, or can no longer be given one.
Served(d) == first[d] # "nothing" \/ dw[d] = "done"

\* A connection marked as sent was served, or a reader holds its capabilities;
\* a reader holds a message without them only for a connection that was served.
CapsOnTheWay ==
    /\ \A d \in Downstreams :
         sentCustomCapabilities[d] =>
             \/ Served(d)
             \/ \E u \in Upstreams : rpc[u] = "send" /\ rmsg[u].to = d /\ rmsg[u].flag
    /\ \A u \in Upstreams : rpc[u] = "send" /\ ~rmsg[u].flag => Served(rmsg[u].to)

CapsInv == ReaderOver /\ WriterBegun /\ CapsCached /\ CapsOnTheWay /\ CapabilitiesFirst

\* The upstream writer leaves what is handed down alone, and starts or ends
\* a reader only between two sessions.
LEMMA CapsWriterFrame ==
    ASSUME TypeOK, ReaderOver, NEW u \in Upstreams, UpstreamWriter(u)
    PROVE  /\ UNCHANGED <<rmsg, customCapabilities, capsVars, dw>>
           /\ \/ rpc' = rpc
              \/ /\ rpc[u] \in {"none", "done"}
                 /\ \E pc \in {"none", "read"} : rpc' = [rpc EXCEPT ![u] = pc]
           /\ \/ srvCaps' = srvCaps
              \/ srvCaps' = [srvCaps EXCEPT ![u] = FALSE]
  <1>1. CASE Dial(u) \/ Redial(u)
    BY <1>1 DEF Dial, Redial, ReaderOver
  <1>2. CASE WriteNext(u) \/ WriteUp(u)
    BY <1>2 DEF WriteNext, WriteUp, Written, NotWritten, Receive
  <1>3. CASE ~Dial(u) /\ ~Redial(u) /\ ~WriteNext(u) /\ ~WriteUp(u)
    BY <1>3 DEF UpstreamWriter, SetConnected, WriterContextDone,
       RemoveDownstreamConnectionIDs, CloseDownstreamConnection, WriterDone, RemoveUpstream
  <1> QED
    BY <1>1, <1>2, <1>3

\* The requests and connections leave the readers and capabilities alone; a
\* downstream writer that is done stays so.
LEMMA CapsConnectionFrame ==
    ASSUME TypeOK, WriterBegun, NEW d \in Downstreams,
           HandleRequest(d) \/ DownstreamConnection(d)
    PROVE  /\ UNCHANGED <<wpc, rpc, rmsg, customCapabilities, srvCaps, capsVars>>
           /\ \A e \in Downstreams : dw[e] = "done" => dw'[e] = "done"
  <1>1. UNCHANGED <<wpc, rpc, rmsg, customCapabilities, srvCaps, capsVars>>
    BY DEF HandleRequest, Assign, RefuseUnavailable, AuthSendClosed, AuthTimeout,
       AuthResult, RefuseRequest, UpgradeFails, Upgrade, DownstreamConnection,
       HandleDownstreamMessage, DownstreamRead, DownstreamReadFails,
       DownstreamSendClosed, DownstreamWrite, DownstreamWriterStops,
       HandleDownstreamClose, RemoveDownstreamConnection, RemoveAgentConnections
  <1>2. ASSUME NEW e \in Downstreams, dw[e] = "done" PROVE dw'[e] = "done"
    <2>1. CASE Upgrade(d)
      BY <1>2, <2>1 DEF Upgrade, WriterBegun, TypeOK
    <2>2. CASE DownstreamWrite(d) \/ DownstreamWriterStops(d)
      BY <1>2, <2>2 DEF DownstreamWrite, DownstreamWriterStops, TypeOK
    <2>3. CASE ~Upgrade(d) /\ ~DownstreamWrite(d) /\ ~DownstreamWriterStops(d)
      BY <1>2, <2>3 DEF HandleRequest, Assign, RefuseUnavailable, AuthSendClosed,
         AuthTimeout, AuthResult, RefuseRequest, UpgradeFails, DownstreamConnection,
         HandleDownstreamMessage, DownstreamRead, DownstreamReadFails,
         DownstreamSendClosed, HandleDownstreamClose, RemoveDownstreamConnection,
         RemoveAgentConnections
    <2> QED
      BY <2>1, <2>2, <2>3
  <1> QED
    BY <1>1, <1>2

\* Breaking transports and the phases of a shutdown change none of it.
LEMMA CapsMinorFrame ==
    ASSUME Minor
    PROVE  UNCHANGED <<writerVars, readerVars, srvVars, capsVars, dw, hpc>>
  BY DEF Minor, Shutdown, ClientStopped, ServerStopped, Terminated,
         UpstreamBreaks, DownstreamBreaks, vars, connVars

\* Every step preserves ReaderOver: startWriter waits for readerDone.
LEMMA ReaderOverStep ==
    ASSUME TypeOK, ReaderOver, WriterBegun, [Next]_vars
    PROVE  ReaderOver'
  <1>1. ASSUME NEW u \in Upstreams, UpstreamWriter(u) PROVE ReaderOver'
    <2>1. CASE Dial(u)
      BY <2>1 DEF Dial, ReaderOver, TypeOK
    <2>2. CASE Redial(u)
      BY <2>2 DEF Redial, ReaderOver, TypeOK
    <2>3. CASE RemoveDownstreamConnectionIDs(u)
      BY <2>3 DEF RemoveDownstreamConnectionIDs, ReaderOver, TypeOK
    <2>4. CASE WriteNext(u)
      BY <2>4 DEF WriteNext, Written, NotWritten, ReaderOver, TypeOK
    <2>5. CASE WriteUp(u)
      <3>1. rpc' = rpc /\ wpc[u] = "loop"
        BY <2>5 DEF WriteUp, readerVars
      <3>2. wpc' = wpc \/ wpc' = [wpc EXCEPT ![u] = "drain"]
        BY <2>5 DEF WriteUp, Written, NotWritten
      <3> QED
        BY <3>1, <3>2 DEF ReaderOver, TypeOK
    <2>6. CASE SetConnected(u) \/ WriterContextDone(u) \/ WriterDone(u) \/ RemoveUpstream(u)
      BY <2>6 DEF SetConnected, WriterContextDone, WriterDone, RemoveUpstream,
         ReaderOver, TypeOK
    <2>7. CASE \E d \in Downstreams : CloseDownstreamConnection(u, d)
      BY <2>7 DEF CloseDownstreamConnection, ReaderOver
    <2> QED
      BY <1>1, <2>1, <2>2, <2>3, <2>4, <2>5, <2>6, <2>7 DEF UpstreamWriter
  <1>2. ASSUME NEW u \in Upstreams, UpstreamReader(u) PROVE ReaderOver'
    <2>1. wpc' = wpc
      BY <1>2, UpstreamReaderFrame DEF writerVars
    <2>2. /\ rpc[u] \notin {"none", "done"}
          /\ \/ rpc' = rpc
             \/ \E pc \in {"read", "auth", "send", "done"} : rpc' = [rpc EXCEPT ![u] = pc]
      BY <1>2 DEF UpstreamReader, UpstreamReadFails, ReadAuthResult, PutAuthResponse,
         ReadAgentMessage, SendDown, SendDownClosed
    <2>3. wpc[u] \notin {"closing", "dialing", "stopped", "gone"}
      BY <2>2 DEF ReaderOver
    <2>4. \A v \in Upstreams : v # u => rpc'[v] = rpc[v]
      BY <2>2 DEF TypeOK
    <2> QED
      BY <2>1, <2>3, <2>4 DEF ReaderOver
  <1>3. CASE UNCHANGED <<wpc, rpc>>
    BY <1>3 DEF ReaderOver
  <1> QED
    BY <1>1, <1>2, <1>3, CapsConnectionFrame, CapsMinorFrame, NextCases
    DEF writerVars, readerVars

\* Every step preserves WriterBegun.
LEMMA WriterBegunStep ==
    ASSUME TypeOK, HandingOver, ReaderOver, WriterBegun, [Next]_vars
    PROVE  WriterBegun'
  <1>1. ASSUME NEW u \in Upstreams, UpstreamWriter(u) PROVE WriterBegun'
    <2>1. dw' = dw
      BY <1>1, CapsWriterFrame
    <2>2. CASE UNCHANGED hpc
      BY <2>1, <2>2 DEF WriterBegun
    <2>3. CASE \E d \in Downstreams :
                 /\ hpc[d] = "authSend"
                 /\ \E pc \in {"authWait", "unassign"} :
                      hpc' = [hpc EXCEPT ![d] = pc]
      BY <2>1, <2>3 DEF WriterBegun, TypeOK
    <2> QED
      BY <1>1, <2>2, <2>3, WriteUpMoves
  <1>2. ASSUME NEW u \in Upstreams, UpstreamReader(u) PROVE WriterBegun'
    <2>1. hpc' = hpc
      BY <1>2, UpstreamReaderFrame
    <2>2. CASE SendDown(u)
      BY <2>1, <2>2 DEF SendDown, WriterBegun, TypeOK
    <2>3. CASE ~SendDown(u)
      BY <1>2, <2>1, <2>3 DEF UpstreamReader, UpstreamReadFails, ReadAuthResult,
         PutAuthResponse, ReadAgentMessage, SendDownClosed, connVars, WriterBegun
    <2> QED
      BY <2>2, <2>3
  <1>3. ASSUME NEW d \in Downstreams, HandleRequest(d) PROVE WriterBegun'
    <2>1. CASE Upgrade(d)
      BY <2>1 DEF Upgrade, WriterBegun, TypeOK
    <2>2. CASE Assign(d) \/ RefuseUnavailable(d)
      <3>1. /\ dw' = dw /\ hpc[d] = "none"
            /\ \E p \in {"authSend", "refused"} : hpc' = [hpc EXCEPT ![d] = p]
        BY <2>2 DEF Assign, RefuseUnavailable, connVars
      <3> QED
        BY <3>1 DEF WriterBegun, TypeOK
    <2>4. CASE RefuseRequest(d)
      BY <2>4 DEF RefuseRequest, connVars, WriterBegun, TypeOK
    <2>5. CASE AuthResult(d)
      BY <2>5 DEF AuthResult, connVars, WriterBegun, TypeOK
    <2>3. CASE AuthSendClosed(d) \/ AuthTimeout(d) \/ UpgradeFails(d)
      <3>1. /\ dw' = dw /\ hpc' = [hpc EXCEPT ![d] = "unassign"]
            /\ hpc[d] \in {"authSend", "authWait", "upgrade"}
        BY <2>3 DEF AuthSendClosed, AuthTimeout, UpgradeFails, connVars
      <3> QED
        BY <3>1 DEF WriterBegun, TypeOK
    <2> QED
      BY <1>3, <2>1, <2>2, <2>3, <2>4, <2>5 DEF HandleRequest
  <1>4. ASSUME NEW d \in Downstreams, DownstreamConnection(d) PROVE WriterBegun'
    <2>1. CASE \/ HandleDownstreamClose(d)
               \/ RemoveDownstreamConnection(d) \/ RemoveAgentConnections(d)
      <3>1. /\ dw' = dw
            /\ \E p \in {"closing", "unregistered", "closed"} :
                 hpc' = [hpc EXCEPT ![d] = p]
        BY <2>1 DEF HandleDownstreamClose, RemoveDownstreamConnection,
                    RemoveAgentConnections, connVars
      <3> QED
        BY <3>1 DEF WriterBegun, TypeOK
    <2>2. CASE DownstreamWrite(d) \/ DownstreamWriterStops(d)
      BY <2>2 DEF DownstreamWrite, DownstreamWriterStops, WriterBegun, TypeOK
    <2>3. CASE UNCHANGED <<hpc, dw>>
      BY <2>3 DEF WriterBegun
    <2> QED
      BY <1>4, <2>1, <2>2, <2>3 DEF DownstreamConnection, DownstreamRead,
         HandleDownstreamMessage, DownstreamReadFails, DownstreamSendClosed
  <1>5. CASE UNCHANGED <<hpc, dw>>
    BY <1>5 DEF WriterBegun
  <1> QED
    BY <1>1, <1>2, <1>3, <1>4, <1>5, CapsMinorFrame, NextCases

\* Every step preserves CapsCached: the cache is filled before anything else
\* is done with a message, and never emptied.
LEMMA CapsCachedStep ==
    ASSUME TypeOK, ReaderOver, WriterBegun, CapsCached, [Next]_vars
    PROVE  CapsCached'
  <1>1. ASSUME NEW u \in Upstreams, UpstreamWriter(u) PROVE CapsCached'
    <2>1. customCapabilities' = customCapabilities
      BY <1>1, CapsWriterFrame
    <2>2. \A v \in Upstreams : srvCaps'[v] => srvCaps[v]
      <3>1. CASE srvCaps' = srvCaps
        BY <3>1
      <3>2. CASE srvCaps' = [srvCaps EXCEPT ![u] = FALSE]
        BY <3>2 DEF TypeOK
      <3> QED
        BY <1>1, <3>1, <3>2, CapsWriterFrame
    <2> QED
      BY <2>1, <2>2 DEF CapsCached
  <1>2. ASSUME NEW u \in Upstreams, CacheCapabilities(u) PROVE CapsCached'
    BY <1>2 DEF CacheCapabilities, CapsCached, TypeOK
  <1>3. CASE UNCHANGED <<customCapabilities, srvCaps>>
    BY <1>3 DEF CapsCached
  <1>4. ASSUME NEW u \in Upstreams, UpstreamReader(u)
        PROVE  CacheCapabilities(u) \/ UNCHANGED <<customCapabilities, srvCaps>>
    BY <1>4 DEF UpstreamReader, UpstreamReadFails, ReadAuthResult, PutAuthResponse,
       ReadAgentMessage, SendDown, SendDownClosed, srvVars
  <1> QED
    BY <1>1, <1>2, <1>3, <1>4, CapsConnectionFrame, CapsMinorFrame, NextCases
    DEF readerVars, srvVars

\* A message for an agent whose connection has not been marked carries the
\* capabilities, its own or the cached ones, and marks the connection.
LEMMA Injects ==
    ASSUME TypeOK, CapsCached, NEW u \in Upstreams, ReadAgentMessage(u)
    PROVE  /\ rpc[u] = "read"
           /\ UNCHANGED <<first, dw>>
           /\ \/ UNCHANGED <<rpc, rmsg, sentCustomCapabilities>>
              \/ \E d \in Downstreams : \E f \in BOOLEAN :
                   /\ rpc' = [rpc EXCEPT ![u] = "send"]
                   /\ rmsg' = [rmsg EXCEPT ![u] = [to |-> d, flag |-> f]]
                   /\ f \/ sentCustomCapabilities[d]
                   /\ \A e \in Downstreams :
                        sentCustomCapabilities'[e] =>
                            sentCustomCapabilities[e] \/ (e = d /\ f)
  <1>1. PICK a \in srvAgents[u] :
          LET d == agentConnections[a]
              inject == ~srvCaps[u] \/ (~sentCustomCapabilities[d]
                                        /\ customCapabilities[u])
          IN  IF d = None
              THEN UNCHANGED <<rpc, rmsg, sentCustomCapabilities>>
              ELSE /\ rpc' = [rpc EXCEPT ![u] = "send"]
                   /\ rmsg' = [rmsg EXCEPT ![u] = [to |-> d, flag |-> inject]]
                   /\ sentCustomCapabilities' =
                        [sentCustomCapabilities EXCEPT ![d] = @ \/ inject]
    BY DEF ReadAgentMessage
  <1>2. rpc[u] = "read" /\ UNCHANGED <<first, dw>>
    BY DEF ReadAgentMessage, connVars
  <1> DEFINE d == agentConnections[a]
             f == ~srvCaps[u] \/ (~sentCustomCapabilities[d] /\ customCapabilities[u])
  <1>3. CASE d = None
    BY <1>1, <1>2, <1>3
  <1>4. CASE d # None
    <2>1. d \in Downstreams /\ f \in BOOLEAN
      BY <1>4 DEF TypeOK
    <2>2. f \/ sentCustomCapabilities[d]
      BY <2>1 DEF CapsCached, TypeOK
    <2>3. /\ rpc' = [rpc EXCEPT ![u] = "send"]
          /\ rmsg' = [rmsg EXCEPT ![u] = [to |-> d, flag |-> f]]
          /\ sentCustomCapabilities' = [sentCustomCapabilities EXCEPT ![d] = @ \/ f]
      BY <1>1, <1>4
    <2> HIDE DEF f, d
    <2>4. \A e \in Downstreams :
            sentCustomCapabilities'[e] => sentCustomCapabilities[e] \/ (e = d /\ f)
      BY <2>1, <2>3 DEF TypeOK
    <2> QED
      BY <1>2, <2>1, <2>2, <2>3, <2>4
  <1> QED
    BY <1>3, <1>4

\* A step that hands nothing down keeps CapsOnTheWay and CapabilitiesFirst.
LEMMA CapsKept ==
    ASSUME CapsOnTheWay, CapabilitiesFirst, HandingOver,
           UNCHANGED <<capsVars, rmsg>>,
           \A u \in Upstreams : (rpc'[u] = "send") <=> (rpc[u] = "send"),
           \A d \in Downstreams : dw[d] = "done" => dw'[d] = "done"
    PROVE  CapsOnTheWay' /\ CapabilitiesFirst'
  <1>1. CapabilitiesFirst'
    BY DEF CapabilitiesFirst, capsVars
  <1>2. \A d \in Downstreams : Served(d) => Served(d)'
    BY DEF Served, capsVars
  <1>3. \A u \in Upstreams : rpc[u] = "send" => rmsg[u].to \in Downstreams
    BY DEF HandingOver, Handing
  <1>4. \A d \in Downstreams :
          sentCustomCapabilities'[d] =>
            \/ Served(d)'
            \/ \E u \in Upstreams : rpc'[u] = "send" /\ rmsg'[u].to = d /\ rmsg'[u].flag
    BY <1>2 DEF CapsOnTheWay, capsVars
  <1>5. \A u \in Upstreams : rpc'[u] = "send" /\ ~rmsg'[u].flag => Served(rmsg[u].to)'
    BY <1>2, <1>3 DEF CapsOnTheWay
  <1> QED
    BY <1>1, <1>4, <1>5 DEF CapsOnTheWay

\* The one reader keeps the order in which it read: when it turns to a marked
\* connection it holds nothing else, so that connection was served before.
LEMMA CapsReaderStep ==
    ASSUME OneUpstream, TypeOK, HandingOver, CapsCached, CapsOnTheWay, CapabilitiesFirst,
           NEW u \in Upstreams, UpstreamReader(u)
    PROVE  CapsOnTheWay' /\ CapabilitiesFirst'
  <1>0. Upstreams = {u}
    BY DEF OneUpstream
  <1>1. CASE UpstreamReadFails(u)
    <2>1. \A v \in Upstreams : (rpc'[v] = "send") <=> (rpc[v] = "send")
      BY <1>1 DEF UpstreamReadFails, TypeOK
    <2> QED
      BY <1>1, <2>1, CapsKept DEF UpstreamReadFails, connVars
  <1>2. CASE ReadAuthResult(u) \/ PutAuthResponse(u)
    <2>1. rpc[u] # "send" /\ rpc'[u] # "send" /\ UNCHANGED <<capsVars, dw>>
      <3>1. CASE ReadAuthResult(u)
        BY <3>1 DEF ReadAuthResult, TypeOK, connVars
      <3>2. CASE PutAuthResponse(u)
        BY <3>2 DEF PutAuthResponse, TypeOK, connVars
      <3> QED
        BY <1>2, <3>1, <3>2
    <2> QED
      BY <1>0, <2>1 DEF CapsOnTheWay, CapabilitiesFirst, capsVars, Served
  <1>3. CASE ReadAgentMessage(u)
    <2>1. rpc[u] = "read" /\ UNCHANGED <<first, dw>>
      BY <1>3, Injects
    <2>2. \A d \in Downstreams : sentCustomCapabilities[d] => Served(d)
      BY <1>0, <2>1 DEF CapsOnTheWay
    <2>3. \A d \in Downstreams : Served(d)' <=> Served(d)
      BY <2>1 DEF Served
    <2>4. CASE UNCHANGED <<rpc, rmsg, sentCustomCapabilities>>
      BY <1>0, <2>1, <2>2, <2>3, <2>4 DEF CapsOnTheWay, CapabilitiesFirst
    <2>5. ASSUME NEW d \in Downstreams, NEW f \in BOOLEAN,
                 rpc' = [rpc EXCEPT ![u] = "send"],
                 rmsg' = [rmsg EXCEPT ![u] = [to |-> d, flag |-> f]],
                 f \/ sentCustomCapabilities[d],
                 \A e \in Downstreams :
                   sentCustomCapabilities'[e] => sentCustomCapabilities[e] \/ (e = d /\ f)
          PROVE  CapsOnTheWay' /\ CapabilitiesFirst'
      <3>1. rpc'[u] = "send" /\ rmsg'[u].to = d /\ rmsg'[u].flag = f
        BY <2>5 DEF TypeOK
      <3>2. \A e \in Downstreams :
              sentCustomCapabilities'[e] =>
                \/ Served(e)'
                \/ \E v \in Upstreams : rpc'[v] = "send" /\ rmsg'[v].to = e /\ rmsg'[v].flag
        BY <2>2, <2>3, <2>5, <3>1
      <3>3. \A v \in Upstreams : rpc'[v] = "send" /\ ~rmsg'[v].flag => Served(d)'
        BY <1>0, <2>2, <2>3, <2>5, <3>1
      <3>4. \A v \in Upstreams : rmsg'[v].to = d
        BY <1>0, <3>1
      <3>5. CapabilitiesFirst'
        BY <2>1 DEF CapabilitiesFirst
      <3> QED
        BY <3>2, <3>3, <3>4, <3>5 DEF CapsOnTheWay, Served
    <2> QED
      BY <1>3, <2>4, <2>5, Injects
  <1>4. CASE SendDown(u)
    <2> DEFINE d == rmsg[u].to
    <2>1. rpc[u] = "send" /\ d \in Downstreams /\ dw[d] = "idle" /\ rmsg[u].flag \in BOOLEAN
      BY <1>4 DEF SendDown, HandingOver, Handing
    <2>2. /\ first' = [first EXCEPT ![d] = IF @ # "nothing" THEN @
                                           ELSE IF rmsg[u].flag THEN "caps" ELSE "plain"]
          /\ dw' = [dw EXCEPT ![d] = "writing"]
          /\ rpc' = [rpc EXCEPT ![u] = "read"]
          /\ sentCustomCapabilities' = sentCustomCapabilities
      BY <1>4 DEF SendDown
    <2>3. ~rmsg[u].flag => first[d] # "nothing"
      BY <2>1 DEF CapsOnTheWay, Served
    <2>4. first'[d] \notin {"nothing", "plain"}
      BY <2>1, <2>2, <2>3 DEF CapabilitiesFirst, TypeOK
    <2> HIDE DEF d
    <2>5. \A e \in Downstreams : e # d => first'[e] = first[e] /\ dw'[e] = dw[e]
      BY <2>1, <2>2 DEF TypeOK
    <2>6. rpc'[u] = "read"
      BY <2>2 DEF TypeOK
    <2>7. \A e \in Downstreams : sentCustomCapabilities'[e] => Served(e)'
      <3>1. \A e \in Downstreams : e # d /\ sentCustomCapabilities[e] => Served(e)
        BY <1>0 DEF CapsOnTheWay, d
      <3> QED
        BY <2>2, <2>4, <2>5, <3>1 DEF Served
    <2>8. CapabilitiesFirst'
      BY <2>4, <2>5 DEF CapabilitiesFirst
    <2> QED
      BY <1>0, <2>6, <2>7, <2>8 DEF CapsOnTheWay
  <1>5. CASE SendDownClosed(u)
    <2>1. rpc'[u] = "read" /\ UNCHANGED <<capsVars, dw>> /\ dw[rmsg[u].to] = "done"
      BY <1>5 DEF SendDownClosed, TypeOK, connVars
    <2> QED
      BY <1>0, <2>1 DEF CapsOnTheWay, CapabilitiesFirst, Served, capsVars
  <1> QED
    BY <1>1, <1>2, <1>3, <1>4, <1>5 DEF UpstreamReader

\* With one upstream CapsInv is inductive.
LEMMA CapsInvStep ==
    ASSUME OneUpstream, TypeOK, HandingOver, CapsInv, [Next]_vars
    PROVE  CapsInv'
  <1>1. ReaderOver' /\ WriterBegun' /\ CapsCached'
    BY ReaderOverStep, WriterBegunStep, CapsCachedStep DEF CapsInv
  <1>2. ASSUME NEW u \in Upstreams, UpstreamWriter(u)
        PROVE  CapsOnTheWay' /\ CapabilitiesFirst'
    <2>1. UNCHANGED <<capsVars, rmsg, dw>>
      BY <1>2, CapsWriterFrame DEF CapsInv
    <2>2. \A v \in Upstreams : (rpc'[v] = "send") <=> (rpc[v] = "send")
      BY <1>2, CapsWriterFrame DEF CapsInv, TypeOK
    <2> QED
      BY <2>1, <2>2, CapsKept DEF CapsInv
  <1>3. ASSUME NEW u \in Upstreams, UpstreamReader(u)
        PROVE  CapsOnTheWay' /\ CapabilitiesFirst'
    BY <1>3, CapsReaderStep DEF CapsInv
  <1>4. ASSUME NEW d \in Downstreams, HandleRequest(d) \/ DownstreamConnection(d)
        PROVE  CapsOnTheWay' /\ CapabilitiesFirst'
    <2>1. /\ UNCHANGED <<capsVars, rpc, rmsg>>
          /\ \A e \in Downstreams : dw[e] = "done" => dw'[e] = "done"
      BY <1>4, CapsConnectionFrame DEF CapsInv
    <2> QED
      BY <2>1, CapsKept DEF CapsInv
  <1>5. ASSUME Minor PROVE CapsOnTheWay' /\ CapabilitiesFirst'
    <2>1. UNCHANGED <<capsVars, rpc, rmsg, dw>>
      BY <1>5, CapsMinorFrame DEF readerVars
    <2> QED
      BY <2>1, CapsKept DEF CapsInv
  <1> QED
    BY <1>1, <1>2, <1>3, <1>4, <1>5, NextCases DEF CapsInv

\* With one upstream connection the first message an agent connection is given
\* carries the server's CustomCapabilities, although the server sends them once
\* in a session, to whichever request or agent it answers first.
THEOREM CapabilitiesFirstCorrect == ASSUME OneUpstream PROVE Spec => []CapabilitiesFirst
  <1>1. Init => CapsInv
    BY DEF Init, CapsInv, ReaderOver, WriterBegun, CapsCached, CapsOnTheWay,
           CapabilitiesFirst
  <1>2. IInv /\ CapsInv /\ [Next]_vars => CapsInv'
    BY CapsInvStep DEF IInv
  <1>3. CapsInv => CapabilitiesFirst
    BY DEF CapsInv
  <1> QED
    BY <1>1, <1>2, <1>3, AlwaysIInv, PTL DEF Spec

-----------------------------------------------------------------------------
\* A route is only removed by the close of the connection it leads to, so
\* the late close of an agent's old connection keeps the route to its new one.
THEOREM CloseKeepsNewRouteCorrect == Spec => CloseKeepsNewRoute
  <1>1. TypeOK /\ [Next]_vars => [RouteKept]_vars
    <2> SUFFICES ASSUME TypeOK, [Next]_vars PROVE RouteKept
      OBVIOUS
    <2>1. ASSUME NEW d \in Downstreams, DownstreamConnection(d) PROVE RouteKept
      <3>1. CASE RemoveAgentConnections(d)
        BY <3>1 DEF RemoveAgentConnections, RemoveByValue, TypeOK, RouteKept
      <3>2. CASE \E a \in Agents : HandleDownstreamMessage(d, a)
        BY <3>2, NoneAssumption DEF HandleDownstreamMessage, TypeOK, RouteKept
      <3>3. CASE UNCHANGED agentConnections
        BY <3>3 DEF RouteKept
      <3> QED
        BY <2>1, <3>1, <3>2, <3>3 DEF DownstreamConnection, DownstreamRead, DownstreamReadFails,
           DownstreamSendClosed, DownstreamWrite, DownstreamWriterStops,
           HandleDownstreamClose, RemoveDownstreamConnection
    <2>2. ASSUME NEW d \in Downstreams, HandleRequest(d)
          PROVE  UNCHANGED agentConnections
      BY <2>2 DEF HandleRequest, Assign, RefuseUnavailable, AuthSendClosed,
         AuthTimeout, AuthResult, RefuseRequest, UpgradeFails, Upgrade
    <2>3. CASE UNCHANGED agentConnections
      BY <2>3 DEF RouteKept
    <2> QED
      BY <2>1, <2>2, <2>3, MinorFrame, UpstreamReaderFrame, UpstreamWriterRoutes,
         NextCases
  <1> QED
    BY <1>1, TypeCorrect, PTL DEF Spec, CloseKeepsNewRoute
=============================================================================
