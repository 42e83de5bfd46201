---------------------------- MODULE OpampGateway ----------------------------
(***************************************************************************)
(* The OpAMP gateway extension (extension/opampgateway/internal/gateway):  *)
(* a pool of upstream WebSocket connections shared by many downstream      *)
(* (agent) connections.  The actors are goroutines:                        *)
(*   - per upstream u: the writer (wpc), which also dials, and the reader  *)
(*     (rpc), which runs HandleUpstreamMessage;                            *)
(*   - per downstream d: the HTTP handler that authenticates it (hpc), and *)
(*     after the upgrade its writer (dw), its reader (dr) and the closing  *)
(*     goroutine (hpc again);                                              *)
(*   - Gateway.Shutdown (phase).                                           *)
(* The OpAMP server, the agents and the transport are the environment.     *)
(* A definition named Bad... is a faulty variant of the definition below   *)
(* it: the runs show that the properties reject it.                        *)
(* A downstream id is never reused (server.downstreamConnectionCount), so  *)
(* each element of Downstreams is accepted at most once.                   *)
(***************************************************************************)
EXTENDS Integers, FiniteSets

CONSTANTS Upstreams,    \* ids "upstream-0" .. "upstream-(n-1)"
          Downstreams,  \* ids "downstream-<n>-<addr>"
          Agents,       \* agent instance uids
          None,         \* the absent value: no message, no route, no peer
          MaxDials      \* bound: successful dials of one upstream

ASSUME NoneAssumption ==
    None \notin Upstreams \cup Downstreams \cup Agents

ASSUME NoneIsNoFlag == None # TRUE

ASSUME MaxDialsAssumption == MaxDials \in Nat

ASSUME FiniteAssumption == IsFiniteSet(Downstreams)

VARIABLES
    \* upstreamConnection
    wpc,                \* writer goroutine: where startWriter is
    rpc,                \* reader goroutine of the current session
    rmsg,               \* what the reader is handing over
    link,               \* the WebSocket to the server
    connected,          \* upstreamConnection.connected
    nextMessage,        \* message whose write failed, retried after reconnect
    count,              \* upstreamConnection.count
    customCapabilities, \* has the connection cached CustomCapabilities
    closing,            \* ids HandleUpstreamClose still has to close
    dials,              \* successful dials so far (bound)
    \* connectionAssignments
    downstreamToUpstream,
    \* server
    pendingAuthRequests,
    responseChan,       \* capacity 1: None or the accept flag
    downstreamConnections,
    agentConnections,
    \* one request / downstreamConnection
    hpc,                \* handleRequest, then the connection's life
    upstreamConnection, \* the pointer held by the handler and connection
    dlink,              \* the WebSocket to the agent
    dw,                 \* writer goroutine
    dr,                 \* reader goroutine
    dmsg,               \* agent whose message the reader is sending
    ctxDone,            \* downstreamConnection.ctx cancelled
    sentCustomCapabilities,
    first,              \* history: kind of the first message handed to d
    \* environment: what the server holds for the session of an upstream
    srvAuth,            \* connect requests it has not answered
    srvAgents,          \* agents it heard of in this session
    srvCaps,            \* it has already sent CustomCapabilities
    accepted,           \* history: requests it has accepted
    \* Gateway.Shutdown
    phase

writerVars == <<wpc, connected, nextMessage, closing, dials>>
readerVars == <<rpc, rmsg, customCapabilities>>
assignVars == <<count, downstreamToUpstream>>
authVars   == <<pendingAuthRequests, responseChan>>
routeVars  == <<downstreamConnections, agentConnections>>
connVars   == <<dlink, dw, dr, dmsg, ctxDone>>
capsVars   == <<sentCustomCapabilities, first>>
srvVars    == <<srvAuth, srvAgents, srvCaps, accepted>>
vars == <<writerVars, readerVars, link, assignVars, authVars, routeVars,
          hpc, upstreamConnection, connVars, capsVars, srvVars, phase>>

-----------------------------------------------------------------------------
(* A message on its way up: the connect request of d has no agent.         *)
Message == [from : Downstreams, agent : Agents \cup {None}]

Handing == [to : Downstreams, flag : BOOLEAN]

TypeOK ==
    /\ wpc \in [Upstreams -> {"dialing", "enter", "loop", "drain", "closing",
                              "stopped", "gone"}]
    /\ rpc \in [Upstreams -> {"none", "read", "auth", "send", "done"}]
    /\ rmsg \in [Upstreams -> Handing \cup {None}]
    /\ link \in [Upstreams -> {"none", "open", "broken", "closed"}]
    /\ connected \in [Upstreams -> BOOLEAN]
    /\ nextMessage \in [Upstreams -> Message \cup {None}]
    /\ count \in [Upstreams -> Nat]
    /\ customCapabilities \in [Upstreams -> BOOLEAN]
    /\ closing \in [Upstreams -> SUBSET Downstreams]
    /\ dials \in [Upstreams -> 0..MaxDials]
    /\ downstreamToUpstream \in [Downstreams -> Upstreams \cup {None}]
    /\ pendingAuthRequests \in SUBSET Downstreams
    /\ responseChan \in [Downstreams -> BOOLEAN \cup {None}]
    /\ downstreamConnections \in SUBSET Downstreams
    /\ agentConnections \in [Agents -> Downstreams \cup {None}]
    /\ hpc \in [Downstreams -> {"none", "authSend", "authWait", "upgrade",
                                "unassign", "refused", "live", "closing",
                                "unregistered", "closed"}]
    /\ upstreamConnection \in [Downstreams -> Upstreams \cup {None}]
    /\ dlink \in [Downstreams -> {"none", "open", "broken", "closed"}]
    /\ dw \in [Downstreams -> {"none", "idle", "writing", "done"}]
    /\ dr \in [Downstreams -> {"none", "read", "handle", "send", "done"}]
    /\ dmsg \in [Downstreams -> Agents \cup {None}]
    /\ ctxDone \in [Downstreams -> BOOLEAN]
    /\ sentCustomCapabilities \in [Downstreams -> BOOLEAN]
    /\ first \in [Downstreams -> {"nothing", "caps", "plain"}]
    /\ srvAuth \in [Upstreams -> SUBSET Downstreams]
    /\ srvAgents \in [Upstreams -> SUBSET Agents]
    /\ srvCaps \in [Upstreams -> BOOLEAN]
    /\ accepted \in SUBSET Downstreams
    /\ phase \in {"running", "stopClient", "stopServer", "stopped"}

Init ==
    /\ wpc = [u \in Upstreams |-> "dialing"]
    /\ rpc = [u \in Upstreams |-> "none"]
    /\ rmsg = [u \in Upstreams |-> None]
    /\ link = [u \in Upstreams |-> "none"]
    /\ connected = [u \in Upstreams |-> FALSE]
    /\ nextMessage = [u \in Upstreams |-> None]
    /\ count = [u \in Upstreams |-> 0]
    /\ customCapabilities = [u \in Upstreams |-> FALSE]
    /\ closing = [u \in Upstreams |-> {}]
    /\ dials = [u \in Upstreams |-> 0]
    /\ downstreamToUpstream = [d \in Downstreams |-> None]
    /\ pendingAuthRequests = {}
    /\ responseChan = [d \in Downstreams |-> None]
    /\ downstreamConnections = {}
    /\ agentConnections = [a \in Agents |-> None]
    /\ hpc = [d \in Downstreams |-> "none"]
    /\ upstreamConnection = [d \in Downstreams |-> None]
    /\ dlink = [d \in Downstreams |-> "none"]
    /\ dw = [d \in Downstreams |-> "none"]
    /\ dr = [d \in Downstreams |-> "none"]
    /\ dmsg = [d \in Downstreams |-> None]
    /\ ctxDone = [d \in Downstreams |-> FALSE]
    /\ sentCustomCapabilities = [d \in Downstreams |-> FALSE]
    /\ first = [d \in Downstreams |-> "nothing"]
    /\ srvAuth = [u \in Upstreams |-> {}]
    /\ srvAgents = [u \in Upstreams |-> {}]
    /\ srvCaps = [u \in Upstreams |-> FALSE]
    /\ accepted = {}
    /\ phase = "running"

ClientCancelled == phase # "running"
ServerCancelled == phase \in {"stopServer", "stopped"}

\* downstreamConnection.ctx derives from server.shutdownCtx
Cancelled(d) == ctxDone[d] \/ ServerCancelled

Assigned(u) == {d \in Downstreams : downstreamToUpstream[d] = u}

(***************************************************************************)
(* Sending up.  upstreamConnection.send is a rendezvous: a handler in      *)
(* authSend and a downstream reader in send both offer a message until the *)
(* writer takes it or writerDone is closed.                                *)
(***************************************************************************)
Offers(u, m) ==
    /\ upstreamConnection[m.from] = u
    /\ \/ m.agent = None /\ hpc[m.from] = "authSend"
       \/ m.agent # None /\ dr[m.from] = "send" /\ dmsg[m.from] = m.agent

\* message.complete: the sender's send returns, with an error or without.
\* A sender that failed earlier no longer waits for the message.
Complete(m, ok) ==
    IF m.agent = None
    THEN /\ hpc' = [hpc EXCEPT ![m.from] = IF ok THEN "authWait" ELSE "unassign"]
         /\ UNCHANGED <<dr, dmsg, ctxDone>>
    ELSE /\ dr' = [dr EXCEPT ![m.from] = IF ok THEN "read" ELSE "done"]
         /\ dmsg' = [dmsg EXCEPT ![m.from] = None]
         /\ ctxDone' = [ctxDone EXCEPT ![m.from] = IF ok THEN @ ELSE TRUE]
         /\ UNCHANGED hpc

\* environment: the server receives m in the session of u
Receive(u, m) ==
    IF m.agent = None
    THEN /\ srvAuth' = [srvAuth EXCEPT ![u] = @ \cup {m.from}]
         /\ UNCHANGED <<srvAgents, srvCaps, accepted>>
    ELSE /\ srvAgents' = [srvAgents EXCEPT ![u] = @ \cup {m.agent}]
         /\ UNCHANGED <<srvAuth, srvCaps, accepted>>

-----------------------------------------------------------------------------
(* The upstream writer goroutine.                                          *)

\* ensureConnected: a dial succeeded and the reader goroutine is started.
Dial(u) ==
    /\ wpc[u] = "dialing"
    /\ dials[u] < MaxDials
    /\ dials' = [dials EXCEPT ![u] = @ + 1]
    /\ wpc' = [wpc EXCEPT ![u] = "enter"]
    /\ rpc' = [rpc EXCEPT ![u] = "read"]
    /\ link' = [link EXCEPT ![u] = "open"]
    /\ srvAuth' = [srvAuth EXCEPT ![u] = {}]
    /\ srvAgents' = [srvAgents EXCEPT ![u] = {}]
    /\ srvCaps' = [srvCaps EXCEPT ![u] = FALSE]
    /\ UNCHANGED <<connected, nextMessage, closing, rmsg, customCapabilities,
                   assignVars, authVars, routeVars, hpc, upstreamConnection,
                   connVars, capsVars, accepted, phase>>

SetConnected(u) ==
    /\ wpc[u] = "enter"
    /\ wpc' = [wpc EXCEPT ![u] = "loop"]
    /\ connected' = [connected EXCEPT ![u] = TRUE]
    /\ UNCHANGED <<nextMessage, closing, dials, readerVars, link, assignVars,
                   authVars, routeVars, hpc, upstreamConnection, connVars,
                   capsVars, srvVars, phase>>

\* writerLoop keeps the message it has just written
BadWritten(u, m) ==
    /\ IF link[u] = "open" THEN Receive(u, m) ELSE UNCHANGED srvVars
    /\ UNCHANGED <<wpc, connected, nextMessage>>

\* writeWSMessage succeeded; on a broken transport the bytes are lost.
Written(u, m) ==
    /\ nextMessage' = [nextMessage EXCEPT ![u] = None]
    /\ IF link[u] = "open" THEN Receive(u, m) ELSE UNCHANGED srvVars
    /\ UNCHANGED <<wpc, connected>>

\* a failed write leaves connected set
BadNotWritten(u, m) ==
    /\ link[u] = "broken"
    /\ nextMessage' = [nextMessage EXCEPT ![u] = m]
    /\ wpc' = [wpc EXCEPT ![u] = "drain"]
    /\ UNCHANGED <<connected, srvVars>>

\* writeWSMessage failed: writerLoop returns m to be retried, the deferred
\* setConnected(false) runs and the connection is NOT closed.
NotWritten(u, m) ==
    /\ link[u] = "broken"
    /\ nextMessage' = [nextMessage EXCEPT ![u] = m]
    /\ wpc' = [wpc EXCEPT ![u] = "drain"]
    /\ connected' = [connected EXCEPT ![u] = FALSE]
    /\ UNCHANGED srvVars

\* writerLoop first retries the message the previous session failed on.  Its
\* sender was told of the failure then, so complete() reaches nobody.
WriteNext(u) ==
    /\ wpc[u] = "loop"
    /\ nextMessage[u] # None
    /\ Written(u, nextMessage[u]) \/ NotWritten(u, nextMessage[u])
    /\ UNCHANGED <<closing, dials, readerVars, link, assignVars, authVars,
                   routeVars, hpc, upstreamConnection, connVars, capsVars, phase>>

\* writerLoop takes a message from writeChan, writes and completes it.
WriteUp(u) ==
    /\ wpc[u] = "loop"
    /\ nextMessage[u] = None
    /\ \E m \in Message :
         /\ Offers(u, m)
         /\ \/ Written(u, m) /\ Complete(m, TRUE)
            \/ NotWritten(u, m) /\ Complete(m, FALSE)
    /\ UNCHANGED <<closing, dials, readerVars, link, assignVars, authVars,
                   routeVars, upstreamConnection, dlink, dw, capsVars, phase>>

\* writerLoop sees its context done: the reader returned or Stop was called.
WriterContextDone(u) ==
    /\ wpc[u] = "loop"
    /\ nextMessage[u] = None
    /\ rpc[u] = "done" \/ ClientCancelled
    /\ wpc' = [wpc EXCEPT ![u] = "drain"]
    /\ connected' = [connected EXCEPT ![u] = FALSE]
    /\ link' = [link EXCEPT ![u] = "closed"]
    /\ UNCHANGED <<nextMessage, closing, dials, readerVars, assignVars, authVars,
                   routeVars, hpc, upstreamConnection, connVars, capsVars,
                   srvVars, phase>>

\* <-readerDone, then HandleUpstreamClose: removeDownstreamConnectionIDs.
RemoveDownstreamConnectionIDs(u) ==
    /\ wpc[u] = "drain"
    /\ rpc[u] = "done"
    /\ wpc' = [wpc EXCEPT ![u] = "closing"]
    /\ closing' = [closing EXCEPT ![u] = Assigned(u)]
    /\ downstreamToUpstream' =
         [d \in Downstreams |-> IF d \in Assigned(u) THEN None
                                ELSE downstreamToUpstream[d]]
    /\ UNCHANGED <<connected, nextMessage, dials, readerVars, link, count,
                   authVars, routeVars, hpc, upstreamConnection, connVars,
                   capsVars, srvVars, phase>>

\* the id is looked up but the connection is not closed
BadCloseDownstreamConnection(u, d) ==
    /\ wpc[u] = "closing"
    /\ d \in closing[u]
    /\ closing' = [closing EXCEPT ![u] = @ \ {d}]
    /\ UNCHANGED <<wpc, connected, nextMessage, dials, readerVars, link,
                   assignVars, authVars, routeVars, hpc, upstreamConnection,
                   connVars, capsVars, srvVars, phase>>

\* closeDownstreamConnections, one id per step.
CloseDownstreamConnection(u, d) ==
    /\ wpc[u] = "closing"
    /\ d \in closing[u]
    /\ closing' = [closing EXCEPT ![u] = @ \ {d}]
    /\ ctxDone' = [ctxDone EXCEPT ![d] = @ \/ d \in downstreamConnections]
    /\ UNCHANGED <<wpc, connected, nextMessage, dials, readerVars, link,
                   assignVars, authVars, routeVars, hpc, upstreamConnection,
                   dlink, dw, dr, dmsg, capsVars, srvVars, phase>>

\* HandleUpstreamClose returns and startWriter goes round its loop.
Redial(u) ==
    /\ wpc[u] = "closing"
    /\ closing[u] = {}
    /\ wpc' = [wpc EXCEPT ![u] = "dialing"]
    /\ rpc' = [rpc EXCEPT ![u] = "none"]
    /\ UNCHANGED <<connected, nextMessage, closing, dials, rmsg,
                   customCapabilities, link, assignVars, authVars, routeVars,
                   hpc, upstreamConnection, connVars, capsVars, srvVars, phase>>

\* ensureConnected returns the context's error: writerDone is closed.
WriterDone(u) ==
    /\ wpc[u] = "dialing"
    /\ ClientCancelled
    /\ wpc' = [wpc EXCEPT ![u] = "stopped"]
    /\ UNCHANGED <<connected, nextMessage, closing, dials, readerVars, link,
                   assignVars, authVars, routeVars, hpc, upstreamConnection,
                   connVars, capsVars, srvVars, phase>>

\* the deferred clean-up: out of upstreamConnections and out of the pool
RemoveUpstream(u) ==
    /\ wpc[u] = "stopped"
    /\ wpc' = [wpc EXCEPT ![u] = "gone"]
    /\ UNCHANGED <<connected, nextMessage, closing, dials, readerVars, link,
                   assignVars, authVars, routeVars, hpc, upstreamConnection,
                   connVars, capsVars, srvVars, phase>>

WriterClosed(u) == wpc[u] \in {"stopped", "gone"}

-----------------------------------------------------------------------------
(* The upstream reader goroutine: messageReader.loop, HandleUpstreamMessage *)

UpstreamReadFails(u) ==
    /\ rpc[u] = "read"
    /\ link[u] # "open"
    /\ rpc' = [rpc EXCEPT ![u] = "done"]
    /\ UNCHANGED <<writerVars, rmsg, customCapabilities, link, assignVars,
                   authVars, routeVars, hpc, upstreamConnection, connVars,
                   capsVars, srvVars, phase>>

\* only messages for agents are looked at, not the connect results
BadCacheCapabilities(u) ==
    /\ srvCaps' = [srvCaps EXCEPT ![u] = TRUE]
    /\ UNCHANGED customCapabilities

\* The server's message carries CustomCapabilities when it is the first one
\* of the session; the gateway caches them before anything else.
CacheCapabilities(u) ==
    /\ customCapabilities' = [customCapabilities EXCEPT ![u] = @ \/ ~srvCaps[u]]
    /\ srvCaps' = [srvCaps EXCEPT ![u] = TRUE]

\* An OpampGatewayConnectResult for d: handleAuthResponse finds the pending
\* request, or the message falls through to parseAgentID and is dropped.
ReadAuthResult(u) ==
    /\ rpc[u] = "read"
    /\ link[u] = "open"
    /\ \E d \in srvAuth[u], accept \in BOOLEAN :
         /\ srvAuth' = [srvAuth EXCEPT ![u] = @ \ {d}]
         /\ accepted' = IF accept THEN accepted \cup {d} ELSE accepted
         /\ IF d \in pendingAuthRequests
            THEN /\ rpc' = [rpc EXCEPT ![u] = "auth"]
                 /\ rmsg' = [rmsg EXCEPT ![u] = [to |-> d, flag |-> accept]]
            ELSE UNCHANGED <<rpc, rmsg>>
    /\ CacheCapabilities(u)
    /\ UNCHANGED <<writerVars, link, assignVars, authVars, routeVars, hpc,
                   upstreamConnection, connVars, capsVars, srvAgents, phase>>

\* responseChan <- authResponse: blocks while the channel is full.
PutAuthResponse(u) ==
    /\ rpc[u] = "auth"
    /\ responseChan[rmsg[u].to] = None
    /\ responseChan' = [responseChan EXCEPT ![rmsg[u].to] = rmsg[u].flag]
    /\ rpc' = [rpc EXCEPT ![u] = "read"]
    /\ rmsg' = [rmsg EXCEPT ![u] = None]
    /\ UNCHANGED <<writerVars, customCapabilities, link, assignVars,
                   pendingAuthRequests, routeVars, hpc, upstreamConnection,
                   connVars, capsVars, srvVars, phase>>

\* A message for agent a: look the route up, inject the capabilities.
ReadAgentMessage(u) ==
    /\ rpc[u] = "read"
    /\ link[u] = "open"
    /\ \E a \in srvAgents[u] :
         LET d == agentConnections[a]
             inject == ~srvCaps[u] \/ (~sentCustomCapabilities[d]
                                       /\ customCapabilities[u])
         IN  IF d = None
             THEN UNCHANGED <<rpc, rmsg, sentCustomCapabilities>>
             ELSE /\ rpc' = [rpc EXCEPT ![u] = "send"]
                  /\ rmsg' = [rmsg EXCEPT ![u] = [to |-> d, flag |-> inject]]
                  /\ sentCustomCapabilities' =
                       [sentCustomCapabilities EXCEPT ![d] = @ \/ inject]
    /\ CacheCapabilities(u)
    /\ UNCHANGED <<writerVars, link, assignVars, authVars, routeVars, hpc,
                   upstreamConnection, connVars, first, srvAuth, srvAgents, accepted,
                   phase>>

\* downstreamConnection.send: the downstream writer takes the message ...
SendDown(u) ==
    /\ rpc[u] = "send"
    /\ LET d == rmsg[u].to
       IN  /\ dw[d] = "idle"
           /\ dw' = [dw EXCEPT ![d] = "writing"]
           /\ first' = [first EXCEPT ![d] = IF @ # "nothing" THEN @
                                            ELSE IF rmsg[u].flag THEN "caps"
                                            ELSE "plain"]
    /\ rpc' = [rpc EXCEPT ![u] = "read"]
    /\ rmsg' = [rmsg EXCEPT ![u] = None]
    /\ UNCHANGED <<writerVars, customCapabilities, link, assignVars, authVars,
                   routeVars, hpc, upstreamConnection, dlink, dr, dmsg, ctxDone,
                   sentCustomCapabilities, srvVars, phase>>

\* ... or its writerDone is closed and the message is dropped.
SendDownClosed(u) ==
    /\ rpc[u] = "send"
    /\ dw[rmsg[u].to] = "done"
    /\ rpc' = [rpc EXCEPT ![u] = "read"]
    /\ rmsg' = [rmsg EXCEPT ![u] = None]
    /\ UNCHANGED <<writerVars, customCapabilities, link, assignVars, authVars,
                   routeVars, hpc, upstreamConnection, connVars, capsVars,
                   srvVars, phase>>

-----------------------------------------------------------------------------
(* handleRequest and acceptOpAMPConnection.                                *)

Connected == {u \in Upstreams : connected[u] /\ wpc[u] # "gone"}

\* connectionPool.next: a connected upstream with the lowest count
PoolNext(u) ==
    /\ u \in Connected
    /\ \A v \in Connected : count[u] <= count[v]

\* the count of the chosen upstream is not incremented
BadAssign(d) ==
    /\ hpc[d] = "none"
    /\ phase # "stopped"
    /\ \E u \in Upstreams :
         /\ PoolNext(u)
         /\ downstreamToUpstream' = [downstreamToUpstream EXCEPT ![d] = u]
         /\ upstreamConnection' = [upstreamConnection EXCEPT ![d] = u]
    /\ pendingAuthRequests' = pendingAuthRequests \cup {d}
    /\ hpc' = [hpc EXCEPT ![d] = "authSend"]
    /\ UNCHANGED <<writerVars, readerVars, link, count, responseChan, routeVars,
                   connVars, capsVars, srvVars, phase>>

\* AssignUpstreamConnection and addRequest; the handler goes on to send.
Assign(d) ==
    /\ hpc[d] = "none"
    /\ phase # "stopped"
    /\ \E u \in Upstreams :
         /\ PoolNext(u)
         /\ downstreamToUpstream' = [downstreamToUpstream EXCEPT ![d] = u]
         /\ count' = [count EXCEPT ![u] = @ + 1]
         /\ upstreamConnection' = [upstreamConnection EXCEPT ![d] = u]
    /\ pendingAuthRequests' = pendingAuthRequests \cup {d}
    /\ hpc' = [hpc EXCEPT ![d] = "authSend"]
    /\ UNCHANGED <<writerVars, readerVars, link, responseChan, routeVars,
                   connVars, capsVars, srvVars, phase>>

\* ErrNoUpstreamConnectionsAvailable: 503 with Retry-After
RefuseUnavailable(d) ==
    /\ hpc[d] = "none"
    /\ phase # "stopped"
    /\ Connected = {}
    /\ hpc' = [hpc EXCEPT ![d] = "refused"]
    /\ UNCHANGED <<writerVars, readerVars, link, assignVars, authVars, routeVars,
                   upstreamConnection, connVars, capsVars, srvVars, phase>>

\* upstreamConn.send returns because writerDone is closed: 500
AuthSendClosed(d) ==
    /\ hpc[d] = "authSend"
    /\ WriterClosed(upstreamConnection[d])
    /\ hpc' = [hpc EXCEPT ![d] = "unassign"]
    /\ UNCHANGED <<writerVars, readerVars, link, assignVars, authVars, routeVars,
                   upstreamConnection, connVars, capsVars, srvVars, phase>>

\* ctx.Done() while waiting for the result: 504
AuthTimeout(d) ==
    /\ hpc[d] = "authWait"
    /\ hpc' = [hpc EXCEPT ![d] = "unassign"]
    /\ UNCHANGED <<writerVars, readerVars, link, assignVars, authVars, routeVars,
                   upstreamConnection, connVars, capsVars, srvVars, phase>>

\* any result lets the agent in
BadAuthResult(d) ==
    /\ hpc[d] = "authWait"
    /\ responseChan[d] # None
    /\ hpc' = [hpc EXCEPT ![d] = "upgrade"]
    /\ responseChan' = [responseChan EXCEPT ![d] = None]
    /\ pendingAuthRequests' = pendingAuthRequests \ {d}
    /\ UNCHANGED <<writerVars, readerVars, link, assignVars, routeVars,
                   upstreamConnection, connVars, capsVars, srvVars, phase>>

\* the result arrives; the deferred removeRequest runs on return
AuthResult(d) ==
    /\ hpc[d] = "authWait"
    /\ responseChan[d] # None
    /\ hpc' = [hpc EXCEPT ![d] = IF responseChan[d] = TRUE THEN "upgrade" ELSE "unassign"]
    /\ responseChan' = [responseChan EXCEPT ![d] = None]
    /\ pendingAuthRequests' = pendingAuthRequests \ {d}
    /\ UNCHANGED <<writerVars, readerVars, link, assignVars, routeVars,
                   upstreamConnection, connVars, capsVars, srvVars, phase>>

\* connectionAssignments.unassignDownstreamConnection
UnassignDownstreamConnection(d) ==
    /\ LET u == downstreamToUpstream[d]
       IN  count' = IF u # None /\ wpc[u] # "gone"
                    THEN [count EXCEPT ![u] = @ - 1] ELSE count
    /\ downstreamToUpstream' = [downstreamToUpstream EXCEPT ![d] = None]

\* not accepted: removeRequest (deferred), UnassignUpstreamConnection, reply
RefuseRequest(d) ==
    /\ hpc[d] = "unassign"
    /\ UnassignDownstreamConnection(d)
    /\ pendingAuthRequests' = pendingAuthRequests \ {d}
    /\ hpc' = [hpc EXCEPT ![d] = "refused"]
    /\ UNCHANGED <<writerVars, readerVars, link, responseChan, routeVars,
                   upstreamConnection, connVars, capsVars, srvVars, phase>>

\* a failed upgrade returns without unassigning
BadUpgradeFails(d) ==
    /\ hpc[d] = "upgrade"
    /\ hpc' = [hpc EXCEPT ![d] = "refused"]
    /\ UNCHANGED <<writerVars, readerVars, link, assignVars, authVars, routeVars,
                   upstreamConnection, connVars, capsVars, srvVars, phase>>

\* Upgrade fails
UpgradeFails(d) ==
    /\ hpc[d] = "upgrade"
    /\ hpc' = [hpc EXCEPT ![d] = "unassign"]
    /\ UNCHANGED <<writerVars, readerVars, link, assignVars, authVars, routeVars,
                   upstreamConnection, connVars, capsVars, srvVars, phase>>

\* Upgrade succeeds: the connection is registered and its goroutines start.
Upgrade(d) ==
    /\ hpc[d] = "upgrade"
    /\ hpc' = [hpc EXCEPT ![d] = "live"]
    /\ downstreamConnections' = downstreamConnections \cup {d}
    /\ dlink' = [dlink EXCEPT ![d] = "open"]
    /\ dw' = [dw EXCEPT ![d] = "idle"]
    /\ dr' = [dr EXCEPT ![d] = "read"]
    /\ UNCHANGED <<writerVars, readerVars, link, assignVars, authVars,
                   agentConnections, upstreamConnection, dmsg, ctxDone, capsVars,
                   srvVars, phase>>

-----------------------------------------------------------------------------
(* The downstream connection's goroutines.                                 *)

\* ReadMessage returns a message; the writer may close the connection before
\* the message is handled.
DownstreamRead(d) ==
    /\ dr[d] = "read"
    /\ dlink[d] = "open"
    /\ dr' = [dr EXCEPT ![d] = "handle"]
    /\ UNCHANGED <<writerVars, readerVars, link, assignVars, authVars, routeVars,
                   hpc, upstreamConnection, dlink, dw, dmsg, ctxDone, capsVars,
                   srvVars, phase>>

\* HandleDownstreamMessage: route the agent here, then offer the message up.
HandleDownstreamMessage(d, a) ==
    /\ dr[d] = "handle"
    /\ agentConnections' = [agentConnections EXCEPT ![a] = d]
    /\ dr' = [dr EXCEPT ![d] = "send"]
    /\ dmsg' = [dmsg EXCEPT ![d] = a]
    /\ UNCHANGED <<writerVars, readerVars, link, assignVars, authVars,
                   downstreamConnections, hpc, upstreamConnection, dlink, dw,
                   ctxDone, capsVars, srvVars, phase>>

\* The read fails, or HandleDownstreamMessage rejects the message (not
\* binary, undecodable, no valid instance uid): the reader returns, cancels.
DownstreamReadFails(d) ==
    /\ dr[d] \in {"read", "handle"}
    /\ dr' = [dr EXCEPT ![d] = "done"]
    /\ ctxDone' = [ctxDone EXCEPT ![d] = TRUE]
    /\ UNCHANGED <<writerVars, readerVars, link, assignVars, authVars, routeVars,
                   hpc, upstreamConnection, dlink, dw, dmsg, capsVars, srvVars,
                   phase>>

\* send does not select on writerDone
BadDownstreamSendClosed(d) ==
    /\ dr[d] = "send"
    /\ WriterClosed(upstreamConnection[d])
    /\ UNCHANGED vars

\* upstreamConnection.send returns because writerDone is closed
DownstreamSendClosed(d) ==
    /\ dr[d] = "send"
    /\ WriterClosed(upstreamConnection[d])
    /\ dr' = [dr EXCEPT ![d] = "done"]
    /\ dmsg' = [dmsg EXCEPT ![d] = None]
    /\ ctxDone' = [ctxDone EXCEPT ![d] = TRUE]
    /\ UNCHANGED <<writerVars, readerVars, link, assignVars, authVars, routeVars,
                   hpc, upstreamConnection, dlink, dw, capsVars, srvVars, phase>>

\* writeWSMessage returns; a failing write ends the writer and cancels, but
\* does not close the transport.
DownstreamWrite(d) ==
    /\ dw[d] = "writing"
    /\ \/ /\ dw' = [dw EXCEPT ![d] = "idle"]
          /\ UNCHANGED ctxDone
       \/ /\ dlink[d] # "open"
          /\ dw' = [dw EXCEPT ![d] = "done"]
          /\ ctxDone' = [ctxDone EXCEPT ![d] = TRUE]
    /\ UNCHANGED <<writerVars, readerVars, link, assignVars, authVars, routeVars,
                   hpc, upstreamConnection, dlink, dr, dmsg, capsVars, srvVars,
                   phase>>

\* startWriter sees ctx.Done(): close frame, close, return.
DownstreamWriterStops(d) ==
    /\ dw[d] = "idle"
    /\ Cancelled(d)
    /\ dw' = [dw EXCEPT ![d] = "done"]
    /\ dlink' = [dlink EXCEPT ![d] = "closed"]
    /\ ctxDone' = [ctxDone EXCEPT ![d] = TRUE]
    /\ UNCHANGED <<writerVars, readerVars, link, assignVars, authVars, routeVars,
                   hpc, upstreamConnection, dr, dmsg, capsVars, srvVars, phase>>

\* start() does not wait for the reader
BadHandleDownstreamClose(d) ==
    /\ hpc[d] = "live"
    /\ dw[d] = "done"
    /\ UnassignDownstreamConnection(d)
    /\ hpc' = [hpc EXCEPT ![d] = "closing"]
    /\ UNCHANGED <<writerVars, readerVars, link, authVars, routeVars,
                   upstreamConnection, connVars, capsVars, srvVars, phase>>

\* both goroutines done: HandleDownstreamClose unassigns ...
HandleDownstreamClose(d) ==
    /\ hpc[d] = "live"
    /\ dw[d] = "done"
    /\ dr[d] = "done"
    /\ UnassignDownstreamConnection(d)
    /\ hpc' = [hpc EXCEPT ![d] = "closing"]
    /\ UNCHANGED <<writerVars, readerVars, link, authVars, routeVars,
                   upstreamConnection, connVars, capsVars, srvVars, phase>>

\* every route is dropped, whichever connection it leads to
BadRemoveByValue(d) == [a \in Agents |-> None]

\* connections.removeByValue
RemoveByValue(d) ==
    [a \in Agents |-> IF agentConnections[a] = d THEN None ELSE agentConnections[a]]

\* ... removes the connection from the registry ...
RemoveDownstreamConnection(d) ==
    /\ hpc[d] = "closing"
    /\ downstreamConnections' = downstreamConnections \ {d}
    /\ hpc' = [hpc EXCEPT ![d] = "unregistered"]
    /\ UNCHANGED <<writerVars, readerVars, link, assignVars, authVars,
                   agentConnections, upstreamConnection, connVars, capsVars,
                   srvVars, phase>>

\* ... and, under the other registry's mutex, the routes that lead to it.
RemoveAgentConnections(d) ==
    /\ hpc[d] = "unregistered"
    /\ agentConnections' = RemoveByValue(d)
    /\ hpc' = [hpc EXCEPT ![d] = "closed"]
    /\ UNCHANGED <<writerVars, readerVars, link, assignVars, authVars,
                   downstreamConnections, upstreamConnection, connVars, capsVars,
                   srvVars, phase>>

-----------------------------------------------------------------------------
(* Gateway.Shutdown: client.Stop waits for every upstream, then            *)
(* server.Stop cancels the downstream connections and waits for them.      *)

Shutdown ==
    /\ phase = "running"
    /\ phase' = "stopClient"
    /\ UNCHANGED <<writerVars, readerVars, link, assignVars, authVars, routeVars,
                   hpc, upstreamConnection, connVars, capsVars, srvVars>>

ClientStopped ==
    /\ phase = "stopClient"
    /\ \A u \in Upstreams : wpc[u] = "gone"
    /\ phase' = "stopServer"
    /\ UNCHANGED <<writerVars, readerVars, link, assignVars, authVars, routeVars,
                   hpc, upstreamConnection, connVars, capsVars, srvVars>>

Ended(d) == hpc[d] \in {"none", "refused", "closed"}

\* httpServer.Shutdown and connectionsWg are done, or 10 s have passed
ServerStopped ==
    /\ phase = "stopServer"
    /\ phase' = "stopped"
    /\ UNCHANGED <<writerVars, readerVars, link, assignVars, authVars, routeVars,
                   hpc, upstreamConnection, connVars, capsVars, srvVars>>

\* The system may stop here and nowhere else: every other state without a
\* successor is a deadlock of the gateway.
Terminated ==
    /\ phase = "stopped"
    /\ \A d \in Downstreams : Ended(d)
    /\ UNCHANGED vars

-----------------------------------------------------------------------------
(* Environment: a transport breaks.                                        *)

UpstreamBreaks(u) ==
    /\ link[u] = "open"
    /\ link' = [link EXCEPT ![u] = "broken"]
    /\ UNCHANGED <<writerVars, readerVars, assignVars, authVars, routeVars, hpc,
                   upstreamConnection, connVars, capsVars, srvVars, phase>>

DownstreamBreaks(d) ==
    /\ dlink[d] = "open"
    /\ dlink' = [dlink EXCEPT ![d] = "broken"]
    /\ UNCHANGED <<writerVars, readerVars, link, assignVars, authVars, routeVars,
                   hpc, upstreamConnection, dw, dr, dmsg, ctxDone, capsVars,
                   srvVars, phase>>

-----------------------------------------------------------------------------
UpstreamWriter(u) ==
    \/ Dial(u) \/ SetConnected(u) \/ WriteNext(u) \/ WriteUp(u)
    \/ WriterContextDone(u) \/ RemoveDownstreamConnectionIDs(u)
    \/ \E d \in Downstreams : CloseDownstreamConnection(u, d)
    \/ Redial(u) \/ WriterDone(u) \/ RemoveUpstream(u)

UpstreamReader(u) ==
    \/ UpstreamReadFails(u) \/ ReadAuthResult(u) \/ PutAuthResponse(u)
    \/ ReadAgentMessage(u) \/ SendDown(u) \/ SendDownClosed(u)

HandleRequest(d) ==
    \/ Assign(d) \/ RefuseUnavailable(d) \/ AuthSendClosed(d) \/ AuthTimeout(d)
    \/ AuthResult(d) \/ RefuseRequest(d) \/ UpgradeFails(d) \/ Upgrade(d)

DownstreamConnection(d) ==
    \/ DownstreamRead(d) \/ \E a \in Agents : HandleDownstreamMessage(d, a)
    \/ DownstreamReadFails(d) \/ DownstreamSendClosed(d) \/ DownstreamWrite(d)
    \/ DownstreamWriterStops(d) \/ HandleDownstreamClose(d)
    \/ RemoveDownstreamConnection(d) \/ RemoveAgentConnections(d)

Next ==
    \/ \E u \in Upstreams :
         UpstreamWriter(u) \/ UpstreamReader(u) \/ UpstreamBreaks(u)
    \/ \E d \in Downstreams :
         HandleRequest(d) \/ DownstreamConnection(d) \/ DownstreamBreaks(d)
    \/ Shutdown \/ ClientStopped \/ ServerStopped \/ Terminated

Spec == Init /\ [][Next]_vars

-----------------------------------------------------------------------------
(* Fairness.  Goroutines run (WF of each enabled step).  Where Go's select  *)
(* picks at random among ready cases, or a channel queues its senders, a    *)
(* step that is enabled again and again is eventually taken (SF).  A broken *)
(* transport makes a blocked read fail in the end and an agent drains its   *)
(* socket.  Nobody guarantees that a dial succeeds, that the server answers *)
(* or that an agent speaks.                                                 *)
Fairness ==
    /\ \A u \in Upstreams :
         /\ WF_vars(SetConnected(u)) /\ WF_vars(WriteNext(u))
         /\ WF_vars(WriteUp(u)) /\ WF_vars(WriterContextDone(u))
         /\ WF_vars(RemoveDownstreamConnectionIDs(u))
         /\ \A d \in Downstreams : WF_vars(CloseDownstreamConnection(u, d))
         /\ WF_vars(Redial(u)) /\ WF_vars(WriterDone(u))
         /\ WF_vars(RemoveUpstream(u)) /\ WF_vars(UpstreamReadFails(u))
         /\ WF_vars(PutAuthResponse(u)) /\ SF_vars(SendDown(u))
         /\ WF_vars(SendDownClosed(u))
    /\ \A d \in Downstreams :
         /\ WF_vars(AuthSendClosed(d)) /\ WF_vars(AuthTimeout(d))
         /\ WF_vars(RefuseRequest(d)) /\ WF_vars(Upgrade(d))
         /\ WF_vars(DownstreamReadFails(d) /\ dlink[d] # "open" /\ dr[d] = "read")
         /\ WF_vars(dr[d] = "handle" /\ (\/ DownstreamReadFails(d)
                         \/ \E a \in Agents : HandleDownstreamMessage(d, a)))
         /\ WF_vars(DownstreamSendClosed(d)) /\ WF_vars(DownstreamWrite(d))
         /\ SF_vars(DownstreamWriterStops(d)) /\ WF_vars(HandleDownstreamClose(d))
         /\ WF_vars(RemoveDownstreamConnection(d))
         /\ WF_vars(RemoveAgentConnections(d))
    /\ WF_vars(ClientStopped) /\ WF_vars(ServerStopped)

FairSpec == Spec /\ Fairness

-----------------------------------------------------------------------------
(* Safety.                                                                 *)

\* HandleUpstreamMessage trusts agentConnections: a route leads to a
\* registered connection, or to one whose close handler is between its two
\* removals, and never outlives that handler, whatever the order of reads,
\* failures and closes of the agent's old and new connections.  (start()
\* waits for the reader before it calls OnClose.)
RoutesAreLive ==
    \A a \in Agents :
        agentConnections[a] # None =>
            \/ agentConnections[a] \in downstreamConnections
            \/ hpc[agentConnections[a]] = "unregistered"

\* No assignment outlives its connection: whichever way a request or a
\* connection ends (503, 500, 504, rejected, failed upgrade, close, loss of
\* the upstream), its entry of downstreamToUpstream is gone.
NoAssignmentLeak ==
    \A d \in Downstreams :
        downstreamToUpstream[d] # None =>
            /\ hpc[d] \in {"authSend", "authWait", "upgrade", "unassign", "live"}
            /\ downstreamToUpstream[d] = upstreamConnection[d]

\* The count that connectionPool.next balances on never falls below the
\* number of downstreams assigned to a pooled upstream: no path decrements
\* twice for one assignment.
CountCoversAssignments ==
    \A u \in Upstreams :
        wpc[u] # "gone" => count[u] >= Cardinality(Assigned(u))

\* The buffered responseChan never blocks the reader of a shared upstream,
\* although a connect request may be written again after a reconnect.
AuthReaderNeverBlocks ==
    \A u \in Upstreams : rpc[u] = "auth" => responseChan[rmsg[u].to] = None

\* Every connection that got as far as the upgrade was accepted by the server
\* in the answer to its own connect request: late, replayed and crossed
\* answers never let another agent in.
OnlyAcceptedConnect ==
    \A d \in Downstreams :
        hpc[d] \in {"upgrade", "live", "closing", "unregistered", "closed"}
            => d \in accepted

\* Nothing stays assigned to an upstream that is down: assignments exist only
\* between setConnected(true) and the removal in HandleUpstreamClose.
AssignedUpstreamIsUp ==
    \A d \in Downstreams :
        downstreamToUpstream[d] # None =>
            wpc[downstreamToUpstream[d]] \in {"loop", "drain"}

\* The first message an agent connection is given carries the server's
\* CustomCapabilities (HandleUpstreamMessage injects the cached ones).
CapabilitiesFirst == \A d \in Downstreams : first[d] # "plain"

(* What a step may never do.                                               *)

RouteKept ==
    \A a \in Agents :
        agentConnections[a] # None /\ agentConnections'[a] = None
        => /\ hpc[agentConnections[a]] = "unregistered"
           /\ hpc'[agentConnections[a]] = "closed"

\* A route disappears only when the connection it leads to is closed: the
\* close of an agent's old connection keeps the route to its new one.
CloseKeepsNewRoute == [][RouteKept]_vars

(* Liveness.                                                               *)

\* Gateway.Shutdown never hangs: client.Stop returns and every handler and
\* connection goroutine ends.
ShutdownCompletes ==
    (phase = "stopClient") ~> (phase = "stopped" /\ \A d \in Downstreams : Ended(d))

\* When an upstream connection is lost, every registered connection in the
\* list of HandleUpstreamClose is disconnected from its agent.
UpstreamLossDisconnects ==
    \A u \in Upstreams, d \in Downstreams :
        (d \in closing[u] /\ d \in downstreamConnections) ~> (dlink[d] # "open")
=============================================================================
