------------------------------ MODULE RpcClient ------------------------------
(***************************************************************************)
(* Remote calls through one proxy: the generated stub with its retry       *)
(* (examples/icmrpc/Hello.cpp), Invocation, MuxedTms, WaitOnRead and the   *)
(* transport, and the server that executes the requests.  One thread of    *)
(* the application makes calls, synchronous ones, which wait for the reply *)
(* on the connection, and asynchronous ones, whose replies handleEvents()  *)
(* of the communicator's reactor takes.                                    *)
(*                                                                         *)
(* A server answers in any order (asynchronous servants), late or never,   *)
(* always with reply status 0; a connection may be reset.  Transports are  *)
(* numbered as they are made, and a deleted one is never mistaken for a    *)
(* newer one at its address.                                               *)
(***************************************************************************)
EXTENDS Naturals, Sequences, FiniteSets, FiniteSetsExt

CONSTANTS
    MaxCalls,       \* bound on the calls
    MaxTransports,  \* bound on the connections made
    MaxResets       \* bound on the connections reset

ASSUME RpcAssumption == {MaxCalls, MaxTransports, MaxResets} \subseteq Nat

Call == 1..MaxCalls
Transport == 1..MaxTransports

VARIABLES
    status,     \* "up", or what stopped the application
    transport,  \* the proxy's cached transport, 0 for none
    made,       \* number of transports made
    valid,      \* transports not deleted (Communicator::validTransports)
    stream,     \* transport -> "none", "open", "reset" (by the peer) or "closed"
    fd,         \* transport -> the handle its stream has or had
    handlers,   \* the reactor: handle -> transport of the handler registered, or 0
    requestIdGenerator,     \* transport -> the next request id
    dispatcherTable,        \* transport -> set of <<request id, call>>
    current,    \* the synchronous invocation under way: its call, its transport,
                \* its request id, its step, and whether a failure is retried
    result,     \* call -> "none"; "sync" (under way), "ok", "failed"; or "async"
                \* (under way), "answered", "unsent", "dropped"
    reply,      \* call -> the call whose reply it was given, or 0
    requests,   \* transport -> sequence of <<request id, call>> to the server
    executing,  \* set of <<transport, request id, call>> the server works on
    replies,    \* transport -> sequence of <<request id, call>>
    executed,   \* call -> number of times the server has executed it
    resets,     \* counted for the bound
    maxWaitTime \* has the proxy's reference a maximum waiting time?

connVars == <<made, valid, stream, fd, handlers, requestIdGenerator, dispatcherTable>>
envVars == <<executing, executed, resets, maxWaitTime>>
vars == <<status, transport, connVars, current, result, reply, requests, replies, envVars>>

NoCall == [call |-> 0, on |-> 0, id |-> 0, step |-> "idle", retry |-> FALSE]

Init ==
    /\ status = "up" /\ transport = 0 /\ made = 0 /\ valid = {}
    /\ stream = [t \in Transport |-> "none"] /\ fd = [t \in Transport |-> 0]
    /\ handlers = [f \in Transport |-> 0]
    /\ requestIdGenerator = [t \in Transport |-> 0]
    /\ dispatcherTable = [t \in Transport |-> {}]
    /\ current = NoCall
    /\ result = [c \in Call |-> "none"] /\ reply = [c \in Call |-> 0]
    /\ requests = [t \in Transport |-> <<>>] /\ replies = [t \in Transport |-> <<>>]
    /\ executing = {} /\ executed = [c \in Call |-> 0] /\ resets = 0
    /\ maxWaitTime \in BOOLEAN     \* the default is none

up == status = "up"
HasStream(t) == stream[t] \in {"open", "reset"}

-----------------------------------------------------------------------------
(* Invocation::start: the cached transport if it still exists, or a new    *)
(* connection on the lowest free handle.  The reactor keeps a handler that *)
(* it already has for that handle.                                         *)

KeepTransport ==
    /\ transport \in valid
    /\ UNCHANGED <<transport, made, valid, stream, fd, handlers>>

NewTransport ==
    /\ transport \notin valid
    /\ made < MaxTransports
    /\ LET t == made + 1
           f == Min({g \in Transport : \A u \in Transport : HasStream(u) => fd[u] # g})
       IN  /\ made' = t /\ transport' = t
           /\ valid' = valid \cup {t}
           /\ stream' = [stream EXCEPT ![t] = "open"]
           /\ fd' = [fd EXCEPT ![t] = f]
           /\ handlers' = [handlers EXCEPT ![f] = IF @ = 0 THEN t ELSE @]

SameId(t) == UNCHANGED requestIdGenerator

requestId(t) == requestIdGenerator' = [requestIdGenerator EXCEPT ![t] = @ + 1]

(* The table is a std::map: insert() keeps an entry that is there.         *)
bindDispatcher(t, id, c) ==
    dispatcherTable' =
        [dispatcherTable EXCEPT ![t] = @ \cup {e \in {<<id, c>>} : \A d \in @ : d[1] # id}]

start ==
    /\ up /\ current.step = "start"
    /\ KeepTransport \/ NewTransport
    /\ requestId(transport')
    /\ bindDispatcher(transport', requestIdGenerator[transport'], current.call)
    /\ current' = [current EXCEPT !.on = transport', !.id = requestIdGenerator[transport'],
                                  !.step = "send"]
    /\ UNCHANGED <<status, result, reply, requests, replies, envVars>>

-----------------------------------------------------------------------------
(* How a call ends.                                                        *)

IsAsync(c) == result[c] = "async"

Return == current' = NoCall

(* ~TwowayInvocation() removes the call's dispatchers; that of an          *)
(* asynchronous call stays in the table.                                   *)
KeepDispatchers(table, c) == dispatcherTable' = table

unbindDispatcher(table, c) ==
    dispatcherTable' = IF IsAsync(c) THEN table
                       ELSE [t \in Transport |-> {e \in table[t] : e[2] # c}]

Ends(table, res) ==
    /\ Return
    /\ unbindDispatcher(table, current.call)
    /\ result' = [result EXCEPT ![current.call] = res]

(* Connecting fails: the call fails, whichever attempt it is.              *)
startFails ==
    /\ up /\ current.step = "start" /\ transport \notin valid
    /\ Ends(dispatcherTable, IF IsAsync(current.call) THEN "unsent" ELSE "failed")
    /\ UNCHANGED <<status, transport, made, valid, stream, fd, handlers, requestIdGenerator,
                   reply, requests, replies, envVars>>

(* The stub after an invoke() that failed: a call that found a transport   *)
(* in the proxy is tried once more, on a new connection.                   *)
Retry(again) ==
    /\ current' = [NoCall EXCEPT !.call = current.call, !.step = "start", !.retry = again]
    /\ UNCHANGED result

KeepRetrying ==
    /\ transport' = 0
    /\ IF current.retry THEN Retry(TRUE) /\ UNCHANGED dispatcherTable
       ELSE Ends(dispatcherTable, IF IsAsync(current.call) THEN "unsent" ELSE "failed")

KeepInProxy ==
    /\ UNCHANGED transport
    /\ IF current.retry THEN Retry(FALSE) /\ UNCHANGED dispatcherTable
       ELSE Ends(dispatcherTable, IF IsAsync(current.call) THEN "unsent" ELSE "failed")

invokeFails ==
    /\ transport' = 0
    /\ IF current.retry THEN Retry(FALSE) /\ UNCHANGED dispatcherTable
       ELSE Ends(dispatcherTable, IF IsAsync(current.call) THEN "unsent" ELSE "failed")

(* TcpTransport::closeConnection() of a caller closes the stream; the      *)
(* handler stays in the communicator's reactor, since the one it is        *)
(* removed from is Reactor::instance().                                    *)
closeConnection(t) ==
    /\ stream' = [stream EXCEPT ![t] = "closed"]
    /\ replies' = [replies EXCEPT ![t] = <<>>]

-----------------------------------------------------------------------------
(* invoke(): send the request and, in a synchronous call, wait.            *)

sendRequest ==
    /\ up /\ current.step = "send"
    /\ requests' = IF stream[current.on] = "open"
                   THEN [requests EXCEPT ![current.on] = Append(@, <<current.id, current.call>>)]
                   ELSE requests
    /\ IF IsAsync(current.call) THEN Return ELSE current' = [current EXCEPT !.step = "wait"]
    /\ UNCHANGED <<status, transport, connVars, result, reply, replies, envVars>>

(* send() returns -1, on a broken connection or on one that takes no more  *)
(* for now: it does not block.                                             *)
sendFails ==
    /\ up /\ current.step = "send"
    /\ closeConnection(current.on)
    /\ invokeFails
    /\ UNCHANGED <<status, made, valid, fd, handlers, requestIdGenerator, reply, requests, envVars>>

(* MuxedTms::dispatchReply() of the first reply m of connection t, to the  *)
(* call x in the table.                                                    *)
Entry(t, m) == {e \in dispatcherTable[t] : e[1] = m[1]}
Erased(t, m) == [dispatcherTable EXCEPT ![t] = @ \ Entry(t, m)]

dispatchReply(t, m, x) ==
    /\ <<m[1], x>> \in dispatcherTable[t]
    /\ reply' = [reply EXCEPT ![x] = m[2]]

Waiting == up /\ current.step = "wait"

waitReply ==
    /\ Waiting /\ replies[current.on] # <<>>
    /\ LET t == current.on
           m == Head(replies[t])
       IN  /\ dispatchReply(t, m, current.call)
           /\ replies' = [replies EXCEPT ![t] = Tail(@)]
           /\ Ends(Erased(t, m), "ok")
    /\ UNCHANGED <<status, transport, made, valid, stream, fd, handlers, requestIdGenerator, requests, envVars>>

(* The reply of an asynchronous call comes first: its callback is called   *)
(* and assert(replyReceived) fails.                                        *)
waitOtherReply ==
    /\ Waiting /\ replies[current.on] # <<>>
    /\ LET t == current.on
           m == Head(replies[t])
       IN  \E x \in Call \ {current.call} :
             /\ dispatchReply(t, m, x)
             /\ result' = [result EXCEPT ![x] = "answered"]
             /\ replies' = [replies EXCEPT ![t] = Tail(@)]
             /\ dispatcherTable' = Erased(t, m)
    /\ status' = "replyReceived"
    /\ UNCHANGED <<transport, made, valid, stream, fd, handlers, requestIdGenerator, current,
                   requests, envVars>>

EndIgnored ==
    LET t == current.on
    IN  \/ replies[t] = <<>> /\ maxWaitTime
        \/ replies[t] # <<>> /\ Entry(t, Head(replies[t])) = {}

(* No reply in time, the end of the stream, or a reply to nobody.  Without *)
(* a maximum waiting time nothing ends the wait on a silent connection.    *)
NoReply ==
    LET t == current.on
    IN  \/ replies[t] = <<>> /\ (maxWaitTime \/ stream[t] # "open")
        \/ replies[t] # <<>> /\ Entry(t, Head(replies[t])) = {}

waitFails ==
    /\ Waiting /\ NoReply
    /\ closeConnection(current.on)
    /\ invokeFails
    /\ UNCHANGED <<status, made, valid, fd, handlers, requestIdGenerator, reply, requests, envVars>>

-----------------------------------------------------------------------------
(* The application between calls.                                          *)

NextCall == Min({c \in Call : result[c] = "none"})

callOperation ==
    /\ up /\ current = NoCall
    /\ \E c \in Call : result[c] = "none"
    /\ \E kind \in {"sync", "async"} :
         /\ result' = [result EXCEPT ![NextCall] = kind]
         /\ current' = [NoCall EXCEPT !.call = NextCall, !.step = "start",
                                      !.retry = (kind = "sync" /\ transport # 0)]
    /\ UNCHANGED <<status, transport, connVars, reply, requests, replies, envVars>>

(* The handlers of the reactor, and the connection that now has a handle.  *)
Owner(f) == {t \in Transport : HasStream(t) /\ fd[t] = f}
Readable(t) == replies[t] # <<>> \/ stream[t] = "reset"

HandleEvents == up /\ current = NoCall /\ \E f \in Transport : handlers[f] # 0

(* select() fails for ever on a handle that is closed.                     *)
selectFails ==
    /\ HandleEvents
    /\ \E f \in Transport : handlers[f] # 0 /\ Owner(f) = {}
    /\ status' = "select"
    /\ UNCHANGED <<transport, connVars, current, result, reply, requests, replies, envVars>>

Selected(f, t) ==
    /\ HandleEvents
    /\ \A g \in Transport : handlers[g] # 0 => Owner(g) # {}
    /\ handlers[f] # 0 /\ t \in Owner(f) /\ Readable(t)

handleInput ==
    /\ \E f, t \in Transport :
         /\ Selected(f, t) /\ handlers[f] = t /\ replies[t] # <<>>
         /\ LET m == Head(replies[t])
            IN  \E x \in Call :
                  /\ dispatchReply(t, m, x)
                  /\ result' = [result EXCEPT ![x] = "answered"]
                  /\ dispatcherTable' = Erased(t, m)
                  /\ replies' = [replies EXCEPT ![t] = Tail(@)]
    /\ UNCHANGED <<status, transport, made, valid, stream, fd, handlers, requestIdGenerator, current,
                   requests, envVars>>

TableLeft(t) ==
    /\ closeConnection(t)
    /\ valid' = valid \ {t}
    /\ UNCHANGED <<dispatcherTable, result>>

(* handleInput() fails, on a reply to nobody, at the end of the stream or  *)
(* because the handler's own stream is closed: the handler, its transport  *)
(* and the dispatchers in its table are deleted.                           *)
Deleted(t) ==
    /\ closeConnection(t)
    /\ valid' = valid \ {t}
    /\ dispatcherTable' = [dispatcherTable EXCEPT ![t] = {}]
    /\ result' = [x \in Call |-> IF IsAsync(x) /\ \E e \in dispatcherTable[t] : e[2] = x
                                 THEN "dropped" ELSE result[x]]

handleClose ==
    /\ \E f, t \in Transport :
         /\ Selected(f, t)
         /\ ~(handlers[f] = t /\ replies[t] # <<>> /\ Entry(t, Head(replies[t])) # {})
         /\ Deleted(handlers[f])
         /\ handlers' = [handlers EXCEPT ![f] = 0]
    /\ UNCHANGED <<status, transport, made, fd, requestIdGenerator, current, reply, requests, envVars>>

-----------------------------------------------------------------------------
(* The server, and the network.                                            *)

processServerRequest ==
    /\ \E t \in Transport :
         /\ requests[t] # <<>>
         /\ requests' = [requests EXCEPT ![t] = Tail(@)]
         /\ LET q == Head(requests[t])
            IN  /\ executed' = [executed EXCEPT ![q[2]] = @ + 1]
                /\ executing' = executing \cup {<<t, q[1], q[2]>>}
    /\ UNCHANGED <<status, transport, connVars, current, result, reply, replies, resets, maxWaitTime>>

sendReply ==
    /\ \E e \in executing :
         /\ executing' = executing \ {e}
         /\ replies' = IF stream[e[1]] = "open"
                       THEN [replies EXCEPT ![e[1]] = Append(@, <<e[2], e[3]>>)] ELSE replies
    /\ UNCHANGED <<status, transport, connVars, current, result, reply, requests, executed, resets,
                   maxWaitTime>>

(* What was on its way may be lost.                                        *)
ConnectionReset ==
    /\ resets < MaxResets /\ resets' = resets + 1
    /\ \E t \in Transport :
         /\ stream[t] = "open"
         /\ stream' = [stream EXCEPT ![t] = "reset"]
         /\ requests' = [requests EXCEPT ![t] = <<>>]
         /\ \E kept \in {replies[t], <<>>} : replies' = [replies EXCEPT ![t] = kept]
    /\ UNCHANGED <<status, transport, made, valid, fd, handlers, requestIdGenerator, dispatcherTable,
                   current, result, reply, executing, executed, maxWaitTime>>

-----------------------------------------------------------------------------
Attempt == start \/ startFails \/ sendRequest \/ sendFails
Wait == waitReply \/ waitOtherReply \/ waitFails
Events == selectFails \/ handleInput \/ handleClose
Network == processServerRequest \/ sendReply \/ ConnectionReset

Next == callOperation \/ Attempt \/ Wait \/ Events \/ Network

Spec == Init /\ [][Next]_vars

(* The application's thread runs, and a wait ends when what it waits for   *)
(* is there or its maximum time, if it has one, is over.                   *)
FairSpec == Spec /\ WF_vars(Attempt) /\ WF_vars(Wait)

-----------------------------------------------------------------------------
Message == (0..MaxCalls) \X Call     \* request id and call

ConnectionsOK ==
    /\ made \in 0..MaxTransports /\ transport \in 0..made /\ valid \subseteq 1..made
    /\ stream \in [Transport -> {"none", "open", "reset", "closed"}]
    /\ \A t \in Transport : t > made => stream[t] = "none"
    /\ fd \in [Transport -> 0..MaxTransports] /\ handlers \in [Transport -> 0..made]

MessagesOK ==
    /\ requestIdGenerator \in [Transport -> 0..MaxCalls]
    /\ dispatcherTable \in [Transport -> SUBSET Message]
    /\ requests \in [Transport -> Seq(Message)]
    /\ replies \in [Transport -> Seq(Message)]
    /\ executing \subseteq Transport \X (0..MaxCalls) \X Call

Result == {"none", "sync", "ok", "failed", "async", "answered", "unsent", "dropped"}

Invocation ==
    [call : Call \cup {0}, on : 0..MaxTransports, id : 0..MaxCalls,
     step : {"idle", "start", "send", "wait"}, retry : BOOLEAN]

CallsOK ==
    /\ status \in {"up", "replyReceived", "select"}
    /\ current \in Invocation
    /\ (current.call = 0) = (current.step = "idle")
    /\ current.step \in {"send", "wait"} => current.on \in valid
    /\ result \in [Call -> Result]
    /\ reply \in [Call -> Call \cup {0}] /\ executed \in [Call -> Nat]
    /\ maxWaitTime \in BOOLEAN

(* The variables have the values the code gives them, and a call is under  *)
(* way exactly while the stub runs.                                        *)
TypeOK == ConnectionsOK /\ MessagesOK /\ CallsOK

(* A call is given the reply to its own request, never that of another     *)
(* call or of an earlier attempt on the connection: dispatchReply() finds  *)
(* the call by the id that requestId() gave it.                            *)
OwnReply == \A c \in Call : reply[c] \in {0, c}

(* No dispatcher that a returned synchronous call owned, and deleted, is   *)
(* left in the table of a live transport, whatever attempt of the call put *)
(* it there.                                                               *)
NoDanglingDispatcher ==
    \A t \in valid : \A e \in dispatcherTable[t] :
        e[2] = current.call \/ result[e[2]] \in {"async", "unsent"}

(* "when timeout, connection also need to be closed, or the server will    *)
(* send back reply later..." (Invocation.cpp, invoke): on the connection   *)
(* that the proxy will use next nothing is under way for a call that has   *)
(* returned.                                                               *)
NoLateReply ==
    transport \in valid =>
        LET UnderWay == {q[2] : q \in Range(requests[transport]) \cup Range(replies[transport])}
                        \cup {e[3] : e \in {d \in executing : d[1] = transport}}
        IN  \A c \in UnderWay : c = current.call \/ IsAsync(c)

(* The retry makes the server execute a synchronous call twice at most, an *)
(* asynchronous one once; a call that succeeded was executed.              *)
ExecutedAtMostTwice ==
    \A c \in Call :
        /\ executed[c] <= IF result[c] \in {"sync", "ok", "failed"} THEN 2 ELSE 1
        /\ result[c] \in {"ok", "answered"} => executed[c] >= 1

(* What makes these hold in every reachable state.  On connection t the    *)
(* messages under way, the one about to be sent and the dispatchers.       *)
Executing(t) == {<<e[2], e[3]>> : e \in {d \in executing : d[1] = t}}
Messages(t) == Range(requests[t]) \cup Executing(t) \cup Range(replies[t])
Sending(t) == IF current.step \in {"send", "wait"} /\ current.on = t
              THEN {<<current.id, current.call>>} ELSE {}
Ids(t) == Messages(t) \cup Sending(t) \cup dispatcherTable[t]

(* A request id of a connection is that of one call, and a call has one    *)
(* request id on a connection.                                             *)
IdsUnique == \A t \in Transport :
    /\ \A p \in Ids(t) : p[1] < requestIdGenerator[t]
    /\ \A p, q \in Ids(t) : p[1] = q[1] <=> p[2] = q[2]

(* A call not begun is nowhere; the one that starts is not on the          *)
(* connection that it will use; an asynchronous call is on one only.       *)
Nowhere(c, T) == \A t \in T : \A p \in Ids(t) : p[2] # c

CallsPlaced ==
    /\ \A c \in Call : result[c] = "none" => Nowhere(c, Transport)
    /\ current.step = "start" =>
         Nowhere(current.call, IF IsAsync(current.call) THEN Transport ELSE valid \cap {transport})
    /\ \A t, u \in Transport : \A p \in Ids(t), q \in Ids(u) :
         p[2] = q[2] /\ result[p[2]] \in {"async", "unsent"} => t = u

(* A message is under way once: as request, at the server, or as reply.    *)
MessagesOnce ==
    /\ \A t \in Transport :
         /\ IsInjective(requests[t]) /\ IsInjective(replies[t])
         /\ \A p \in Range(requests[t]) : p \notin Executing(t) /\ p \notin Range(replies[t])
         /\ \A p \in Executing(t) : p \notin Range(replies[t])
    /\ current.step = "send" => <<current.id, current.call>> \notin Messages(current.on)

(* The call under way, and the calls begun, in their order.                *)
CallsBegun ==
    /\ current.step = "idle" => current = NoCall
    /\ current.step \in {"send", "wait"} => current.on = transport
    /\ current.step # "idle" => result[current.call] \in {"sync", "async"}
    /\ current.step = "wait" \/ current.retry => result[current.call] = "sync"
    /\ \A c \in Call : result[c] = "sync" => current.call = c
    /\ \A c \in Call : result[c] = "none" =>
         current.call < c /\ \A t \in Transport : requestIdGenerator[t] < c
    /\ current.step = "start" /\ transport # 0 => requestIdGenerator[transport] < current.call

Dispatchers ==
    /\ \A t \in Transport : t \notin valid => dispatcherTable[t] = {}
    /\ \A t \in Transport : t > made => requestIdGenerator[t] = 0

(* What a call has cost the server, and what it may still cost: the        *)
(* connections on which it is a request not yet executed, and the          *)
(* requests it has sent.                                                   *)
Pending(c) == {t \in Transport : \E p \in Range(requests[t]) : p[2] = c}

SentOf(c) ==
    IF result[c] = "none" THEN 0
    ELSE IF result[c] \in {"ok", "failed"} THEN 2
    ELSE IF result[c] # "sync" THEN IF c = current.call /\ current.step # "idle" THEN 0 ELSE 1
    ELSE (IF current.retry THEN 0 ELSE 1) + (IF current.step = "wait" THEN 1 ELSE 0)

Executions ==
    /\ \A c \in Call : executed[c] + Cardinality(Pending(c)) <= SentOf(c)
    /\ \A t \in Transport : \A p \in Executing(t) \cup Range(replies[t]) : executed[p[2]] >= 1
    /\ \A c \in Call : result[c] \in {"ok", "answered"} => executed[c] >= 1

(* The inductive invariant.                                                *)
IInv ==
    /\ TypeOK /\ IdsUnique /\ CallsPlaced /\ MessagesOnce /\ CallsBegun
    /\ Dispatchers /\ Executions
    /\ OwnReply /\ NoDanglingDispatcher /\ NoLateReply

(* A synchronous call without a maximum waiting time waits on an open      *)
(* connection on which nothing arrives.                                    *)
WaitsForPeer ==
    /\ current.step = "wait" /\ ~maxWaitTime
    /\ stream[current.on] = "open" /\ replies[current.on] = <<>>

(* No synchronous call is under way for ever, whatever the server and the  *)
(* network do, unless the application has stopped or WaitsForPeer holds:   *)
(* every failure ends the attempt, and the attempts end.                   *)
CallReturns == \A c \in Call : []<>(result[c] # "sync" \/ ~up \/ WaitsForPeer)

(* WaitOnRead::wait(), "assert(replyReceived)": the message that a         *)
(* synchronous call reads is its reply.                                    *)
SyncReplyReceived == status # "replyReceived"
=============================================================================
