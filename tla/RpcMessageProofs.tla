-------------------------- MODULE RpcMessageProofs --------------------------
(***************************************************************************)
(* The lemmas that RpcClientProofs rests on: what each step of RpcClient   *)
(* does to the messages, the request ids, the dispatcher tables and the    *)
(* calls, and which conjuncts of the inductive invariant this keeps.       *)
(***************************************************************************)
EXTENDS RpcClient, TLAPS

(* A message taken from a connection is not among those left.              *)
LEMMA TakenMessages ==
    ASSUME NEW S, NEW s \in Seq(S), s # <<>>
    PROVE  /\ Tail(s) \in Seq(S) /\ Head(s) \in S /\ Head(s) \in Range(s)
           /\ Range(Tail(s)) \subseteq Range(s)
           /\ \A x \in Range(s) : x = Head(s) \/ x \in Range(Tail(s))
           /\ IsInjective(s) => IsInjective(Tail(s)) /\ Head(s) \notin Range(Tail(s))
<1>1. /\ Len(s) \in Nat /\ Len(s) > 0 /\ DOMAIN s = 1..Len(s) /\ Head(s) = s[1]
      /\ Tail(s) \in Seq(S) /\ Head(s) \in S
      /\ DOMAIN Tail(s) = 1..(Len(s) - 1) /\ \A i \in 1..(Len(s) - 1) : Tail(s)[i] = s[i + 1]
  OBVIOUS
<1>2. Head(s) \in Range(s) /\ Range(Tail(s)) \subseteq Range(s)
  BY <1>1 DEF Range
<1>3. \A x \in Range(s) : x = Head(s) \/ x \in Range(Tail(s))
  <2> SUFFICES ASSUME NEW i \in 1..Len(s), s[i] # s[1] PROVE s[i] \in Range(Tail(s))
    BY <1>1 DEF Range
  <2>1. i - 1 \in 1..(Len(s) - 1)
    BY <1>1
  <2>2. Tail(s)[i - 1] = s[i]
    BY <1>1, <2>1
  <2> QED
    BY <1>1, <2>1, <2>2, Zenon DEF Range
<1>4. ASSUME IsInjective(s) PROVE IsInjective(Tail(s)) /\ Head(s) \notin Range(Tail(s))
  <2>1. \A i, j \in 1..Len(s) : s[i] = s[j] => i = j
    BY <1>1, <1>4 DEF IsInjective
  <2>2. \A i \in 1..(Len(s) - 1) : i + 1 \in 1..Len(s) /\ i + 1 # 1 /\ 1 \in 1..Len(s)
    BY <1>1
  <2>3. IsInjective(Tail(s))
    <3> SUFFICES ASSUME NEW i \in 1..(Len(s) - 1), NEW j \in 1..(Len(s) - 1), s[i + 1] = s[j + 1]
                 PROVE  i = j
      BY <1>1 DEF IsInjective
    <3> QED
      BY <1>1, <2>1, <2>2
  <2>4. Head(s) \notin Range(Tail(s))
    BY <1>1, <2>1, <2>2 DEF Range
  <2> QED
    BY <2>3, <2>4
<1> QED
  BY <1>1, <1>2, <1>3, <1>4

(* A message put on a connection joins those that are there.               *)
LEMMA AddedMessages ==
    ASSUME NEW S, NEW s \in Seq(S), NEW x \in S
    PROVE  /\ Append(s, x) \in Seq(S) /\ Range(Append(s, x)) = Range(s) \cup {x}
           /\ IsInjective(s) /\ x \notin Range(s) => IsInjective(Append(s, x))
<1>1. /\ Len(s) \in Nat /\ DOMAIN s = 1..Len(s) /\ Append(s, x) \in Seq(S)
      /\ DOMAIN Append(s, x) = 1..(Len(s) + 1) /\ Append(s, x)[Len(s) + 1] = x
      /\ \A i \in 1..Len(s) : Append(s, x)[i] = s[i]
  OBVIOUS
<1>2. \A i \in 1..(Len(s) + 1) : i \in 1..Len(s) \/ i = Len(s) + 1
  BY <1>1
<1>3. \A i \in 1..Len(s) : i \in 1..(Len(s) + 1)
  BY <1>1
<1>4. Len(s) + 1 \in 1..(Len(s) + 1)
  BY <1>1
<1>5. Range(Append(s, x)) = Range(s) \cup {x}
  BY <1>1, <1>2, <1>3, <1>4 DEF Range
<1>6. ASSUME IsInjective(s), x \notin Range(s) PROVE IsInjective(Append(s, x))
  BY <1>1, <1>2, <1>6 DEF IsInjective, Range
<1> QED
  BY <1>1, <1>5, <1>6

(* The bounds are numbers.                                                 *)
LEMMA Bounds == MaxCalls \in Nat /\ MaxTransports \in Nat /\ MaxResets \in Nat
BY RpcAssumption

(* An attempt under way has a connection.                                  *)
LEMMA OnConnection ==
    ASSUME TypeOK, current.step \in {"send", "wait"}
    PROVE  current.on \in valid /\ current.on \in 1..made /\ current.on \in Transport
           /\ current.call \in Call /\ <<current.id, current.call>> \in Message
<1>1. /\ current.on \in valid /\ valid \subseteq 1..made /\ made \in 0..MaxTransports
  BY DEF TypeOK, CallsOK, ConnectionsOK
<1>2. current.on \in Transport /\ current.on \in 1..made
  <2>1. current.on \in 1..made /\ made \in 0..MaxTransports
    BY <1>1, Zenon
  <2> QED
    BY <2>1, Bounds DEF Transport
<1>3. current.call \in Call /\ current.id \in 0..MaxCalls
  BY DEF TypeOK, CallsOK, Invocation
<1> QED
  BY <1>1, <1>2, <1>3 DEF Message

(* Invocation::start() takes the connection it has, or makes the next one, *)
(* and takes the next request id of it.                                    *)
LEMMA StartEffect ==
    ASSUME TypeOK, start
    PROVE  /\ transport' \in Transport /\ transport' \in valid' /\ transport' # 0
           /\ \/ transport' = transport /\ transport \in valid /\ made' = made /\ valid' = valid
              \/ transport' = made + 1 /\ made' = made + 1 /\ valid' = valid \cup {made + 1}
           /\ requestIdGenerator' =
                [requestIdGenerator EXCEPT ![transport'] = requestIdGenerator[transport'] + 1]
           /\ current'.call = current.call /\ current'.on = transport'
           /\ current'.id = requestIdGenerator[transport'] /\ current'.step = "send"
           /\ current'.retry = current.retry /\ current.step = "start"
           /\ UNCHANGED <<status, result, reply, requests, replies, executing, executed>>
<1>1. /\ current.step = "start" /\ (KeepTransport \/ NewTransport)
      /\ current' = [current EXCEPT !.on = transport', !.id = requestIdGenerator[transport'],
                                    !.step = "send"]
      /\ requestIdGenerator' = [requestIdGenerator EXCEPT ![transport'] = @ + 1]
      /\ UNCHANGED <<status, result, reply, requests, replies, executing, executed>>
  BY DEF start, requestId, envVars
<1>2. /\ \/ transport' = transport /\ transport \in valid /\ made' = made /\ valid' = valid
         \/ transport' = made + 1 /\ made' = made + 1 /\ valid' = valid \cup {made + 1}
      /\ transport' \in Transport /\ transport' \in valid' /\ transport' # 0
  BY <1>1, Bounds DEF KeepTransport, NewTransport, TypeOK, ConnectionsOK, Transport
<1>3. /\ current'.call = current.call /\ current'.on = transport'
      /\ current'.id = requestIdGenerator[transport'] /\ current'.step = "send"
      /\ current'.retry = current.retry
  BY <1>1 DEF TypeOK, CallsOK, Invocation
<1> QED
  BY <1>1, <1>2, <1>3

(* A call that ends, or a dispatcher that is used, leaves no new entry.    *)
LEMMA EndsEffect ==
    ASSUME NEW table \in [Transport -> SUBSET Message], NEW res, Ends(table, res)
    PROVE  /\ dispatcherTable' \in [Transport -> SUBSET Message]
           /\ \A t \in Transport : dispatcherTable'[t] \subseteq table[t]
           /\ current' = NoCall /\ result' = [result EXCEPT ![current.call] = res]
           /\ IsAsync(current.call) => dispatcherTable' = table
           /\ ~IsAsync(current.call) =>
                \A t \in Transport : \A e \in dispatcherTable'[t] : e[2] # current.call
BY DEF Ends, unbindDispatcher, Return

(* An entry erased.                                                        *)
LEMMA ErasedEffect ==
    ASSUME TypeOK, NEW t \in Transport, NEW m
    PROVE  /\ Erased(t, m) \in [Transport -> SUBSET Message]
           /\ \A u \in Transport : Erased(t, m)[u] \subseteq dispatcherTable[u]
           /\ \A e \in Erased(t, m)[t] : e[1] # m[1]
BY DEF TypeOK, MessagesOK, Erased, Entry

(* The end of an invoke() that failed: another attempt, or the end.        *)
LEMMA FailsEffect ==
    ASSUME TypeOK, invokeFails
    PROVE  /\ transport' = 0
           /\ dispatcherTable' \in [Transport -> SUBSET Message]
           /\ \A t \in Transport : dispatcherTable'[t] \subseteq dispatcherTable[t]
           /\ \/ /\ current.retry /\ UNCHANGED <<result, dispatcherTable>>
                 /\ current' = [NoCall EXCEPT !.call = current.call, !.step = "start",
                                              !.retry = FALSE]
              \/ /\ ~current.retry
                 /\ Ends(dispatcherTable, IF IsAsync(current.call) THEN "unsent" ELSE "failed")
<1>1. dispatcherTable \in [Transport -> SUBSET Message]
  BY DEF TypeOK, MessagesOK
<1>2. CASE current.retry
  BY <1>1, <1>2 DEF invokeFails, Retry
<1>3. CASE ~current.retry
  <2>1. Ends(dispatcherTable, IF IsAsync(current.call) THEN "unsent" ELSE "failed") /\ transport' = 0
    BY <1>3 DEF invokeFails
  <2>2. PICK res : res = IF IsAsync(current.call) THEN "unsent" ELSE "failed"
    OBVIOUS
  <2>3. Ends(dispatcherTable, res)
    BY <2>1, <2>2
  <2>4. /\ dispatcherTable' \in [Transport -> SUBSET Message]
        /\ \A t \in Transport : dispatcherTable'[t] \subseteq dispatcherTable[t]
    BY <1>1, <2>3, EndsEffect
  <2> QED
    BY <1>3, <2>1, <2>4
<1> QED
  BY <1>2, <1>3

(* Only Invocation::start() adds to the tables of dispatchers.             *)
LEMMA TablesShrink ==
    ASSUME TypeOK, [Next]_vars, ~start
    PROVE  /\ dispatcherTable' \in [Transport -> SUBSET Message]
           /\ \A t \in Transport : dispatcherTable'[t] \subseteq dispatcherTable[t]
<1> DEFINE Goal == /\ dispatcherTable' \in [Transport -> SUBSET Message]
                   /\ \A t \in Transport : dispatcherTable'[t] \subseteq dispatcherTable[t]
<1>1. dispatcherTable \in [Transport -> SUBSET Message]
  BY DEF TypeOK, MessagesOK
<1>a. ASSUME UNCHANGED dispatcherTable PROVE Goal
  BY <1>1, <1>a
<1>2. CASE startFails
  <2>1. PICK res : Ends(dispatcherTable, res)
    BY <1>2 DEF startFails
  <2> QED
    BY <1>1, <2>1, EndsEffect
<1>3. CASE sendFails
  <2>1. invokeFails
    BY <1>3 DEF sendFails
  <2> QED
    BY <2>1, FailsEffect
<1>4. CASE waitFails
  <2>1. invokeFails
    BY <1>4 DEF waitFails
  <2> QED
    BY <2>1, FailsEffect
<1>5. CASE waitReply
  <2> DEFINE m == Head(replies[current.on])
  <2>1. Ends(Erased(current.on, m), "ok")
    BY <1>5 DEF waitReply
  <2>2. current.on \in Transport
    BY <1>5, OnConnection DEF waitReply, Waiting
  <2> HIDE DEF m
  <2>3. /\ Erased(current.on, m) \in [Transport -> SUBSET Message]
        /\ \A u \in Transport : Erased(current.on, m)[u] \subseteq dispatcherTable[u]
    BY <2>2, ErasedEffect
  <2>4. /\ dispatcherTable' \in [Transport -> SUBSET Message]
        /\ \A t \in Transport : dispatcherTable'[t] \subseteq Erased(current.on, m)[t]
    BY <2>1, <2>3, EndsEffect
  <2> QED
    BY <2>3, <2>4
<1>6. CASE waitOtherReply
  <2> DEFINE m == Head(replies[current.on])
  <2>1. dispatcherTable' = Erased(current.on, m)
    BY <1>6 DEF waitOtherReply
  <2>2. current.on \in Transport
    BY <1>6, OnConnection DEF waitOtherReply, Waiting
  <2> HIDE DEF m
  <2> QED
    BY <2>1, <2>2, ErasedEffect
<1>7. CASE handleInput
  <2>1. PICK t \in Transport : dispatcherTable' = Erased(t, Head(replies[t]))
    BY <1>7 DEF handleInput
  <2> QED
    BY <2>1, ErasedEffect
<1>8. CASE handleClose
  <2>1. PICK t : dispatcherTable' = [dispatcherTable EXCEPT ![t] = {}]
    BY <1>8, Zenon DEF handleClose, Deleted
  <2> QED
    BY <1>1, <2>1, Zenon
<1>9. CASE callOperation \/ sendRequest \/ selectFails \/ processServerRequest \/ sendReply
  BY <1>a, <1>9 DEF callOperation, sendRequest, selectFails, processServerRequest, sendReply,
                    connVars
<1>10. CASE ConnectionReset
  BY <1>a, <1>10 DEF ConnectionReset
<1>11. CASE UNCHANGED vars
  BY <1>a, <1>11 DEF vars, connVars
<1> QED
  BY <1>2, <1>3, <1>4, <1>5, <1>6, <1>7, <1>8, <1>9, <1>10, <1>11
     DEF Next, Attempt, Wait, Events, Network

(* The request id of a new attempt is within the bound: the calls before   *)
(* have taken one each at most.  The table gets one entry for it.          *)
LEMMA StartIds ==
    ASSUME TypeOK, CallsBegun, Dispatchers, start
    PROVE  /\ current.call \in Call
           /\ requestIdGenerator[transport'] < current.call
           /\ requestIdGenerator[transport'] \in 0..MaxCalls
           /\ <<requestIdGenerator[transport'], current.call>> \in Message
           /\ requestIdGenerator' \in [Transport -> 0..MaxCalls]
           /\ dispatcherTable' \in [Transport -> SUBSET Message]
           /\ \A u \in Transport : u # transport' => dispatcherTable'[u] = dispatcherTable[u]
           /\ \A e \in dispatcherTable'[transport'] :
                e \in dispatcherTable[transport'] \/
                e = <<requestIdGenerator[transport'], current.call>>
<1> DEFINE t == transport'
           id == requestIdGenerator[t]
<1>1. /\ t \in Transport /\ current.step = "start"
      /\ \/ t = transport /\ t # 0
         \/ t = made + 1
      /\ requestIdGenerator' = [requestIdGenerator EXCEPT ![t] = id + 1]
  BY StartEffect
<1>2. requestIdGenerator \in [Transport -> 0..MaxCalls] /\ made \in Nat
  BY DEF TypeOK, MessagesOK, ConnectionsOK
<1>3. current.call \in Call
  BY <1>1 DEF TypeOK, CallsOK, Invocation
<1>4. t = made + 1 => id = 0
  BY <1>1, <1>2 DEF Dispatchers, Transport
<1>5. t = transport /\ t # 0 => id < current.call
  BY <1>1 DEF CallsBegun
<1>6. dispatcherTable' =
        [dispatcherTable EXCEPT ![t] =
            @ \cup {e \in {<<id, current.call>>} : \A d \in @ : d[1] # id}]
  BY DEF start, bindDispatcher
<1> HIDE DEF t, id
<1>7. id < current.call /\ id \in 0..MaxCalls /\ id + 1 \in 0..MaxCalls
  <2>1. id \in 0..MaxCalls
    BY <1>1, <1>2 DEF id
  <2> QED
    BY <1>1, <1>3, <1>4, <1>5, <2>1, Bounds DEF Call
<1>8. requestIdGenerator' \in [Transport -> 0..MaxCalls]
  BY <1>1, <1>2, <1>7
<1>9. <<id, current.call>> \in Message
  BY <1>3, <1>7 DEF Message
<1>10. dispatcherTable \in [Transport -> SUBSET Message]
  BY DEF TypeOK, MessagesOK
<1>11. /\ dispatcherTable' \in [Transport -> SUBSET Message]
       /\ \A u \in Transport : u # t => dispatcherTable'[u] = dispatcherTable[u]
       /\ \A e \in dispatcherTable'[t] : e \in dispatcherTable[t] \/ e = <<id, current.call>>
  BY <1>1, <1>6, <1>9, <1>10
<1> QED
  BY <1>3, <1>7, <1>8, <1>9, <1>11 DEF t, id

(* The messages of a connection keep their types.                          *)
LEMMA MessagesStep ==
    ASSUME TypeOK, CallsBegun, Dispatchers, [Next]_vars
    PROVE  MessagesOK'
<1>1. dispatcherTable' \in [Transport -> SUBSET Message]
  BY StartIds, TablesShrink
<1>2. requestIdGenerator' \in [Transport -> 0..MaxCalls]
  <2>1. CASE start
    BY <2>1, StartIds
  <2>2. CASE ~start
    <3>1. UNCHANGED requestIdGenerator
      BY <2>2, Zenon DEF Next, Attempt, Wait, Events, Network, callOperation, startFails, sendRequest,
         sendFails, waitReply, waitOtherReply, waitFails, selectFails, handleInput, handleClose,
         processServerRequest, sendReply, ConnectionReset, vars, connVars
    <3> QED
      BY <3>1 DEF TypeOK, MessagesOK
  <2> QED
    BY <2>1, <2>2
<1>3. /\ requests \in [Transport -> Seq(Message)] /\ replies \in [Transport -> Seq(Message)]
      /\ executing \subseteq Transport \X (0..MaxCalls) \X Call /\ <<>> \in Seq(Message)
  BY DEF TypeOK, MessagesOK
<1>4. /\ requests' \in [Transport -> Seq(Message)] /\ replies' \in [Transport -> Seq(Message)]
      /\ executing' \subseteq Transport \X (0..MaxCalls) \X Call
  <2> DEFINE Goal == /\ requests \in [Transport -> Seq(Message)]
                     /\ replies \in [Transport -> Seq(Message)]
                     /\ executing \subseteq Transport \X (0..MaxCalls) \X Call
  <2>1. ASSUME UNCHANGED <<requests, executing>>, NEW t, NEW s \in Seq(Message),
               replies' = [replies EXCEPT ![t] = s]
        PROVE  Goal'
    BY <1>3, <2>1, Zenon
  <2>2. CASE callOperation \/ start \/ startFails \/ selectFails \/ UNCHANGED vars
    <3>1. UNCHANGED <<requests, executing, replies>>
      BY <2>2 DEF callOperation, start, startFails, selectFails, vars, envVars
    <3> QED
      BY <1>3, <3>1
  <2>3. CASE sendRequest
    <3> DEFINE q == <<current.id, current.call>>
    <3>1. q \in Message
      BY <2>3 DEF sendRequest, Message, TypeOK, CallsOK, Invocation
    <3>2. /\ UNCHANGED <<replies, executing>>
          /\ requests' = requests \/ requests' = [requests EXCEPT ![current.on] = Append(@, q)]
      BY <2>3 DEF sendRequest, envVars
    <3> HIDE DEF q
    <3>3. \A t \in Transport : Append(requests[t], q) \in Seq(Message)
      BY <1>3, <3>1, AddedMessages
    <3>4. requests' \in [Transport -> Seq(Message)]
      <4>1. CASE requests' = requests
        BY <1>3, <4>1
      <4>2. CASE requests' = [requests EXCEPT ![current.on] = Append(@, q)]
        BY <1>3, <3>3, <4>2, Zenon
      <4> QED
        BY <3>2, <4>1, <4>2
    <3> QED
      BY <1>3, <3>2, <3>4
  <2>4. CASE sendFails \/ waitFails \/ handleClose
    <3>1. UNCHANGED <<requests, executing>> /\ \E t : replies' = [replies EXCEPT ![t] = <<>>]
      BY <2>4 DEF sendFails, waitFails, handleClose, Deleted, closeConnection, envVars
    <3> QED
      BY <1>3, <2>1, <3>1, Zenon
  <2>5. CASE waitReply \/ waitOtherReply \/ handleInput
    <3>1. PICK t : replies' = [replies EXCEPT ![t] = Tail(@)] /\ replies[t] # <<>>
      BY <2>5, Zenon DEF waitReply, waitOtherReply, handleInput
    <3>2. UNCHANGED <<requests, executing>>
      BY <2>5 DEF waitReply, waitOtherReply, handleInput, envVars
    <3>3. t \in Transport => Tail(replies[t]) \in Seq(Message)
      BY <1>3, <3>1, TakenMessages
    <3> QED
      BY <1>3, <3>1, <3>2, <3>3, Zenon
  <2>6. CASE processServerRequest
    <3>1. PICK t \in Transport :
            /\ requests[t] # <<>> /\ requests' = [requests EXCEPT ![t] = Tail(@)]
            /\ executing' = executing \cup {<<t, Head(requests[t])[1], Head(requests[t])[2]>>}
      BY <2>6, Zenon DEF processServerRequest
    <3>2. Tail(requests[t]) \in Seq(Message) /\ Head(requests[t]) \in Message
      BY <1>3, <3>1, TakenMessages
    <3>3. UNCHANGED replies
      BY <2>6 DEF processServerRequest
    <3>4. <<t, Head(requests[t])[1], Head(requests[t])[2]>> \in Transport \X (0..MaxCalls) \X Call
      BY <3>2 DEF Message
    <3> QED
      BY <1>3, <3>1, <3>2, <3>3, <3>4
  <2>7. CASE sendReply
    <3>1. PICK e \in executing :
            /\ executing' = executing \ {e}
            /\ \/ replies' = [replies EXCEPT ![e[1]] = Append(@, <<e[2], e[3]>>)]
               \/ replies' = replies
      BY <2>7, Zenon DEF sendReply
    <3>2. e[1] \in Transport /\ <<e[2], e[3]>> \in Message
      BY <1>3 DEF Message
    <3>3. Append(replies[e[1]], <<e[2], e[3]>>) \in Seq(Message)
      BY <1>3, <3>2, AddedMessages
    <3>4. UNCHANGED requests
      BY <2>7 DEF sendReply
    <3> QED
      BY <1>3, <3>1, <3>2, <3>3, <3>4, Zenon
  <2>8. CASE ConnectionReset
    <3>1. PICK t \in Transport :
            /\ requests' = [requests EXCEPT ![t] = <<>>]
            /\ \E kept \in {replies[t], <<>>} : replies' = [replies EXCEPT ![t] = kept]
      BY <2>8, Zenon DEF ConnectionReset
    <3>2. UNCHANGED executing
      BY <2>8 DEF ConnectionReset
    <3> QED
      BY <1>3, <3>1, <3>2, Zenon
  <2> QED
    BY <2>2, <2>3, <2>4, <2>5, <2>6, <2>7, <2>8 DEF Next, Attempt, Wait, Events, Network
<1> QED
  BY <1>1, <1>2, <1>4 DEF MessagesOK

(* An invocation at its start.                                             *)
Started(c, again) == [call |-> c, on |-> 0, id |-> 0, step |-> "start", retry |-> again]

(* Such an invocation has its call, and no connection yet.                 *)
LEMMA StartedFields ==
    ASSUME NEW c \in Call, NEW again \in BOOLEAN
    PROVE  /\ Started(c, again) \in Invocation /\ Started(c, again).call = c
           /\ Started(c, again).on = 0 /\ Started(c, again).step = "start" /\ c # 0
<1>1. c # 0 /\ 0 \in 0..MaxTransports /\ 0 \in 0..MaxCalls
  BY Bounds DEF Call
<1> QED
  BY <1>1 DEF Started, Invocation

(* What the steps of an invocation make of it.                             *)
LEMMA CurrentEffect ==
    ASSUME TypeOK, [Next]_vars
    PROVE  \/ callOperation /\ \E again \in BOOLEAN : current' = Started(NextCall, again)
           \/ start
           \/ sendRequest /\ current' = [current EXCEPT !.step = "wait"]
           \/ (startFails \/ sendRequest \/ sendFails \/ waitReply \/ waitFails) /\ current' = NoCall
           \/ (sendFails \/ waitFails) /\ current.retry
              /\ current' = Started(current.call, FALSE)
           \/ (waitOtherReply \/ selectFails \/ handleInput \/ handleClose
               \/ processServerRequest \/ sendReply \/ ConnectionReset \/ UNCHANGED vars)
              /\ current' = current
<1>1. CASE callOperation
  <2>1. PICK kind \in {"sync", "async"} :
          current' = [NoCall EXCEPT !.call = NextCall, !.step = "start",
                                    !.retry = (kind = "sync" /\ transport # 0)]
    BY <1>1, Zenon DEF callOperation
  <2>2. current' = Started(NextCall, kind = "sync" /\ transport # 0)
    BY <2>1, Zenon DEF NoCall, Started
  <2>3. (kind = "sync" /\ transport # 0) \in BOOLEAN
    OBVIOUS
  <2> QED
    BY <1>1, <2>2, <2>3, Zenon
<1>2. CASE start
  BY <1>2
<1>3. CASE startFails
  BY <1>3, Zenon DEF startFails, Ends, Return
<1>4. CASE sendRequest
  BY <1>4, Zenon DEF sendRequest, Return
<1>5. CASE waitReply
  BY <1>5, Zenon DEF waitReply, Ends, Return
<1>6. CASE sendFails \/ waitFails
  <2>1. invokeFails
    BY <1>6 DEF sendFails, waitFails
  <2> QED
    BY <1>6, <2>1, Zenon DEF invokeFails, Retry, Ends, Return, NoCall, Started
<1>7. CASE waitOtherReply \/ selectFails \/ handleInput \/ handleClose
           \/ processServerRequest \/ sendReply \/ ConnectionReset \/ UNCHANGED vars
  BY <1>7, Zenon DEF waitOtherReply, selectFails, handleInput, handleClose, processServerRequest,
              sendReply, ConnectionReset, vars
<1> QED
  BY <1>1, <1>2, <1>3, <1>4, <1>5, <1>6, <1>7, Zenon DEF Next, Attempt, Wait, Events, Network

(* The requests at the server, when it takes one.                          *)
LEMMA ExecutingTaken ==
    ASSUME TypeOK, NEW t \in Transport, NEW q \in Message,
           executing' = executing \cup {<<t, q[1], q[2]>>}
    PROVE  /\ Executing(t)' = Executing(t) \cup {q}
           /\ \A u \in Transport : u # t => Executing(u)' = Executing(u)
<1>1. /\ executing \subseteq Transport \X (0..MaxCalls) \X Call /\ q = <<q[1], q[2]>>
  BY DEF TypeOK, MessagesOK, Message
<1>2. PICK n : n = <<t, q[1], q[2]>>
  BY Zenon
<1>3. n[1] = t /\ <<n[2], n[3]>> = q /\ executing' = executing \cup {n}
  BY <1>1, <1>2
<1>4. Executing(t)' = Executing(t) \cup {q}
  BY <1>3 DEF Executing
<1>5. ASSUME NEW u \in Transport, u # t PROVE Executing(u)' = Executing(u)
  BY <1>3, <1>5 DEF Executing
<1> QED
  BY <1>4, <1>5

(* The requests at the server, when it answers one.                        *)
LEMMA ExecutingAnswered ==
    ASSUME TypeOK, NEW e \in executing, executing' = executing \ {e}
    PROVE  /\ e[1] \in Transport /\ <<e[2], e[3]>> \in Message
           /\ <<e[2], e[3]>> \in Executing(e[1])
           /\ Executing(e[1])' = Executing(e[1]) \ {<<e[2], e[3]>>}
           /\ \A u \in Transport : u # e[1] => Executing(u)' = Executing(u)
<1>1. executing \subseteq Transport \X (0..MaxCalls) \X Call
  BY DEF TypeOK, MessagesOK
<1>2. /\ e[1] \in Transport /\ <<e[2], e[3]>> \in Message /\ <<e[2], e[3]>> \in Executing(e[1])
  BY <1>1 DEF Executing, Message
<1>3. \A d \in executing : d[1] = e[1] /\ d[2] = e[2] /\ d[3] = e[3] => d = e
  BY <1>1
<1>4. Executing(e[1])' = Executing(e[1]) \ {<<e[2], e[3]>>}
  BY <1>3 DEF Executing
<1>5. \A u \in Transport : u # e[1] => Executing(u)' = Executing(u)
  BY DEF Executing
<1> QED
  BY <1>2, <1>4, <1>5

(* What the steps make of the messages of the connections: nothing; a      *)
(* request is sent; what is under way is lost; a reply is read; the server *)
(* takes a request, or sends a reply unless the connection is gone.        *)
Quiet ==
    UNCHANGED <<requests, executing, replies>>

Sent ==
    /\ sendRequest /\ UNCHANGED <<executing, replies>>
    /\ Range(requests'[current.on]) = Range(requests[current.on]) \cup {<<current.id, current.call>>}
    /\ requests' = [requests EXCEPT ![current.on] = Append(@, <<current.id, current.call>>)]

Lost ==
    /\ UNCHANGED executing
    /\ \A t \in Transport : requests'[t] \in {requests[t], <<>>} /\ replies'[t] \in {replies[t], <<>>}

Read(t) ==
    /\ replies[t] # <<>> /\ replies' = [replies EXCEPT ![t] = Tail(@)]
    /\ UNCHANGED <<requests, executing>>

Taken(t) ==
    /\ requests[t] # <<>> /\ requests' = [requests EXCEPT ![t] = Tail(@)] /\ UNCHANGED replies
    /\ executing' = executing \cup {<<t, Head(requests[t])[1], Head(requests[t])[2]>>}

Answered(e) ==
    /\ executing' = executing \ {e} /\ UNCHANGED requests
    /\ \/ UNCHANGED replies
       \/ replies' = [replies EXCEPT ![e[1]] = Append(@, <<e[2], e[3]>>)]

(* Every step does one of these.                                           *)
LEMMA MessagesEffect ==
    ASSUME TypeOK, [Next]_vars
    PROVE  \/ Quiet \/ Sent \/ Lost \/ (\E t \in Transport : Read(t))
           \/ (processServerRequest /\ \E t \in Transport : Taken(t))
           \/ (sendReply /\ \E e \in executing : Answered(e))
<1>1. /\ requests \in [Transport -> Seq(Message)] /\ replies \in [Transport -> Seq(Message)]
  BY DEF TypeOK, MessagesOK
<1>2. CASE callOperation \/ start \/ startFails \/ selectFails \/ UNCHANGED vars
  BY <1>2 DEF Quiet, callOperation, start, startFails, selectFails, vars, envVars
<1>3. CASE sendRequest
  <2> DEFINE q == <<current.id, current.call>>
  <2>1. UNCHANGED <<executing, replies>>
    BY <1>3 DEF sendRequest, envVars
  <2>2. CASE requests' = requests
    BY <2>1, <2>2 DEF Quiet
  <2>3. CASE requests' = [requests EXCEPT ![current.on] = Append(@, q)]
    <3>1. current.on \in Transport /\ q \in Message
      BY <1>3, OnConnection DEF sendRequest
    <3> HIDE DEF q
    <3>2. Range(Append(requests[current.on], q)) = Range(requests[current.on]) \cup {q}
      BY <1>1, <3>1, AddedMessages
    <3>3. requests'[current.on] = Append(requests[current.on], q)
      BY <1>1, <2>3, <3>1
    <3> QED
      BY <1>3, <2>1, <2>3, <3>2, <3>3 DEF Sent, q
  <2> QED
    BY <1>3, <2>2, <2>3 DEF sendRequest
<1>4. CASE sendFails \/ waitFails \/ handleClose
  <2>1. UNCHANGED <<requests, executing>> /\ \E t : replies' = [replies EXCEPT ![t] = <<>>]
    BY <1>4 DEF sendFails, waitFails, handleClose, Deleted, closeConnection, envVars
  <2> QED
    BY <1>1, <2>1 DEF Lost
<1>5. CASE waitReply \/ waitOtherReply
  <2>1. current.on \in Transport
    BY <1>5, OnConnection DEF waitReply, waitOtherReply, Waiting
  <2> QED
    BY <1>5, <2>1, Zenon DEF waitReply, waitOtherReply, envVars, Read
<1>6. CASE handleInput
  BY <1>6, Zenon DEF handleInput, envVars, Read
<1>7. CASE processServerRequest
  BY <1>7, Zenon DEF processServerRequest, Taken
<1>8. CASE sendReply
  BY <1>8, Zenon DEF sendReply, Answered
<1>9. CASE ConnectionReset
  BY <1>1, <1>9 DEF ConnectionReset, Lost
<1> QED
  BY <1>2, <1>3, <1>4, <1>5, <1>6, <1>7, <1>8, <1>9 DEF Next, Attempt, Wait, Events, Network

(* What is on a connection is a request id with its call.                  *)
LEMMA IdsType ==
    ASSUME TypeOK, NEW t \in Transport
    PROVE  Ids(t) \subseteq Message
<1>1. /\ requests[t] \in Seq(Message) /\ replies[t] \in Seq(Message)
      /\ dispatcherTable[t] \subseteq Message
      /\ executing \subseteq Transport \X (0..MaxCalls) \X Call
  BY DEF TypeOK, MessagesOK
<1>2. Range(requests[t]) \subseteq Message /\ Range(replies[t]) \subseteq Message
  BY <1>1 DEF Range
<1>3. Executing(t) \subseteq Message
  BY <1>1 DEF Executing, Message
<1>4. Sending(t) \subseteq Message
  BY OnConnection DEF Sending
<1> QED
  BY <1>1, <1>2, <1>3, <1>4 DEF Ids, Messages

(* A message gets on its way only when it is sent.                         *)
LEMMA MessagesShrink ==
    ASSUME TypeOK, [Next]_vars, NEW t \in Transport
    PROVE  /\ Messages(t)' \subseteq Messages(t) \cup Sending(t)
           /\ ~sendRequest => Messages(t)' \subseteq Messages(t)
<1>1. /\ requests \in [Transport -> Seq(Message)] /\ replies \in [Transport -> Seq(Message)]
  BY DEF TypeOK, MessagesOK
<1>2. CASE Quiet
  BY <1>2 DEF Quiet, Messages, Executing
<1>3. CASE Sent
  <2>1. /\ current.on \in Transport /\ current.step = "send"
    BY <1>3, OnConnection DEF Sent, sendRequest
  <2>2. UNCHANGED <<executing, replies>>
    BY <1>3 DEF Sent
  <2>3. CASE t = current.on
    <3>1. Range(requests'[t]) \subseteq Range(requests[t]) \cup Sending(t)
      BY <1>3, <2>1, <2>3 DEF Sent, Sending
    <3>2. Executing(t)' = Executing(t) /\ replies'[t] = replies[t] /\ sendRequest
      BY <1>3, <2>2 DEF Executing, Sent
    <3> QED
      BY <3>1, <3>2 DEF Messages
  <2>4. CASE t # current.on
    <3>1. requests'[t] = requests[t]
      BY <1>1, <1>3, <2>4 DEF Sent
    <3> QED
      BY <2>2, <3>1 DEF Messages, Executing
  <2> QED
    BY <1>3, <2>3, <2>4 DEF Sent
<1>4. CASE Lost
  <2>1. Range(<<>>) = {}
    BY DEF Range
  <2>2. Executing(t)' = Executing(t)
    BY <1>4 DEF Lost, Executing
  <2>3. Range(requests'[t]) \subseteq Range(requests[t]) /\ Range(replies'[t]) \subseteq Range(replies[t])
    BY <1>4, <2>1 DEF Lost
  <2> QED
    BY <2>2, <2>3 DEF Messages
<1>5. ASSUME NEW u \in Transport, Read(u) PROVE Messages(t)' \subseteq Messages(t)
  <2>1. Range(Tail(replies[u])) \subseteq Range(replies[u])
    BY <1>1, <1>5, TakenMessages DEF Read
  <2>2. replies'[t] = IF t = u THEN Tail(replies[u]) ELSE replies[t]
    BY <1>1, <1>5 DEF Read
  <2>3. UNCHANGED <<requests, executing>>
    BY <1>5 DEF Read
  <2> QED
    BY <2>1, <2>2, <2>3 DEF Messages, Executing
<1>6. ASSUME NEW u \in Transport, Taken(u) PROVE Messages(t)' \subseteq Messages(t)
  <2> DEFINE q == Head(requests[u])
  <2>1. /\ Range(Tail(requests[u])) \subseteq Range(requests[u])
        /\ q \in Range(requests[u]) /\ q \in Message
    BY <1>1, <1>6, TakenMessages DEF Taken
  <2>2. requests'[t] = IF t = u THEN Tail(requests[u]) ELSE requests[t]
    BY <1>1, <1>6 DEF Taken
  <2>3. UNCHANGED replies /\ executing' = executing \cup {<<u, q[1], q[2]>>}
    BY <1>6 DEF Taken
  <2> HIDE DEF q
  <2>4. Executing(t)' = IF t = u THEN Executing(t) \cup {q} ELSE Executing(t)
    BY <2>1, <2>3, ExecutingTaken
  <2> QED
    BY <2>1, <2>2, <2>3, <2>4 DEF Messages
<1>7. ASSUME NEW e \in executing, Answered(e) PROVE Messages(t)' \subseteq Messages(t)
  <2> DEFINE m == <<e[2], e[3]>>
  <2>1. /\ e[1] \in Transport /\ m \in Message /\ m \in Executing(e[1])
        /\ Executing(t)' \subseteq Executing(t)
    BY <1>7, ExecutingAnswered DEF Answered
  <2> HIDE DEF m
  <2>2. replies' = replies \/ replies' = [replies EXCEPT ![e[1]] = Append(@, m)]
    BY <1>7 DEF Answered, m
  <2>3. Range(Append(replies[e[1]], m)) = Range(replies[e[1]]) \cup {m}
    BY <1>1, <2>1, AddedMessages
  <2>4. Range(replies'[t]) \subseteq Range(replies[t]) \cup Executing(t)
    <3>1. CASE replies' = replies
      BY <3>1
    <3>2. CASE replies' = [replies EXCEPT ![e[1]] = Append(@, m)]
      BY <1>1, <2>1, <2>3, <3>2
    <3> QED
      BY <2>2, <3>1, <3>2
  <2>5. UNCHANGED requests
    BY <1>7 DEF Answered
  <2> QED
    BY <2>1, <2>4, <2>5 DEF Messages
<1> QED
  BY <1>2, <1>3, <1>4, <1>5, <1>6, <1>7, MessagesEffect

(* Only Invocation::start() brings a call to a connection.                 *)
LEMMA IdsShrink ==
    ASSUME TypeOK, [Next]_vars, ~start, NEW t \in Transport
    PROVE  Ids(t)' \subseteq Ids(t)
<1>1. Sending(t)' \subseteq Sending(t)
  <2>1. current \in Invocation
    BY DEF TypeOK, CallsOK
  <2>2. ASSUME NEW c, NEW again, current' = Started(c, again) PROVE Sending(t)' = {}
    BY <2>2 DEF Started, Sending
  <2>3. ASSUME current' = NoCall PROVE Sending(t)' = {}
    BY <2>3 DEF NoCall, Sending
  <2>4. ASSUME sendRequest, current' = [current EXCEPT !.step = "wait"]
        PROVE  Sending(t)' = Sending(t)
    <3>1. current.step = "send"
      BY <2>4 DEF sendRequest
    <3>2. /\ current'.step = "wait" /\ current'.on = current.on /\ current'.id = current.id
          /\ current'.call = current.call
      BY <2>1, <2>4 DEF Invocation
    <3> QED
      BY <3>1, <3>2 DEF Sending
  <2>5. ASSUME current' = current PROVE Sending(t)' = Sending(t)
    BY <2>5 DEF Sending
  <2> QED
    BY <2>2, <2>3, <2>4, <2>5, CurrentEffect, Zenon
<1>2. dispatcherTable'[t] \subseteq dispatcherTable[t]
  BY TablesShrink
<1>3. Messages(t)' \subseteq Messages(t) \cup Sending(t)
  BY MessagesShrink
<1> QED
  BY <1>1, <1>2, <1>3 DEF Ids

(* It brings one, with the next request id.                                *)
LEMMA IdsStarted ==
    ASSUME TypeOK, CallsBegun, Dispatchers, start, NEW t \in Transport
    PROVE  /\ t # transport' => Ids(t)' \subseteq Ids(t)
           /\ t = transport' =>
                Ids(t)' \subseteq Ids(t) \cup {<<requestIdGenerator[t], current.call>>}
<1>1. Messages(t)' = Messages(t)
  BY StartEffect DEF Messages, Executing
<1>2. /\ current'.step = "send" /\ current'.on = transport' /\ current'.call = current.call
      /\ current'.id = requestIdGenerator[transport']
  BY StartEffect
<1>3. Sending(t)' = IF t = transport' THEN {<<requestIdGenerator[t], current.call>>} ELSE {}
  BY <1>2 DEF Sending
<1>4. /\ t # transport' => dispatcherTable'[t] = dispatcherTable[t]
      /\ t = transport' =>
           dispatcherTable'[t] \subseteq dispatcherTable[t] \cup {<<requestIdGenerator[t], current.call>>}
  BY StartIds
<1> QED
  BY <1>1, <1>3, <1>4 DEF Ids

(* A request id is that of one call.                                       *)
LEMMA IdsUniqueStep ==
    ASSUME TypeOK, CallsBegun, Dispatchers, IdsUnique, CallsPlaced, [Next]_vars
    PROVE  IdsUnique'
<1> SUFFICES ASSUME NEW t \in Transport
             PROVE  /\ \A p \in Ids(t)' : p[1] < requestIdGenerator'[t]
                    /\ \A p, q \in Ids(t)' : p[1] = q[1] <=> p[2] = q[2]
  BY DEF IdsUnique
<1>1. /\ \A p \in Ids(t) : p[1] < requestIdGenerator[t]
      /\ \A p, q \in Ids(t) : p[1] = q[1] <=> p[2] = q[2]
  BY DEF IdsUnique
<1>2. CASE ~start
  <2>1. Ids(t)' \subseteq Ids(t)
    BY <1>2, IdsShrink
  <2>2. UNCHANGED requestIdGenerator
    BY <1>2, Zenon DEF Next, Attempt, Wait, Events, Network, callOperation, startFails, sendRequest,
       sendFails, waitReply, waitOtherReply, waitFails, selectFails, handleInput, handleClose,
       processServerRequest, sendReply, ConnectionReset, vars, connVars
  <2> QED
    BY <1>1, <2>1, <2>2
<1>3. CASE start
  <2>1. CASE t # transport'
    <3>1. Ids(t)' \subseteq Ids(t)
      BY <1>3, <2>1, IdsStarted
    <3>2. requestIdGenerator'[t] = requestIdGenerator[t]
      BY <1>3, <2>1, StartEffect DEF TypeOK, MessagesOK
    <3> QED
      BY <1>1, <3>1, <3>2
  <2>2. CASE t = transport'
    <3> DEFINE id == requestIdGenerator[t]
    <3>1. Ids(t)' \subseteq Ids(t) \cup {<<id, current.call>>}
      BY <1>3, <2>2, IdsStarted
    <3>2. requestIdGenerator'[t] = id + 1 /\ id \in Nat
      BY <1>3, <2>2, StartEffect, Bounds DEF TypeOK, MessagesOK
    <3>3. \A q \in Ids(t) : q[1] \in Nat /\ q[1] < id
      BY <1>1, IdsType DEF Message
    <3>4. \A q \in Ids(t) : q[2] # current.call
      <4>1. CASE t = transport /\ t \in valid
        <5>1. current.step = "start"
          BY <1>3, StartEffect
        <5>2. Nowhere(current.call, {t})
          BY <4>1, <5>1 DEF CallsPlaced, Nowhere
        <5> QED
          BY <5>2 DEF Nowhere
      <4>2. CASE t = made + 1
        <5>1. id = 0
          BY <4>2 DEF Dispatchers, TypeOK, ConnectionsOK
        <5> QED
          BY <3>3, <5>1
      <4> QED
        BY <1>3, <2>2, <4>1, <4>2, StartEffect
    <3> HIDE DEF id
    <3>5. <<id, current.call>>[1] = id /\ <<id, current.call>>[2] = current.call
      OBVIOUS
    <3>6. \A p \in Ids(t)' : p[1] < requestIdGenerator'[t]
      BY <3>1, <3>2, <3>3, <3>5
    <3>7. ASSUME NEW p \in Ids(t)', NEW q \in Ids(t)' PROVE p[1] = q[1] <=> p[2] = q[2]
      <4>1. CASE p \in Ids(t) /\ q \in Ids(t)
        BY <1>1, <4>1
      <4>2. CASE p \notin Ids(t) /\ q \notin Ids(t)
        BY <3>1, <4>2
      <4>3. CASE p \notin Ids(t) /\ q \in Ids(t)
        BY <3>1, <3>2, <3>3, <3>4, <3>5, <4>3
      <4>4. CASE p \in Ids(t) /\ q \notin Ids(t)
        BY <3>1, <3>2, <3>3, <3>4, <3>5, <4>4
      <4> QED
        BY <4>1, <4>2, <4>3, <4>4
    <3> QED
      BY <3>6, <3>7
  <2> QED
    BY <2>1, <2>2
<1> QED
  BY <1>2, <1>3

(* A message that is under way is so in one place.                         *)
LEMMA MessagesOnceStep ==
    ASSUME TypeOK, CallsBegun, Dispatchers, IdsUnique, MessagesOnce, [Next]_vars
    PROVE  MessagesOnce'
<1> DEFINE Once(t) ==
        /\ IsInjective(requests[t]) /\ IsInjective(replies[t])
        /\ \A p \in Range(requests[t]) : p \notin Executing(t) /\ p \notin Range(replies[t])
        /\ \A p \in Executing(t) : p \notin Range(replies[t])
<1>1. /\ requests \in [Transport -> Seq(Message)] /\ replies \in [Transport -> Seq(Message)]
  BY DEF TypeOK, MessagesOK
<1>2. \A t \in Transport : Once(t)
  BY DEF MessagesOnce
<1>3. ASSUME NEW t \in Transport PROVE Once(t)'
  <2>1. Once(t)
    BY <1>2
  <2>2. CASE Quiet
    BY <2>1, <2>2 DEF Quiet, Executing
  <2>3. CASE Sent
    <3>1. current.on \in Transport /\ <<current.id, current.call>> \in Message
          /\ current.step = "send" /\ UNCHANGED <<executing, replies>>
      BY <2>3, OnConnection DEF Sent, sendRequest
    <3>2. CASE t # current.on
      <4>1. requests'[t] = requests[t]
        BY <1>1, <2>3, <3>2 DEF Sent
      <4> QED
        BY <2>1, <3>1, <4>1 DEF Executing
    <3>3. CASE t = current.on
      <4> DEFINE q == <<current.id, current.call>>
      <4>1. requests'[t] = Append(requests[t], q)
        BY <1>1, <2>3, <3>1, <3>3 DEF Sent
      <4>2. q \notin Range(requests[t]) /\ q \notin Executing(t) /\ q \notin Range(replies[t])
        BY <3>1, <3>3 DEF MessagesOnce, Messages
      <4>3. q \in Message
        BY <3>1
      <4> HIDE DEF q
      <4>4. /\ Range(Append(requests[t], q)) = Range(requests[t]) \cup {q}
            /\ IsInjective(Append(requests[t], q))
        BY <1>1, <2>1, <4>2, <4>3, AddedMessages
      <4>5. Executing(t)' = Executing(t) /\ replies'[t] = replies[t]
        BY <3>1 DEF Executing
      <4> QED
        BY <2>1, <4>1, <4>2, <4>4, <4>5
    <3> QED
      BY <3>2, <3>3
  <2>4. CASE Lost
    <3>1. Range(<<>>) = {} /\ IsInjective(<<>>)
      BY DEF Range, IsInjective
    <3>2. Executing(t)' = Executing(t)
      BY <2>4 DEF Lost, Executing
    <3> QED
      BY <2>1, <2>4, <3>1, <3>2 DEF Lost
  <2>5. ASSUME NEW u \in Transport, Read(u) PROVE Once(t)'
    <3>1. /\ Range(Tail(replies[u])) \subseteq Range(replies[u])
          /\ IsInjective(Tail(replies[u]))
      BY <1>1, <1>2, <2>5, TakenMessages DEF Read
    <3>2. replies'[t] = IF t = u THEN Tail(replies[u]) ELSE replies[t]
      BY <1>1, <2>5 DEF Read
    <3>3. requests'[t] = requests[t] /\ Executing(t)' = Executing(t)
      BY <2>5 DEF Read, Executing
    <3> QED
      BY <2>1, <3>1, <3>2, <3>3
  <2>6. ASSUME NEW u \in Transport, Taken(u) PROVE Once(t)'
    <3> DEFINE q == Head(requests[u])
    <3>1. /\ Range(Tail(requests[u])) \subseteq Range(requests[u]) /\ IsInjective(Tail(requests[u]))
          /\ q \in Range(requests[u]) /\ q \in Message /\ q \notin Range(Tail(requests[u]))
      BY <1>1, <1>2, <2>6, TakenMessages DEF Taken
    <3>2. requests'[t] = IF t = u THEN Tail(requests[u]) ELSE requests[t]
      BY <1>1, <2>6 DEF Taken
    <3>3. replies'[t] = replies[t] /\ executing' = executing \cup {<<u, q[1], q[2]>>}
      BY <2>6 DEF Taken
    <3> HIDE DEF q
    <3>4. Executing(t)' = IF t = u THEN Executing(t) \cup {q} ELSE Executing(t)
      BY <3>1, <3>3, ExecutingTaken
    <3> QED
      BY <2>1, <3>1, <3>2, <3>3, <3>4
  <2>7. ASSUME NEW e \in executing, Answered(e) PROVE Once(t)'
    <3> DEFINE m == <<e[2], e[3]>>
    <3>1. /\ e[1] \in Transport /\ m \in Message /\ m \in Executing(e[1])
          /\ Executing(t)' = IF t = e[1] THEN Executing(t) \ {m} ELSE Executing(t)
      BY <2>7, ExecutingAnswered DEF Answered
    <3> HIDE DEF m
    <3>2. requests'[t] = requests[t] /\
          (replies' = replies \/ replies' = [replies EXCEPT ![e[1]] = Append(@, m)])
      BY <2>7 DEF Answered, m
    <3>3. CASE replies' = replies
      BY <2>1, <3>1, <3>2, <3>3
    <3>4. CASE replies' = [replies EXCEPT ![e[1]] = Append(@, m)]
      <4>1. CASE t # e[1]
        BY <1>1, <2>1, <3>1, <3>2, <3>4, <4>1
      <4>2. CASE t = e[1]
        <5>1. replies'[t] = Append(replies[t], m)
          BY <1>1, <3>4, <4>2
        <5>2. m \notin Range(replies[t]) /\ m \notin Range(requests[t])
          BY <2>1, <3>1, <4>2
        <5>3. /\ Range(Append(replies[t], m)) = Range(replies[t]) \cup {m}
              /\ IsInjective(Append(replies[t], m))
          BY <1>1, <2>1, <3>1, <5>2, AddedMessages
        <5> QED
          BY <2>1, <3>1, <3>2, <4>2, <5>1, <5>2, <5>3
      <4> QED
        BY <4>1, <4>2
    <3> QED
      BY <3>2, <3>3, <3>4
  <2> QED
    BY <2>2, <2>3, <2>4, <2>5, <2>6, <2>7, MessagesEffect, Zenon
<1>4. ASSUME current'.step = "send"
      PROVE  (<<current.id, current.call>> \notin Messages(current.on))'
  <2> SUFFICES ASSUME NEW t, t = current'.on
               PROVE  <<current'.id, current'.call>> \notin Messages(t)'
    BY DEF Messages, Executing
  <2>1. CASE start
    <3>1. current'.id = requestIdGenerator[t] /\ t \in Transport
      BY <2>1, StartEffect
    <3>2. Messages(t)' = Messages(t)
      BY <2>1, StartEffect DEF Messages, Executing
    <3>3. \A p \in Messages(t) : p[1] < requestIdGenerator[t]
      BY <3>1 DEF IdsUnique, Ids
    <3>4. requestIdGenerator[t] \in Nat
      BY <3>1 DEF TypeOK, MessagesOK
    <3>5. <<current'.id, current'.call>>[1] = requestIdGenerator[t]
      BY <3>1
    <3> QED
      BY <3>2, <3>3, <3>4, <3>5
  <2>2. CASE ~start
    <3>1. current' = current
      BY <1>4, <2>2, CurrentEffect DEF NoCall, Started, TypeOK, CallsOK, Invocation
    <3>2. ~sendRequest
      BY <1>4, <3>1 DEF sendRequest, Return, NoCall, TypeOK, CallsOK, Invocation
    <3>3. t \in Transport /\ <<current.id, current.call>> \notin Messages(t)
      BY <1>4, <3>1, OnConnection DEF MessagesOnce
    <3>4. Messages(t)' \subseteq Messages(t)
      BY <3>2, <3>3, MessagesShrink
    <3> QED
      BY <3>1, <3>3, <3>4
  <2> QED
    BY <2>1, <2>2
<1> QED
  BY <1>3, <1>4 DEF MessagesOnce

(* Tables and generators of connections that are not there.                *)
LEMMA DispatchersStep ==
    ASSUME TypeOK, CallsBegun, Dispatchers, [Next]_vars
    PROVE  Dispatchers'
<1>1. /\ made \in Nat /\ valid \subseteq 1..made /\ handlers \in [Transport -> 0..made]
      /\ dispatcherTable \in [Transport -> SUBSET Message]
      /\ requestIdGenerator \in [Transport -> 0..MaxCalls]
  BY DEF TypeOK, ConnectionsOK, MessagesOK
<1>2. CASE start
  <2>1. /\ valid \subseteq valid' /\ transport' \in valid' /\ transport' \in Transport
        /\ \A t \in Transport : t > made' => t > made /\ t # transport'
        /\ requestIdGenerator' =
             [requestIdGenerator EXCEPT ![transport'] = requestIdGenerator[transport'] + 1]
    BY <1>1, <1>2, StartEffect DEF Transport
  <2>2. \A t \in Transport : t # transport' => dispatcherTable'[t] = dispatcherTable[t]
    BY <1>2, StartIds
  <2>3. \A t \in Transport : t \notin valid' => dispatcherTable'[t] = {}
    BY <2>1, <2>2 DEF Dispatchers
  <2>4. \A t \in Transport : t > made' => requestIdGenerator'[t] = 0
    BY <1>1, <2>1 DEF Dispatchers
  <2> QED
    BY <2>3, <2>4 DEF Dispatchers
<1>3. CASE handleClose
  <2>1. PICK t : valid' = valid \ {t} /\ dispatcherTable' = [dispatcherTable EXCEPT ![t] = {}]
    BY <1>3, Zenon DEF handleClose, Deleted
  <2>2. UNCHANGED <<made, requestIdGenerator>>
    BY <1>3 DEF handleClose
  <2> QED
    BY <1>1, <2>1, <2>2 DEF Dispatchers
<1>4. CASE ~start /\ ~handleClose
  <2>1. UNCHANGED <<made, valid, requestIdGenerator>>
    BY <1>4, Zenon DEF Next, Attempt, Wait, Events, Network, callOperation, startFails, sendRequest,
       sendFails, waitReply, waitOtherReply, waitFails, selectFails, handleInput,
       processServerRequest, sendReply, ConnectionReset, vars, connVars
  <2>2. \A t \in Transport : dispatcherTable'[t] \subseteq dispatcherTable[t]
    BY <1>4, TablesShrink
  <2> QED
    BY <2>1, <2>2 DEF Dispatchers
<1> QED
  BY <1>2, <1>3, <1>4

(* dispatchReply() finds the call that the reply is for.                   *)
LEMMA DispatchedCall ==
    ASSUME TypeOK, IdsUnique, NEW t \in Transport, replies[t] # <<>>,
           NEW x, dispatchReply(t, Head(replies[t]), x)
    PROVE  /\ x \in Call /\ Head(replies[t]) \in Message /\ Head(replies[t]) \in Range(replies[t])
           /\ Head(replies[t])[2] = x /\ Head(replies[t]) \in dispatcherTable[t]
           /\ reply' = [reply EXCEPT ![x] = x]
<1> DEFINE m == Head(replies[t])
<1>1. replies[t] \in Seq(Message) /\ dispatcherTable[t] \subseteq Message
  BY DEF TypeOK, MessagesOK
<1>2. m \in Message /\ m \in Range(replies[t])
  BY <1>1, TakenMessages
<1>3. <<m[1], x>> \in dispatcherTable[t] /\ reply' = [reply EXCEPT ![x] = m[2]]
  BY DEF dispatchReply
<1> HIDE DEF m
<1>4. x \in Call /\ m = <<m[1], m[2]>>
  BY <1>1, <1>2, <1>3 DEF Message
<1>5. m \in Ids(t) /\ <<m[1], x>> \in Ids(t)
  BY <1>2, <1>3 DEF Ids, Messages
<1>6. <<m[1], x>>[1] = m[1] /\ <<m[1], x>>[2] = x
  OBVIOUS
<1>7. m[2] = x
  BY <1>5, <1>6 DEF IdsUnique
<1> QED
  BY <1>2, <1>3, <1>4, <1>7, Zenon DEF m

(* So a call is given its own reply.                                       *)
LEMMA OwnReplyStep ==
    ASSUME TypeOK, IdsUnique, OwnReply, [Next]_vars
    PROVE  OwnReply'
<1>1. reply \in [Call -> Call \cup {0}]
  BY DEF TypeOK, CallsOK
<1>2. ASSUME NEW t \in Transport, replies[t] # <<>>, NEW x, dispatchReply(t, Head(replies[t]), x)
      PROVE  OwnReply'
  <2>1. reply' = [reply EXCEPT ![x] = x]
    BY <1>2, DispatchedCall, Zenon
  <2> QED
    BY <1>1, <2>1 DEF OwnReply
<1>3. CASE waitReply \/ waitOtherReply
  <2>1. current.on \in Transport
    BY <1>3, OnConnection DEF waitReply, waitOtherReply, Waiting
  <2>2. /\ replies[current.on] # <<>>
        /\ \E x : dispatchReply(current.on, Head(replies[current.on]), x)
    BY <1>3 DEF waitReply, waitOtherReply
  <2> QED
    BY <1>2, <2>1, <2>2
<1>4. CASE handleInput
  BY <1>2, <1>4 DEF handleInput
<1>5. CASE ~(waitReply \/ waitOtherReply \/ handleInput)
  <2>1. UNCHANGED reply
    BY <1>5, Zenon DEF Next, Attempt, Wait, Events, Network, callOperation, start, startFails,
       sendRequest, sendFails, waitFails, selectFails, handleClose, processServerRequest,
       sendReply, ConnectionReset, vars
  <2> QED
    BY <2>1 DEF OwnReply
<1> QED
  BY <1>3, <1>4, <1>5

-----------------------------------------------------------------------------
(* The calls themselves, which are made in their order: the lemmas that    *)
(* rest on there being a first one among those not made yet.               *)

INSTANCE WellFoundedInduction

(* Min of a set of numbers that is not empty is its least element.         *)
LEMMA MinLeast ==
    ASSUME NEW S \in SUBSET Nat, S # {}
    PROVE  Min(S) \in S /\ \A n \in S : Min(S) <= n
<1> DEFINE R == OpToRel(<, Nat)
<1>1. PICK x \in S : \A y \in S : ~(<<y, x>> \in R)
  BY NatLessThanWellFounded, WFMin, Zenon
<1>2. \A y \in Nat : y < x => <<y, x>> \in R
  BY SMT DEF OpToRel
<1> HIDE DEF R
<1>3. \A y \in S : ~(y < x)
  BY <1>1, <1>2, Zenon
<1>4. \A y \in S : x <= y
  BY <1>3
<1> QED
  BY <1>4, Zenon DEF Min

(* The stub's next call is the first that was not made.                    *)
LEMMA NextCallIsFirst ==
    ASSUME callOperation
    PROVE  /\ NextCall \in Call /\ result[NextCall] = "none"
           /\ \A c \in Call : result[c] = "none" => NextCall <= c
<1> DEFINE S == {c \in Call : result[c] = "none"}
<1>1. S # {} /\ S \in SUBSET Nat
  BY DEF callOperation, Call
<1> HIDE DEF S
<1>2. Min(S) \in S /\ \A c \in S : Min(S) <= c
  BY <1>1, MinLeast
<1> QED
  BY <1>2 DEF S, NextCall

(* The calls keep their types.                                             *)
LEMMA CallsStep ==
    ASSUME TypeOK, CallsBegun, Dispatchers, [Next]_vars
    PROVE  CallsOK'
<1>1. /\ current \in Invocation /\ (current.call = 0) = (current.step = "idle")
      /\ current.step \in {"send", "wait"} => current.on \in valid
  BY DEF TypeOK, CallsOK
<1>2. /\ current' \in Invocation /\ (current'.call = 0) = (current'.step = "idle")
      /\ current'.step \in {"send", "wait"} => current'.on \in valid'
  <2> DEFINE Goal == /\ current \in Invocation /\ (current.call = 0) = (current.step = "idle")
                     /\ current.step \in {"send", "wait"} => current.on \in valid
  <2>1. ASSUME NEW c \in Call, NEW again \in BOOLEAN, current' = Started(c, again)
        PROVE  Goal'
    BY <2>1, StartedFields
  <2>2. CASE start
    <3>1. /\ current'.call = current.call /\ current'.on \in valid' /\ current'.step = "send"
          /\ current.step = "start"
      BY <2>2, StartEffect
    <3>2. /\ current' = [current EXCEPT !.on = transport', !.id = requestIdGenerator[transport'],
                                        !.step = "send"]
          /\ transport' \in 0..MaxTransports
      BY <2>2, StartEffect, Bounds DEF start, Transport
    <3>3. requestIdGenerator[transport'] \in 0..MaxCalls
      BY <2>2, StartIds
    <3>4. current' \in Invocation
      BY <1>1, <3>2, <3>3, Zenon DEF Invocation
    <3> QED
      BY <1>1, <3>1, <3>4
  <2>3. ASSUME current' = NoCall PROVE Goal'
    BY <2>3, Bounds DEF NoCall, Invocation
  <2>4. ASSUME sendRequest, current' = [current EXCEPT !.step = "wait"] PROVE Goal'
    <3>1. current.step = "send" /\ UNCHANGED valid
      BY <2>4 DEF sendRequest, connVars
    <3> QED
      BY <1>1, <2>4, <3>1 DEF Invocation
  <2>5. ASSUME sendFails \/ waitFails, current' = Started(current.call, FALSE)
        PROVE  Goal'
    <3>1. current.call \in Call
      BY <1>1, <2>5 DEF sendFails, waitFails, Waiting, Invocation
    <3> QED
      BY <2>1, <2>5, <3>1, Zenon
  <2>6. ASSUME waitOtherReply \/ selectFails \/ handleInput \/ handleClose
               \/ processServerRequest \/ sendReply \/ ConnectionReset \/ UNCHANGED vars,
               current' = current
        PROVE  Goal'
    <3>1. CASE handleClose
      <4>1. current = NoCall
        BY <3>1 DEF handleClose, Selected, HandleEvents
      <4> QED
        BY <2>3, <2>6, <4>1
    <3>2. CASE ~handleClose
      <4>1. UNCHANGED valid
        BY <2>6, <3>2, Zenon DEF waitOtherReply, selectFails, handleInput, processServerRequest,
           sendReply, ConnectionReset, vars, connVars
      <4> QED
        BY <1>1, <2>6, <4>1
    <3> QED
      BY <3>1, <3>2
  <2> QED
    BY <2>1, <2>2, <2>3, <2>4, <2>5, <2>6, CurrentEffect, NextCallIsFirst, Zenon
<1>3. status' \in {"up", "replyReceived", "select"}
  <2>1. status \in {"up", "replyReceived", "select"}
    BY DEF TypeOK, CallsOK
  <2> QED
    BY <2>1, Zenon DEF Next, Attempt, Wait, Events, Network, callOperation, start, startFails,
       sendRequest, sendFails, waitReply, waitOtherReply, waitFails, selectFails, handleInput,
       handleClose, processServerRequest, sendReply, ConnectionReset, vars
<1>4. executed' \in [Call -> Nat]
  <2>1. executed \in [Call -> Nat]
    BY DEF TypeOK, CallsOK
  <2>2. UNCHANGED executed \/ \E c : executed' = [executed EXCEPT ![c] = @ + 1]
    BY Zenon DEF Next, Attempt, Wait, Events, Network, callOperation, start, startFails,
       sendRequest, sendFails, waitReply, waitOtherReply, waitFails, selectFails, handleInput,
       handleClose, processServerRequest, sendReply, ConnectionReset, vars, envVars
  <2> QED
    BY <2>1, <2>2
<1>5. reply' \in [Call -> Call \cup {0}]
  <2>1. reply \in [Call -> Call \cup {0}] /\ replies \in [Transport -> Seq(Message)]
    BY DEF TypeOK, CallsOK, MessagesOK
  <2>2. ASSUME NEW t \in Transport, replies[t] # <<>>, NEW x,
               dispatchReply(t, Head(replies[t]), x)
        PROVE  reply' \in [Call -> Call \cup {0}]
    <3>1. Head(replies[t]) \in Message
      BY <2>1, <2>2, TakenMessages
    <3> QED
      BY <2>1, <2>2, <3>1, Zenon DEF dispatchReply, Message
  <2>3. CASE waitReply \/ waitOtherReply
    <3>1. current.on \in Transport
      BY <2>3, OnConnection DEF waitReply, waitOtherReply, Waiting
    <3>2. /\ replies[current.on] # <<>>
          /\ \E x : dispatchReply(current.on, Head(replies[current.on]), x)
      BY <2>3 DEF waitReply, waitOtherReply
    <3> QED
      BY <2>2, <3>1, <3>2
  <2>4. CASE handleInput
    BY <2>2, <2>4, Zenon DEF handleInput
  <2>5. CASE ~(waitReply \/ waitOtherReply \/ handleInput)
    <3>1. UNCHANGED reply
      BY <2>5, Zenon DEF Next, Attempt, Wait, Events, Network, callOperation, start, startFails,
         sendRequest, sendFails, waitFails, selectFails, handleClose, processServerRequest,
         sendReply, ConnectionReset, vars
    <3> QED
      BY <2>1, <3>1
  <2> QED
    BY <2>3, <2>4, <2>5
<1>6. result' \in [Call -> Result]
  <2>1. result \in [Call -> Result]
    BY DEF TypeOK, CallsOK
  <2>2. ASSUME NEW x, NEW res \in Result, result' = [result EXCEPT ![x] = res]
        PROVE  result' \in [Call -> Result]
    BY <2>1, <2>2, Zenon
  <2>3. CASE callOperation
    <3>1. \E kind \in {"sync", "async"} : result' = [result EXCEPT ![NextCall] = kind]
      BY <2>3, Zenon DEF callOperation
    <3> QED
      BY <2>2, <3>1, Zenon DEF Result
  <2>4. CASE startFails \/ waitReply
    <3>1. \E res \in {"unsent", "failed", "ok"} : result' = [result EXCEPT ![current.call] = res]
      BY <2>4 DEF startFails, waitReply, Ends
    <3> QED
      BY <2>2, <3>1, Zenon DEF Result
  <2>5. CASE sendFails \/ waitFails
    <3>1. invokeFails
      BY <2>5 DEF sendFails, waitFails
    <3>2. \/ UNCHANGED result
          \/ \E res \in {"unsent", "failed"} : result' = [result EXCEPT ![current.call] = res]
      BY <3>1 DEF invokeFails, Retry, Ends
    <3> QED
      BY <2>1, <2>2, <3>2 DEF Result
  <2>6. CASE waitOtherReply \/ handleInput
    <3>1. \E x : result' = [result EXCEPT ![x] = "answered"]
      BY <2>6 DEF waitOtherReply, handleInput
    <3> QED
      BY <2>2, <3>1, Zenon DEF Result
  <2>7. CASE handleClose
    <3>1. \E t : result' = [x \in Call |-> IF IsAsync(x) /\ \E e \in dispatcherTable[t] : e[2] = x
                                          THEN "dropped" ELSE result[x]]
      BY <2>7, Zenon DEF handleClose, Deleted
    <3> QED
      BY <2>1, <3>1 DEF Result
  <2>8. CASE start \/ sendRequest \/ selectFails \/ processServerRequest \/ sendReply
             \/ ConnectionReset \/ UNCHANGED vars
    <3>1. UNCHANGED result
      BY <2>8 DEF start, sendRequest, selectFails, processServerRequest, sendReply,
                  ConnectionReset, vars
    <3> QED
      BY <2>1, <3>1
  <2> QED
    BY <2>3, <2>4, <2>5, <2>6, <2>7, <2>8 DEF Next, Attempt, Wait, Events, Network
<1>7. maxWaitTime' \in BOOLEAN
  <2>1. maxWaitTime \in BOOLEAN
    BY DEF TypeOK, CallsOK
  <2>2. UNCHANGED maxWaitTime
    BY Zenon DEF Next, Attempt, Wait, Events, Network, callOperation, start, startFails,
       sendRequest, sendFails, waitReply, waitOtherReply, waitFails, selectFails, handleInput,
       handleClose, processServerRequest, sendReply, ConnectionReset, vars, envVars
  <2> QED
    BY <2>1, <2>2
<1> QED
  BY <1>2, <1>3, <1>4, <1>5, <1>6, <1>7 DEF CallsOK

(* A call's result is not forgotten.                                       *)
LEMMA ResultEffect ==
    ASSUME TypeOK, [Next]_vars, NEW c \in Call
    PROVE  /\ result'[c] = "none" => result[c] = "none"
           /\ result'[c] \in {"async", "unsent"} => result[c] \in {"none", "async", "unsent"}
<1>1. result \in [Call -> Result]
  BY DEF TypeOK, CallsOK
<1>2. CASE callOperation
  <2>1. \E kind \in {"sync", "async"} : result' = [result EXCEPT ![NextCall] = kind]
    BY <1>2, Zenon DEF callOperation
  <2>2. result[NextCall] = "none"
    BY <1>2, NextCallIsFirst
  <2> QED
    BY <1>1, <2>1, <2>2
<1>3. CASE startFails \/ waitReply
  <2>1. \/ result' = [result EXCEPT ![current.call] = "unsent"] /\ result[current.call] = "async"
        \/ \E res \in {"failed", "ok"} : result' = [result EXCEPT ![current.call] = res]
    BY <1>3 DEF startFails, waitReply, Ends, IsAsync
  <2> QED
    BY <1>1, <2>1
<1>4. CASE sendFails \/ waitFails
  <2>1. invokeFails
    BY <1>4 DEF sendFails, waitFails
  <2>2. \/ UNCHANGED result
        \/ result' = [result EXCEPT ![current.call] = "unsent"] /\ result[current.call] = "async"
        \/ result' = [result EXCEPT ![current.call] = "failed"]
    BY <2>1 DEF invokeFails, Retry, Ends, IsAsync
  <2> QED
    BY <1>1, <2>2
<1>5. CASE waitOtherReply \/ handleInput
  <2>1. \E x : result' = [result EXCEPT ![x] = "answered"]
    BY <1>5 DEF waitOtherReply, handleInput
  <2> QED
    BY <1>1, <2>1
<1>6. CASE handleClose
  <2>1. \E t : result' = [x \in Call |-> IF IsAsync(x) /\ \E e \in dispatcherTable[t] : e[2] = x
                                       THEN "dropped" ELSE result[x]]
    BY <1>6, Zenon DEF handleClose, Deleted
  <2> QED
    BY <1>1, <2>1
<1>7. CASE start \/ sendRequest \/ selectFails \/ processServerRequest \/ sendReply
           \/ ConnectionReset \/ UNCHANGED vars
  BY <1>7 DEF start, sendRequest, selectFails, processServerRequest, sendReply,
              ConnectionReset, vars
<1> QED
  BY <1>2, <1>3, <1>4, <1>5, <1>6, <1>7 DEF Next, Attempt, Wait, Events, Network

(* A call comes to a connection once, and an asynchronous one to one only. *)
LEMMA CallsPlacedStep ==
    ASSUME TypeOK, CallsBegun, Dispatchers, CallsPlaced, [Next]_vars
    PROVE  CallsPlaced'
<1>1. ASSUME NEW c \in Call, result'[c] = "none" PROVE Nowhere(c, Transport)'
  <2>1. result[c] = "none" /\ Nowhere(c, Transport)
    BY <1>1, ResultEffect DEF CallsPlaced
  <2>2. CASE ~start
    BY <2>1, <2>2, IdsShrink DEF Nowhere
  <2>3. CASE start
    <3>1. current.call # c
      BY <2>1, <2>3, StartEffect DEF CallsBegun
    <3> QED
      BY <2>1, <2>3, <3>1, IdsStarted DEF Nowhere
  <2> QED
    BY <2>2, <2>3
<1>2. ASSUME current'.step = "start"
      PROVE  Nowhere(current.call, IF IsAsync(current.call) THEN Transport
                                   ELSE valid \cap {transport})'
  <2>1. ~start
    BY <1>2, StartEffect
  <2>2. CASE callOperation
    <3>1. NextCall \in Call /\ result[NextCall] = "none" /\ current'.call = NextCall
      BY <2>2, NextCallIsFirst, Zenon DEF callOperation, NoCall
    <3>2. Nowhere(NextCall, Transport)
      BY <3>1 DEF CallsPlaced
    <3>3. \A t \in Transport : \A p \in Ids(t)' : p[2] # current'.call
      BY <2>1, <3>1, <3>2, IdsShrink DEF Nowhere
    <3>4. valid' \subseteq Transport
      BY <2>2, Bounds DEF callOperation, connVars, TypeOK, ConnectionsOK, Transport
    <3> QED
      BY <3>3, <3>4 DEF Nowhere
  <2>3. CASE (sendFails \/ waitFails) /\ current.retry /\ current' = Started(current.call, FALSE)
    <3>1. transport' = 0 /\ UNCHANGED result
      BY <2>3, Zenon DEF sendFails, waitFails, invokeFails, Retry
    <3>2. UNCHANGED valid
      BY <2>3 DEF sendFails, waitFails
    <3>3. 0 \notin valid'
      BY <3>2 DEF TypeOK, ConnectionsOK
    <3>4. current'.call = current.call /\ result'[current'.call] = "sync"
      BY <2>3, <3>1 DEF Started, CallsBegun
    <3> QED
      BY <3>1, <3>3, <3>4 DEF Nowhere, IsAsync
  <2>4. CASE (waitOtherReply \/ selectFails \/ handleInput \/ handleClose
             \/ processServerRequest \/ sendReply \/ ConnectionReset \/ UNCHANGED vars)
             /\ current' = current
    <3>1. current.step = "start"
      BY <1>2, <2>4
    <3>2. UNCHANGED <<result, transport, valid>>
      <4>1. ~waitOtherReply /\ ~selectFails
        BY <3>1 DEF NoCall, waitOtherReply, Waiting, selectFails, HandleEvents
      <4>2. ~handleInput /\ ~handleClose
        BY <3>1 DEF NoCall, handleInput, handleClose, HandleEvents, Selected
      <4> QED
        BY <2>4, <4>1, <4>2 DEF processServerRequest, sendReply, ConnectionReset, vars, connVars
    <3>3. valid \subseteq Transport
      BY Bounds DEF TypeOK, ConnectionsOK, Transport
    <3>4. Nowhere(current.call, IF IsAsync(current.call) THEN Transport
                                ELSE valid \cap {transport})
      BY <3>1 DEF CallsPlaced
    <3> QED
      BY <2>1, <2>4, <3>2, <3>3, <3>4, IdsShrink DEF Nowhere, IsAsync
  <2>5. ASSUME current' = NoCall \/ current' = [current EXCEPT !.step = "wait"]
        PROVE  FALSE
    BY <1>2, <2>5 DEF NoCall, TypeOK, CallsOK, Invocation
  <2> QED
    BY <2>1, <2>2, <2>3, <2>4, <2>5, CurrentEffect, Zenon
<1>3. ASSUME NEW t \in Transport, NEW u \in Transport, NEW p \in Ids(t)', NEW q \in Ids(u)',
             p[2] = q[2], result'[p[2]] \in {"async", "unsent"}
      PROVE  t = u
  <2>1. CASE ~start
    <3>1. p \in Ids(t) /\ q \in Ids(u)
      BY <2>1, IdsShrink
    <3>2. p[2] \in Call
      BY <3>1, IdsType DEF Message
    <3>3. result[p[2]] \in {"async", "unsent"}
      <4>1. result[p[2]] # "none"
        BY <3>1, <3>2 DEF CallsPlaced, Nowhere
      <4> QED
        BY <1>3, <3>2, <4>1, ResultEffect
    <3> QED
      BY <1>3, <3>1, <3>3, Zenon DEF CallsPlaced
  <2>2. CASE start
    <3> DEFINE new == <<requestIdGenerator[transport'], current.call>>
    <3>1. /\ p \in Ids(t) \/ (p = new /\ t = transport')
          /\ q \in Ids(u) \/ (q = new /\ u = transport')
      BY <2>2, IdsStarted
    <3>2. result' = result /\ current.step = "start"
      BY <2>2, StartEffect
    <3>3. CASE p \in Ids(t) /\ q \in Ids(u)
      BY <1>3, <3>2, <3>3 DEF CallsPlaced
    <3>4. CASE p = new \/ q = new
      <4>1. p[2] = current.call /\ q[2] = current.call
        BY <1>3, <3>4
      <4>2. CASE IsAsync(current.call)
        <5>1. Nowhere(current.call, Transport)
          BY <3>2, <4>2 DEF CallsPlaced
        <5> QED
          BY <3>1, <4>1, <5>1 DEF Nowhere
      <4>3. CASE ~IsAsync(current.call)
        BY <1>3, <3>2, <4>1, <4>3 DEF IsAsync, CallsBegun
      <4> QED
        BY <4>2, <4>3
    <3> QED
      BY <3>1, <3>3, <3>4
  <2> QED
    BY <2>1, <2>2
<1> QED
  BY <1>1, <1>2, <1>3 DEF CallsPlaced

(* The call under way, and the order of the calls.                         *)
LEMMA CallsBegunStep ==
    ASSUME TypeOK, CallsBegun, Dispatchers, [Next]_vars
    PROVE  CallsBegun'
<1>1. /\ result \in [Call -> Result] /\ current \in Invocation
      /\ (current.call = 0) = (current.step = "idle")
      /\ requestIdGenerator \in [Transport -> 0..MaxCalls]
      /\ transport \in Nat /\ (transport # 0 => transport \in Transport)
  <2>1. transport \in 0..made /\ made \in 0..MaxTransports
    BY DEF TypeOK, ConnectionsOK
  <2>2. transport \in Nat /\ (transport # 0 => transport \in Transport)
    BY <2>1, Bounds DEF Transport
  <2> QED
    BY <2>2 DEF TypeOK, CallsOK, MessagesOK
<1>2. CASE callOperation
  <2>1. PICK kind \in {"sync", "async"} :
          /\ result' = [result EXCEPT ![NextCall] = kind]
          /\ current' = [NoCall EXCEPT !.call = NextCall, !.step = "start",
                                       !.retry = (kind = "sync" /\ transport # 0)]
    BY <1>2, Zenon DEF callOperation
  <2>2. /\ NextCall \in Call /\ result[NextCall] = "none" /\ current.call = 0
        /\ \A c \in Call : result[c] = "none" => NextCall <= c
        /\ UNCHANGED <<requestIdGenerator, transport>>
    BY <1>2, NextCallIsFirst, Zenon DEF callOperation, NoCall, connVars
  <2>3. /\ current'.call = NextCall /\ current'.step = "start"
        /\ current'.retry => kind = "sync"
    BY <2>1, Zenon DEF NoCall
  <2>4. result'[NextCall] = kind
    BY <1>1, <2>1, <2>2
  <2>5. \A c \in Call : result'[c] = "sync" => c = NextCall
    BY <1>1, <2>1, <2>2 DEF CallsBegun, Call
  <2>6. \A c \in Call : result'[c] = "none" =>
          NextCall < c /\ \A t \in Transport : requestIdGenerator[t] < c
    BY <1>1, <2>1, <2>2 DEF CallsBegun, Call
  <2>7. transport # 0 => requestIdGenerator[transport] < NextCall
    BY <1>1, <2>2 DEF CallsBegun
  <2> QED
    BY <2>1, <2>2, <2>3, <2>4, <2>5, <2>6, <2>7 DEF CallsBegun
<1>3. CASE start
  <2>1. /\ current'.call = current.call /\ current'.step = "send" /\ result' = result
        /\ current'.on = transport'
        /\ current'.retry = current.retry /\ current.step = "start"
        /\ requestIdGenerator' =
             [requestIdGenerator EXCEPT ![transport'] = requestIdGenerator[transport'] + 1]
    BY <1>3, StartEffect
  <2>2. requestIdGenerator[transport'] < current.call /\ current.call \in Nat
        /\ requestIdGenerator[transport'] \in Nat
    BY <1>3, StartIds DEF Call
  <2>3. \A c \in Call : result'[c] = "none" =>
          current'.call < c /\ \A t \in Transport : requestIdGenerator'[t] < c
    BY <1>1, <2>1, <2>2 DEF CallsBegun, Call
  <2> QED
    BY <2>1, <2>3 DEF CallsBegun
<1>4. ASSUME ~callOperation, NEW c \in Call, result'[c] = "sync" PROVE result[c] = "sync"
  <2>1. CASE startFails \/ waitReply
    <3>1. \E res \in {"unsent", "failed", "ok"} : result' = [result EXCEPT ![current.call] = res]
      BY <2>1 DEF startFails, waitReply, Ends
    <3> QED
      BY <1>1, <1>4, <3>1
  <2>2. CASE sendFails \/ waitFails
    <3>1. invokeFails
      BY <2>2 DEF sendFails, waitFails
    <3>2. \/ UNCHANGED result
          \/ \E res \in {"unsent", "failed"} : result' = [result EXCEPT ![current.call] = res]
      BY <3>1 DEF invokeFails, Retry, Ends
    <3> QED
      BY <1>1, <1>4, <3>2
  <2>3. CASE waitOtherReply \/ handleInput
    <3>1. \E x : result' = [result EXCEPT ![x] = "answered"]
      BY <2>3 DEF waitOtherReply, handleInput
    <3> QED
      BY <1>1, <1>4, <3>1
  <2>4. CASE handleClose
    <3>1. \E t : result' = [x \in Call |-> IF IsAsync(x) /\ \E e \in dispatcherTable[t] : e[2] = x
                                         THEN "dropped" ELSE result[x]]
      BY <2>4, Zenon DEF handleClose, Deleted
    <3> QED
      BY <1>1, <1>4, <3>1
  <2>5. CASE start \/ sendRequest \/ selectFails \/ processServerRequest \/ sendReply
             \/ ConnectionReset \/ UNCHANGED vars
    BY <1>4, <2>5, Zenon DEF start, sendRequest, selectFails, processServerRequest, sendReply,
                ConnectionReset, vars
  <2> QED
    BY <1>4, <2>1, <2>2, <2>3, <2>4, <2>5 DEF Next, Attempt, Wait, Events, Network
<1>5. ASSUME ~callOperation, ~start, current'.call \in {0, current.call}
      PROVE  \A c \in Call : result'[c] = "none" =>
               current'.call < c /\ \A t \in Transport : requestIdGenerator'[t] < c
  <2>1. UNCHANGED requestIdGenerator
    BY <1>5, Zenon DEF Next, Attempt, Wait, Events, Network, startFails, sendRequest,
       sendFails, waitReply, waitOtherReply, waitFails, selectFails, handleInput, handleClose,
       processServerRequest, sendReply, ConnectionReset, vars, connVars
  <2>2. \A c \in Call : result'[c] = "none" => result[c] = "none"
    BY ResultEffect
  <2> QED
    BY <1>5, <2>1, <2>2 DEF CallsBegun, Call
<1>6. ASSUME startFails \/ sendRequest \/ sendFails \/ waitReply \/ waitFails, current' = NoCall
      PROVE  CallsBegun'
  <2>1. /\ current'.call = 0 /\ current'.step = "idle" /\ ~current'.retry
    BY <1>6 DEF NoCall
  <2>2. current.step # "idle" /\ current.call \in Call
    BY <1>1, <1>6 DEF startFails, sendRequest, sendFails, waitReply, waitFails, Waiting, Invocation
  <2>3. result'[current.call] # "sync"
    <3>1. CASE sendRequest
      <4>1. IsAsync(current.call) /\ result' = result
        BY <1>6, <3>1 DEF sendRequest, NoCall, TypeOK, CallsOK, Invocation
      <4> QED
        BY <4>1 DEF IsAsync
    <3>2. CASE startFails \/ waitReply
      <4>1. \E res \in {"unsent", "failed", "ok"} : result' = [result EXCEPT ![current.call] = res]
        BY <3>2 DEF startFails, waitReply, Ends
      <4> QED
        BY <1>1, <2>2, <4>1
    <3>3. CASE sendFails \/ waitFails
      <4>1. invokeFails
        BY <3>3 DEF sendFails, waitFails
      <4>2. current.retry => current'.step = "start"
        BY <4>1, Zenon DEF invokeFails, Retry, NoCall
      <4>3. \E res \in {"unsent", "failed"} : result' = [result EXCEPT ![current.call] = res]
        BY <2>1, <4>1, <4>2, Zenon DEF invokeFails, Ends
      <4> QED
        BY <1>1, <2>2, <4>3
    <3> QED
      BY <1>6, <3>1, <3>2, <3>3
  <2>4. ~callOperation /\ ~start
    BY <2>1, <2>2, StartEffect DEF callOperation, NoCall
  <2>5. \A c \in Call : result'[c] # "sync"
    BY <1>4, <2>3, <2>4 DEF CallsBegun
  <2> QED
    BY <1>5, <1>6, <2>1, <2>4, <2>5 DEF CallsBegun
<1>7. ASSUME sendRequest, current' = [current EXCEPT !.step = "wait"] PROVE CallsBegun'
  <2>1. /\ current'.call = current.call /\ current'.step = "wait" /\ result' = result
        /\ current'.on = current.on /\ transport' = transport
        /\ current'.retry = current.retry /\ current.step = "send"
    BY <1>1, <1>7 DEF Invocation, sendRequest
  <2>2. ~callOperation /\ ~start
    BY <1>7 DEF sendRequest, callOperation, NoCall, start
  <2>3. ~IsAsync(current.call)
    BY <1>7, <2>1 DEF sendRequest, Return, NoCall
  <2>4. result'[current'.call] = "sync"
    BY <2>1, <2>3 DEF IsAsync, CallsBegun
  <2> QED
    BY <1>5, <2>1, <2>2, <2>4 DEF CallsBegun
<1>8. ASSUME sendFails \/ waitFails, current.retry, current' = Started(current.call, FALSE)
      PROVE  CallsBegun'
  <2>1. current'.call = current.call /\ current'.step = "start" /\ ~current'.retry
    BY <1>8 DEF Started
  <2>2. result' = result /\ transport' = 0
    BY <1>8, Zenon DEF sendFails, waitFails, invokeFails, Retry
  <2>3. ~callOperation /\ ~start
    <3>1. current.step \in {"send", "wait"}
      BY <1>8 DEF sendFails, waitFails, Waiting
    <3>2. callOperation => current.step = "idle"
      BY DEF callOperation, NoCall
    <3> QED
      BY <3>1, <3>2, StartEffect
  <2>4. result[current.call] = "sync"
    BY <1>8 DEF CallsBegun
  <2> QED
    BY <1>5, <2>1, <2>2, <2>3, <2>4 DEF CallsBegun
<1>9. ASSUME waitOtherReply \/ selectFails \/ handleInput \/ handleClose
             \/ processServerRequest \/ sendReply \/ ConnectionReset \/ UNCHANGED vars,
             current' = current
      PROVE  CallsBegun'
  <2>1. ~callOperation /\ ~start
    <3>1. callOperation => current.step = "idle" /\ current'.step = "start"
      BY DEF callOperation, NoCall
    <3> QED
      BY <1>9, <3>1, StartEffect
  <2>2. CASE current.step = "idle"
    <3>1. current = NoCall /\ ~current.retry
      BY <2>2 DEF CallsBegun, NoCall
    <3>2. \A c \in Call : result'[c] = "sync" => current.call = c
      BY <1>4, <2>1 DEF CallsBegun
    <3> QED
      BY <1>5, <1>9, <2>1, <2>2, <3>1, <3>2 DEF CallsBegun
  <2>3. CASE current.step # "idle"
    <3>1. waitOtherReply \/ processServerRequest \/ sendReply \/ ConnectionReset \/ UNCHANGED vars
      BY <1>9, <2>3, SMTT(30) DEF NoCall, selectFails, handleInput, handleClose, Selected, HandleEvents
    <3>2. UNCHANGED <<transport, requestIdGenerator>>
      BY <3>1, Zenon DEF waitOtherReply, processServerRequest, sendReply, ConnectionReset, vars, connVars
    <3>3. current.call \in Call
      BY <1>1, <2>3 DEF Invocation
    <3>4. result'[current.call] = result[current.call]
      <4>1. CASE waitOtherReply
        <5>1. \E x \in Call \ {current.call} : result' = [result EXCEPT ![x] = "answered"]
          BY <4>1, Zenon DEF waitOtherReply
        <5> QED
          BY <1>1, <3>3, <5>1
      <4>2. CASE ~waitOtherReply
        BY <3>1, <4>2 DEF processServerRequest, sendReply, ConnectionReset, vars
      <4> QED
        BY <4>1, <4>2
    <3>5. \A c \in Call : result'[c] = "sync" => current.call = c
      BY <1>4, <2>1 DEF CallsBegun
    <3>6. \A c \in Call : result'[c] = "none" =>
             current'.call < c /\ \A t \in Transport : requestIdGenerator'[t] < c
      BY <1>5, <1>9, <2>1
    <3> QED
      BY <1>9, <2>3, <3>2, <3>4, <3>5, <3>6 DEF CallsBegun
  <2> QED
    BY <2>2, <2>3
<1> QED
  BY <1>2, <1>3, <1>6, <1>7, <1>8, <1>9, CurrentEffect, Zenon
=============================================================================
