--------------------------- MODULE RpcClientProofs ---------------------------
(***************************************************************************)
(* The invariant of RpcClient, for any number of calls, connections and    *)
(* resets: replies go to the calls they are for, no dispatcher outlives    *)
(* its call, nothing is under way on a connection for a call that has      *)
(* returned, and the retry executes a call twice at most.                  *)
(***************************************************************************)
EXTENDS RpcMessageProofs

(* The message read from a connection is under way no more.                *)
LEMMA ReadOnce ==
    ASSUME TypeOK, MessagesOnce, NEW t \in Transport, Read(t)
    PROVE  Head(replies[t]) \notin Messages(t)'
<1>1. replies \in [Transport -> Seq(Message)]
  BY DEF TypeOK, MessagesOK
<1>2. /\ Head(replies[t]) \in Range(replies[t]) /\ Head(replies[t]) \notin Range(Tail(replies[t]))
  BY <1>1, TakenMessages DEF Read, MessagesOnce
<1>3. replies'[t] = Tail(replies[t]) /\ requests'[t] = requests[t] /\ Executing(t)' = Executing(t)
  BY <1>1 DEF Read, Executing
<1> QED
  BY <1>2, <1>3 DEF Messages, MessagesOnce

(* The call whose reply comes outside its own invocation is asynchronous,  *)
(* and nothing else of it is anywhere.                                     *)
LEMMA AnsweredOnce ==
    ASSUME TypeOK, IdsUnique, CallsPlaced, MessagesOnce, Dispatchers, NoDanglingDispatcher,
           NEW t \in Transport, Read(t),
           NEW x, x # current.call, dispatchReply(t, Head(replies[t]), x),
           dispatcherTable' = Erased(t, Head(replies[t]))
    PROVE  /\ \A u \in Transport : \A p \in Messages(u)' : p \in Messages(u) => p[2] # x
           /\ \A u \in Transport : \A e \in dispatcherTable'[u] : e[2] # x
<1> DEFINE m == Head(replies[t])
<1>1. /\ x \in Call /\ m \in Message /\ m \in Range(replies[t])
      /\ m[2] = x /\ m \in dispatcherTable[t]
  BY DispatchedCall DEF Read
<1>2. result[x] \in {"async", "unsent"}
  BY <1>1 DEF Dispatchers, NoDanglingDispatcher
<1>3. m \notin Messages(t)'
  BY ReadOnce
<1>4. /\ \A e \in Erased(t, m)[t] : e[1] # m[1]
      /\ \A u \in Transport : Erased(t, m)[u] \subseteq dispatcherTable[u]
  BY ErasedEffect
<1> HIDE DEF m
<1>5. ASSUME NEW u \in Transport, NEW p \in Ids(u), p[2] = x PROVE u = t /\ p[1] = m[1] /\ p = m
  <2>1. m \in Ids(t)
    BY <1>1 DEF Ids
  <2>2. u = t
    BY <1>1, <1>2, <1>5, <2>1 DEF CallsPlaced
  <2>3. p[1] = m[1]
    BY <1>1, <1>5, <2>1, <2>2 DEF IdsUnique
  <2>4. p \in Message
    BY <1>5, IdsType
  <2> QED
    BY <1>1, <1>5, <2>2, <2>3, <2>4 DEF Message
<1>6. \A u \in Transport : \A p \in Messages(u)' : p \in Messages(u) => p[2] # x
  BY <1>3, <1>5 DEF Ids
<1>7. dispatcherTable' = Erased(t, m)
  BY DEF m
<1>8. \A u \in Transport : \A e \in dispatcherTable'[u] : e[2] # x
  BY <1>4, <1>5, <1>7 DEF Ids
<1> QED
  BY <1>6, <1>8

(* The reply of another call is that of an asynchronous one.               *)
LEMMA OtherReply ==
    ASSUME TypeOK, CallsBegun, waitOtherReply \/ handleInput
    PROVE  \E t \in Transport, x \in Call :
             /\ x # current.call /\ Read(t) /\ dispatchReply(t, Head(replies[t]), x)
             /\ dispatcherTable' = Erased(t, Head(replies[t]))
             /\ result' = [result EXCEPT ![x] = "answered"]
             /\ UNCHANGED <<current, transport, valid>>
<1>1. CASE waitOtherReply
  <2>1. current.on \in Transport
    BY <1>1, OnConnection DEF waitOtherReply, Waiting
  <2> QED
    BY <1>1, <2>1, Zenon DEF waitOtherReply, envVars, Read
<1>2. CASE handleInput
  <2>1. current.call = 0
    BY <1>2 DEF handleInput, Selected, HandleEvents, NoCall
  <2>2. \A x \in Call : x # 0
    BY DEF Call
  <2> QED
    BY <1>2, <2>1, <2>2, Zenon DEF handleInput, envVars, Read
<1> QED
  BY <1>1, <1>2

(* A transport deleted, and the calls that its table drops.                *)
LEMMA DeletedCalls ==
    ASSUME TypeOK, CallsPlaced, handleClose
    PROVE  /\ current = NoCall /\ current' = current /\ transport' = transport /\ valid' \subseteq valid
           /\ \A u \in valid' : \A p \in Ids(u) :
                p[2] \in Call /\ IsAsync(p[2]) => result'[p[2]] = "async"
           /\ \A c \in Call : result[c] # "async" => result'[c] = result[c]
<1>1. PICK f \in Transport : /\ Deleted(handlers[f]) /\ handlers[f] # 0
  BY DEF handleClose, Selected
<1> DEFINE t == handlers[f]
<1>2. /\ valid' = valid \ {t}
      /\ result' = [x \in Call |-> IF IsAsync(x) /\ \E e \in dispatcherTable[t] : e[2] = x
                                   THEN "dropped" ELSE result[x]]
  BY <1>1 DEF Deleted
<1>3. t \in Transport
  <2>1. handlers[f] \in 0..made /\ made \in 0..MaxTransports
    BY DEF TypeOK, ConnectionsOK
  <2> QED
    BY <1>1, <2>1, Bounds DEF Transport
<1>4. valid \subseteq Transport
  <2>1. made \in 0..MaxTransports /\ valid \subseteq 1..made
    BY DEF TypeOK, ConnectionsOK
  <2> QED
    BY <2>1, Bounds DEF Transport
<1>5. current = NoCall /\ current' = current /\ transport' = transport
  BY DEF handleClose, Selected, HandleEvents
<1> HIDE DEF t
<1>6. ASSUME NEW u \in valid', NEW p \in Ids(u), p[2] \in Call, IsAsync(p[2])
      PROVE  result'[p[2]] = "async"
  <2>1. ASSUME NEW e \in dispatcherTable[t], e[2] = p[2] PROVE FALSE
    <3>1. u \in Transport /\ u # t /\ e \in Ids(t) /\ result[e[2]] = "async"
      BY <1>2, <1>4, <1>6, <2>1 DEF Ids, IsAsync
    <3> QED
      BY <1>3, <1>6, <2>1, <3>1 DEF CallsPlaced
  <2> QED
    BY <1>2, <1>6, <2>1 DEF IsAsync
<1>7. \A c \in Call : result[c] # "async" => result'[c] = result[c]
  BY <1>2 DEF IsAsync
<1> QED
  BY <1>2, <1>5, <1>6, <1>7

(* Who a step leaves alone: a call that has begun and is not the current   *)
(* one keeps its result, unless its reply or its transport comes to an end.*)
LEMMA OthersKeep ==
    ASSUME TypeOK, [Next]_vars, ~waitOtherReply, ~handleInput, ~handleClose,
           NEW c \in Call, c # current.call, result[c] # "none"
    PROVE  result'[c] = result[c]
<1>1. result \in [Call -> Result]
  BY DEF TypeOK, CallsOK
<1>2. CASE callOperation
  BY <1>1, <1>2, NextCallIsFirst, Zenon DEF callOperation
<1>3. CASE start \/ sendRequest \/ selectFails \/ Network \/ UNCHANGED vars
  BY <1>3, Zenon DEF start, sendRequest, selectFails, Network, processServerRequest, sendReply,
              ConnectionReset, vars
<1>4. CASE startFails
  BY <1>1, <1>4 DEF startFails, Ends
<1>5. CASE waitReply
  BY <1>1, <1>5 DEF waitReply, Ends
<1>6. CASE sendFails \/ waitFails
  BY <1>1, <1>6, FailsEffect DEF sendFails, waitFails, Ends
<1> QED
  BY <1>2, <1>3, <1>4, <1>5, <1>6 DEF Next, Attempt, Wait, Events

(* What becomes of the current call: it goes on, or it ends with its       *)
(* dispatchers removed, or it was asynchronous and they stay.              *)
LEMMA CurrentGoesOn ==
    ASSUME TypeOK, CallsBegun, [Next]_vars, ~start, current.call # 0, ~waitOtherReply,
           ~handleInput, ~handleClose
    PROVE  \/ current'.call = current.call /\ result' = result
           \/ /\ current' = NoCall /\ result'[current.call] \in {"async", "unsent"}
              /\ (sendRequest => result'[current.call] = "async")
           \/ /\ current' = NoCall /\ ~IsAsync(current.call)
              /\ startFails \/ sendFails \/ waitFails \/ waitReply
              /\ \A t \in Transport : \A e \in dispatcherTable'[t] : e[2] # current.call
<1>1. /\ result \in [Call -> Result] /\ current.call \in Call /\ current \in Invocation
      /\ dispatcherTable \in [Transport -> SUBSET Message]
  BY DEF TypeOK, CallsOK, Invocation, MessagesOK
<1>2. ~callOperation
  BY DEF callOperation, NoCall
<1>3. CASE selectFails \/ Network \/ UNCHANGED vars
  BY <1>3 DEF selectFails, Network, processServerRequest, sendReply, ConnectionReset, vars
<1>4. CASE sendRequest
  BY <1>1, <1>4 DEF sendRequest, Return, IsAsync, Invocation
<1>5. CASE startFails
  <2>1. Ends(dispatcherTable, IF IsAsync(current.call) THEN "unsent" ELSE "failed")
    BY <1>5 DEF startFails
  <2>2. /\ current' = NoCall
        /\ result' = [result EXCEPT ![current.call] =
                        IF IsAsync(current.call) THEN "unsent" ELSE "failed"]
        /\ ~IsAsync(current.call) =>
             \A t \in Transport : \A e \in dispatcherTable'[t] : e[2] # current.call
    BY <1>1, <2>1, EndsEffect
  <2>3. ~sendRequest
    BY <1>5 DEF startFails, sendRequest
  <2> QED
    BY <1>1, <1>5, <2>2, <2>3
<1>6. CASE sendFails \/ waitFails
  <2>1. CASE current.retry
    BY <1>6, <2>1, FailsEffect, Zenon DEF sendFails, waitFails, NoCall
  <2>2. CASE ~current.retry
    <3>1. Ends(dispatcherTable, IF IsAsync(current.call) THEN "unsent" ELSE "failed")
      BY <1>6, <2>2, FailsEffect DEF sendFails, waitFails
    <3>2. /\ current' = NoCall
          /\ result' = [result EXCEPT ![current.call] =
                          IF IsAsync(current.call) THEN "unsent" ELSE "failed"]
          /\ ~IsAsync(current.call) =>
               \A t \in Transport : \A e \in dispatcherTable'[t] : e[2] # current.call
      BY <1>1, <3>1, EndsEffect
    <3>3. ~sendRequest
      <4>1. result[current.call] \in {"sync", "async"}
        BY <1>6 DEF sendFails, waitFails, Waiting, CallsBegun
      <4>2. result'[current.call] \notin {"sync", "async"}
        BY <1>1, <3>2
      <4> QED
        BY <4>1, <4>2 DEF sendRequest
    <3> QED
      BY <1>1, <1>6, <3>2, <3>3
  <2> QED
    BY <2>1, <2>2
<1>7. CASE waitReply
  <2>1. current.on \in Transport /\ ~IsAsync(current.call)
    BY <1>7, OnConnection DEF waitReply, Waiting, CallsBegun, IsAsync
  <2> DEFINE m == Head(replies[current.on])
  <2>2. Ends(Erased(current.on, m), "ok")
    BY <1>7 DEF waitReply
  <2>3. Erased(current.on, m) \in [Transport -> SUBSET Message]
    BY <2>1, ErasedEffect
  <2> HIDE DEF m
  <2>4. current' = NoCall
        /\ \A t \in Transport : \A e \in dispatcherTable'[t] : e[2] # current.call
    BY <2>1, <2>2, <2>3, EndsEffect
  <2> QED
    BY <1>7, <2>1, <2>4
<1> QED
  BY <1>2, <1>3, <1>4, <1>5, <1>6, <1>7 DEF Next, Attempt, Wait, Events

(* Nothing is under way on t for a call that has returned.                 *)
NothingLate(t) ==
    \A p \in Messages(t) : p[2] = current.call \/ IsAsync(p[2])

(* That is what NoLateReply says of the connection of the proxy.           *)
LEMMA NoLateReplyIs == NoLateReply <=> (transport \in valid => NothingLate(transport))
<1> DEFINE U == {q[2] : q \in Range(requests[transport]) \cup Range(replies[transport])}
                \cup {e[3] : e \in {d \in executing : d[1] = transport}}
<1>1. ASSUME NEW p \in Messages(transport) PROVE p[2] \in U
  <2>1. CASE p \in Range(requests[transport]) \cup Range(replies[transport])
    BY <2>1
  <2>2. CASE p \in Executing(transport)
    <3>1. PICK e \in {d \in executing : d[1] = transport} : p = <<e[2], e[3]>>
      BY <2>2 DEF Executing
    <3> QED
      BY <3>1
  <2> QED
    BY <2>1, <2>2 DEF Messages
<1>2. ASSUME NEW c \in U PROVE \E p \in Messages(transport) : p[2] = c
  <2>1. CASE \E p \in Range(requests[transport]) \cup Range(replies[transport]) : p[2] = c
    BY <2>1 DEF Messages
  <2>2. CASE \E e \in {d \in executing : d[1] = transport} : e[3] = c
    <3>1. PICK e \in {d \in executing : d[1] = transport} : e[3] = c
      BY <2>2
    <3>2. <<e[2], e[3]>> \in Messages(transport)
      BY <3>1 DEF Messages, Executing
    <3> QED
      BY <3>1, <3>2
  <2> QED
    BY <2>1, <2>2
<1>3. NoLateReply <=> (transport \in valid => \A c \in U : c = current.call \/ IsAsync(c))
  BY DEF NoLateReply
<1> HIDE DEF U
<1> QED
  BY <1>1, <1>2, <1>3 DEF NothingLate

(* The same in the next state.                                             *)
LEMMA NoLateReplyIsNext ==
    NoLateReply' <=> (transport' \in valid' => \A p \in Messages(transport)' :
                                                 p[2] = current'.call \/ IsAsync(p[2])')
<1> DEFINE U == {q[2] : q \in Range(requests'[transport']) \cup Range(replies'[transport'])}
                \cup {e[3] : e \in {d \in executing' : d[1] = transport'}}
<1>1. ASSUME NEW p \in Messages(transport)' PROVE p[2] \in U
  <2>1. CASE p \in Range(requests'[transport']) \cup Range(replies'[transport'])
    BY <2>1
  <2>2. CASE p \in Executing(transport)'
    <3>1. PICK e \in {d \in executing' : d[1] = transport'} : p = <<e[2], e[3]>>
      BY <2>2 DEF Executing
    <3> QED
      BY <3>1
  <2> QED
    BY <2>1, <2>2 DEF Messages
<1>2. ASSUME NEW c \in U PROVE \E p \in Messages(transport)' : p[2] = c
  <2>1. CASE \E p \in Range(requests'[transport']) \cup Range(replies'[transport']) : p[2] = c
    BY <2>1 DEF Messages
  <2>2. CASE \E e \in {d \in executing' : d[1] = transport'} : e[3] = c
    <3>1. PICK e \in {d \in executing' : d[1] = transport'} : e[3] = c
      BY <2>2
    <3>2. <<e[2], e[3]>> \in Messages(transport)'
      BY <3>1 DEF Messages, Executing
    <3> QED
      BY <3>1, <3>2
  <2> QED
    BY <2>1, <2>2
<1>3. NoLateReply' <=> (transport' \in valid' => \A c \in U : c = current'.call \/ IsAsync(c)')
  BY DEF NoLateReply, IsAsync
<1> HIDE DEF U
<1> QED
  BY <1>1, <1>2, <1>3

(* The reply that a synchronous call reads is all that there was of it on  *)
(* the connection.                                                         *)
LEMMA RepliedOnce ==
    ASSUME TypeOK, IdsUnique, MessagesOnce, CallsBegun, waitReply, NEW t, t = transport,
           NEW p \in Messages(t), p \in Messages(t)'
    PROVE  p[2] # current.call
<1> DEFINE m == Head(replies[t])
<1>1. t = current.on /\ t \in Transport
  BY OnConnection DEF waitReply, Waiting, CallsBegun
<1>2. replies[t] # <<>> /\ dispatchReply(t, m, current.call) /\ Read(t)
  BY <1>1 DEF waitReply, Read, envVars
<1>3. m \in Message /\ m \in Range(replies[t]) /\ m[2] = current.call
  BY <1>1, <1>2, DispatchedCall, Zenon
<1>4. m \notin Messages(t)'
  BY <1>1, <1>2, ReadOnce
<1> HIDE DEF m
<1>5. p \in Ids(t) /\ m \in Ids(t) /\ p \in Message
  <2>1. p \in Ids(t) /\ m \in Ids(t)
    BY <1>3 DEF Ids, Messages
  <2> QED
    BY <1>1, <2>1, IdsType
<1>6. ASSUME p[2] = current.call PROVE FALSE
  <2>1. p[1] = m[1] /\ p[2] = m[2]
    BY <1>1, <1>3, <1>5, <1>6 DEF IdsUnique
  <2>2. p = m
    BY <1>3, <1>5, <2>1 DEF Message
  <2> QED
    BY <1>4, <2>2
<1> QED
  BY <1>6

(* Executing takes the only request of the call from the connection.       *)
LEMMA PendingTaken ==
    ASSUME TypeOK, IdsUnique, MessagesOnce, NEW t \in Transport, Taken(t),
           NEW q, q = Head(requests[t])
    PROVE  /\ q \in Message /\ t \in Pending(q[2]) /\ t \notin Pending(q[2])'
           /\ \A c : Pending(c)' \subseteq Pending(c)
<1> DEFINE s == requests[t]
<1>1. requests \in [Transport -> Seq(Message)] /\ s \in Seq(Message) /\ s # <<>>
  BY DEF TypeOK, MessagesOK, Taken
<1>2. IsInjective(s)
  BY DEF MessagesOnce
<1>3. /\ requests'[t] = Tail(s)
      /\ \A u \in Transport : u # t => requests'[u] = requests[u]
  BY <1>1 DEF Taken
<1>4. Tail(s) \in Seq(Message) /\ q \in Message /\ q \in Range(s) /\ Range(Tail(s)) \subseteq Range(s)
      /\ q \notin Range(Tail(s))
  <2> HIDE DEF s
  <2> QED
    BY <1>1, <1>2, TakenMessages DEF s
<1>5. ASSUME NEW p \in Range(Tail(s)), p[2] = q[2] PROVE FALSE
  <2>1. p \in Ids(t) /\ q \in Ids(t) /\ p \in Message
    <3>1. p \in Ids(t) /\ q \in Ids(t)
      BY <1>4, <1>5 DEF Ids, Messages
    <3> QED
      BY <3>1, IdsType
  <2> HIDE DEF s
  <2>2. p[1] = q[1]
    BY <1>5, <2>1 DEF IdsUnique
  <2>3. p = q
    <3>1. p \in Message /\ q \in Message /\ p[1] = q[1] /\ p[2] = q[2]
      BY <1>4, <1>5, <2>1, <2>2
    <3> QED
      BY <3>1 DEF Message
  <2> QED
    BY <1>4, <1>5, <2>3
<1>6. t \in Pending(q[2])
  BY <1>4 DEF Pending
<1>7. t \notin Pending(q[2])'
  BY <1>3, <1>5 DEF Pending
<1>8. \A c : Pending(c)' \subseteq Pending(c)
  BY <1>3, <1>4 DEF Pending
<1> QED
  BY <1>4, <1>6, <1>7, <1>8

(* What a call may cost never falls, and grows with the request it sends.  *)
LEMMA SentOfStep ==
    ASSUME TypeOK, CallsBegun, IdsUnique, CallsPlaced, Dispatchers, NoDanglingDispatcher,
           [Next]_vars, NEW c \in Call
    PROVE  /\ SentOf(c) \in Nat /\ SentOf(c)' \in Nat /\ SentOf(c)' >= SentOf(c)
           /\ sendRequest /\ c = current.call => SentOf(c)' >= SentOf(c) + 1
<1>1. /\ result \in [Call -> Result] /\ current \in Invocation
      /\ (current.call = 0) = (current.step = "idle") /\ c # 0
  BY DEF TypeOK, CallsOK, Call
<1>2. SentOf(c) \in {0, 1, 2} /\ SentOf(c)' \in {0, 1, 2}
  BY SMTT(30) DEF SentOf
<1>3. result[c] = "sync" => current.call = c /\ current.step # "idle"
  BY <1>1 DEF CallsBegun
<1>4. CASE callOperation
  <2>1. /\ result' \in {[result EXCEPT ![NextCall] = "sync"], [result EXCEPT ![NextCall] = "async"]}
        /\ current.call = 0 /\ current.step = "idle"
        /\ current'.call = NextCall /\ NextCall \in Call /\ result[NextCall] = "none"
    BY <1>4, NextCallIsFirst, Zenon DEF callOperation, NoCall
  <2>2. CASE c = NextCall
    BY <1>2, <1>4, <2>1, <2>2 DEF SentOf, sendRequest
  <2>3. CASE c # NextCall
    <3>1. result'[c] = result[c] /\ result[c] # "sync" /\ ~sendRequest
      BY <1>1, <1>3, <2>1, <2>3 DEF sendRequest
    <3> QED
      BY <1>1, <1>2, <2>1, <2>3, <3>1, SMTT(30) DEF SentOf
  <2> QED
    BY <2>2, <2>3
<1>5. CASE start
  <2>1. /\ result' = result /\ current'.call = current.call /\ current'.retry = current.retry
        /\ current.step = "start" /\ current'.step = "send" /\ ~sendRequest
    BY <1>5, StartEffect DEF sendRequest
  <2>2. SentOf(c)' = SentOf(c)
    BY <2>1 DEF SentOf
  <2> QED
    BY <1>2, <2>1, <2>2
<1>6. CASE sendRequest
  <2>1. result' = result /\ current.step = "send" /\ result[current.call] \in {"sync", "async"}
    BY <1>6 DEF sendRequest, CallsBegun
  <2>2. CASE c = current.call /\ IsAsync(c)
    <3>1. current'.call = 0 /\ current'.step = "idle"
      BY <1>6, <2>2 DEF sendRequest, Return, NoCall
    <3> QED
      BY <1>1, <2>1, <2>2, <3>1, SMTT(30) DEF SentOf, IsAsync
  <2>3. CASE c = current.call /\ ~IsAsync(c)
    <3>1. current'.step = "wait" /\ current'.retry = current.retry /\ result[c] = "sync"
      BY <1>1, <1>6, <2>1, <2>3 DEF sendRequest, IsAsync, Invocation
    <3> QED
      BY <2>1, <2>3, <3>1, SMTT(30) DEF SentOf
  <2>4. CASE c # current.call
    <3>1. result[c] # "sync" /\ (current'.call = current.call \/ current'.call = 0)
      BY <1>1, <1>3, <1>6, <2>4 DEF sendRequest, Return, NoCall, Invocation
    <3> QED
      BY <1>1, <1>2, <2>1, <2>4, <3>1, SMTT(30) DEF SentOf
  <2> QED
    BY <2>2, <2>3, <2>4
<1>7. ASSUME NEW res, current' = NoCall, result' = [result EXCEPT ![current.call] = res],
             res \in {"ok", "failed"} \/ (res = "unsent" /\ IsAsync(current.call)),
             current.step # "idle", ~sendRequest
      PROVE  SentOf(c)' >= SentOf(c)
  <2>1. current'.call = 0 /\ current'.step = "idle"
    BY <1>7 DEF NoCall
  <2>2. CASE c = current.call
    <3>1. result'[c] = res
      BY <1>1, <1>7, <2>2
    <3>2. CASE res \in {"ok", "failed"}
      <4>1. SentOf(c)' = 2
        BY <3>1, <3>2 DEF SentOf
      <4> QED
        BY <1>2, <4>1
    <3>3. CASE res = "unsent" /\ IsAsync(current.call)
      <4>1. SentOf(c)' = 1 /\ SentOf(c) = 0
        BY <1>1, <1>7, <2>1, <2>2, <3>1, <3>3 DEF SentOf, IsAsync
      <4> QED
        BY <4>1
    <3> QED
      BY <1>7, <3>2, <3>3
  <2>3. CASE c # current.call
    <3>1. result'[c] = result[c] /\ result[c] # "sync"
      BY <1>1, <1>3, <1>7, <2>3
    <3> QED
      BY <1>1, <1>2, <2>1, <2>3, <3>1 DEF SentOf
  <2> QED
    BY <2>2, <2>3
<1>8. CASE (startFails \/ waitReply) /\ ~sendRequest
  <2>1. CASE startFails
    <3>1. /\ current' = NoCall /\ current.step # "idle"
          /\ result' = [result EXCEPT ![current.call] =
                          IF IsAsync(current.call) THEN "unsent" ELSE "failed"]
      BY <2>1 DEF startFails, Ends, Return
    <3>2. SentOf(c)' >= SentOf(c)
      BY <1>7, <1>8, <3>1, Zenon
    <3> QED
      BY <1>2, <1>8, <3>2
  <2>2. CASE waitReply
    <3>1. /\ current' = NoCall /\ current.step # "idle"
          /\ result' = [result EXCEPT ![current.call] = "ok"]
      BY <2>2 DEF waitReply, Waiting, Ends, Return
    <3>2. SentOf(c)' >= SentOf(c)
      BY <1>7, <1>8, <3>1, Zenon
    <3> QED
      BY <1>2, <1>8, <3>2
  <2> QED
    BY <1>8, <2>1, <2>2
<1>9. CASE (sendFails \/ waitFails) /\ ~sendRequest
  <2>1. invokeFails /\ current.step \in {"send", "wait"}
    BY <1>9 DEF sendFails, waitFails, Waiting
  <2>2. CASE current.retry
    <3>1. /\ result' = result /\ current'.call = current.call /\ current'.step = "start"
          /\ current'.retry = FALSE /\ result[current.call] = "sync"
      BY <2>1, <2>2, Zenon DEF invokeFails, Retry, NoCall, CallsBegun
    <3>2. CASE c = current.call
      <4>1. SentOf(c)' = 1 /\ SentOf(c) \in {0, 1}
        BY <2>2, <3>1, <3>2 DEF SentOf
      <4> QED
        BY <1>9, <4>1
    <3>3. CASE c # current.call
      <4>1. result[c] # "sync"
        BY <1>3, <3>3
      <4>2. SentOf(c)' = SentOf(c)
        BY <3>1, <3>3, <4>1 DEF SentOf
      <4> QED
        BY <1>2, <1>9, <4>2
    <3> QED
      BY <3>2, <3>3
  <2>3. CASE ~current.retry
    BY <1>2, <1>7, <1>9, <2>1, <2>3 DEF invokeFails, Ends, Return
  <2> QED
    BY <2>2, <2>3
<1>10. CASE (waitOtherReply \/ handleInput) /\ ~sendRequest
  <2>1. PICK u \in Transport, x \in Call :
             /\ x # current.call /\ Read(u) /\ dispatchReply(u, Head(replies[u]), x)
             /\ dispatcherTable' = Erased(u, Head(replies[u]))
             /\ result' = [result EXCEPT ![x] = "answered"]
             /\ UNCHANGED <<current, transport, valid>>
    BY <1>10, OtherReply
  <2>2. Head(replies[u])[2] = x /\ Head(replies[u]) \in dispatcherTable[u]
    BY <2>1, DispatchedCall DEF Read
  <2>3. result[x] \in {"async", "unsent"}
    BY <2>1, <2>2 DEF Dispatchers, NoDanglingDispatcher
  <2>4. CASE c = x
    <3>1. result'[c] = "answered"
      BY <1>1, <2>1, <2>4
    <3> QED
      BY <1>10, <2>1, <2>3, <2>4, <3>1, SMTT(30) DEF SentOf
  <2>5. CASE c # x
    <3>1. result'[c] = result[c] /\ current' = current
      BY <1>1, <2>1, <2>5
    <3>2. SentOf(c)' = SentOf(c)
      BY <3>1 DEF SentOf
    <3> QED
      BY <1>2, <1>10, <3>2
  <2> QED
    BY <2>4, <2>5
<1>11. CASE handleClose /\ ~sendRequest
  <2>1. current' = current /\ current.call = 0 /\ current.step = "idle"
    BY <1>11, SMTT(30) DEF handleClose, Selected, HandleEvents, NoCall
  <2>2. result'[c] = result[c] \/ (result[c] = "async" /\ result'[c] = "dropped")
    BY <1>11 DEF handleClose, Deleted, IsAsync
  <2>3. SentOf(c)' = SentOf(c)
    BY <1>1, <2>1, <2>2 DEF SentOf
  <2> QED
    BY <1>2, <1>11, <2>3
<1>12. CASE (selectFails \/ Network \/ UNCHANGED vars) /\ ~sendRequest
  <2>1. result' = result /\ current' = current
    BY <1>12 DEF selectFails, Network, processServerRequest, sendReply, ConnectionReset, vars
  <2>2. SentOf(c)' = SentOf(c)
    BY <2>1 DEF SentOf
  <2> QED
    BY <1>2, <1>12, <2>2
<1> QED
  BY <1>4, <1>5, <1>6, <1>8, <1>9, <1>10, <1>11, <1>12 DEF Next, Attempt, Wait, Events

-----------------------------------------------------------------------------
(* What is left counts: the handles in use, the calls waiting for a reply  *)
(* and the executions of a call.                                           *)

INSTANCE FiniteSetTheorems

(* While fewer connections than handles were made, a handle is free.       *)
LEMMA HandleFree ==
    ASSUME ConnectionsOK, made < MaxTransports
    PROVE  Min({g \in Transport : \A u \in Transport : HasStream(u) => fd[u] # g}) \in Transport
<1> DEFINE S == {g \in Transport : \A u \in Transport : HasStream(u) => fd[u] # g}
<1>1. S # {}
  <2> SUFFICES ASSUME \A g \in Transport : \E u \in Transport : HasStream(u) /\ fd[u] = g
               PROVE  FALSE
    OBVIOUS
  <2> DEFINE f == [g \in Transport |-> CHOOSE u \in Transport : HasStream(u) /\ fd[u] = g]
  <2>1. \A g \in Transport : f[g] \in Transport /\ HasStream(f[g]) /\ fd[f[g]] = g
    OBVIOUS
  <2> HIDE DEF f
  <2>2. \A g \in Transport : f[g] \in 1..made
    <3>1. \A u \in Transport : HasStream(u) => ~(u > made)
      BY DEF HasStream, ConnectionsOK
    <3>2. made \in Nat
      BY DEF ConnectionsOK
    <3> QED
      BY <2>1, <3>1, <3>2 DEF Transport
  <2>3. f \in [Transport -> 1..made]
    BY <2>2 DEF f
  <2>4. /\ IsFiniteSet(Transport) /\ IsFiniteSet(1..made)
        /\ Cardinality(Transport) = MaxTransports /\ Cardinality(1..made) = made
    <3>1. made \in Int /\ MaxTransports \in Int /\ made >= 0 /\ MaxTransports >= 0 /\ 1 \in Int
      BY Bounds DEF ConnectionsOK
    <3>2. /\ IsFiniteSet(1..MaxTransports)
          /\ Cardinality(1..MaxTransports) = IF 1 > MaxTransports THEN 0 ELSE MaxTransports - 1 + 1
      BY <3>1, FS_Interval
    <3>3. /\ IsFiniteSet(1..made)
          /\ Cardinality(1..made) = IF 1 > made THEN 0 ELSE made - 1 + 1
      BY <3>1, FS_Interval
    <3> QED
      BY <3>1, <3>2, <3>3 DEF Transport
  <2>5. \E g, k \in Transport : g # k /\ f[g] = f[k]
    <3> DEFINE T == 1..made
    <3>1. /\ IsFiniteSet(Transport) /\ IsFiniteSet(T) /\ f \in [Transport -> T]
          /\ Cardinality(T) < Cardinality(Transport)
      BY <2>3, <2>4
    <3> HIDE DEF T
    <3> QED
      BY <3>1, FS_PigeonHole
  <2> QED
    BY <2>1, <2>5
<1>2. S \in SUBSET Nat /\ S \subseteq Transport
  BY DEF Transport
<1> QED
  BY <1>1, <1>2, MinLeast

(* The connections keep their types.                                       *)
LEMMA ConnectionsStep ==
    ASSUME TypeOK, [Next]_vars
    PROVE  ConnectionsOK'
<1>a. ASSUME UNCHANGED <<transport, made, valid, stream, fd, handlers>> PROVE ConnectionsOK'
  BY <1>a DEF TypeOK, ConnectionsOK
<1>1. CASE start
  <2>1. KeepTransport \/ NewTransport
    BY <1>1 DEF start
  <2>2. CASE KeepTransport
    BY <1>a, <2>2 DEF KeepTransport
  <2>3. CASE NewTransport
    <3> DEFINE f == Min({g \in Transport : \A u \in Transport : HasStream(u) => fd[u] # g})
    <3>1. /\ made < MaxTransports /\ made' = made + 1 /\ transport' = made + 1
          /\ valid' = valid \cup {made + 1} /\ stream' = [stream EXCEPT ![made + 1] = "open"]
          /\ fd' = [fd EXCEPT ![made + 1] = f]
          /\ handlers' = [handlers EXCEPT ![f] = IF @ = 0 THEN made + 1 ELSE @]
      BY <2>3 DEF NewTransport
    <3>2. f \in Transport
      BY <3>1, HandleFree DEF TypeOK
    <3> HIDE DEF f
    <3>3. ConnectionsOK
      BY DEF TypeOK
    <3>4. /\ made' \in 0..MaxTransports /\ transport' \in 0..made' /\ valid' \subseteq 1..made'
      BY <3>1, <3>3, Bounds DEF ConnectionsOK
    <3>5. /\ stream' \in [Transport -> {"none", "open", "reset", "closed"}]
          /\ \A t \in Transport : t > made' => stream'[t] = "none"
      BY <3>1, <3>3, Bounds DEF ConnectionsOK, Transport
    <3>6. fd' \in [Transport -> 0..MaxTransports]
      BY <3>1, <3>2, <3>3, Bounds DEF ConnectionsOK, Transport
    <3>7. handlers' \in [Transport -> 0..made']
      BY <3>1, <3>2, <3>3, Bounds DEF ConnectionsOK
    <3> QED
      BY <3>4, <3>5, <3>6, <3>7 DEF ConnectionsOK
  <2> QED
    BY <2>1, <2>2, <2>3
<1>2. CASE sendFails
  <2>1. /\ transport' = 0 /\ stream' = [stream EXCEPT ![current.on] = "closed"]
        /\ UNCHANGED <<made, valid, fd, handlers>>
    BY <1>2 DEF sendFails, closeConnection, invokeFails
  <2>2. current.on \in 1..made
    BY <1>2, Zenon DEF sendFails, TypeOK, CallsOK, ConnectionsOK
  <2> QED
    BY <2>1, <2>2, Bounds, SMTT(30) DEF TypeOK, ConnectionsOK, Transport
<1>3. CASE waitFails
  <2>1. /\ transport' = 0 /\ stream' = [stream EXCEPT ![current.on] = "closed"]
        /\ UNCHANGED <<made, valid, fd, handlers>>
    BY <1>3 DEF waitFails, closeConnection, invokeFails
  <2>2. current.on \in 1..made
    BY <1>3, Zenon DEF waitFails, TypeOK, CallsOK, ConnectionsOK, Waiting
  <2> QED
    BY <2>1, <2>2, Bounds, SMTT(30) DEF TypeOK, ConnectionsOK, Transport
<1>4. CASE handleClose
  <2>1. PICK f, u \in Transport : Selected(f, u) /\ Deleted(handlers[f])
                                  /\ handlers' = [handlers EXCEPT ![f] = 0]
    BY <1>4, Zenon DEF handleClose
  <2> DEFINE t == handlers[f]
  <2>2. t \in 1..made
    BY <2>1 DEF Selected, TypeOK, ConnectionsOK
  <2>3. /\ stream' = [stream EXCEPT ![t] = "closed"] /\ valid' = valid \ {t}
        /\ UNCHANGED <<transport, made, fd>>
    BY <1>4, <2>1, Zenon DEF handleClose, Deleted, closeConnection
  <2> HIDE DEF t
  <2>4. valid' \subseteq 1..made' /\ made' \in 0..MaxTransports /\ transport' \in 0..made'
    BY <2>3, Zenon DEF TypeOK, ConnectionsOK
  <2>5. /\ stream' \in [Transport -> {"none", "open", "reset", "closed"}]
        /\ \A v \in Transport : v > made' => stream'[v] = "none"
    BY <2>2, <2>3, Bounds DEF TypeOK, ConnectionsOK, Transport
  <2>6. handlers' \in [Transport -> 0..made'] /\ fd' \in [Transport -> 0..MaxTransports]
    BY <2>1, <2>3, Bounds DEF TypeOK, ConnectionsOK
  <2> QED
    BY <2>4, <2>5, <2>6 DEF ConnectionsOK
<1>5. CASE ConnectionReset
  <2>1. PICK t \in Transport : stream[t] = "open" /\ stream' = [stream EXCEPT ![t] = "reset"]
    BY <1>5, Zenon DEF ConnectionReset
  <2>2. UNCHANGED <<transport, made, valid, fd, handlers>>
    BY <1>5 DEF ConnectionReset
  <2> QED
    BY <2>1, <2>2, Bounds DEF TypeOK, ConnectionsOK, Transport
<1>6. CASE callOperation \/ startFails \/ sendRequest \/ waitReply
            \/ waitOtherReply \/ selectFails \/ handleInput \/ processServerRequest \/ sendReply
  BY <1>a, <1>6, Zenon DEF callOperation, connVars, envVars, startFails, sendRequest,
     waitReply, waitOtherReply, selectFails, handleInput, processServerRequest, sendReply
<1>7. CASE UNCHANGED vars
  BY <1>a, <1>7 DEF vars, connVars, envVars
<1> QED
  BY <1>1, <1>2, <1>3, <1>4, <1>5, <1>6, <1>7 DEF Next, Attempt, Wait, Events, Network

(* No step leaves a dispatcher of a returned synchronous call in a table.  *)
LEMMA NoDanglingStep ==
    ASSUME TypeOK, CallsBegun, Dispatchers, IdsUnique, CallsPlaced, MessagesOnce,
           NoDanglingDispatcher, [Next]_vars
    PROVE  NoDanglingDispatcher'
<1> SUFFICES ASSUME NEW t \in valid', NEW e \in dispatcherTable'[t]
             PROVE  e[2] = current'.call \/ result'[e[2]] \in {"async", "unsent"}
  BY DEF NoDanglingDispatcher
<1>1. t \in Transport
  <2>1. made' \in 0..MaxTransports /\ valid' \subseteq 1..made'
    BY ConnectionsStep DEF ConnectionsOK
  <2> QED
    BY <2>1, Bounds DEF Transport
<1>2. e \in Message /\ e[2] \in Call /\ e[2] # 0
  <2>1. e \in Message
    BY <1>1, MessagesStep DEF MessagesOK
  <2> QED
    BY <2>1 DEF Message, Call
<1>3. e \in dispatcherTable[t] => t \in valid /\ (e[2] = current.call \/ result[e[2]] \in {"async", "unsent"})
  BY <1>1 DEF Dispatchers, NoDanglingDispatcher
<1>4. CASE start
  <2>1. e \in dispatcherTable[t] \/ e = <<requestIdGenerator[transport'], current.call>>
    BY <1>1, <1>4, StartIds
  <2> QED
    BY <1>3, <1>4, <2>1, StartEffect
<1>5. ASSUME ~start PROVE e \in dispatcherTable[t]
  BY <1>1, <1>5, TablesShrink
<1>6. CASE waitOtherReply \/ handleInput
  <2>1. PICK u \in Transport, x \in Call :
             /\ x # current.call /\ Read(u) /\ dispatchReply(u, Head(replies[u]), x)
             /\ dispatcherTable' = Erased(u, Head(replies[u]))
             /\ result' = [result EXCEPT ![x] = "answered"]
             /\ UNCHANGED <<current, transport, valid>>
    BY <1>6, OtherReply
  <2>2. e[2] # x
    BY <1>1, <2>1, AnsweredOnce
  <2>3. ~start
    BY <1>6, <2>1 DEF start, waitOtherReply, handleInput, Waiting, Selected, HandleEvents, NoCall
  <2>4. result \in [Call -> Result]
    BY DEF TypeOK, CallsOK
  <2> QED
    BY <1>2, <1>3, <1>5, <2>1, <2>2, <2>3, <2>4
<1>7. CASE handleClose
  <2>1. ~start
    BY <1>7 DEF start, handleClose, Selected, HandleEvents, NoCall
  <2>2. e \in Ids(t) /\ t \in valid'
    BY <1>5, <2>1 DEF Ids
  <2>3. current = NoCall /\ current.call = 0
    BY <1>7, DeletedCalls DEF NoCall
  <2>4. result[e[2]] \in {"async", "unsent"}
    BY <1>2, <1>3, <1>5, <2>1, <2>3
  <2> QED
    BY <1>2, <1>7, <2>2, <2>4, DeletedCalls DEF IsAsync
<1>8. CASE ~start /\ ~waitOtherReply /\ ~handleInput /\ ~handleClose
  <2>1. CASE e[2] = current.call
    BY <1>1, <1>2, <1>3, <1>5, <1>8, <2>1, CurrentGoesOn
  <2>2. CASE e[2] # current.call
    BY <1>2, <1>3, <1>5, <1>8, <2>2, OthersKeep
  <2> QED
    BY <2>1, <2>2
<1> QED
  BY <1>4, <1>6, <1>7, <1>8

(* The connection that the proxy keeps: the same, or a new one with        *)
(* nothing under way, or none.                                             *)
LEMMA ConnectionKept ==
    ASSUME TypeOK, Dispatchers, IdsUnique, [Next]_vars, transport' \in valid'
    PROVE  /\ transport' \in Transport
           /\ \/ transport' = transport /\ transport \in valid
              \/ start /\ Messages(transport') = {}
           /\ ~startFails /\ ~sendFails /\ ~waitFails
<1>1. /\ made \in 0..MaxTransports /\ valid \subseteq 1..made
      /\ made' \in 0..MaxTransports /\ valid' \subseteq 1..made'
  BY ConnectionsStep DEF TypeOK, ConnectionsOK
<1>2. transport' \in Transport /\ transport' # 0
  BY <1>1, Bounds DEF Transport
<1>3. CASE start
  <2>1. CASE transport' = transport /\ transport \in valid
    BY <1>2, <1>3, <2>1 DEF start, startFails, sendFails, waitFails, Waiting
  <2>2. CASE transport' = made + 1
    <3>1. requestIdGenerator[transport'] = 0
      BY <1>1, <1>2, <2>2 DEF Dispatchers
    <3>2. ASSUME NEW p \in Messages(transport') PROVE FALSE
      <4> DEFINE t == transport'
      <4>1. t \in Transport /\ p \in Messages(t) /\ requestIdGenerator[t] = 0
        BY <1>2, <3>1, <3>2
      <4> HIDE DEF t
      <4>2. p \in Ids(t)
        BY <4>1 DEF Ids
      <4>3. p[1] < 0 /\ p \in Message
        BY <4>1, <4>2, IdsType DEF IdsUnique
      <4> QED
        BY <4>3, Bounds DEF Message
    <3>3. transport \notin valid \/ transport' = transport
      BY <1>3 DEF start, KeepTransport, NewTransport
    <3>4. ~sendFails /\ ~waitFails
      BY <1>3 DEF start, sendFails, waitFails, Waiting
    <3>5. made' = made + 1
      BY <1>1, <1>3, <2>2, StartEffect
    <3>6. ~startFails
      BY <1>1, <3>5 DEF startFails
    <3> QED
      BY <1>2, <1>3, <3>2, <3>4, <3>6
  <2> QED
    BY <1>3, <2>1, <2>2, StartEffect
<1>4. CASE ~start
  <2>1. ~sendFails /\ ~waitFails
    BY <1>2, Zenon DEF sendFails, waitFails, invokeFails
  <2>2. transport' = transport /\ valid' \subseteq valid
    BY <1>4, <2>1, Zenon DEF Next, Attempt, Wait, Events, Network, callOperation, startFails, sendRequest,
         waitReply, waitOtherReply, selectFails, handleInput, handleClose, Deleted,
         processServerRequest, sendReply, ConnectionReset, connVars, vars
  <2>3. ~startFails
    BY <2>2 DEF startFails
  <2> QED
    BY <1>2, <2>1, <2>2, <2>3
<1> QED
  BY <1>3, <1>4

(* No step leaves a late reply on the connection of the proxy.             *)
LEMMA NoLateReplyStep ==
    ASSUME TypeOK, CallsBegun, Dispatchers, IdsUnique, CallsPlaced, MessagesOnce,
           NoDanglingDispatcher, NoLateReply, [Next]_vars
    PROVE  NoLateReply'
<1> SUFFICES ASSUME transport' \in valid', NEW t, t = transport', NEW p \in Messages(t)'
             PROVE  p[2] = current'.call \/ IsAsync(p[2])'
  <2>1. ASSUME NEW t, t = transport' PROVE Messages(t)' = Messages(transport)'
    BY <2>1 DEF Messages, Executing
  <2> QED
    BY <2>1, NoLateReplyIsNext
<1>1. t \in Transport /\ t \in valid'
  BY ConnectionKept
<1>2. ~startFails /\ ~sendFails /\ ~waitFails
  BY ConnectionKept
<1>3. p \in Messages(t) \cup Sending(t) /\ (~sendRequest => p \in Messages(t))
  BY <1>1, MessagesShrink
<1>4. p \in Ids(t) /\ p \in Message /\ p[2] \in Call /\ p[2] # 0
  <2>1. p \in Ids(t)
    BY <1>3 DEF Ids
  <2>2. p \in Message
    BY <1>1, <2>1, IdsType
  <2> QED
    BY <2>1, <2>2 DEF Message, Call
<1>5. \/ t = transport /\ transport \in valid
      \/ start /\ Messages(t) = {}
  BY ConnectionKept
<1>6. \/ t = transport /\ (p[2] = current.call \/ IsAsync(p[2]))
      \/ start /\ Messages(t) = {}
  <2>1. CASE t = transport /\ transport \in valid
    <3>1. NothingLate(t)
      BY <2>1, NoLateReplyIs
    <3>2. p \in Sending(t) => p[2] = current.call
      BY DEF Sending
    <3> QED
      BY <1>3, <2>1, <3>1, <3>2 DEF NothingLate
  <2> QED
    BY <1>5, <2>1
<1>7. result \in [Call -> Result]
  BY DEF TypeOK, CallsOK
<1>8. CASE start
  <2>1. ~sendRequest
    BY <1>8 DEF start, sendRequest
  <2>2. p \in Messages(t)
    BY <1>3, <2>1
  <2> QED
    BY <1>6, <1>8, <2>2, StartEffect DEF IsAsync
<1>9. CASE waitOtherReply \/ handleInput
  <2>1. PICK u \in Transport, x \in Call :
             /\ x # current.call /\ Read(u) /\ dispatchReply(u, Head(replies[u]), x)
             /\ dispatcherTable' = Erased(u, Head(replies[u]))
             /\ result' = [result EXCEPT ![x] = "answered"]
             /\ UNCHANGED <<current, transport, valid>>
    BY <1>9, OtherReply
  <2>2. ~start /\ ~sendRequest
    BY <1>9 DEF start, sendRequest, waitOtherReply, handleInput, Waiting, Selected, HandleEvents,
                NoCall
  <2>3. p[2] # x
    BY <1>1, <1>3, <2>1, <2>2, AnsweredOnce
  <2> QED
    BY <1>4, <1>6, <1>7, <2>1, <2>2, <2>3 DEF IsAsync
<1>10. CASE handleClose
  <2>1. ~start
    BY <1>10 DEF start, handleClose, Selected, HandleEvents, NoCall
  <2>2. current = NoCall /\ current.call = 0
    BY <1>10, DeletedCalls DEF NoCall
  <2>3. IsAsync(p[2])
    BY <1>4, <1>6, <2>1, <2>2
  <2> QED
    BY <1>1, <1>4, <1>10, <2>3, DeletedCalls DEF IsAsync
<1>11. CASE ~start /\ ~waitOtherReply /\ ~handleInput /\ ~handleClose
  <2>1. CASE p[2] = current.call
    <3>1. current.call # 0
      BY <1>4, <2>1
    <3>2. ASSUME waitReply PROVE FALSE
      <4>1. ~sendRequest
        BY <3>2 DEF waitReply, Waiting, sendRequest
      <4> QED
        BY <1>3, <1>5, <1>11, <2>1, <3>2, <4>1, RepliedOnce
    <3>3. \/ current'.call = current.call /\ result' = result
          \/ /\ current' = NoCall /\ result'[current.call] \in {"async", "unsent"}
             /\ (sendRequest => result'[current.call] = "async")
      BY <1>2, <1>11, <3>1, <3>2, CurrentGoesOn
    <3>4. current'.call # current.call => sendRequest
      BY <1>2, <1>11, <3>1, <3>2, CurrentEffect DEF callOperation, NoCall, Started
    <3> QED
      BY <2>1, <3>3, <3>4 DEF IsAsync
  <2>2. CASE p[2] # current.call
    BY <1>4, <1>6, <1>11, <2>2, OthersKeep DEF IsAsync
  <2> QED
    BY <2>1, <2>2
<1> QED
  BY <1>8, <1>9, <1>10, <1>11

(* The connections on which a call waits to be executed are counted.       *)
LEMMA PendingFinite ==
    ASSUME NEW c
    PROVE  IsFiniteSet(Pending(c)) /\ Cardinality(Pending(c)) \in Nat
<1>1. IsFiniteSet(Transport)
  BY Bounds, FS_Interval DEF Transport
<1>2. IsFiniteSet(Pending(c))
  BY <1>1, FS_Subset DEF Pending
<1> QED
  BY <1>2, FS_CardinalityType

(* So they are in the next state.                                          *)
LEMMA PendingFiniteNext ==
    ASSUME NEW c
    PROVE  IsFiniteSet(Pending(c)') /\ Cardinality(Pending(c)') \in Nat
<1>1. IsFiniteSet(Transport)
  BY Bounds, FS_Interval DEF Transport
<1>2. IsFiniteSet(Pending(c)')
  BY <1>1, FS_Subset DEF Pending
<1> QED
  BY <1>2, FS_CardinalityType

(* What is executed and what is pending: a step adds to them at most the   *)
(* request that it sends.                                                  *)
LEMMA CountStep ==
    ASSUME TypeOK, IdsUnique, MessagesOnce, [Next]_vars, NEW c \in Call
    PROVE  /\ executed'[c] \in Nat /\ executed'[c] >= executed[c]
           /\ executed'[c] + Cardinality(Pending(c)') <=
                executed[c] + Cardinality(Pending(c)) + 1
           /\ ~(sendRequest /\ c = current.call) =>
                executed'[c] + Cardinality(Pending(c)') <= executed[c] + Cardinality(Pending(c))
<1> DEFINE P == Pending(c)
           Q == Pending(c)'
<1>1. /\ executed \in [Call -> Nat] /\ requests \in [Transport -> Seq(Message)]
  BY DEF TypeOK, CallsOK, MessagesOK
<1>2. /\ IsFiniteSet(P) /\ Cardinality(P) \in Nat
      /\ IsFiniteSet(Q) /\ Cardinality(Q) \in Nat
  BY PendingFinite, PendingFiniteNext
<1>3. ~processServerRequest => executed' = executed
  BY Zenon DEF Next, Attempt, Wait, Events, Network, callOperation, start, startFails, sendRequest,
         sendFails, waitReply, waitOtherReply, waitFails, selectFails, handleInput, handleClose,
         sendReply, ConnectionReset, envVars, vars
<1>4. ASSUME Q \subseteq P PROVE Cardinality(Q) <= Cardinality(P)
  <2> HIDE DEF P, Q
  <2> QED
    BY <1>2, <1>4, FS_Subset
<1>5. CASE processServerRequest
  <2>1. PICK t \in Transport :
          /\ Taken(t)
          /\ executed' = [executed EXCEPT ![Head(requests[t])[2]] = @ + 1]
    BY <1>5, Zenon DEF processServerRequest, Taken
  <2> DEFINE q == Head(requests[t])
  <2>2. PICK d : d = q[2]
    OBVIOUS
  <2>3. /\ q \in Message /\ t \in Pending(d) /\ t \notin Pending(d)'
        /\ Q \subseteq P
    BY <2>1, <2>2, PendingTaken
  <2>4. executed' = [executed EXCEPT ![d] = executed[d] + 1] /\ d \in Call
    BY <2>1, <2>2, <2>3 DEF Message
  <2>5. CASE c # d
    <3> HIDE DEF P, Q
    <3> QED
      BY <1>1, <1>2, <1>4, <2>3, <2>4, <2>5 DEF P, Q
  <2>6. CASE c = d
    <3>1. t \in P /\ Q \subseteq P \ {t}
      BY <2>3, <2>6
    <3> HIDE DEF P, Q
    <3>2. IsFiniteSet(P \ {t}) /\ Cardinality(P \ {t}) = Cardinality(P) - 1
      BY <1>2, <3>1, FS_RemoveElement
    <3>3. Cardinality(Q) <= Cardinality(P \ {t})
      BY <3>1, <3>2, FS_Subset
    <3>4. executed'[c] = executed[c] + 1 /\ executed[c] \in Nat
      BY <1>1, <2>4, <2>6
    <3> QED
      BY <1>2, <3>2, <3>3, <3>4 DEF P, Q
  <2> QED
    BY <2>5, <2>6
<1>6. CASE ~processServerRequest /\ Sent
  <2>1. current.on \in Transport /\ sendRequest
    BY <1>6, OnConnection DEF Sent, sendRequest
  <2>2. /\ \A u \in Transport : u # current.on => requests'[u] = requests[u]
        /\ Range(requests'[current.on]) = Range(requests[current.on]) \cup {<<current.id, current.call>>}
    BY <1>1, <1>6, <2>1 DEF Sent
  <2>3. Q \subseteq P \cup {current.on} /\ (c # current.call => Q \subseteq P)
    BY <2>1, <2>2 DEF Pending
  <2> HIDE DEF P, Q
  <2>4. IsFiniteSet(P \cup {current.on}) /\ Cardinality(P \cup {current.on}) <= Cardinality(P) + 1
        /\ Cardinality(P \cup {current.on}) \in Nat
    <3>1. IsFiniteSet(P \cup {current.on})
          /\ Cardinality(P \cup {current.on}) =
               IF current.on \in P THEN Cardinality(P) ELSE Cardinality(P) + 1
      BY <1>2, FS_AddElement, Zenon
    <3> QED
      BY <1>2, <3>1
  <2>5. Cardinality(Q) <= Cardinality(P \cup {current.on})
    BY <2>3, <2>4, FS_Subset
  <2>6. executed'[c] = executed[c] /\ executed[c] \in Nat
    BY <1>1, <1>3, <1>6
  <2> QED
    BY <1>2, <1>4, <2>1, <2>3, <2>4, <2>5, <2>6, SMTT(30) DEF P, Q
<1>7. CASE ~processServerRequest /\ ~Sent
  <2>1. \A u \in Transport : requests'[u] \in {requests[u], <<>>}
    BY <1>7, MessagesEffect DEF Quiet, Lost, Read, Answered
  <2>2. Range(<<>>) = {}
    BY DEF Range
  <2>3. Q \subseteq P
    BY <2>1, <2>2 DEF Pending
  <2>4. executed'[c] = executed[c] /\ executed[c] \in Nat
    BY <1>1, <1>3, <1>7
  <2> HIDE DEF P, Q
  <2> QED
    BY <1>2, <1>4, <2>3, <2>4 DEF P, Q
<1> QED
  BY <1>5, <1>6, <1>7

(* What the server has in hand or has answered, it has executed.           *)
LEMMA AtServerExecuted ==
    ASSUME TypeOK, IdsUnique, MessagesOnce, Executions, [Next]_vars,
           NEW t \in Transport, NEW p \in Executing(t)' \cup Range(replies'[t])
    PROVE  executed'[p[2]] >= 1
<1>1. /\ executed \in [Call -> Nat] /\ requests \in [Transport -> Seq(Message)]
      /\ replies \in [Transport -> Seq(Message)]
  BY DEF TypeOK, CallsOK, MessagesOK
<1>2. ASSUME NEW u \in Transport, p \in Executing(u) \cup Range(replies[u])
      PROVE  executed'[p[2]] >= 1
  <2>1. p[2] \in Call
    <3>1. p \in Ids(u)
      BY <1>2 DEF Ids, Messages
    <3> QED
      BY <3>1, IdsType DEF Message
  <2>2. executed[p[2]] >= 1 /\ executed[p[2]] \in Nat
    BY <1>1, <1>2, <2>1 DEF Executions
  <2>3. executed'[p[2]] \in Nat /\ executed'[p[2]] >= executed[p[2]]
    BY <2>1, CountStep
  <2> QED
    BY <2>2, <2>3
<1>3. Range(<<>>) = {}
  BY DEF Range
<1>4. CASE Quiet \/ Sent \/ Lost
  <2>1. Executing(t)' = Executing(t) /\ replies'[t] \in {replies[t], <<>>}
    BY <1>4 DEF Quiet, Sent, Lost, Executing
  <2> QED
    BY <1>2, <1>3, <2>1
<1>5. CASE \E u \in Transport : Read(u)
  <2>1. PICK u \in Transport : Read(u)
    BY <1>5
  <2>2. Range(Tail(replies[u])) \subseteq Range(replies[u])
    BY <1>1, <2>1, TakenMessages DEF Read
  <2>3. Executing(t)' = Executing(t)
        /\ (replies'[t] = replies[t] \/ (t = u /\ replies'[t] = Tail(replies[u])))
    BY <1>1, <2>1 DEF Read, Executing
  <2> QED
    BY <1>2, <2>2, <2>3
<1>6. CASE processServerRequest
  <2>1. PICK u \in Transport :
          /\ Taken(u)
          /\ executed' = [executed EXCEPT ![Head(requests[u])[2]] = @ + 1]
    BY <1>6, Zenon DEF processServerRequest, Taken
  <2>2. PICK q : q = Head(requests[u])
    OBVIOUS
  <2>3. q \in Message
    BY <2>1, <2>2, PendingTaken
  <2>4. executing' = executing \cup {<<u, q[1], q[2]>>} /\ replies' = replies
    BY <2>1, <2>2 DEF Taken
  <2>5. p \in Executing(t) \cup Range(replies[t]) \/ p = q
    BY <2>3, <2>4, ExecutingTaken
  <2>6. CASE p = q
    <3>1. p[2] \in Call
      BY <2>3, <2>6 DEF Message
    <3>2. executed'[p[2]] = executed[p[2]] + 1 /\ executed[p[2]] \in Nat
      BY <1>1, <2>1, <2>2, <2>6, <3>1
    <3> QED
      BY <3>2, SMTT(30)
  <2> QED
    BY <1>2, <2>5, <2>6
<1>7. CASE \E e \in executing : Answered(e)
  <2>1. PICK e \in executing : Answered(e)
    BY <1>7
  <2>2. executing' = executing \ {e}
    BY <2>1 DEF Answered
  <2>3. /\ e[1] \in Transport /\ <<e[2], e[3]>> \in Message
        /\ <<e[2], e[3]>> \in Executing(e[1])
        /\ Executing(t)' \subseteq Executing(t)
    BY <2>2, ExecutingAnswered
  <2>4. Range(Append(replies[e[1]], <<e[2], e[3]>>)) = Range(replies[e[1]]) \cup {<<e[2], e[3]>>}
    <3>1. replies[e[1]] \in Seq(Message)
      BY <1>1, <2>3
    <3> DEFINE s == replies[e[1]]
               r == <<e[2], e[3]>>
    <3>2. s \in Seq(Message) /\ r \in Message
      BY <2>3, <3>1
    <3> HIDE DEF s, r
    <3>3. Range(Append(s, r)) = Range(s) \cup {r}
      BY <3>2, AddedMessages
    <3> QED
      BY <3>3 DEF s, r
  <2>5. \/ replies'[t] = replies[t]
        \/ t = e[1] /\ replies'[t] = Append(replies[e[1]], <<e[2], e[3]>>)
    BY <1>1, <2>1, <2>3 DEF Answered
  <2> QED
    BY <1>2, <2>3, <2>4, <2>5, Zenon
<1> QED
  BY <1>4, <1>5, <1>6, <1>7, MessagesEffect

(* A call that has succeeded was executed.                                 *)
LEMMA SucceededExecuted ==
    ASSUME TypeOK, CallsBegun, IdsUnique, MessagesOnce, Executions, [Next]_vars,
           NEW c \in Call, result'[c] \in {"ok", "answered"}
    PROVE  executed'[c] >= 1
<1>1. executed[c] \in Nat /\ executed'[c] \in Nat /\ executed'[c] >= executed[c]
  BY CountStep DEF TypeOK, CallsOK
<1>2. result \in [Call -> Result]
  BY DEF TypeOK, CallsOK
<1>3. ASSUME NEW t \in Transport, replies[t] # <<>>, dispatchReply(t, Head(replies[t]), c)
      PROVE  executed[c] >= 1
  <2>1. Head(replies[t])[2] = c /\ Head(replies[t]) \in Range(replies[t])
    BY <1>3, DispatchedCall, Zenon
  <2> QED
    BY <2>1 DEF Executions
<1>4. CASE result'[c] = result[c]
  BY <1>1, <1>4, SMTT(30) DEF Executions
<1>5. CASE result'[c] # result[c] /\ waitReply
  <2>1. current.on \in Transport
    BY <1>5, OnConnection, Zenon DEF waitReply, Waiting
  <2>2. c = current.call
    BY <1>2, <1>5 DEF waitReply, Ends
  <2>3. replies[current.on] # <<>> /\ dispatchReply(current.on, Head(replies[current.on]), c)
    BY <1>5, <2>2 DEF waitReply
  <2>4. executed[c] >= 1
    BY <1>3, <2>1, <2>3
  <2> QED
    BY <1>1, <2>4
<1>6. CASE result'[c] # result[c] /\ (waitOtherReply \/ handleInput)
  <2>1. PICK t \in Transport, x \in Call :
             /\ x # current.call /\ Read(t) /\ dispatchReply(t, Head(replies[t]), x)
             /\ dispatcherTable' = Erased(t, Head(replies[t]))
             /\ result' = [result EXCEPT ![x] = "answered"]
             /\ UNCHANGED <<current, transport, valid>>
    BY <1>6, OtherReply
  <2>2. c = x /\ replies[t] # <<>>
    BY <1>2, <1>6, <2>1 DEF Read
  <2> QED
    BY <1>1, <1>3, <2>1, <2>2, SMTT(30)
<1>7. CASE result'[c] # result[c] /\ ~waitReply /\ ~waitOtherReply /\ ~handleInput
  <2>1. ~callOperation
    BY <1>2, <1>7, NextCallIsFirst DEF callOperation
  <2>2. ~handleClose
    BY <1>7 DEF handleClose, Deleted
  <2>3. ~startFails
    BY <1>2, <1>7 DEF startFails, Ends
  <2>4. ~sendFails /\ ~waitFails
    BY <1>2, <1>7 DEF sendFails, waitFails, invokeFails, Retry, Ends
  <2>5. ~start /\ ~sendRequest /\ ~selectFails /\ ~Network /\ ~UNCHANGED vars
    BY <1>7 DEF start, sendRequest, selectFails, Network, processServerRequest, sendReply,
                ConnectionReset, vars
  <2> QED
    BY <1>7, <2>1, <2>2, <2>3, <2>4, <2>5 DEF Next, Attempt, Wait, Events
<1> QED
  BY <1>4, <1>5, <1>6, <1>7

(* A step keeps what is executed and pending within what was sent.         *)
LEMMA ExecutionsStep ==
    ASSUME TypeOK, CallsBegun, IdsUnique, CallsPlaced, MessagesOnce, Dispatchers,
           NoDanglingDispatcher, Executions, [Next]_vars
    PROVE  Executions'
<1>1. ASSUME NEW c \in Call PROVE (executed[c] + Cardinality(Pending(c)) <= SentOf(c))'
  <2> DEFINE k == Cardinality(Pending(c))
             n == Cardinality(Pending(c)')
             a == SentOf(c)
             b == SentOf(c)'
  <2>1. executed[c] \in Nat /\ k \in Nat /\ n \in Nat
    BY PendingFinite, PendingFiniteNext DEF TypeOK, CallsOK
  <2>2. executed[c] + k <= a
    BY DEF Executions
  <2>3. /\ executed'[c] \in Nat /\ executed'[c] + n <= executed[c] + k + 1
        /\ ~(sendRequest /\ c = current.call) => executed'[c] + n <= executed[c] + k
    BY CountStep
  <2>4. /\ a \in Nat /\ b \in Nat /\ b >= a
        /\ sendRequest /\ c = current.call => b >= a + 1
    BY SentOfStep
  <2> HIDE DEF k, n, a, b
  <2>5. executed'[c] + n <= b
    BY <2>1, <2>2, <2>3, <2>4
  <2> QED
    BY <2>5 DEF n, b
<1>2. \A t \in Transport : \A p \in Executing(t)' \cup Range(replies'[t]) : executed'[p[2]] >= 1
  BY AtServerExecuted
<1>3. \A c \in Call : result'[c] \in {"ok", "answered"} => executed'[c] >= 1
  BY SucceededExecuted
<1> QED
  BY <1>1, <1>2, <1>3, Zenon DEF Executions

-----------------------------------------------------------------------------
(* Before the first call nothing is connected, sent or executed.           *)
LEMMA InitIInv == Init => IInv
<1> SUFFICES ASSUME Init PROVE IInv
  OBVIOUS
<1>1. Range(<<>>) = {} /\ IsInjective(<<>>)
  BY DEF Range, IsInjective
<1>2. /\ current = NoCall /\ NoCall.call = 0 /\ NoCall.on = 0 /\ NoCall.step = "idle"
      /\ NoCall.retry = FALSE /\ NoCall \in Invocation
  BY Bounds DEF Init, NoCall, Invocation
<1>3. ConnectionsOK
  BY Bounds DEF Init, ConnectionsOK, Transport
<1>4. MessagesOK
  <2>1. requestIdGenerator \in [Transport -> 0..MaxCalls]
    BY Bounds DEF Init
  <2>2. <<>> \in Seq(Message)
    OBVIOUS
  <2> QED
    BY <2>1, <2>2 DEF Init, MessagesOK
<1>5. CallsOK
  BY <1>2 DEF Init, CallsOK, Result
<1>6. \A t \in Transport : Executing(t) = {} /\ Messages(t) = {} /\ Ids(t) = {}
  BY <1>1, <1>2 DEF Init, Executing, Messages, Sending, Ids
<1>7. IdsUnique /\ CallsPlaced
  BY <1>2, <1>6 DEF IdsUnique, CallsPlaced, Nowhere
<1>8. MessagesOnce
  BY <1>1, <1>2, <1>6 DEF Init, MessagesOnce
<1>9. CallsBegun /\ Dispatchers
  <2>1. \A c \in Call : c > 0
    BY Bounds DEF Call
  <2> QED
    BY <1>2, <2>1 DEF Init, CallsBegun, Dispatchers
<1>10. Executions
  <2>1. ASSUME NEW c \in Call PROVE executed[c] + Cardinality(Pending(c)) <= SentOf(c)
    <3>1. Pending(c) = {}
      BY <1>1 DEF Init, Pending
    <3>2. Cardinality(Pending(c)) = 0
      BY <3>1, FS_EmptySet
    <3>3. executed[c] = 0 /\ SentOf(c) = 0
      BY DEF Init, SentOf
    <3> QED
      BY <3>2, <3>3
  <2>2. \A t \in Transport : Executing(t) \cup Range(replies[t]) = {}
    BY <1>1, <1>6 DEF Init
  <2>3. \A c \in Call : result[c] = "none"
    BY DEF Init
  <2> QED
    BY <2>1, <2>2, <2>3 DEF Executions
<1>11. OwnReply /\ NoDanglingDispatcher /\ NoLateReply
  BY DEF Init, OwnReply, NoDanglingDispatcher, NoLateReply
<1> QED
  BY <1>3, <1>4, <1>5, <1>7, <1>8, <1>9, <1>10, <1>11 DEF IInv, TypeOK

(* Every step of the caller, the server and the network keeps the          *)
(* inductive invariant.                                                    *)
LEMMA StepIInv == IInv /\ [Next]_vars => IInv'
<1> SUFFICES ASSUME IInv, [Next]_vars PROVE IInv'
  OBVIOUS
<1>1. TypeOK /\ IdsUnique /\ CallsPlaced /\ MessagesOnce /\ CallsBegun /\ Dispatchers /\ Executions
      /\ OwnReply /\ NoDanglingDispatcher /\ NoLateReply
  BY DEF IInv
<1>2. ConnectionsOK' /\ MessagesOK' /\ CallsOK'
  BY <1>1, ConnectionsStep, MessagesStep, CallsStep
<1>3. IdsUnique' /\ CallsPlaced' /\ MessagesOnce'
  BY <1>1, IdsUniqueStep, CallsPlacedStep, MessagesOnceStep
<1>4. CallsBegun' /\ Dispatchers' /\ OwnReply'
  BY <1>1, CallsBegunStep, DispatchersStep, OwnReplyStep
<1>5. NoDanglingDispatcher'
  BY <1>1, NoDanglingStep
<1>6. NoLateReply'
  BY <1>1, NoLateReplyStep
<1>7. Executions'
  BY <1>1, ExecutionsStep
<1> QED
  BY <1>2, <1>3, <1>4, <1>5, <1>6, <1>7 DEF IInv, TypeOK

(* For any number of calls, connections and resets: the state of the       *)
(* stub, the transports, the dispatcher tables and what is under way stay  *)
(* consistent.                                                             *)
THEOREM RpcInvariant == Spec => []IInv
<1>1. Init => IInv
  BY InitIInv
<1>2. IInv /\ [Next]_vars => IInv'
  BY StepIInv
<1> QED
  BY <1>1, <1>2, PTL DEF Spec

(* dispatchReply() gives a call the reply to its own request, over any     *)
(* number of retries and connections.                                      *)
THEOREM RepliesToOwnCall == Spec => []OwnReply
<1>1. IInv => OwnReply
  BY DEF IInv
<1> QED
  BY <1>1, RpcInvariant, PTL

(* ~TwowayInvocation() leaves no dispatcher of a returned synchronous call *)
(* in the table of any live transport.                                     *)
THEOREM NoDispatcherOutlivesCall == Spec => []NoDanglingDispatcher
<1>1. IInv => NoDanglingDispatcher
  BY DEF IInv
<1> QED
  BY <1>1, RpcInvariant, PTL

(* The connection that the proxy will use next holds nothing of a call     *)
(* that has returned: invoke() closes it after a timeout.                  *)
THEOREM ConnectionQuiet == Spec => []NoLateReply
<1>1. IInv => NoLateReply
  BY DEF IInv
<1> QED
  BY <1>1, RpcInvariant, PTL

(* The retry makes the server execute a synchronous call at most twice, an *)
(* asynchronous one at most once, and success means it was executed.       *)
THEOREM AtMostTwice == Spec => []ExecutedAtMostTwice
<1>1. IInv => ExecutedAtMostTwice
  <2> SUFFICES ASSUME IInv PROVE ExecutedAtMostTwice
    OBVIOUS
  <2>1. ASSUME NEW c \in Call
        PROVE  executed[c] <= IF result[c] \in {"sync", "ok", "failed"} THEN 2 ELSE 1
    <3>1. executed[c] \in Nat /\ Cardinality(Pending(c)) \in Nat
      BY PendingFinite DEF IInv, TypeOK, CallsOK
    <3>2. executed[c] + Cardinality(Pending(c)) <= SentOf(c)
      BY DEF IInv, Executions
    <3>3. SentOf(c) \in {0, 1, 2} /\ (result[c] \notin {"sync", "ok", "failed"} => SentOf(c) \in {0, 1})
      BY DEF SentOf
    <3>4. executed[c] <= SentOf(c)
      BY <3>1, <3>2, <3>3
    <3> QED
      BY <3>1, <3>3, <3>4
  <2>2. \A c \in Call : result[c] \in {"ok", "answered"} => executed[c] >= 1
    BY DEF IInv, Executions
  <2> QED
    BY <2>1, <2>2 DEF ExecutedAtMostTwice
<1> QED
  BY <1>1, RpcInvariant, PTL
=============================================================================
