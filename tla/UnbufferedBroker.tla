-------------------------- MODULE UnbufferedBroker --------------------------
(***************************************************************************)
(* The message broker with enableBuffering off, as configured by default:  *)
(* the store keys subscriptions and messages by the handler of the         *)
(* connection (msg/TopicManager.cpp, the operations without a trailing     *)
(* "_"), the single reactor thread dispatches the handlers of              *)
(* msg/SubscriberProxy.cpp and msg/PublisherProxy.cpp.  Nothing is kept    *)
(* across a restart.                                                       *)
(*                                                                         *)
(* A handler's destructor removes its subscriptions, not the messages that *)
(* are still to be sent to it, so a later handler at the same address      *)
(* inherits them.                                                          *)
(***************************************************************************)
EXTENDS Naturals, FiniteSets

CONSTANTS
    Topic,          \* topic names
    Msg,            \* addresses at which a Msg object can be allocated
    Handler,        \* addresses at which a SubscriberHandler can be allocated
    MaxBufferSize   \* the constant of the same name, 100 * 1000 in the code

ASSUME UnbufferedAssumption ==
    /\ MaxBufferSize \in Nat /\ MaxBufferSize > 0
    /\ IsFiniteSet(Msg)
    /\ Topic # {}

VARIABLES
    subscriptionMap1,  \* topic -> handlers subscribed to it
    subscriptionMap2,  \* handler -> topics it has subscribed to
    PubMap3,           \* message -> handlers it is still to be sent to
    PubMap4,           \* handler -> messages still to be sent to it
    heap,              \* Msg objects allocated and not deleted
    topic,             \* message -> Msg::topic
    status,            \* "up", or the assertion that stopped the broker
    open,              \* SubscriberHandler objects alive
    active,            \* handlers for which isActive() holds
    writeMask,         \* handlers registered for WRITE_MASK
    half,              \* handlers with a half-read message: tmpMsg # 0
    expired,           \* messages older than MaxBufferMessageLifeTime
    sentTo,            \* message -> handlers it has been sent to (history)
    inherited          \* handler -> messages pending when it was made (history)

subVars == <<subscriptionMap1, subscriptionMap2>>
msgVars == <<PubMap3, PubMap4, heap, topic>>
connVars == <<open, active, writeMask, half>>
vars == <<subVars, msgVars, status, connVars, expired, sentTo, inherited>>

up == status = "up"

Init ==
    /\ subscriptionMap1 = [t \in Topic |-> {}]
    /\ subscriptionMap2 = [h \in Handler |-> {}]
    /\ PubMap3 = [m \in Msg |-> {}]
    /\ PubMap4 = [h \in Handler |-> {}]
    /\ heap = {}
    /\ topic \in [Msg -> Topic]     \* of no message: memory not yet allocated
    /\ status = "up"
    /\ open = {}
    /\ active = {}
    /\ writeMask = {}
    /\ half = {}
    /\ expired = {}
    /\ sentTo = [m \in Msg |-> {}]
    /\ inherited = [h \in Handler |-> {}]

-----------------------------------------------------------------------------
(* The store.                                                              *)

addSubscription(t, h) ==
    /\ subscriptionMap1' = [subscriptionMap1 EXCEPT ![t] = @ \cup {h}]
    /\ subscriptionMap2' = [subscriptionMap2 EXCEPT ![h] = @ \cup {t}]

RemoveFromMap2Only(t, h) ==
    /\ subscriptionMap2' = [subscriptionMap2 EXCEPT ![h] = @ \ {t}]
    /\ UNCHANGED subscriptionMap1

(* subscriptionMap2 keeps the topic.                                       *)
removeSubscription(t, h) ==
    /\ subscriptionMap1' = [subscriptionMap1 EXCEPT ![t] = @ \ {h}]
    /\ UNCHANGED subscriptionMap2

onHandlerDestroyed(h) ==
    /\ subscriptionMap1' = [t \in Topic |->
                              IF t \in subscriptionMap2[h]
                                THEN subscriptionMap1[t] \ {h}
                                ELSE subscriptionMap1[t]]
    /\ subscriptionMap2' = [subscriptionMap2 EXCEPT ![h] = {}]

Stored == {m \in Msg : PubMap3[m] # {}}

BufferOverfull == Cardinality(Stored) > MaxBufferSize

(* checkBufferSize: a full buffer is emptied, every message in it deleted. *)
BufferFull == Cardinality(Stored) >= MaxBufferSize

KeptPubMap3 == IF BufferFull THEN [m \in Msg |-> {}] ELSE PubMap3
KeptPubMap4 == IF BufferFull THEN [h \in Handler |-> {}] ELSE PubMap4
KeptHeap    == IF BufferFull THEN heap \ Stored ELSE heap

EveryActive(t) == active

(* The handlers a message on topic t goes to, and that are woken for it.   *)
Receivers(t) == subscriptionMap1[t] \cap active

(* addMessage of the newly allocated m on topic t, checkBufferSize first.  *)
(* A message without active subscribers enters neither map.                *)
addMessage(t, m) ==
    /\ PubMap3' = [KeptPubMap3 EXCEPT ![m] = @ \cup Receivers(t)]
    /\ PubMap4' = [h \in Handler |-> IF h \in Receivers(t)
                                       THEN KeptPubMap4[h] \cup {m}
                                       ELSE KeptPubMap4[h]]
    /\ heap' = KeptHeap \cup {m}
    /\ topic' = [topic EXCEPT ![m] = t]

getClientMessages(h) == PubMap4[h]

SentLeftInPubMap4(sent, h) ==
    /\ PubMap3' = [m \in Msg |-> IF m \in sent THEN PubMap3[m] \ {h}
                                               ELSE PubMap3[m]]
    /\ heap' = heap \ {m \in sent : PubMap3[m] \ {h} = {}}
    /\ UNCHANGED <<PubMap4, topic>>

SentNotDeleted(sent, h) ==
    /\ PubMap3' = [m \in Msg |-> IF m \in sent THEN PubMap3[m] \ {h}
                                               ELSE PubMap3[m]]
    /\ PubMap4' = [PubMap4 EXCEPT ![h] = @ \ sent]
    /\ UNCHANGED <<heap, topic>>

(* onMessageSent for each message of the set sent, for handler h.          *)
onMessageSent(sent, h) ==
    /\ PubMap3' = [m \in Msg |-> IF m \in sent THEN PubMap3[m] \ {h}
                                               ELSE PubMap3[m]]
    /\ PubMap4' = [PubMap4 EXCEPT ![h] = @ \ sent]
    /\ heap' = heap \ {m \in sent : PubMap3[m] \ {h} = {}}
    /\ UNCHANGED topic

-----------------------------------------------------------------------------
(* Connections.                                                            *)

Accept(h) ==
    /\ up
    /\ h \in Handler \ open
    /\ open' = open \cup {h}
    /\ active' = active \cup {h}
    /\ inherited' = [inherited EXCEPT ![h] = PubMap4[h]]
    /\ UNCHANGED <<subVars, msgVars, status, writeMask, half, expired, sentTo>>

DestroyLeavingMask(h) ==
    /\ onHandlerDestroyed(h)
    /\ open' = open \ {h}
    /\ active' = active \ {h}
    /\ half' = half \ {h}
    /\ UNCHANGED writeMask

(* handleClose deletes the handler.                                        *)
Destroy(h) ==
    /\ onHandlerDestroyed(h)
    /\ open' = open \ {h}
    /\ active' = active \ {h}
    /\ writeMask' = writeMask \ {h}
    /\ half' = half \ {h}

(* handleInput when the peer has closed, or the read fails.                *)
InputError(h) ==
    /\ up
    /\ h \in open
    /\ Destroy(h)
    /\ UNCHANGED <<msgVars, status, expired, sentTo, inherited>>

(* handleInput when only a part of a message has arrived.                  *)
HalfRead(h) ==
    /\ up
    /\ h \in open
    /\ half' = half \cup {h}
    /\ active' = active \cup {h}
    /\ UNCHANGED <<subVars, msgVars, status, open, writeMask, expired,
                   sentTo, inherited>>

(* Nothing is received from or sent to the peer for keepAliveTryTimes      *)
(* times keepAliveTimeSpan.                                                *)
Idle(h) ==
    /\ h \in active
    /\ active' = active \ {h}
    /\ UNCHANGED <<subVars, msgVars, status, open, writeMask, half, expired,
                   sentTo, inherited>>

SubscribeUnmasked(h, t) ==
    /\ up
    /\ h \in open
    /\ \/ /\ addSubscription(t, h)
          /\ half' = half \ {h}
          /\ active' = active \cup {h}
          /\ UNCHANGED <<writeMask, open>>
       \/ Destroy(h)
    /\ UNCHANGED <<msgVars, status, expired, sentTo, inherited>>

(* handleInput with a Msg_Subscribe; when the Msg_Subscribe_OK cannot be   *)
(* sent the handler is destroyed, the new subscription with it.            *)
Subscribe(h, t) ==
    /\ up
    /\ h \in open
    /\ \/ /\ addSubscription(t, h)
          /\ half' = half \ {h}
          /\ active' = active \cup {h}
          /\ writeMask' = writeMask \cup {h}
          /\ UNCHANGED open
       \/ Destroy(h)
    /\ UNCHANGED <<msgVars, status, expired, sentTo, inherited>>

(* handleInput with a Msg_UnSubscribe.                                     *)
Unsubscribe(h, t) ==
    /\ up
    /\ h \in open
    /\ \/ /\ removeSubscription(t, h)
          /\ half' = half \ {h}
          /\ active' = active \cup {h}
          /\ UNCHANGED <<open, writeMask>>
       \/ Destroy(h)
    /\ UNCHANGED <<msgVars, status, expired, sentTo, inherited>>

(* handleInput with a Msg_KeepAlive_Probe.                                 *)
KeepAlive(h) ==
    /\ up
    /\ h \in open
    /\ \/ /\ half' = half \ {h}
          /\ active' = active \cup {h}
          /\ UNCHANGED <<subVars, open, writeMask>>
       \/ Destroy(h)
    /\ UNCHANGED <<msgVars, status, expired, sentTo, inherited>>

-----------------------------------------------------------------------------
(* Messages.                                                               *)

SentAfter(ms, h) == [m \in Msg |-> IF m \notin heap' THEN {}
                                   ELSE IF m \in ms THEN sentTo[m] \cup {h}
                                   ELSE sentTo[m]]

(* PublisherHandler::handleInput with a Msg_Event on topic t, read into a  *)
(* newly allocated m.                                                      *)
Publish(t, m) ==
    /\ up
    /\ m \notin heap
    /\ addMessage(t, m)
    /\ writeMask' = writeMask \cup Receivers(t)
    /\ expired' = expired \cap heap'
    /\ sentTo' = [n \in Msg |-> IF n \in heap' \ {m} THEN sentTo[n] ELSE {}]
    /\ inherited' = [h \in Handler |-> inherited[h] \ {m}]
    /\ UNCHANGED <<subVars, status, open, active, half>>

(* A message passes MaxBufferMessageLifeTime.                              *)
Expire(m) ==
    /\ m \in heap \ expired
    /\ expired' = expired \cup {m}
    /\ UNCHANGED <<subVars, msgVars, status, connVars, sentTo, inherited>>

OutputKept(h) ==
    /\ up
    /\ h \in writeMask
    /\ active' = IF getClientMessages(h) = {} THEN active ELSE active \cup {h}
    /\ writeMask' = writeMask \ {h}
    /\ expired' = expired \cap heap
    /\ sentTo' = [m \in Msg |-> IF m \in getClientMessages(h) \ expired
                                  THEN sentTo[m] \cup {h} ELSE sentTo[m]]
    /\ UNCHANGED <<subVars, msgVars, status, open, half, inherited>>

(* handleOutput gets through all messages of its handler; the expired ones *)
(* are skipped and count as sent.                                          *)
HandleOutputDone(h) ==
    /\ up
    /\ h \in writeMask
    /\ onMessageSent(getClientMessages(h), h)
    /\ active' = IF getClientMessages(h) = {} THEN active ELSE active \cup {h}
    /\ writeMask' = writeMask \ {h}
    /\ expired' = expired \cap heap'
    /\ sentTo' = SentAfter(getClientMessages(h) \ expired, h)
    /\ UNCHANGED <<subVars, status, open, half, inherited>>

(* A send fails, or is cut short, after the messages in `sent' are through: *)
(* handleOutput returns -1 and the handler is destroyed.                   *)
HandleOutputFails(h, sent) ==
    /\ up
    /\ h \in writeMask \ half
    /\ sent \subseteq getClientMessages(h)
    /\ ~(getClientMessages(h) \subseteq sent \cup expired)
    /\ onMessageSent(sent, h)
    /\ Destroy(h)
    /\ expired' = expired \cap heap'
    /\ sentTo' = SentAfter(sent \ expired, h)
    /\ UNCHANGED <<status, inherited>>

(* The same with a half-read message in the handler: ~SubscriberHandler    *)
(* asserts that there is none.  The process ends, everything in memory is  *)
(* gone.                                                                   *)
DestructorAssert(h) ==
    /\ up
    /\ h \in writeMask \cap half
    /\ ~(getClientMessages(h) \subseteq expired)
    /\ status' = "tmpMsg == 0"
    /\ subscriptionMap1' = [t \in Topic |-> {}]
    /\ subscriptionMap2' = [g \in Handler |-> {}]
    /\ PubMap3' = [m \in Msg |-> {}]
    /\ PubMap4' = [g \in Handler |-> {}]
    /\ heap' = {}
    /\ open' = {} /\ active' = {} /\ writeMask' = {} /\ half' = {}
    /\ expired' = {}
    /\ sentTo' = [m \in Msg |-> {}]
    /\ inherited' = [g \in Handler |-> {}]
    /\ UNCHANGED topic

(* A broker that starts has an empty store.                                *)
Restart ==
    /\ ~up
    /\ status' = "up"
    /\ UNCHANGED <<subVars, msgVars, connVars, expired, sentTo, inherited>>

-----------------------------------------------------------------------------
HandlerStep(h) ==
    \/ Accept(h) \/ InputError(h) \/ HalfRead(h) \/ Idle(h) \/ KeepAlive(h)
    \/ \E t \in Topic : Subscribe(h, t) \/ Unsubscribe(h, t)

HandleOutput(h) ==
    \/ HandleOutputDone(h)
    \/ \E sent \in SUBSET Msg : HandleOutputFails(h, sent)
    \/ DestructorAssert(h)

Next ==
    \/ \E h \in Handler : HandlerStep(h) \/ HandleOutput(h)
    \/ \E t \in Topic, m \in Msg : Publish(t, m)
    \/ \E m \in Msg : Expire(m)
    \/ Restart

Spec == Init /\ [][Next]_vars

(* The reactor calls handleOutput of a handler registered for WRITE_MASK   *)
(* whenever its socket is writable or broken.                              *)
FairSpec == Spec /\ \A h \in Handler : WF_vars(HandleOutput(h))

-----------------------------------------------------------------------------
StoreTypeOK ==
    /\ subscriptionMap1 \in [Topic -> SUBSET Handler]
    /\ subscriptionMap2 \in [Handler -> SUBSET Topic]
    /\ PubMap3 \in [Msg -> SUBSET Handler]
    /\ PubMap4 \in [Handler -> SUBSET Msg]
    /\ heap \subseteq Msg
    /\ topic \in [Msg -> Topic]

ConnTypeOK ==
    /\ open \subseteq Handler
    /\ active \subseteq open
    /\ writeMask \subseteq open
    /\ half \subseteq open
    /\ expired \subseteq heap
    /\ sentTo \in [Msg -> SUBSET Handler]
    /\ inherited \in [Handler -> SUBSET Msg]
    /\ status \in {"up", "tmpMsg == 0"}

(* The types of the store's maps and of the handlers' state; a handler     *)
(* that waits for output or is read from has not been deleted.             *)
TypeOK == StoreTypeOK /\ ConnTypeOK

(* No pointer to a deleted message: PubMap3 and PubMap4 are each other's   *)
(* inverse although the handlers in them may be gone, and all they hold is *)
(* allocated, so that handleOutput never sends a deleted Msg and           *)
(* onMessageSent never deletes one twice.                                  *)
NoDanglingMessage ==
    /\ \A h \in Handler, m \in Msg : m \in PubMap4[h] <=> h \in PubMap3[m]
    /\ \A h \in Handler : PubMap4[h] \subseteq heap

(* No pointer to a deleted handler among the subscriptions: addMessage and *)
(* isClientOnline call the handlers in subscriptionMap1, and the           *)
(* destructor finds all it has to remove there through subscriptionMap2.   *)
NoDanglingHandler ==
    \A t \in Topic : \A h \in subscriptionMap1[t] :
        h \in open /\ t \in subscriptionMap2[h]

(* The buffer never holds more than MaxBufferSize messages, those of       *)
(* handlers that are gone included.                                        *)
BufferBounded == Cardinality(Stored) <= MaxBufferSize

(* No lost wakeup: a handler that has subscribed is registered for output  *)
(* whenever there are messages for it, be they inherited.                  *)
PendingMeansWriteMask ==
    \A h \in open : subscriptionMap2[h] # {} /\ PubMap4[h] # {} => h \in writeMask

(* A message sent in full to a connection is no longer pending for it,     *)
(* whatever failed sends came in between.                                  *)
SentAtMostOnce == \A m \in Msg : sentTo[m] \cap PubMap3[m] = {}

(* What addMessage queues for a connection is on topics this connection    *)
(* has subscribed to; the messages it has on other topics are those left   *)
(* behind by an earlier handler at its address, and never any other.       *)
OnlySubscribedTopics ==
    \A h \in open : \A m \in PubMap4[h] \ inherited[h] :
        topic[m] \in subscriptionMap2[h]

(* A message leaves the buffer only by being deleted.                      *)
LeavesByDelete ==
    [][\A m \in Stored : up' /\ PubMap3'[m] = {} => m \notin heap']_vars

(* The inductive invariant behind the safety properties above: besides     *)
(* them, an unallocated message has been sent to nobody and a handler that *)
(* is gone has no topics.                                                  *)
IInv ==
    /\ TypeOK
    /\ NoDanglingMessage
    /\ NoDanglingHandler
    /\ \A h \in Handler \ open : subscriptionMap2[h] = {}
    /\ BufferBounded
    /\ PendingMeansWriteMask
    /\ SentAtMostOnce
    /\ \A m \in Msg \ heap : sentTo[m] = {}
    /\ OnlySubscribedTopics

(* A message pending for a connection that has subscribed is sent, dropped *)
(* or expires, or the connection comes to an end.                         *)
PendingIsSent ==
    \A h \in Handler, m \in Msg :
      m \in PubMap4[h] /\ h \in open /\ subscriptionMap2[h] # {}
        ~> m \notin PubMap4[h] \/ h \notin open
=============================================================================
