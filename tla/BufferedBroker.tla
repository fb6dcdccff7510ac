--------------------------- MODULE BufferedBroker ---------------------------
(***************************************************************************)
(* The message broker with enableBuffering on: its one reactor thread      *)
(* dispatches the handlers of the subscriber connections                   *)
(* (msg/SubscriberProxy.cpp) and of the publisher connections              *)
(* (msg/PublisherProxy.cpp), which call the store of module TopicManager.  *)
(* The broker may crash at any step, in the middle of saving the file      *)
(* SubscriptionInfo included, and may be started again.                    *)
(*                                                                         *)
(* The build leaves assert() on, so a failing assertion stops the broker   *)
(* like a crash; `status' names it.  The address of a deleted handler or  *)
(* message may be used again for a new one.                                *)
(***************************************************************************)
EXTENDS TopicManager

CONSTANT
    MaxOneCharId    \* the largest id written with one character: 9

ASSUME BrokerAssumption == MaxOneCharId \in Nat

VARIABLES
    status,     \* "up", "crashed", or the assertion that stopped the broker
    open,       \* SubscriberHandler objects alive
    id,         \* SubscriberHandler::id
    writeMask,  \* handlers registered for WRITE_MASK
    half,       \* handlers with a half-read message: tmpMsg # 0
    expired,    \* messages older than MaxBufferMessageLifeTime
    issued,     \* ids sent to a client in a Msg_Subscribe_OK
    acked,      \* <<topic, id>>: subscriptions acknowledged, not yet undone
    sentTo,     \* message -> ids it has been sent to in full
    saves       \* "torn" once a crash has cut a save of the file short

connVars == <<open, id, writeMask, half>>
historyVars == <<issued, acked, sentTo, saves>>
vars == <<storeVars, file, status, connVars, expired, historyVars>>

up == status = "up"

-----------------------------------------------------------------------------
Init ==
    /\ TopicManagerInit
    /\ status = "up"
    /\ open = {}
    /\ id = [h \in Handler |-> 0]
    /\ writeMask = {}
    /\ half = {}
    /\ expired = {}
    /\ issued = {}
    /\ acked = {}
    /\ sentTo = [m \in Msg |-> {}]
    /\ saves = "whole"

(* The process ends: everything in memory is gone.                         *)
Stop(why) ==
    /\ status' = why
    /\ subscribers' = [i \in ClientId |-> NoHandler]
    /\ subscriptionMap' = [t \in Topic |-> {}]
    /\ nextAllocateClientId' = 1
    /\ PubMap1' = [i \in ClientId |-> {}]
    /\ PubMap2' = [m \in Msg |-> {}]
    /\ heap' = {}
    /\ open' = {}
    /\ id' = [h \in Handler |-> 0]
    /\ writeMask' = {}
    /\ half' = {}
    /\ expired' = {}
    /\ sentTo' = [m \in Msg |-> {}]

Crash ==
    /\ up
    /\ Stop("crashed")
    /\ UNCHANGED <<file, issued, acked, saves>>

Abort(why) ==
    /\ Stop(why)
    /\ UNCHANGED <<file, issued, acked, saves>>

Restart ==
    /\ ~up
    /\ status' = "up"
    /\ LoadTopicManager
    /\ expired' = {}
    /\ sentTo' = [m \in Msg |-> {}]
    /\ UNCHANGED <<file, connVars, issued, acked, saves>>

-----------------------------------------------------------------------------
(* Connections.                                                            *)

(* The acceptor makes a handler for a new connection.                      *)
Accept(h) ==
    /\ up
    /\ h \in Handler \ open
    /\ open' = open \cup {h}
    /\ UNCHANGED <<storeVars, file, status, id, writeMask, half, expired,
                   historyVars>>

DestroyLeavingMask(h, i) ==
    /\ onHandlerDestroyed_(i)
    /\ open' = open \ {h}
    /\ id' = [id EXCEPT ![h] = 0]
    /\ half' = half \ {h}
    /\ UNCHANGED writeMask

(* handleClose deletes the handler: the destructor clears the entry of its *)
(* current id i in the store, and no entry of an id it had before.         *)
Destroy(h, i) ==
    /\ onHandlerDestroyed_(i)
    /\ open' = open \ {h}
    /\ id' = [id EXCEPT ![h] = 0]
    /\ writeMask' = writeMask \ {h}
    /\ half' = half \ {h}

(* handleInput when the peer has closed, or the read fails: a half-read    *)
(* message is freed before the handler is.                                 *)
InputError(h) ==
    /\ up
    /\ h \in open
    /\ Destroy(h, id[h])
    /\ UNCHANGED <<subscriptionMap, nextAllocateClientId, PubMap1, PubMap2,
                   heap, file, status, expired, historyVars>>

(* handleInput when only a part of a message has arrived.                  *)
HalfRead(h) ==
    /\ up
    /\ h \in open
    /\ half' = half \cup {h}
    /\ UNCHANGED <<storeVars, file, status, open, id, writeMask, expired,
                   historyVars>>

-----------------------------------------------------------------------------
(* handleInput with a complete message, by its type.                       *)

(* Ids a client can send: "0", or the one it was given; clients keep theirs *)
(* in a file of their own, across crashes of the broker.                   *)
SubscribeIds == {0} \cup issued

(* A client on a new connection may send an unsubscription it still owes,  *)
(* and one that was given several ids unsubscribes with the first.         *)
UnsubscribeIds == issued

(* The handler of a Msg_Subscribe up to and including the update of the    *)
(* store: j is the id the connection has from now on.  A connection may    *)
(* subscribe again, with "0" as long as its client has no answer.          *)
Register(h, t, i, j) ==
    /\ up
    /\ h \in open
    /\ i \in SubscribeIds
    /\ IF i = 0
         THEN /\ j = nextAllocateClientId
              /\ j <= MaxOneCharId   \* assert(id.size() == 1)
              /\ allocateClientId_
         ELSE /\ j = i
              /\ UNCHANGED nextAllocateClientId

SubscribeOk(h, t, i, j) ==
    /\ Register(h, t, i, j)
    /\ addSubscription_(t, j, h)
    /\ saveSubscriptionInfoToDisk_
    /\ id' = [id EXCEPT ![h] = j]
    /\ writeMask' = writeMask \cup {h}
    /\ half' = half \ {h}
    /\ issued' = issued \cup {j}
    /\ acked' = acked \cup {<<t, j>>}
    /\ UNCHANGED <<PubMap1, PubMap2, heap, status, open, expired,
                   sentTo, saves>>

(* The Msg_Subscribe_OK cannot be sent: handleInput returns -1 and the     *)
(* handler is destroyed, the subscription stays.                           *)
SubscribeSendFails(h, t, i, j) ==
    /\ Register(h, t, i, j)
    /\ subscriptionMap' = [subscriptionMap EXCEPT ![t] = @ \cup {j}]
    /\ saveSubscriptionInfoToDisk_
    /\ Destroy(h, j)
    /\ UNCHANGED <<PubMap1, PubMap2, heap, status, expired, historyVars>>

SubscribeAssert(h, i) ==
    /\ up
    /\ h \in open
    /\ i = 0
    /\ nextAllocateClientId > MaxOneCharId
    /\ Abort("id.size() == 1")

Unsubscribe(h, t, i) ==
    /\ up
    /\ h \in open
    /\ i \in UnsubscribeIds
    /\ id[h] = i
    /\ removeSubscription_(t, i)
    /\ UNCHANGED nextAllocateClientId
    /\ saveSubscriptionInfoToDisk_
    /\ acked' = acked \ {<<t, i>>}
    /\ \/ /\ half' = half \ {h}
          /\ UNCHANGED <<subscribers, open, id, writeMask>>
       \/ Destroy(h, i)               \* the Msg_UnSubscribe_OK is not sent
    /\ UNCHANGED <<PubMap1, PubMap2, heap, status, expired, issued,
                   sentTo, saves>>

UnsubscribeAssert(h, i) ==
    /\ up
    /\ h \in open
    /\ i \in UnsubscribeIds
    /\ id[h] # i
    /\ Abort("this->id == msg->subscriberId")

(* The process dies while a Subscribe or Unsubscribe handler is between    *)
(* truncating the file and writing it.                                     *)
CrashInSave(h) ==
    /\ up
    /\ h \in open
    /\ Stop("crashed")
    /\ TruncatedSave
    /\ saves' = "torn"
    /\ UNCHANGED <<issued, acked>>

KeepAlive(h) ==
    /\ up
    /\ h \in open
    /\ \/ /\ half' = half \ {h}
          /\ UNCHANGED <<subscribers, open, id, writeMask>>
       \/ Destroy(h, id[h])           \* the Msg_KeepAlive_ACK is not sent
    /\ UNCHANGED <<subscriptionMap, nextAllocateClientId, PubMap1, PubMap2,
                   heap, file, status, expired, historyVars>>

-----------------------------------------------------------------------------
(* Messages.                                                               *)

SentAfter(ms, i) == [m \in Msg |-> IF m \notin heap' THEN {}
                                   ELSE IF m \in ms THEN sentTo[m] \cup {i}
                                   ELSE sentTo[m]]

(* The handlers addMessage_ registers for output.  registerWriteMask()     *)
(* through a pointer to a deleted handler, whose stream is closed, does    *)
(* nothing here; that it stops the broker instead is an instance of Crash. *)
NobodyWoken(t) == {}

Woken(t) ==
    {getHandlerOfClient_(i) : i \in getSubscribersOfTopic_(t)} \cap open

(* PublisherHandler::handleInput with a Msg_Event on topic t, read into a  *)
(* newly allocated m.                                                      *)
Publish(t, m) ==
    /\ up
    /\ m \notin heap
    /\ addMessage_(t, m)
    /\ writeMask' = writeMask \cup Woken(t)
    /\ expired' = expired \cap heap'
    /\ sentTo' = SentAfter({}, 0)
    /\ UNCHANGED <<subscribers, subscriptionMap, nextAllocateClientId, file,
                   status, open, id, half, issued, acked, saves>>

(* A message passes MaxBufferMessageLifeTime.                              *)
Expire(m) ==
    /\ m \in heap \ expired
    /\ expired' = expired \cup {m}
    /\ UNCHANGED <<storeVars, file, status, connVars, historyVars>>

(* The messages handleOutput really sends; the expired ones are skipped    *)
(* and count as sent.                                                      *)
Fresh(h) == getClientMessages_(id[h]) \ expired

(* handleOutput gets through all messages of its client.                   *)
HandleOutputDone(h) ==
    /\ up
    /\ h \in writeMask
    /\ Fresh(h) = {} \/ getHandlerOfClient_(id[h]) = h
    /\ onMessageSent_(getClientMessages_(id[h]), id[h])
    /\ writeMask' = writeMask \ {h}
    /\ expired' = expired \cap heap'
    /\ sentTo' = SentAfter(Fresh(h), id[h])
    /\ UNCHANGED <<subscribers, subscriptionMap, nextAllocateClientId, file,
                   status, open, id, half, issued, acked, saves>>

(* A send fails, or is cut short, after the messages in `sent' are through: *)
(* handleOutput returns -1 and the handler is destroyed.                   *)
HandleOutputFails(h, sent) ==
    /\ up
    /\ h \in writeMask \ half
    /\ sent \subseteq getClientMessages_(id[h])
    /\ Fresh(h) \ sent # {}
    /\ getHandlerOfClient_(id[h]) = h
    /\ onMessageSent_(sent, id[h])
    /\ Destroy(h, id[h])
    /\ expired' = expired \cap heap'
    /\ sentTo' = SentAfter(sent \ expired, id[h])
    /\ UNCHANGED <<subscriptionMap, nextAllocateClientId, file, status,
                   issued, acked, saves>>

(* The same with a half-read message in the handler: ~SubscriberHandler    *)
(* asserts that there is none.                                             *)
DestructorAssert(h) ==
    /\ up
    /\ h \in writeMask \cap half
    /\ Fresh(h) # {}
    /\ getHandlerOfClient_(id[h]) = h
    /\ Abort("tmpMsg == 0")

HandlerOfClientAssert(h) ==
    /\ up
    /\ h \in writeMask
    /\ Fresh(h) # {}
    /\ getHandlerOfClient_(id[h]) # h
    /\ Abort("getHandlerOfClient_(id) == this")

-----------------------------------------------------------------------------
HandlerStep(h) ==
    \/ Accept(h) \/ InputError(h) \/ HalfRead(h) \/ KeepAlive(h)
    \/ \E t \in Topic, i, j \in ClientId :
         SubscribeOk(h, t, i, j) \/ SubscribeSendFails(h, t, i, j)
    \/ \E i \in ClientId : SubscribeAssert(h, i) \/ UnsubscribeAssert(h, i)
    \/ \E t \in Topic, i \in ClientId : Unsubscribe(h, t, i)
    \/ CrashInSave(h)

HandleOutput(h) ==
    \/ HandleOutputDone(h)
    \/ \E sent \in SUBSET Msg : HandleOutputFails(h, sent)
    \/ DestructorAssert(h)
    \/ HandlerOfClientAssert(h)

Next ==
    \/ \E h \in Handler : HandlerStep(h) \/ HandleOutput(h)
    \/ \E t \in Topic, m \in Msg : Publish(t, m)
    \/ \E m \in Msg : Expire(m)
    \/ Crash
    \/ Restart

Spec == Init /\ [][Next]_vars

(* The reactor calls handleOutput of a handler registered for WRITE_MASK   *)
(* whenever select() reports its socket writable or broken, which it does  *)
(* for every peer that goes on reading or goes away.                       *)
FairSpec == Spec /\ \A h \in Handler : WF_vars(HandleOutput(h))

-----------------------------------------------------------------------------
StoreTypeOK ==
    /\ subscribers \in [ClientId -> Handler \cup {NoHandler}]
    /\ subscriptionMap \in [Topic -> SUBSET ClientId]
    /\ PubMap1 \in [ClientId -> SUBSET Msg]
    /\ PubMap2 \in [Msg -> SUBSET ClientId]
    /\ heap \subseteq Msg

NextIdTypeOK == nextAllocateClientId \in Nat /\ nextAllocateClientId > 0

FileTypeOK == file \in [next : Nat, subs : [Topic -> SUBSET ClientId]]

ConnTypeOK ==
    /\ open \subseteq Handler
    /\ id \in [Handler -> ClientId]
    /\ writeMask \subseteq open
    /\ half \subseteq open

HistoryTypeOK ==
    /\ expired \subseteq heap
    /\ issued \subseteq ClientId \ {0}
    /\ acked \subseteq Topic \X ClientId
    /\ sentTo \in [Msg -> SUBSET ClientId]

Assertion == {"id.size() == 1", "this->id == msg->subscriberId",
              "tmpMsg == 0", "getHandlerOfClient_(id) == this"}

ProcessTypeOK ==
    /\ status \in {"up", "crashed"} \cup Assertion
    /\ saves \in {"whole", "torn"}

(* The types of the store, the file, the connections and the histories; a  *)
(* handler that waits for output or is read from has not been deleted.     *)
TypeOK ==
    /\ StoreTypeOK
    /\ NextIdTypeOK
    /\ FileTypeOK
    /\ ConnTypeOK
    /\ HistoryTypeOK
    /\ ProcessTypeOK

(* No pointer to a deleted message: PubMap1 and PubMap2 are each other's   *)
(* inverse through publishing, sending, overflow and reconnection, and all *)
(* they hold is allocated, so that handleOutput never sends a deleted Msg  *)
(* and onMessageSent_ never deletes one twice.                             *)
NoDanglingMessage ==
    /\ \A i \in ClientId, m \in Msg : m \in PubMap1[i] <=> i \in PubMap2[m]
    /\ \A i \in ClientId : PubMap1[i] \subseteq heap

(* The buffer never holds more than MaxBufferSize messages: addMessage_    *)
(* makes room before it stores one.                                        *)
BufferBounded == Cardinality(Stored) <= MaxBufferSize

(* A message that was sent in full to a client is no longer pending for    *)
(* it, whatever disconnections and failed sends came in between.           *)
SentAtMostOnce == \A m \in Msg : sentTo[m] \cap PubMap2[m] = {}

(* A message leaves the buffer only by being deleted: the only Msg objects *)
(* the broker loses track of are those published without a subscriber.     *)
LeavesByDelete ==
    [][\A m \in Stored : up' /\ PubMap2'[m] = {} => m \notin heap']_vars

(* Unless a crash cut a save short, every id a client holds is below the   *)
(* next one to be allocated, in memory and after a restart: no two clients *)
(* get the same id.                                                        *)
IssuedIdsNotReused ==
    saves = "whole" =>
      \A i \in issued : i < file.next /\ (up => i < nextAllocateClientId)

(* Unless a crash cut a save short, an acknowledged subscription is in the *)
(* file, and the running broker agrees with the file.                      *)
AckedSubscriptionsDurable ==
    /\ saves = "whole" => \A s \in acked : s[2] \in file.subs[s[1]]
    /\ up => subscriptionMap = file.subs

(* The handler the store has for id i is alive and still has that id.  A   *)
(* client's older connection does not serve its id in this sense, nor does *)
(* a connection the id it had before it subscribed under another.          *)
Serves(h, i) == h \in open /\ id[h] = i /\ subscribers[i] = h

(* No lost wakeup: a handler that serves an id is registered for output    *)
(* whenever there are messages for that id, however often it or others     *)
(* have subscribed, sent and been deleted, and their addresses been used   *)
(* again.                                                                  *)
PendingMeansWriteMask ==
    \A h \in Handler, i \in ClientId :
      Serves(h, i) /\ PubMap1[i] # {} => h \in writeMask

(* The inductive invariant behind the safety properties above: besides     *)
(* them, an unallocated message has been sent to nobody, a new handler has *)
(* id 0, which never has a handler in the store, and a file without a next *)
(* id lists nobody.                                                        *)
IInv ==
    /\ TypeOK
    /\ NoDanglingMessage
    /\ BufferBounded
    /\ SentAtMostOnce
    /\ \A m \in Msg \ heap : sentTo[m] = {}
    /\ IssuedIdsNotReused
    /\ AckedSubscriptionsDurable
    /\ file.next = 0 => \A t \in Topic : file.subs[t] = {}
    /\ \A h \in Handler \ open : id[h] = 0
    /\ subscribers[0] = NoHandler
    /\ PendingMeansWriteMask

(* No message stays buffered for ever for an id that a handler goes on     *)
(* serving: it is sent, dropped or expires, unless the connection ends or  *)
(* subscribes under another id, or the store forgets the handler or has a  *)
(* newer one.                                                              *)
PendingIsSent ==
    \A i \in ClientId \ {0}, m \in Msg, h \in Handler :
      []<>~(m \in PubMap1[i] /\ Serves(h, i))

-----------------------------------------------------------------------------
(* What the code and its configuration file say, and the code does not     *)
(* keep.                                                                   *)

(* SubscriberProxy.cpp:215, assert(getHandlerOfClient_(id) == this): the   *)
(* handler that sends to a client is the one the store has for it.         *)
HandlerOfClientHolds == status # "getHandlerOfClient_(id) == this"

(* SubscriberProxy.cpp:37, assert(tmpMsg == 0): no handler is destroyed    *)
(* with a half-read message.                                               *)
NoHalfReadAtDestruction == status # "tmpMsg == 0"

(* SubscriberProxy.cpp:144, assert(this->id == msg->subscriberId): a       *)
(* client unsubscribes on a connection that knows its id.                  *)
UnsubscriberIsKnown == status # "this->id == msg->subscriberId"

(* SubscriberProxy.cpp:91, assert(id.size() == 1): an allocated id is one  *)
(* character long.                                                         *)
IdIsOneCharacter == status # "id.size() == 1"

(* conf/icmmsg.ini:9, "when client offline, buffer the message, when it    *)
(* become online, send the buffered message": what is pending for a client *)
(* is sent as long as the one connection it has subscribed on is open.     *)
OnlyConnection(h, i) == h \in open /\ {g \in open : id[g] = i} = {h}

OnlineClientIsSent ==
    \A i \in ClientId, m \in Msg, h \in Handler :
      m \in PubMap1[i] /\ OnlyConnection(h, i)
        ~> m \notin PubMap1[i] \/ m \in expired \/ ~OnlyConnection(h, i)

(* TopicManager.cpp:160, "subscriberHandler->registerWriteMask()": the     *)
(* handlers addMessage_ calls, those in the store, are alive.              *)
NoDanglingHandler == \A i \in ClientId : subscribers[i] \in open \cup {NoHandler}
=============================================================================
