---------------------------- MODULE TopicManager ----------------------------
(***************************************************************************)
(* The subscription and message store of the broker, in its buffering mode *)
(* (msg/TopicManager.cpp, the operations whose name ends in "_").          *)
(*                                                                         *)
(* The store has no action of its own: every operation below is called     *)
(* from a handler that the broker's single reactor thread dispatches, and  *)
(* module BufferedBroker composes them into those handlers.  An operation  *)
(* that changes the store is an action on exactly the variables it         *)
(* assigns; one that only computes a value is a state function.            *)
(*                                                                         *)
(* A C++ std::map that operator[] fills on demand is a total function      *)
(* whose default value stands for an absent key.  Client ids are numbers;  *)
(* 0 is the id "0" of a client that has none yet.                          *)
(*                                                                         *)
(* BufferOverfull, HandlerKept, NobodyWoken and the like, each before the  *)
(* definition it deviates from, are faulty variants: no action uses them,  *)
(* and the properties are known to tell them from the real ones.           *)
(***************************************************************************)
EXTENDS Naturals, FiniteSets

CONSTANTS
    Topic,          \* topic names
    Msg,            \* addresses at which a Msg object can be allocated
    Handler,        \* addresses at which a SubscriberHandler can be allocated
    NoHandler,      \* the null SubscriberHandler pointer
    ClientId,       \* client ids, 0 included; bounds the number of allocations
    MaxBufferSize   \* the constant of the same name, 100 * 1000 in the code

ASSUME StoreAssumption ==
    /\ NoHandler \notin Handler
    /\ ClientId \subseteq Nat
    /\ 0 \in ClientId
    /\ MaxBufferSize \in Nat /\ MaxBufferSize > 0
    /\ IsFiniteSet(Msg)

VARIABLES
    subscribers,           \* client id -> its handler, or NoHandler
    subscriptionMap,       \* topic -> ids of its subscribers
    nextAllocateClientId,  \* the next id to hand out
    PubMap1,               \* client id -> messages still to send to it
    PubMap2,               \* message -> ids it is still to be sent to
    heap,                  \* Msg objects allocated and not deleted
    file                   \* contents of the file SubscriptionInfo

storeVars == <<subscribers, subscriptionMap, nextAllocateClientId,
               PubMap1, PubMap2, heap>>

-----------------------------------------------------------------------------
(* The file SubscriptionInfo.  The constructor treats a missing file and   *)
(* an empty one alike: both are EmptyFile, recognised by its next = 0.     *)

EmptyFile == [next |-> 0, subs |-> [t \in Topic |-> {}]]

SaveOldNextId ==
    file' = [next |-> nextAllocateClientId, subs |-> subscriptionMap']

SaveOldSubscriptions ==
    file' = [next |-> nextAllocateClientId', subs |-> subscriptionMap]

saveSubscriptionInfoToDisk_ ==
    file' = [next |-> nextAllocateClientId', subs |-> subscriptionMap']

(* ofstream truncates the file when it is opened and writes the new        *)
(* contents afterwards: a crash in between leaves an empty file.           *)
TruncatedSave == file' = EmptyFile

-----------------------------------------------------------------------------
(* Construction: the store a starting broker loads from the file.          *)

TopicManagerInit ==
    /\ subscribers = [i \in ClientId |-> NoHandler]
    /\ subscriptionMap = [t \in Topic |-> {}]
    /\ nextAllocateClientId = 1
    /\ PubMap1 = [i \in ClientId |-> {}]
    /\ PubMap2 = [m \in Msg |-> {}]
    /\ heap = {}
    /\ file = EmptyFile

LoadTopicManager ==
    /\ subscribers' = [i \in ClientId |-> NoHandler]
    /\ nextAllocateClientId' = IF file.next = 0 THEN 1 ELSE file.next
    /\ subscriptionMap' = [t \in Topic |->
                             IF file.next = 0 THEN {} ELSE file.subs[t]]
    /\ PubMap1' = [i \in ClientId |-> {}]
    /\ PubMap2' = [m \in Msg |-> {}]
    /\ heap' = {}

-----------------------------------------------------------------------------
(* Subscriptions.                                                          *)

addSubscription_(t, i, h) ==
    /\ subscribers' = [subscribers EXCEPT ![i] = h]
    /\ subscriptionMap' = [subscriptionMap EXCEPT ![t] = @ \cup {i}]

removeSubscription_(t, i) ==
    subscriptionMap' = [subscriptionMap EXCEPT ![t] = @ \ {i}]

HandlerKept(i) == UNCHANGED subscribers

(* The entry of the id is cleared whatever handler it holds.               *)
onHandlerDestroyed_(i) ==
    subscribers' = [subscribers EXCEPT ![i] = NoHandler]

allocateClientId_ == nextAllocateClientId' = nextAllocateClientId + 1

getHandlerOfClient_(i) == subscribers[i]

getSubscribersOfTopic_(t) == subscriptionMap[t]

-----------------------------------------------------------------------------
(* Messages.                                                               *)

Stored == {m \in Msg : PubMap2[m] # {}}

BufferOverfull == Cardinality(Stored) > MaxBufferSize

(* checkBufferSize_: a full buffer is emptied, every message in it deleted *)
BufferFull == Cardinality(Stored) >= MaxBufferSize

KeptPubMap1 == IF BufferFull THEN [i \in ClientId |-> {}] ELSE PubMap1
KeptPubMap2 == IF BufferFull THEN [m \in Msg |-> {}] ELSE PubMap2
KeptHeap    == IF BufferFull THEN heap \ Stored ELSE heap

(* addMessage_ of the newly allocated message m on topic t, checkBufferSize_ *)
(* first.  A message without subscribers enters neither map.               *)
addMessage_(t, m) ==
    LET clients == getSubscribersOfTopic_(t) IN
    /\ PubMap1' = [i \in ClientId |->
                     IF i \in clients THEN KeptPubMap1[i] \cup {m}
                                      ELSE KeptPubMap1[i]]
    /\ PubMap2' = [KeptPubMap2 EXCEPT ![m] = @ \cup clients]
    /\ heap' = KeptHeap \cup {m}

getClientMessages_(i) == PubMap1[i]

SentButKept(sent, i) == UNCHANGED <<PubMap1, PubMap2, heap>>

SentNotDeleted(sent, i) ==
    /\ PubMap1' = [PubMap1 EXCEPT ![i] = @ \ sent]
    /\ PubMap2' = [m \in Msg |-> IF m \in sent THEN PubMap2[m] \ {i}
                                               ELSE PubMap2[m]]
    /\ UNCHANGED heap

SentLeftInPubMap1(sent, i) ==
    /\ PubMap2' = [m \in Msg |-> IF m \in sent THEN PubMap2[m] \ {i}
                                               ELSE PubMap2[m]]
    /\ heap' = heap \ {m \in sent : PubMap2[m] \ {i} = {}}
    /\ UNCHANGED PubMap1

(* onMessageSent_ for each message of the set sent, for client i.          *)
onMessageSent_(sent, i) ==
    /\ PubMap1' = [PubMap1 EXCEPT ![i] = @ \ sent]
    /\ PubMap2' = [m \in Msg |-> IF m \in sent THEN PubMap2[m] \ {i}
                                               ELSE PubMap2[m]]
    /\ heap' = heap \ {m \in sent : PubMap2[m] \ {i} = {}}
=============================================================================
