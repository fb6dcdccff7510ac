---------------------------- MODULE BrokerProofs ----------------------------
(***************************************************************************)
(* Safety of the broker's two personalities, for any number of topics,     *)
(* messages and connections: the buffering broker (BufferedBroker), with   *)
(* any set of client ids, and then the broker without buffering            *)
(* (UnbufferedBroker, whose definitions are the U!... below).  The two are *)
(* alternatives chosen by enableBuffering, so they are about the same      *)
(* topics, messages and handlers and no theorem relates a state of one to  *)
(* a state of the other.                                                   *)
(***************************************************************************)
EXTENDS BufferedBroker, TLAPS

-----------------------------------------------------------------------------
(* The buffering broker.                                                   *)

(* The id "0" of a client that has none yet is an id.                      *)
LEMMA ZeroIsId == 0 \in ClientId
BY StoreAssumption

(* The broker's state stays well typed: in particular only live handlers   *)
(* are registered for output or hold a half-read message.                  *)
LEMMA TypeInit == Init => TypeOK
<1> SUFFICES ASSUME Init PROVE TypeOK
  OBVIOUS
<1> USE ZeroIsId DEF Init, TopicManagerInit
<1>1. StoreTypeOK
  BY DEF StoreTypeOK
<1>2. FileTypeOK /\ NextIdTypeOK
  BY DEF FileTypeOK, EmptyFile, NextIdTypeOK
<1>3. ConnTypeOK /\ HistoryTypeOK
  BY DEF ConnTypeOK, HistoryTypeOK
<1>4. ProcessTypeOK
  BY DEF ProcessTypeOK
<1> QED
  BY <1>1, <1>2, <1>3, <1>4 DEF TypeOK

(* Every step keeps the state well typed.                                  *)
LEMMA TypeStep == TypeOK /\ [Next]_vars => TypeOK'
<1> SUFFICES ASSUME TypeOK, [Next]_vars PROVE TypeOK'
  OBVIOUS
<1> USE ZeroIsId DEF TypeOK, StoreTypeOK, NextIdTypeOK, FileTypeOK,
        ConnTypeOK, HistoryTypeOK, ProcessTypeOK
<1>1. ASSUME NEW why \in Assertion, Abort(why) PROVE TypeOK'
  BY <1>1 DEF Abort, Stop
<1>2. CASE Crash
  BY <1>2 DEF Crash, Stop
<1>3. CASE Restart
  <2> USE <1>3 DEF Restart, LoadTopicManager, connVars, historyVars
  <2>1. file.next \in Nat /\ file.subs \in [Topic -> SUBSET ClientId]
    OBVIOUS
  <2>2. NextIdTypeOK'
    BY <2>1
  <2>3. StoreTypeOK' /\ FileTypeOK' /\ ConnTypeOK'
    BY <2>1
  <2>4. HistoryTypeOK' /\ ProcessTypeOK'
    OBVIOUS
  <2> QED
    BY <2>2, <2>3, <2>4
<1>4. ASSUME NEW h \in Handler, Accept(h) PROVE TypeOK'
  BY <1>4 DEF Accept, storeVars, historyVars
<1>5. ASSUME NEW h \in Handler, InputError(h) PROVE TypeOK'
  BY <1>5 DEF InputError, Destroy, onHandlerDestroyed_, historyVars
<1>6. ASSUME NEW h \in Handler, HalfRead(h) PROVE TypeOK'
  BY <1>6 DEF HalfRead, storeVars, historyVars
<1>7. ASSUME NEW h \in Handler, KeepAlive(h) PROVE TypeOK'
  BY <1>7 DEF KeepAlive, Destroy, onHandlerDestroyed_, historyVars
<1>8. ASSUME NEW h \in Handler, NEW t \in Topic, NEW i \in ClientId,
             NEW j \in ClientId, SubscribeOk(h, t, i, j)
      PROVE  TypeOK'
  BY <1>8 DEF SubscribeOk, Register, addSubscription_, allocateClientId_,
              saveSubscriptionInfoToDisk_
<1>9. ASSUME NEW h \in Handler, NEW t \in Topic, NEW i \in ClientId,
             NEW j \in ClientId, SubscribeSendFails(h, t, i, j)
      PROVE  TypeOK'
  BY <1>9 DEF SubscribeSendFails, Register, allocateClientId_, Destroy,
              onHandlerDestroyed_, saveSubscriptionInfoToDisk_, historyVars
<1>10. ASSUME NEW h \in Handler, NEW t \in Topic, NEW i \in ClientId,
              Unsubscribe(h, t, i)
       PROVE  TypeOK'
  BY <1>10 DEF Unsubscribe, removeSubscription_, Destroy,
               onHandlerDestroyed_, saveSubscriptionInfoToDisk_
<1>11. ASSUME NEW h \in Handler, CrashInSave(h) PROVE TypeOK'
  BY <1>11 DEF CrashInSave, Stop, TruncatedSave, EmptyFile
<1>12. ASSUME NEW t \in Topic, NEW m \in Msg, Publish(t, m) PROVE TypeOK'
  BY <1>12 DEF Publish, addMessage_, KeptPubMap1, KeptPubMap2, KeptHeap,
               getSubscribersOfTopic_, Woken, SentAfter, Stored
<1>13. ASSUME NEW m \in Msg, Expire(m) PROVE TypeOK'
  BY <1>13 DEF Expire, storeVars, connVars, historyVars
<1>14. ASSUME NEW h \in Handler, HandleOutputDone(h) PROVE TypeOK'
  BY <1>14 DEF HandleOutputDone, onMessageSent_, SentAfter,
               getClientMessages_
<1>15. ASSUME NEW h \in Handler, NEW sent \in SUBSET Msg,
              HandleOutputFails(h, sent)
       PROVE  TypeOK'
  BY <1>15 DEF HandleOutputFails, onMessageSent_, SentAfter, Destroy,
               onHandlerDestroyed_
<1>16. CASE UNCHANGED vars
  BY <1>16 DEF vars, storeVars, connVars, historyVars
<1> QED
  BY <1>1, <1>2, <1>3, <1>4, <1>5, <1>6, <1>7, <1>8, <1>9, <1>10, <1>11,
     <1>12, <1>13, <1>14, <1>15, <1>16, Zenon
     DEF Next, HandlerStep, HandleOutput, SubscribeAssert, Assertion,
         UnsubscribeAssert, DestructorAssert, HandlerOfClientAssert

-----------------------------------------------------------------------------
(* What a step does to the messages: nothing, except for a start or a stop *)
(* of the broker, a publication and a handleOutput.                        *)
LEMMA MessageSteps ==
    ASSUME [Next]_vars
    PROVE  \/ UNCHANGED <<PubMap1, PubMap2, heap, sentTo>>
           \/ /\ PubMap1' = [i \in ClientId |-> {}]
              /\ PubMap2' = [m \in Msg |-> {}]
              /\ heap' = {}
              /\ sentTo' = [m \in Msg |-> {}]
           \/ \E t \in Topic, m \in Msg : Publish(t, m)
           \/ \E h \in Handler : HandleOutputDone(h)
           \/ \E h \in Handler, sent \in SUBSET Msg : HandleOutputFails(h, sent)
<1> USE DEF storeVars, connVars, historyVars
<1>1. CASE UNCHANGED vars
  BY <1>1 DEF vars
<1>2. ASSUME NEW h \in Handler, HandlerStep(h)
      PROVE  \/ UNCHANGED <<PubMap1, PubMap2, heap, sentTo>>
             \/ \E why : Stop(why)
  BY <1>2, ZenonT(40) DEF HandlerStep, Accept, InputError, HalfRead, KeepAlive,
       SubscribeOk, SubscribeSendFails, SubscribeAssert, UnsubscribeAssert,
       Unsubscribe, CrashInSave, Abort
<1>3. ASSUME NEW h \in Handler, HandleOutput(h)
      PROVE  \/ HandleOutputDone(h)
             \/ \E sent \in SUBSET Msg : HandleOutputFails(h, sent)
             \/ \E why : Stop(why)
  BY <1>3, Zenon DEF HandleOutput, DestructorAssert, HandlerOfClientAssert, Abort
<1>4. CASE Restart
  BY <1>4 DEF Restart, LoadTopicManager
<1>5. ASSUME NEW m \in Msg, Expire(m)
      PROVE  UNCHANGED <<PubMap1, PubMap2, heap, sentTo>>
  BY <1>5 DEF Expire
<1>6. CASE Crash
  BY <1>6 DEF Crash, Stop
<1> QED
  BY <1>1, <1>2, <1>3, <1>4, <1>5, <1>6 DEF Next, Stop

-----------------------------------------------------------------------------
(* PubMap1 and PubMap2 stay each other's inverse and inside the heap: a    *)
(* message is deleted only with its last entry.                            *)
LEMMA NoDanglingMessageStep ==
    TypeOK /\ NoDanglingMessage /\ [Next]_vars => NoDanglingMessage'
<1> SUFFICES ASSUME TypeOK, NoDanglingMessage, [Next]_vars
             PROVE  NoDanglingMessage'
  OBVIOUS
<1> USE DEF TypeOK, StoreTypeOK, NoDanglingMessage
<1>1. CASE UNCHANGED <<PubMap1, PubMap2, heap, sentTo>>
  BY <1>1
<1>2. CASE /\ PubMap1' = [i \in ClientId |-> {}]
           /\ PubMap2' = [m \in Msg |-> {}]
  BY <1>2
<1>3. ASSUME NEW t \in Topic, NEW m \in Msg, Publish(t, m)
      PROVE  NoDanglingMessage'
  <2>1. subscriptionMap[t] \subseteq ClientId
    OBVIOUS
  <2>2. \A i \in ClientId : m \notin PubMap1[i] /\ i \notin PubMap2[m]
    BY <1>3 DEF Publish
  <2>3. /\ KeptPubMap1 \in [ClientId -> SUBSET Msg]
        /\ KeptPubMap2 \in [Msg -> SUBSET ClientId]
        /\ \A i \in ClientId, n \in Msg :
             n \in KeptPubMap1[i] <=> i \in KeptPubMap2[n]
        /\ \A i \in ClientId : KeptPubMap1[i] \subseteq KeptHeap
        /\ \A i \in ClientId : m \notin KeptPubMap1[i]
    BY <2>2 DEF KeptPubMap1, KeptPubMap2, KeptHeap
  <2> HIDE DEF TypeOK, StoreTypeOK
  <2> QED
    BY <1>3, <2>1, <2>3 DEF Publish, addMessage_, getSubscribersOfTopic_
<1>4. ASSUME NEW i \in ClientId, NEW sent \in SUBSET Msg,
             sent \subseteq PubMap1[i], onMessageSent_(sent, i)
      PROVE  NoDanglingMessage'
  BY <1>4 DEF onMessageSent_
<1>5. ASSUME NEW h \in Handler, HandleOutputDone(h)
      PROVE  NoDanglingMessage'
  BY <1>4, <1>5 DEF HandleOutputDone, getClientMessages_, ConnTypeOK
<1>6. ASSUME NEW h \in Handler, NEW sent \in SUBSET Msg,
             HandleOutputFails(h, sent)
      PROVE  NoDanglingMessage'
  BY <1>4, <1>6 DEF HandleOutputFails, getClientMessages_, ConnTypeOK
<1> QED
  BY <1>1, <1>2, <1>3, <1>5, <1>6, MessageSteps

(* A message sent to a client is no longer pending for it.                 *)
LEMMA SentAtMostOnceStep ==
    ASSUME TypeOK, NoDanglingMessage, SentAtMostOnce, [Next]_vars,
           \A m \in Msg \ heap : sentTo[m] = {}
    PROVE  /\ SentAtMostOnce'
           /\ \A m \in Msg \ heap' : sentTo'[m] = {}
<1> USE DEF TypeOK, StoreTypeOK, HistoryTypeOK, SentAtMostOnce
<1> DEFINE Goal == /\ SentAtMostOnce'
                   /\ \A m \in Msg \ heap' : sentTo'[m] = {}
<1>1. CASE UNCHANGED <<PubMap1, PubMap2, heap, sentTo>>
  BY <1>1
<1>2. CASE sentTo' = [m \in Msg |-> {}]
  BY <1>2
<1>3. ASSUME NEW t \in Topic, NEW m \in Msg, Publish(t, m) PROVE Goal
  <2>1. \A n \in Msg : KeptPubMap2[n] \subseteq PubMap2[n]
    BY DEF KeptPubMap2
  <2>2. /\ PubMap2' = [KeptPubMap2 EXCEPT ![m] = @ \cup subscriptionMap[t]]
        /\ KeptPubMap2 \in [Msg -> SUBSET ClientId]
        /\ sentTo[m] = {}
    BY <1>3 DEF Publish, addMessage_, getSubscribersOfTopic_, KeptPubMap2
  <2>3. /\ \A n \in Msg : sentTo'[n] \subseteq sentTo[n]
        /\ \A n \in Msg : n \notin heap' => sentTo'[n] = {}
    BY <1>3 DEF Publish, SentAfter
  <2> QED
    BY <2>1, <2>2, <2>3
<1>4. ASSUME NEW i \in ClientId, NEW ms \in SUBSET Msg,
             NEW sent \in SUBSET Msg, ms \subseteq sent,
             onMessageSent_(sent, i), sentTo' = SentAfter(ms, i)
      PROVE  Goal
  BY <1>4 DEF onMessageSent_, SentAfter
<1>5. ASSUME NEW h \in Handler, HandleOutputDone(h) PROVE Goal
  <2>1. /\ id[h] \in ClientId
        /\ PubMap1[id[h]] \in SUBSET Msg
        /\ Fresh(h) \in SUBSET Msg
        /\ Fresh(h) \subseteq PubMap1[id[h]]
    BY DEF Fresh, getClientMessages_, ConnTypeOK
  <2>2. /\ onMessageSent_(PubMap1[id[h]], id[h])
        /\ sentTo' = SentAfter(Fresh(h), id[h])
    BY <1>5 DEF HandleOutputDone, getClientMessages_
  <2> QED
    BY <1>4, <2>1, <2>2
<1>6. ASSUME NEW h \in Handler, NEW sent \in SUBSET Msg,
             HandleOutputFails(h, sent)
      PROVE  Goal
  <2> DEFINE ms == sent \ expired
  <2>1. id[h] \in ClientId /\ ms \in SUBSET Msg /\ ms \subseteq sent
    BY DEF ConnTypeOK
  <2>2. onMessageSent_(sent, id[h]) /\ sentTo' = SentAfter(ms, id[h])
    BY <1>6 DEF HandleOutputFails
  <2> HIDE DEF ms
  <2> QED
    BY <1>4, <2>1, <2>2
<1> QED
  BY <1>1, <1>2, <1>3, <1>5, <1>6, MessageSteps

(* The only way out of the buffer, for a broker that goes on running.      *)
LEMMA LeavesByDeleteStep ==
    ASSUME TypeOK, NoDanglingMessage, [Next]_vars,
           NEW m \in Stored, up', PubMap2'[m] = {}
    PROVE  m \notin heap'
<1> USE DEF TypeOK, StoreTypeOK, Stored
<1>1. CASE UNCHANGED <<PubMap1, PubMap2, heap, sentTo>>
  BY <1>1
<1>2. CASE heap' = {}
  BY <1>2
<1>3. ASSUME NEW t \in Topic, NEW n \in Msg, Publish(t, n)
      PROVE  m \notin heap'
  <2>1. m # n
    BY <1>3, Zenon DEF Publish, NoDanglingMessage
  <2>2. BufferFull
    BY <1>3, <2>1 DEF Publish, addMessage_, KeptPubMap2
  <2> QED
    BY <1>3, <2>1, <2>2 DEF Publish, addMessage_, KeptHeap
<1>4. ASSUME NEW i, NEW sent, onMessageSent_(sent, i) PROVE m \notin heap'
  BY <1>4 DEF onMessageSent_
<1> QED
  BY <1>1, <1>2, <1>3, <1>4, MessageSteps, ZenonT(40)
     DEF HandleOutputDone, HandleOutputFails

-----------------------------------------------------------------------------
(* What a step does to the ids, the subscriptions and the file.            *)
LEMMA DiskSteps ==
    ASSUME [Next]_vars
    PROVE  \/ UNCHANGED <<nextAllocateClientId, subscriptionMap, file, status,
                          issued, acked, saves>>
           \/ /\ status' # "up"
              /\ UNCHANGED <<file, issued, acked, saves>>
           \/ /\ status' # "up"
              /\ file' = EmptyFile
              /\ saves' = "torn"
           \/ Restart
           \/ \E h \in Handler, t \in Topic, i, j \in ClientId :
                SubscribeOk(h, t, i, j) \/ SubscribeSendFails(h, t, i, j)
           \/ \E h \in Handler, t \in Topic, i \in ClientId :
                Unsubscribe(h, t, i)
<1> USE DEF storeVars, connVars, historyVars
<1>1. CASE UNCHANGED vars
  BY <1>1 DEF vars
<1>2. ASSUME NEW why \in Assertion, Abort(why)
      PROVE  status' # "up" /\ UNCHANGED <<file, issued, acked, saves>>
  BY <1>2, Zenon DEF Abort, Stop, Assertion
<1>3. CASE Crash
  BY <1>3 DEF Crash, Stop
<1>4. ASSUME NEW h \in Handler, CrashInSave(h)
      PROVE  status' # "up" /\ file' = EmptyFile /\ saves' = "torn"
  BY <1>4 DEF CrashInSave, Stop, TruncatedSave
<1>5. ASSUME NEW h \in Handler,
             \/ Accept(h) \/ InputError(h) \/ HalfRead(h) \/ KeepAlive(h)
             \/ HandleOutputDone(h)
             \/ \E sent \in SUBSET Msg : HandleOutputFails(h, sent)
      PROVE  UNCHANGED <<nextAllocateClientId, subscriptionMap, file, status,
                         issued, acked, saves>>
  BY <1>5, Zenon DEF Accept, InputError, HalfRead, KeepAlive, HandleOutputDone,
              HandleOutputFails
<1>6. ASSUME NEW t \in Topic, NEW m \in Msg, Publish(t, m)
      PROVE  UNCHANGED <<nextAllocateClientId, subscriptionMap, file, status,
                         issued, acked, saves>>
  BY <1>6 DEF Publish
<1>7. ASSUME NEW m \in Msg, Expire(m)
      PROVE  UNCHANGED <<nextAllocateClientId, subscriptionMap, file, status,
                         issued, acked, saves>>
  BY <1>7 DEF Expire
<1> QED
  BY <1>1, <1>2, <1>3, <1>4, <1>5, <1>6, <1>7, Zenon
     DEF Next, HandlerStep, HandleOutput, SubscribeAssert, Assertion,
         UnsubscribeAssert, DestructorAssert, HandlerOfClientAssert

(* Ids are handed out in increasing order, and the next one is saved       *)
(* before the client learns its own.                                       *)
LEMMA IssuedIdsStep ==
    ASSUME TypeOK, IssuedIdsNotReused, [Next]_vars
    PROVE  IssuedIdsNotReused'
<1> USE DEF IssuedIdsNotReused, up
<1>0. /\ nextAllocateClientId \in Nat
      /\ file.next \in Nat
      /\ issued \subseteq Nat
  BY StoreAssumption DEF TypeOK, NextIdTypeOK, FileTypeOK, HistoryTypeOK
<1>1. CASE UNCHANGED <<nextAllocateClientId, file, status, issued, saves>>
  BY <1>1
<1>2. CASE status' # "up" /\ UNCHANGED <<file, issued, acked, saves>>
  BY <1>2
<1>3. CASE saves' = "torn"
  BY <1>3
<1>4. CASE Restart
  <2>1. nextAllocateClientId' = IF file.next = 0 THEN 1 ELSE file.next
    BY <1>4 DEF Restart, LoadTopicManager
  <2>2. UNCHANGED <<file, issued, saves>>
    BY <1>4 DEF Restart
  <2> QED
    BY <1>0, <2>1, <2>2
<1>5. ASSUME NEW h \in Handler, NEW t \in Topic, NEW i \in ClientId,
             NEW j \in ClientId,
             SubscribeOk(h, t, i, j) \/ SubscribeSendFails(h, t, i, j)
      PROVE  IssuedIdsNotReused'
  <2>1. /\ file'.next = nextAllocateClientId'
        /\ status = "up"
        /\ saves' = saves
        /\ issued' \subseteq issued \cup {j}
        /\ i \in {0} \cup issued
        /\ \/ /\ j = nextAllocateClientId
              /\ nextAllocateClientId' = nextAllocateClientId + 1
           \/ /\ i # 0
              /\ j = i
              /\ nextAllocateClientId' = nextAllocateClientId
    BY <1>5 DEF SubscribeOk, SubscribeSendFails, Register, SubscribeIds,
                saveSubscriptionInfoToDisk_, allocateClientId_, historyVars
  <2> QED
    BY <1>0, <2>1
<1>6. ASSUME NEW h \in Handler, NEW t \in Topic, NEW i \in ClientId,
             Unsubscribe(h, t, i)
      PROVE  IssuedIdsNotReused'
  <2>1. /\ file'.next = nextAllocateClientId
        /\ status = "up"
        /\ UNCHANGED <<nextAllocateClientId, issued, saves>>
    BY <1>6 DEF Unsubscribe, saveSubscriptionInfoToDisk_
  <2> QED
    BY <1>0, <2>1
<1> QED
  BY <1>1, <1>2, <1>3, <1>4, <1>5, <1>6, DiskSteps

(* The file and the running broker agree: every handler that changes the   *)
(* subscriptions saves them before it returns.                             *)
LEMMA DurableStep ==
    ASSUME TypeOK, AckedSubscriptionsDurable, [Next]_vars,
           file.next = 0 => \A t \in Topic : file.subs[t] = {}
    PROVE  /\ AckedSubscriptionsDurable'
           /\ file'.next = 0 => \A t \in Topic : file'.subs[t] = {}
<1> DEFINE Goal == /\ AckedSubscriptionsDurable'
                   /\ file'.next = 0 => \A t \in Topic : file'.subs[t] = {}
<1> USE DEF AckedSubscriptionsDurable, up
<1>0. /\ nextAllocateClientId \in Nat
      /\ nextAllocateClientId > 0
      /\ file.next \in Nat
      /\ file.subs \in [Topic -> SUBSET ClientId]
      /\ subscriptionMap \in [Topic -> SUBSET ClientId]
      /\ acked \subseteq Topic \X ClientId
  BY DEF TypeOK, StoreTypeOK, NextIdTypeOK, FileTypeOK, HistoryTypeOK
<1>1. CASE UNCHANGED <<nextAllocateClientId, subscriptionMap, file, status,
                       issued, acked, saves>>
  BY <1>1
<1>2. CASE status' # "up" /\ UNCHANGED <<file, issued, acked, saves>>
  BY <1>2
<1>3. CASE status' # "up" /\ file' = EmptyFile /\ saves' = "torn"
  BY <1>3 DEF EmptyFile
<1>4. CASE Restart
  <2>1. /\ subscriptionMap' = [t \in Topic |->
                                 IF file.next = 0 THEN {} ELSE file.subs[t]]
        /\ UNCHANGED <<file, acked, saves>>
    BY <1>4 DEF Restart, LoadTopicManager
  <2>2. subscriptionMap' = file.subs
    <3>1. CASE file.next = 0
      BY <1>0, <2>1, <3>1, Zenon
    <3>2. CASE file.next # 0
      BY <1>0, <2>1, <3>2
    <3> QED
      BY <3>1, <3>2
  <2> QED
    BY <2>1, <2>2
<1>5. ASSUME NEW h \in Handler, NEW t \in Topic, NEW i \in ClientId,
             NEW j \in ClientId,
             SubscribeOk(h, t, i, j) \/ SubscribeSendFails(h, t, i, j)
      PROVE  Goal
  <2>1. /\ file'.next = nextAllocateClientId'
        /\ file'.subs = subscriptionMap'
        /\ status = "up"
        /\ saves' = saves
        /\ acked' \subseteq acked \cup {<<t, j>>}
        /\ subscriptionMap' = [subscriptionMap EXCEPT ![t] = @ \cup {j}]
        /\ \/ nextAllocateClientId' = nextAllocateClientId + 1
           \/ nextAllocateClientId' = nextAllocateClientId
    BY <1>5, SMTT(60)
       DEF SubscribeOk, SubscribeSendFails, Register, addSubscription_,
           saveSubscriptionInfoToDisk_, allocateClientId_, historyVars
  <2>2. file'.next # 0
    BY <1>0, <2>1
  <2>3. saves = "whole" => \A s \in acked' : s[2] \in file'.subs[s[1]]
    BY <1>0, <2>1
  <2> QED
    BY <2>1, <2>2, <2>3
<1>6. ASSUME NEW h \in Handler, NEW t \in Topic, NEW i \in ClientId,
             Unsubscribe(h, t, i)
      PROVE  Goal
  <2>1. /\ file'.next = nextAllocateClientId
        /\ file'.subs = subscriptionMap'
        /\ status = "up"
        /\ saves' = saves
        /\ acked' = acked \ {<<t, i>>}
        /\ subscriptionMap' = [subscriptionMap EXCEPT ![t] = @ \ {i}]
    BY <1>6 DEF Unsubscribe, removeSubscription_, saveSubscriptionInfoToDisk_
  <2>2. file'.next # 0
    BY <1>0, <2>1
  <2>3. saves = "whole" => \A s \in acked' : s[2] \in file'.subs[s[1]]
    BY <1>0, <2>1
  <2> QED
    BY <2>1, <2>2, <2>3
<1> QED
  BY <1>1, <1>2, <1>3, <1>4, <1>5, <1>6, DiskSteps

-----------------------------------------------------------------------------
(* The handlers in the store.  The pointers to a deleted handler that are  *)
(* left in the store when its connection has had several ids do no harm to *)
(* a new handler at that address: it has id 0, under which the store knows *)
(* nobody, until it subscribes and is registered for output.  handleOutput *)
(* of a handler sends what there is for the id it has, and leaves nothing  *)
(* pending for it when it unregisters for output.                          *)
HandlerInv ==
    /\ \A h \in Handler \ open : id[h] = 0
    /\ subscribers[0] = NoHandler
    /\ PendingMeansWriteMask

(* Every step keeps the part of the invariant that is about handlers.      *)
LEMMA HandlerStepInv ==
    ASSUME TypeOK, HandlerInv, [Next]_vars
    PROVE  HandlerInv'
<1> USE ZeroIsId DEF HandlerInv, PendingMeansWriteMask, Serves
<1>0. /\ subscribers \in [ClientId -> Handler \cup {NoHandler}]
      /\ subscriptionMap \in [Topic -> SUBSET ClientId]
      /\ PubMap1 \in [ClientId -> SUBSET Msg]
      /\ open \subseteq Handler
      /\ id \in [Handler -> ClientId]
      /\ writeMask \subseteq open
      /\ issued \subseteq ClientId \ {0}
      /\ nextAllocateClientId # 0
  BY DEF TypeOK, StoreTypeOK, ConnTypeOK, HistoryTypeOK, NextIdTypeOK
<1>a. NoHandler \notin Handler
  BY StoreAssumption
<1>1. CASE /\ subscribers' = [i \in ClientId |-> NoHandler]
           /\ \A h \in Handler \ open' : id'[h] = 0
  BY <1>1, <1>a
<1>2. CASE UNCHANGED <<subscribers, open, id, writeMask, PubMap1>>
  BY <1>2
<1>3. ASSUME NEW h \in Handler, Accept(h) PROVE HandlerInv'
  BY <1>0, <1>a, <1>3 DEF Accept, storeVars
<1>4. ASSUME NEW h \in Handler, Destroy(h, id[h]),
             \A i \in ClientId : PubMap1'[i] \subseteq PubMap1[i]
      PROVE  HandlerInv'
  BY <1>0, <1>a, <1>4 DEF Destroy, onHandlerDestroyed_
<1>5. ASSUME NEW h \in Handler, NEW t \in Topic, NEW i \in ClientId,
             NEW j \in ClientId, Register(h, t, i, j)
      PROVE  h \in open /\ j # 0
  BY <1>0, <1>5 DEF Register, SubscribeIds
<1>6. ASSUME NEW h \in Handler, NEW t \in Topic, NEW i \in ClientId,
             NEW j \in ClientId, SubscribeOk(h, t, i, j)
      PROVE  HandlerInv'
  <2>1. h \in open /\ j # 0
    BY <1>5, <1>6 DEF SubscribeOk
  <2>2. /\ subscribers' = [subscribers EXCEPT ![j] = h]
        /\ id' = [id EXCEPT ![h] = j]
        /\ writeMask' = writeMask \cup {h}
        /\ UNCHANGED <<PubMap1, open>>
    BY <1>6 DEF SubscribeOk, addSubscription_
  <2> QED
    BY <1>0, <2>1, <2>2
<1>7. ASSUME NEW h \in Handler, NEW t \in Topic, NEW i \in ClientId,
             NEW j \in ClientId, SubscribeSendFails(h, t, i, j)
      PROVE  HandlerInv'
  <2>1. /\ subscribers' = [subscribers EXCEPT ![j] = NoHandler]
        /\ open' = open \ {h}
        /\ id' = [id EXCEPT ![h] = 0]
        /\ writeMask' = writeMask \ {h}
        /\ UNCHANGED PubMap1
    BY <1>7 DEF SubscribeSendFails, Destroy, onHandlerDestroyed_
  <2> QED
    BY <1>0, <1>a, <2>1
<1>8. ASSUME NEW t \in Topic, NEW m \in Msg, Publish(t, m)
      PROVE  HandlerInv'
  <2>1. /\ UNCHANGED <<subscribers, open, id>>
        /\ \A i \in ClientId : PubMap1'[i] # {} =>
             PubMap1[i] # {} \/ i \in subscriptionMap[t]
        /\ writeMask' = writeMask \cup
             ({subscribers[i] : i \in subscriptionMap[t]} \cap open)
    BY <1>8 DEF Publish, addMessage_, Woken, getSubscribersOfTopic_,
                getHandlerOfClient_, KeptPubMap1
  <2> QED
    BY <1>0, <1>a, <2>1
<1>9. ASSUME NEW h \in Handler, HandleOutputDone(h) PROVE HandlerInv'
  <2>1. /\ PubMap1' = [PubMap1 EXCEPT ![id[h]] = {}]
        /\ writeMask' = writeMask \ {h}
        /\ UNCHANGED <<subscribers, open, id>>
    BY <1>0, <1>9, ZenonT(40) DEF HandleOutputDone, onMessageSent_, getClientMessages_
  <2> QED
    BY <1>0, <1>a, <2>1
<1>10. ASSUME NEW h \in Handler, NEW sent \in SUBSET Msg,
              HandleOutputFails(h, sent)
       PROVE  HandlerInv'
  BY <1>0, <1>4, <1>10 DEF HandleOutputFails, onMessageSent_
<1>11. ASSUME NEW h \in Handler, NEW t \in Topic, NEW i \in ClientId,
              Unsubscribe(h, t, i)
       PROVE  HandlerInv'
  BY <1>2, <1>4, <1>11, Zenon DEF Unsubscribe
<1>12. ASSUME NEW h \in Handler, InputError(h) \/ KeepAlive(h) \/ HalfRead(h)
       PROVE  HandlerInv'
  BY <1>2, <1>4, <1>12 DEF InputError, KeepAlive, HalfRead, storeVars
<1>13. ASSUME NEW m \in Msg, Expire(m) PROVE HandlerInv'
  BY <1>2, <1>13 DEF Expire, storeVars, connVars
<1>14. CASE UNCHANGED vars
  BY <1>2, <1>14 DEF vars, storeVars, connVars
<1>15. CASE Restart
  BY <1>1, <1>15 DEF Restart, LoadTopicManager, connVars
<1>16. ASSUME NEW why, Stop(why) PROVE HandlerInv'
  BY <1>1, <1>16 DEF Stop
<1> QED
  <2> HIDE DEF HandlerInv
  <2> QED
    BY <1>3, <1>6, <1>7, <1>8, <1>9, <1>10, <1>11, <1>12, <1>13, <1>14,
       <1>15, <1>16, ZenonT(40)
       DEF Next, HandlerStep, HandleOutput, SubscribeAssert, CrashInSave,
           UnsubscribeAssert, DestructorAssert, HandlerOfClientAssert, Abort,
           Crash

-----------------------------------------------------------------------------
(* The broker without buffering.                                           *)

(* The tables that only the broker without buffering keeps.                *)
VARIABLES subscriptionMap1, subscriptionMap2, PubMap3, PubMap4, topic,
          active, inherited

U == INSTANCE UnbufferedBroker

(* Initially the state is well typed.                                      *)
LEMMA UnbufferedTypeInit == U!Init => U!TypeOK
<1> SUFFICES ASSUME U!Init PROVE U!TypeOK
  OBVIOUS
<1>2. U!StoreTypeOK
  BY DEF U!Init, U!StoreTypeOK
<1>3. U!ConnTypeOK
  BY DEF U!Init, U!ConnTypeOK
<1> QED
  BY <1>2, <1>3 DEF U!TypeOK

(* A step keeps the state well typed: in particular only live handlers are *)
(* registered for output or hold a half-read message.                      *)
LEMMA UnbufferedTypeStep == U!TypeOK /\ [U!Next]_U!vars => U!TypeOK'
<1> SUFFICES ASSUME U!TypeOK, [U!Next]_U!vars PROVE U!TypeOK'
  OBVIOUS
<1> USE DEF U!TypeOK, U!StoreTypeOK, U!ConnTypeOK, U!subVars, U!msgVars, U!connVars
<1>1. ASSUME NEW h \in Handler, U!Accept(h) PROVE U!TypeOK'
  BY <1>1, Zenon DEF U!Accept
<1>2. ASSUME NEW h \in Handler, U!InputError(h) PROVE U!TypeOK'
  BY <1>2, Zenon DEF U!InputError, U!Destroy, U!onHandlerDestroyed
<1>3. ASSUME NEW h \in Handler, U!HalfRead(h) PROVE U!TypeOK'
  BY <1>3, Zenon DEF U!HalfRead
<1>4. ASSUME NEW h \in Handler, U!Idle(h) PROVE U!TypeOK'
  BY <1>4, Zenon DEF U!Idle
<1>5. ASSUME NEW h \in Handler, NEW t \in Topic, U!Subscribe(h, t) PROVE U!TypeOK'
  <2>1. CASE U!addSubscription(t, h)
              /\ half' = half \ {h} /\ active' = active \cup {h}
              /\ writeMask' \subseteq writeMask \cup {h} /\ open' = open
    BY <1>5, <2>1, Zenon DEF U!Subscribe, U!addSubscription
  <2>2. CASE U!Destroy(h)
    BY <1>5, <2>2, Zenon DEF U!Subscribe, U!Destroy, U!onHandlerDestroyed
  <2> QED
    BY <1>5, <2>1, <2>2, Zenon DEF U!Subscribe
<1>6. ASSUME NEW h \in Handler, NEW t \in Topic, U!Unsubscribe(h, t) PROVE U!TypeOK'
  <2>1. CASE U!removeSubscription(t, h)
              /\ half' = half \ {h} /\ active' = active \cup {h}
              /\ writeMask' \subseteq writeMask \cup {h} /\ open' = open
    BY <1>6, <2>1, Zenon DEF U!Unsubscribe, U!removeSubscription
  <2>2. CASE U!Destroy(h)
    BY <1>6, <2>2, ZenonT(40) DEF U!Unsubscribe, U!Destroy, U!onHandlerDestroyed
  <2> QED
    BY <1>6, <2>1, <2>2, Zenon DEF U!Unsubscribe
<1>7. ASSUME NEW h \in Handler, U!KeepAlive(h) PROVE U!TypeOK'
  <2>1. CASE UNCHANGED <<U!subVars, open, writeMask>>
              /\ half' = half \ {h} /\ active' = active \cup {h}
              /\ writeMask' \subseteq writeMask \cup {h} /\ open' = open
    BY <1>7, <2>1, Zenon DEF U!KeepAlive
  <2>2. CASE U!Destroy(h)
    BY <1>7, <2>2, ZenonT(40) DEF U!KeepAlive, U!Destroy, U!onHandlerDestroyed
  <2> QED
    BY <1>7, <2>1, <2>2, Zenon DEF U!KeepAlive
<1>8. ASSUME NEW t \in Topic, NEW m \in Msg, U!Publish(t, m) PROVE U!TypeOK'
  BY <1>8, Zenon DEF U!Publish, U!addMessage, U!KeptPubMap3, U!KeptPubMap4, U!KeptHeap,
              U!Receivers, U!Stored
<1>9. ASSUME NEW m \in Msg, U!Expire(m) PROVE U!TypeOK'
  BY <1>9, Zenon DEF U!Expire
<1>10. ASSUME NEW h \in Handler, U!HandleOutputDone(h) PROVE U!TypeOK'
  BY <1>10, ZenonT(40) DEF U!HandleOutputDone, U!onMessageSent, U!SentAfter, U!getClientMessages
<1>11. ASSUME NEW h \in Handler, NEW sent \in SUBSET Msg,
              U!HandleOutputFails(h, sent)
       PROVE  U!TypeOK'
  BY <1>11, Zenon DEF U!HandleOutputFails, U!onMessageSent, U!SentAfter, U!Destroy,
               U!onHandlerDestroyed
<1>12. ASSUME NEW h \in Handler, U!DestructorAssert(h) PROVE U!TypeOK'
  BY <1>12, Zenon DEF U!DestructorAssert
<1>13. CASE U!Restart
  BY <1>13, Zenon DEF U!Restart
<1>14. CASE UNCHANGED U!vars
  BY <1>14, Zenon DEF U!vars
<1> QED
  BY <1>1, <1>2, <1>3, <1>4, <1>5, <1>6, <1>7, <1>8, <1>9, <1>10, <1>11,
     <1>12, <1>13, <1>14, ZenonT(40) DEF U!Next, U!HandlerStep, U!HandleOutput

-----------------------------------------------------------------------------
(* What a step does to the messages: nothing, except for a stop of the     *)
(* broker, a publication and a handleOutput.                               *)
LEMMA UnbufferedMessageSteps ==
    ASSUME [U!Next]_U!vars
    PROVE  \/ UNCHANGED <<PubMap3, PubMap4, heap, topic, sentTo>>
           \/ \E h \in Handler : U!DestructorAssert(h)
           \/ \E t \in Topic, m \in Msg : U!Publish(t, m)
           \/ \E h \in Handler : U!HandleOutputDone(h)
           \/ \E h \in Handler, sent \in SUBSET Msg : U!HandleOutputFails(h, sent)
<1> USE DEF U!msgVars
<1>1. CASE UNCHANGED U!vars
  BY <1>1 DEF U!vars
<1>2. ASSUME NEW h \in Handler, U!HandlerStep(h)
      PROVE  UNCHANGED <<PubMap3, PubMap4, heap, topic, sentTo>>
  BY <1>2, Zenon DEF U!HandlerStep, U!Accept, U!InputError, U!HalfRead, U!Idle, U!KeepAlive,
              U!Subscribe, U!Unsubscribe
<1>3. CASE U!Restart
  BY <1>3 DEF U!Restart
<1>4. ASSUME NEW m \in Msg, U!Expire(m)
      PROVE  UNCHANGED <<PubMap3, PubMap4, heap, topic, sentTo>>
  BY <1>4 DEF U!Expire
<1> QED
  BY <1>1, <1>2, <1>3, <1>4 DEF U!Next, U!HandleOutput

(* PubMap3 and PubMap4 stay each other's inverse and inside the heap: a    *)
(* message is deleted only with its last entry.                            *)
LEMMA UnbufferedNoDanglingMessageStep ==
    U!TypeOK /\ U!NoDanglingMessage /\ [U!Next]_U!vars => U!NoDanglingMessage'
<1> SUFFICES ASSUME U!TypeOK, U!NoDanglingMessage, [U!Next]_U!vars
             PROVE  U!NoDanglingMessage'
  OBVIOUS
<1> USE DEF U!TypeOK, U!StoreTypeOK, U!NoDanglingMessage
<1>1. CASE UNCHANGED <<PubMap3, PubMap4, heap, topic, sentTo>>
  BY <1>1
<1>2. ASSUME NEW h \in Handler, U!DestructorAssert(h) PROVE U!NoDanglingMessage'
  BY <1>2, ZenonT(40) DEF U!DestructorAssert
<1>3. ASSUME NEW t \in Topic, NEW m \in Msg, U!Publish(t, m)
      PROVE  U!NoDanglingMessage'
  <2>1. U!Receivers(t) \subseteq Handler
    BY DEF U!Receivers
  <2>2. \A h \in Handler : m \notin PubMap4[h] /\ h \notin PubMap3[m]
    BY <1>3 DEF U!Publish
  <2>3. /\ U!KeptPubMap3 \in [Msg -> SUBSET Handler]
        /\ U!KeptPubMap4 \in [Handler -> SUBSET Msg]
        /\ \A h \in Handler, n \in Msg :
             n \in U!KeptPubMap4[h] <=> h \in U!KeptPubMap3[n]
        /\ \A h \in Handler : U!KeptPubMap4[h] \subseteq U!KeptHeap
        /\ \A h \in Handler : m \notin U!KeptPubMap4[h]
    BY <2>2 DEF U!KeptPubMap3, U!KeptPubMap4, U!KeptHeap
  <2> HIDE DEF U!TypeOK, U!StoreTypeOK
  <2> QED
    BY <1>3, <2>1, <2>3 DEF U!Publish, U!addMessage
<1>4. ASSUME NEW h \in Handler, NEW sent \in SUBSET Msg,
             sent \subseteq PubMap4[h], U!onMessageSent(sent, h)
      PROVE  U!NoDanglingMessage'
  BY <1>4 DEF U!onMessageSent
<1>5. ASSUME NEW h \in Handler, U!HandleOutputDone(h)
      PROVE  U!NoDanglingMessage'
  BY <1>4, <1>5 DEF U!HandleOutputDone, U!getClientMessages
<1>6. ASSUME NEW h \in Handler, NEW sent \in SUBSET Msg,
             U!HandleOutputFails(h, sent)
      PROVE  U!NoDanglingMessage'
  BY <1>4, <1>6, ZenonT(40) DEF U!HandleOutputFails, U!getClientMessages
<1> QED
  BY <1>1, <1>2, <1>3, <1>5, <1>6, UnbufferedMessageSteps

(* A message sent to a connection is no longer pending for it.             *)
LEMMA UnbufferedSentAtMostOnceStep ==
    ASSUME U!TypeOK, U!NoDanglingMessage, U!SentAtMostOnce, [U!Next]_U!vars,
           \A m \in Msg \ heap : sentTo[m] = {}
    PROVE  /\ U!SentAtMostOnce'
           /\ \A m \in Msg \ heap' : sentTo'[m] = {}
<1> USE DEF U!TypeOK, U!StoreTypeOK, U!ConnTypeOK, U!SentAtMostOnce
<1> DEFINE Goal == /\ U!SentAtMostOnce'
                   /\ \A m \in Msg \ heap' : sentTo'[m] = {}
<1>1. CASE UNCHANGED <<PubMap3, PubMap4, heap, topic, sentTo>>
  BY <1>1, Zenon
<1>2. ASSUME NEW h \in Handler, U!DestructorAssert(h) PROVE Goal
  BY <1>2, ZenonT(40) DEF U!DestructorAssert
<1>3. ASSUME NEW t \in Topic, NEW m \in Msg, U!Publish(t, m) PROVE Goal
  <2>1. \A n \in Msg : U!KeptPubMap3[n] \subseteq PubMap3[n]
    BY ZenonT(40) DEF U!KeptPubMap3
  <2>2. /\ PubMap3' = [U!KeptPubMap3 EXCEPT ![m] = @ \cup U!Receivers(t)]
        /\ U!KeptPubMap3 \in [Msg -> SUBSET Handler]
    BY <1>3, Zenon DEF U!Publish, U!addMessage, U!KeptPubMap3
  <2>3. /\ \A n \in Msg : sentTo'[n] \subseteq sentTo[n]
        /\ \A n \in Msg : n \notin heap' => sentTo'[n] = {}
        /\ sentTo'[m] = {}
    BY <1>3, ZenonT(40) DEF U!Publish
  <2> QED
    BY <2>1, <2>2, <2>3, Zenon
<1>4. ASSUME NEW h \in Handler, NEW ms \in SUBSET Msg,
             NEW sent \in SUBSET Msg, ms \subseteq sent,
             U!onMessageSent(sent, h), sentTo' = U!SentAfter(ms, h)
      PROVE  Goal
  BY <1>4, ZenonT(40) DEF U!onMessageSent, U!SentAfter
<1>5. ASSUME NEW h \in Handler, U!HandleOutputDone(h) PROVE Goal
  <2> DEFINE ms == PubMap4[h] \ expired
  <2>1. PubMap4[h] \in SUBSET Msg /\ ms \in SUBSET Msg /\ ms \subseteq PubMap4[h]
    BY Zenon
  <2>2. U!onMessageSent(PubMap4[h], h) /\ sentTo' = U!SentAfter(ms, h)
    BY <1>5, ZenonT(40) DEF U!HandleOutputDone, U!getClientMessages
  <2> HIDE DEF ms
  <2> QED
    BY <1>4, <2>1, <2>2, Zenon
<1>6. ASSUME NEW h \in Handler, NEW sent \in SUBSET Msg,
             U!HandleOutputFails(h, sent)
      PROVE  Goal
  <2> DEFINE ms == sent \ expired
  <2>1. ms \in SUBSET Msg /\ ms \subseteq sent
    BY Zenon
  <2>2. U!onMessageSent(sent, h) /\ sentTo' = U!SentAfter(ms, h)
    BY <1>6, ZenonT(40) DEF U!HandleOutputFails
  <2> HIDE DEF ms
  <2> QED
    BY <1>4, <2>1, <2>2, Zenon
<1> QED
  BY <1>1, <1>2, <1>3, <1>5, <1>6, UnbufferedMessageSteps, Zenon

(* A message leaves the buffer of a running broker only by being deleted.  *)
LEMMA UnbufferedLeavesByDeleteStep ==
    ASSUME U!TypeOK, U!NoDanglingMessage, [U!Next]_U!vars,
           NEW m \in U!Stored, U!up', PubMap3'[m] = {}
    PROVE  m \notin heap'
<1> USE DEF U!TypeOK, U!StoreTypeOK, U!Stored
<1>1. CASE UNCHANGED <<PubMap3, PubMap4, heap, topic, sentTo>>
  BY <1>1
<1>2. CASE heap' = {}
  BY <1>2
<1>3. ASSUME NEW t \in Topic, NEW n \in Msg, U!Publish(t, n)
      PROVE  m \notin heap'
  <2>1. m # n
    BY <1>3 DEF U!Publish, U!NoDanglingMessage
  <2>2. U!BufferFull
    BY <1>3, <2>1, Zenon DEF U!Publish, U!addMessage, U!KeptPubMap3
  <2> QED
    BY <1>3, <2>1, <2>2 DEF U!Publish, U!addMessage, U!KeptHeap
<1>4. ASSUME NEW h, NEW sent, U!onMessageSent(sent, h) PROVE m \notin heap'
  BY <1>4 DEF U!onMessageSent
<1> QED
  BY <1>1, <1>2, <1>3, <1>4, UnbufferedMessageSteps, Zenon
     DEF U!HandleOutputDone, U!HandleOutputFails, U!DestructorAssert

-----------------------------------------------------------------------------
(* The subscriptions, the write masks and the topics of pending messages.  *)

(* The part of the invariant that is about handlers.                       *)
UnbufferedHandlerInv ==
    /\ U!NoDanglingHandler
    /\ \A h \in Handler \ open : subscriptionMap2[h] = {}
    /\ U!PendingMeansWriteMask
    /\ U!OnlySubscribedTopics

(* The destructor leaves nothing of its handler in the subscriptions, and  *)
(* whatever happens to its messages concerns no other handler.             *)
LEMMA UnbufferedDestroyStep ==
    ASSUME U!TypeOK, UnbufferedHandlerInv, NEW h \in Handler, U!Destroy(h),
           UNCHANGED <<topic, inherited>>,
           \A g \in Handler : PubMap4'[g] \subseteq PubMap4[g]
    PROVE  UnbufferedHandlerInv'
<1> USE DEF U!TypeOK, U!StoreTypeOK, U!ConnTypeOK
<1>1. /\ open' = open \ {h}
      /\ writeMask' = writeMask \ {h}
      /\ subscriptionMap2' = [subscriptionMap2 EXCEPT ![h] = {}]
      /\ \A t \in Topic : subscriptionMap1'[t] = IF t \in subscriptionMap2[h]
                                                   THEN subscriptionMap1[t] \ {h}
                                                   ELSE subscriptionMap1[t]
  BY ZenonT(40) DEF U!Destroy, U!onHandlerDestroyed
<1>2. U!NoDanglingHandler'
  <2> SUFFICES ASSUME NEW t \in Topic, NEW g \in subscriptionMap1'[t]
               PROVE  g \in open' /\ t \in subscriptionMap2'[g]
    BY ZenonT(40) DEF U!NoDanglingHandler
  <2>1. g \in subscriptionMap1[t]
    BY <1>1, ZenonT(40)
  <2>2. g \in open /\ t \in subscriptionMap2[g] /\ g \in Handler
    BY <2>1, ZenonT(40) DEF UnbufferedHandlerInv, U!NoDanglingHandler
  <2>3. g # h
    BY <1>1, <2>2, ZenonT(40)
  <2> QED
    BY <1>1, <2>2, <2>3, ZenonT(40)
<1>3. \A g \in Handler \ open' : subscriptionMap2'[g] = {}
  BY <1>1, ZenonT(40) DEF UnbufferedHandlerInv
<1>4. U!PendingMeansWriteMask'
  BY <1>1, ZenonT(40) DEF UnbufferedHandlerInv, U!PendingMeansWriteMask
<1>5. U!OnlySubscribedTopics'
  BY <1>1, ZenonT(40) DEF UnbufferedHandlerInv, U!OnlySubscribedTopics
<1> QED
  BY <1>2, <1>3, <1>4, <1>5, ZenonT(40) DEF UnbufferedHandlerInv

(* A step keeps the part of the invariant that is about handlers.          *)
LEMMA UnbufferedHandlerInvStep ==
    ASSUME U!TypeOK, U!NoDanglingMessage, UnbufferedHandlerInv, [U!Next]_U!vars
    PROVE  UnbufferedHandlerInv'
<1> USE DEF U!TypeOK, U!StoreTypeOK, U!ConnTypeOK, U!subVars, U!msgVars, U!connVars
<1>1. CASE UNCHANGED <<subscriptionMap1, subscriptionMap2, PubMap4, topic,
                       open, writeMask, inherited>>
  BY <1>1, ZenonT(40) DEF UnbufferedHandlerInv, U!NoDanglingHandler, U!PendingMeansWriteMask,
              U!OnlySubscribedTopics
<1>2. ASSUME NEW h \in Handler, U!Accept(h) PROVE UnbufferedHandlerInv'
  <2>1. /\ UNCHANGED <<subscriptionMap1, subscriptionMap2, PubMap4, topic, writeMask>>
        /\ open' = open \cup {h} /\ h \notin open
        /\ inherited' = [inherited EXCEPT ![h] = PubMap4[h]]
    BY <1>2, ZenonT(40) DEF U!Accept
  <2>2. U!NoDanglingHandler' /\ \A g \in Handler \ open' : subscriptionMap2'[g] = {}
    BY <2>1, Zenon DEF UnbufferedHandlerInv, U!NoDanglingHandler
  <2>3. U!PendingMeansWriteMask'
    BY <2>1, Zenon DEF UnbufferedHandlerInv, U!PendingMeansWriteMask
  <2>4. \A g \in Handler : inherited'[g] = IF g = h THEN PubMap4[g] ELSE inherited[g]
    BY <2>1, ZenonT(40)
  <2>5. U!OnlySubscribedTopics'
    <3> HIDE DEF U!TypeOK, U!StoreTypeOK, U!ConnTypeOK
    <3>1. open' \subseteq Handler
      BY UnbufferedTypeStep, ZenonT(40) DEF U!TypeOK, U!ConnTypeOK
    <3> QED
      BY <2>1, <2>4, <3>1 DEF UnbufferedHandlerInv, U!OnlySubscribedTopics
  <2> QED
    BY <2>2, <2>3, <2>5, ZenonT(40) DEF UnbufferedHandlerInv
<1>3. ASSUME NEW h \in Handler, U!Destroy(h), UNCHANGED <<U!msgVars, inherited>>
      PROVE  UnbufferedHandlerInv'
  BY <1>3, UnbufferedDestroyStep, ZenonT(40)
<1>4. ASSUME NEW h \in Handler, NEW t \in Topic, U!Subscribe(h, t) PROVE UnbufferedHandlerInv'
  <2>1. CASE U!addSubscription(t, h) /\ writeMask' = writeMask \cup {h} /\ open' = open
    <3>1. /\ subscriptionMap1' = [subscriptionMap1 EXCEPT ![t] = @ \cup {h}]
          /\ subscriptionMap2' = [subscriptionMap2 EXCEPT ![h] = @ \cup {t}]
          /\ UNCHANGED <<PubMap4, topic, inherited>>
          /\ h \in open
      BY <1>4, <2>1, ZenonT(40) DEF U!Subscribe, U!addSubscription
    <3>2. U!NoDanglingHandler' /\ \A g \in Handler \ open' : subscriptionMap2'[g] = {}
      <4>0. \A u \in Topic :
              subscriptionMap1'[u] = IF u = t THEN subscriptionMap1[u] \cup {h}
                                              ELSE subscriptionMap1[u]
        BY <3>1, Zenon
      <4>s. \A u \in Topic : subscriptionMap1[u] \subseteq Handler
        BY Zenon
      <4>2. \A g \in Handler : /\ subscriptionMap2[g] \subseteq subscriptionMap2'[g]
                               /\ g # h => subscriptionMap2'[g] = subscriptionMap2[g]
        BY <3>1, Zenon
      <4>3. t \in subscriptionMap2'[h]
        BY <3>1, ZenonT(40)
      <4> HIDE DEF U!TypeOK, U!StoreTypeOK, U!ConnTypeOK
      <4> QED
        BY <2>1, <3>1, <4>0, <4>s, <4>2, <4>3 DEF UnbufferedHandlerInv, U!NoDanglingHandler
    <3>3. U!PendingMeansWriteMask'
      BY <2>1, <3>1, ZenonT(40) DEF UnbufferedHandlerInv, U!PendingMeansWriteMask
    <3>4. U!OnlySubscribedTopics'
      BY <2>1, <3>1, ZenonT(40) DEF UnbufferedHandlerInv, U!OnlySubscribedTopics
    <3> QED
      BY <3>2, <3>3, <3>4, ZenonT(40) DEF UnbufferedHandlerInv
  <2> QED
    BY <1>3, <1>4, <2>1, ZenonT(40) DEF U!Subscribe
<1>5. ASSUME NEW h \in Handler, NEW t \in Topic, U!Unsubscribe(h, t) PROVE UnbufferedHandlerInv'
  <2>1. CASE U!removeSubscription(t, h) /\ writeMask' = writeMask /\ open' = open
    <3>1. /\ subscriptionMap1' = [subscriptionMap1 EXCEPT ![t] = @ \ {h}]
          /\ UNCHANGED <<subscriptionMap2, PubMap4, topic, inherited>>
      BY <1>5, <2>1, ZenonT(40) DEF U!Unsubscribe, U!removeSubscription
    <3> QED
      BY <2>1, <3>1, ZenonT(40) DEF UnbufferedHandlerInv, U!NoDanglingHandler, U!PendingMeansWriteMask,
                        U!OnlySubscribedTopics
  <2> QED
    BY <1>3, <1>5, <2>1, ZenonT(40) DEF U!Unsubscribe
<1>6. ASSUME NEW t \in Topic, NEW m \in Msg, U!Publish(t, m) PROVE UnbufferedHandlerInv'
  <2>1. /\ UNCHANGED <<subscriptionMap1, subscriptionMap2, open>>
        /\ writeMask' = writeMask \cup U!Receivers(t)
        /\ \A h \in Handler : PubMap4'[h] = IF h \in U!Receivers(t)
                                              THEN U!KeptPubMap4[h] \cup {m}
                                              ELSE U!KeptPubMap4[h]
        /\ topic' = [topic EXCEPT ![m] = t]
        /\ \A h \in Handler : inherited'[h] = inherited[h] \ {m}
    BY <1>6, ZenonT(40) DEF U!Publish, U!addMessage
  <2>2. \A h \in Handler : U!KeptPubMap4[h] \subseteq PubMap4[h] /\ m \notin PubMap4[h]
    BY <1>6, ZenonT(40) DEF U!KeptPubMap4, U!Publish, U!NoDanglingMessage
  <2>3. \A h \in U!Receivers(t) : h \in Handler /\ t \in subscriptionMap2[h]
    BY ZenonT(40) DEF U!Receivers, UnbufferedHandlerInv, U!NoDanglingHandler
  <2>4. U!NoDanglingHandler' /\ \A g \in Handler \ open' : subscriptionMap2'[g] = {}
    BY <2>1, ZenonT(40) DEF UnbufferedHandlerInv, U!NoDanglingHandler
  <2>5. U!PendingMeansWriteMask'
    BY <2>1, <2>2, ZenonT(40) DEF UnbufferedHandlerInv, U!PendingMeansWriteMask
  <2>6. U!OnlySubscribedTopics'
    <3> SUFFICES ASSUME NEW h \in open', NEW n \in PubMap4'[h] \ inherited'[h]
                 PROVE  topic'[n] \in subscriptionMap2'[h]
      BY ZenonT(40) DEF U!OnlySubscribedTopics
    <3>1. h \in open /\ h \in Handler
      BY <2>1, ZenonT(40)
    <3>2. CASE n = m
      BY <3>1, <3>2, <2>1, <2>2, <2>3, ZenonT(40)
    <3>3. CASE n # m
      <4>1. n \in PubMap4[h] \ inherited[h] /\ n \in Msg
        BY <3>1, <3>3, <2>1, <2>2, ZenonT(40)
      <4>2. topic[n] \in subscriptionMap2[h]
        BY <3>1, <4>1, ZenonT(40) DEF UnbufferedHandlerInv, U!OnlySubscribedTopics
      <4> QED
        BY <3>3, <4>1, <4>2, <2>1, ZenonT(40)
    <3> QED
      BY <3>2, <3>3, ZenonT(40)
  <2> QED
    BY <2>4, <2>5, <2>6, ZenonT(40) DEF UnbufferedHandlerInv
<1>7. ASSUME NEW h \in Handler, U!HandleOutputDone(h) PROVE UnbufferedHandlerInv'
  <2>1. /\ UNCHANGED <<subscriptionMap1, subscriptionMap2, open, topic, inherited>>
        /\ writeMask' = writeMask \ {h}
        /\ PubMap4' = [PubMap4 EXCEPT ![h] = {}]
    BY <1>7, ZenonT(40) DEF U!HandleOutputDone, U!onMessageSent, U!getClientMessages
  <2>2. U!NoDanglingHandler' /\ \A g \in Handler \ open' : subscriptionMap2'[g] = {}
    BY <2>1, ZenonT(40) DEF UnbufferedHandlerInv, U!NoDanglingHandler
  <2>3. U!PendingMeansWriteMask'
    BY <2>1, ZenonT(40) DEF UnbufferedHandlerInv, U!PendingMeansWriteMask
  <2>4. U!OnlySubscribedTopics'
    BY <2>1, ZenonT(40) DEF UnbufferedHandlerInv, U!OnlySubscribedTopics
  <2> QED
    BY <2>2, <2>3, <2>4, Zenon DEF UnbufferedHandlerInv
<1>8. ASSUME NEW h \in Handler, NEW sent \in SUBSET Msg, U!HandleOutputFails(h, sent)
      PROVE  UnbufferedHandlerInv'
  <2>1. U!Destroy(h) /\ UNCHANGED <<topic, inherited>>
    BY <1>8, ZenonT(40) DEF U!HandleOutputFails, U!onMessageSent
  <2>2. \A g \in Handler : PubMap4'[g] \subseteq PubMap4[g]
    BY <1>8, ZenonT(40) DEF U!HandleOutputFails, U!onMessageSent
  <2> QED
    BY <2>1, <2>2, UnbufferedDestroyStep, ZenonT(40)
<1>9. ASSUME NEW h \in Handler, U!DestructorAssert(h) PROVE UnbufferedHandlerInv'
  BY <1>9, ZenonT(40) DEF U!DestructorAssert, UnbufferedHandlerInv, U!NoDanglingHandler,
              U!PendingMeansWriteMask, U!OnlySubscribedTopics
<1>10. ASSUME NEW h \in Handler, U!InputError(h) \/ U!KeepAlive(h) PROVE UnbufferedHandlerInv'
  BY <1>1, <1>3, <1>10, ZenonT(40) DEF U!InputError, U!KeepAlive
<1>11. ASSUME NEW h \in Handler, U!HalfRead(h) \/ U!Idle(h) PROVE UnbufferedHandlerInv'
  BY <1>1, <1>11, ZenonT(40) DEF U!HalfRead, U!Idle
<1>12. ASSUME NEW m \in Msg, U!Expire(m) PROVE UnbufferedHandlerInv'
  BY <1>1, <1>12, ZenonT(40) DEF U!Expire
<1>13. CASE U!Restart \/ UNCHANGED U!vars
  BY <1>1, <1>13, ZenonT(40) DEF U!Restart, U!vars
<1> QED
  BY <1>2, <1>4, <1>5, <1>6, <1>7, <1>8, <1>9, <1>10, <1>11, <1>12, <1>13, ZenonT(40)
     DEF U!Next, U!HandlerStep, U!HandleOutput

-----------------------------------------------------------------------------
(* The messages that are stored are counted: first by the buffering        *)
(* broker, whose theorems follow.                                          *)

INSTANCE FiniteSetTheorems

(* What is stored stays finite, and a step of the broker stores at most    *)
(* one message more than it left in the buffer.                            *)
LEMMA BufferBoundedStep ==
    ASSUME TypeOK, BufferBounded, [Next]_vars
    PROVE  BufferBounded'
<1> USE DEF TypeOK, StoreTypeOK
<1>1. /\ IsFiniteSet(Stored)
      /\ Cardinality(Stored) \in Nat
      /\ MaxBufferSize \in Nat
      /\ MaxBufferSize > 0
  BY StoreAssumption, FS_Subset, FS_CardinalityType DEF Stored
<1>2. ASSUME Stored' \subseteq Stored PROVE BufferBounded'
  <2>1. Cardinality(Stored') <= Cardinality(Stored)
    BY <1>1, <1>2, FS_Subset
  <2>2. Cardinality(Stored') \in Nat
    BY <1>1, <1>2, FS_Subset, FS_CardinalityType
  <2> QED
    BY <1>1, <2>1, <2>2 DEF BufferBounded
<1>3. CASE UNCHANGED <<PubMap1, PubMap2, heap, sentTo>>
  BY <1>2, <1>3 DEF Stored
<1>4. CASE PubMap2' = [m \in Msg |-> {}]
  BY <1>2, <1>4 DEF Stored
<1>5. ASSUME NEW t \in Topic, NEW m \in Msg, Publish(t, m)
      PROVE  BufferBounded'
  <2>1. PubMap2' = [KeptPubMap2 EXCEPT ![m] = @ \cup subscriptionMap[t]]
    BY <1>5 DEF Publish, addMessage_, getSubscribersOfTopic_
  <2>2. CASE BufferFull
    <3>1. Stored' \subseteq {m}
      BY <2>1, <2>2 DEF Stored, KeptPubMap2
    <3>2. IsFiniteSet({m}) /\ Cardinality({m}) = 1
      BY FS_Singleton
    <3>3. IsFiniteSet(Stored') /\ Cardinality(Stored') <= 1
      BY <3>1, <3>2, FS_Subset
    <3> QED
      BY <1>1, <3>3, FS_CardinalityType DEF BufferBounded
  <2>3. CASE ~BufferFull
    <3>1. Stored' \subseteq Stored \cup {m}
      BY <2>1, <2>3 DEF Stored, KeptPubMap2
    <3>2. /\ IsFiniteSet(Stored \cup {m})
          /\ Cardinality(Stored \cup {m}) <= Cardinality(Stored) + 1
      <4> HIDE DEF Stored, TypeOK, StoreTypeOK
      <4>1. /\ IsFiniteSet(Stored \cup {m})
            /\ \/ Cardinality(Stored \cup {m}) = Cardinality(Stored)
               \/ Cardinality(Stored \cup {m}) = Cardinality(Stored) + 1
        BY <1>1, FS_AddElement, Zenon
      <4> QED
        BY <1>1, <4>1
    <3>3. /\ Cardinality(Stored') \in Nat
          /\ Cardinality(Stored \cup {m}) \in Nat
          /\ Cardinality(Stored') <= Cardinality(Stored \cup {m})
      BY <3>1, <3>2, FS_Subset, FS_CardinalityType
    <3>4. Cardinality(Stored) < MaxBufferSize
      BY <1>1, <2>3 DEF BufferFull
    <3> QED
      BY <1>1, <3>2, <3>3, <3>4 DEF BufferBounded
  <2> QED
    BY <2>2, <2>3
<1>6. ASSUME NEW i, NEW sent, onMessageSent_(sent, i) PROVE BufferBounded'
  BY <1>2, <1>6 DEF onMessageSent_, Stored
<1> QED
  BY <1>3, <1>4, <1>5, <1>6, MessageSteps, Zenon
     DEF HandleOutputDone, HandleOutputFails

(* The initial state satisfies the inductive invariant.                    *)
LEMMA InvInit == Init => IInv
<1> SUFFICES ASSUME Init PROVE IInv
  OBVIOUS
<1>1. TypeOK
  BY TypeInit
<1>2. NoDanglingMessage /\ SentAtMostOnce /\ \A m \in Msg \ heap : sentTo[m] = {}
  BY DEF Init, TopicManagerInit, NoDanglingMessage, SentAtMostOnce
<1>3. BufferBounded
  <2>1. Stored = {}
    BY DEF Init, TopicManagerInit, Stored
  <2> QED
    BY <2>1, StoreAssumption, FS_EmptySet DEF BufferBounded
<1>4. /\ IssuedIdsNotReused
      /\ AckedSubscriptionsDurable
      /\ file.next = 0 => \A t \in Topic : file.subs[t] = {}
  BY DEF Init, TopicManagerInit, EmptyFile, IssuedIdsNotReused,
         AckedSubscriptionsDurable
<1>5. /\ \A h \in Handler \ open : id[h] = 0
      /\ subscribers[0] = NoHandler
      /\ PendingMeansWriteMask
  BY ZeroIsId DEF Init, TopicManagerInit, PendingMeansWriteMask
<1> QED
  BY <1>1, <1>2, <1>3, <1>4, <1>5 DEF IInv

(* Every step keeps the inductive invariant.                               *)
LEMMA InvStep == IInv /\ [Next]_vars => IInv'
BY TypeStep, NoDanglingMessageStep, SentAtMostOnceStep, BufferBoundedStep,
   IssuedIdsStep, DurableStep, HandlerStepInv DEF IInv, HandlerInv

(* The inductive invariant holds in every state of the buffering broker.   *)
THEOREM BrokerInvariant == Spec => []IInv
BY InvInit, InvStep, PTL DEF Spec

(* The maps, the file and the handlers keep their types.                   *)
THEOREM TypeCorrect == Spec => []TypeOK
<1>1. IInv => TypeOK
  BY DEF IInv
<1> QED
  BY <1>1, BrokerInvariant, PTL

(* handleOutput and onMessageSent_ never meet a deleted Msg, and no Msg is *)
(* deleted twice, with any number of clients, connections and messages,    *)
(* whatever a connection sends.                                            *)
THEOREM NoDanglingMessageHolds == Spec => []NoDanglingMessage
<1>1. IInv => NoDanglingMessage
  BY DEF IInv
<1> QED
  BY <1>1, BrokerInvariant, PTL

(* checkBufferSize_ keeps the number of buffered messages at or below      *)
(* MaxBufferSize.                                                          *)
THEOREM BufferBoundedHolds == Spec => []BufferBounded
<1>1. IInv => BufferBounded
  BY DEF IInv
<1> QED
  BY <1>1, BrokerInvariant, PTL

(* No message is sent twice in full to the same client by one run of the   *)
(* broker.                                                                 *)
THEOREM SentAtMostOnceHolds == Spec => []SentAtMostOnce
<1>1. IInv => SentAtMostOnce
  BY DEF IInv
<1> QED
  BY <1>1, BrokerInvariant, PTL

(* allocateClientId_ hands out no id twice, through any sequence of        *)
(* crashes and restarts none of which falls between the truncation and the *)
(* write of the file.                                                      *)
THEOREM IssuedIdsNotReusedHolds == Spec => []IssuedIdsNotReused
<1>1. IInv => IssuedIdsNotReused
  BY DEF IInv
<1> QED
  BY <1>1, BrokerInvariant, PTL

(* Nor is a subscription lost that was acknowledged.                       *)
THEOREM AckedSubscriptionsDurableHolds == Spec => []AckedSubscriptionsDurable
<1>1. IInv => AckedSubscriptionsDurable
  BY DEF IInv
<1> QED
  BY <1>1, BrokerInvariant, PTL

(* A live handler that the store has under the id it has now is registered *)
(* for output whenever that id has pending messages: no wakeup is lost,    *)
(* however often connections subscribe, under whatever ids.                *)
THEOREM PendingMeansWriteMaskHolds == Spec => []PendingMeansWriteMask
<1>1. IInv => PendingMeansWriteMask
  BY DEF IInv
<1> QED
  BY <1>1, BrokerInvariant, PTL

(* A message leaves the buffer of a running broker only by being deleted.  *)
THEOREM LeavesByDeleteHolds == Spec => LeavesByDelete
<1>1. IInv /\ [Next]_vars =>
        [\A m \in Stored : up' /\ PubMap2'[m] = {} => m \notin heap']_vars
  BY LeavesByDeleteStep DEF IInv
<1> QED
  BY <1>1, BrokerInvariant, PTL DEF Spec, LeavesByDelete

-----------------------------------------------------------------------------
(* Then by the broker without buffering.                                   *)

(* Both modules count with the Cardinality of FiniteSets.                  *)
LEMMA SameCount == \A S : U!Cardinality(S) = Cardinality(S)
BY DEF U!Cardinality, Cardinality

(* A step stores at most one message more than it left in the buffer.      *)
LEMMA UnbufferedBufferBoundedStep ==
    ASSUME U!TypeOK, U!BufferBounded, [U!Next]_U!vars
    PROVE  U!BufferBounded'
<1> USE DEF U!TypeOK, U!StoreTypeOK
<1>1. /\ IsFiniteSet(U!Stored)
      /\ Cardinality(U!Stored) \in Nat
      /\ MaxBufferSize \in Nat
      /\ MaxBufferSize > 0
  BY StoreAssumption, FS_Subset, FS_CardinalityType DEF U!Stored
<1>2. ASSUME U!Stored' \subseteq U!Stored PROVE U!BufferBounded'
  <2>1. Cardinality(U!Stored') <= Cardinality(U!Stored)
    BY <1>1, <1>2, FS_Subset
  <2>2. Cardinality(U!Stored') \in Nat
    BY <1>1, <1>2, FS_Subset, FS_CardinalityType
  <2> QED
    BY <1>1, <2>1, <2>2, SameCount DEF U!BufferBounded
<1>3. CASE UNCHANGED <<PubMap3, PubMap4, heap, topic, sentTo>>
  BY <1>2, <1>3 DEF U!Stored
<1>4. CASE PubMap3' = [m \in Msg |-> {}]
  BY <1>2, <1>4 DEF U!Stored
<1>5. ASSUME NEW t \in Topic, NEW m \in Msg, U!Publish(t, m)
      PROVE  U!BufferBounded'
  <2>1. PubMap3' = [U!KeptPubMap3 EXCEPT ![m] = @ \cup U!Receivers(t)]
    BY <1>5, Zenon DEF U!Publish, U!addMessage
  <2>2. CASE U!BufferFull
    <3>1. U!Stored' \subseteq {m}
      BY <2>1, <2>2 DEF U!Stored, U!KeptPubMap3
    <3>2. IsFiniteSet({m}) /\ Cardinality({m}) = 1
      BY FS_Singleton, ZenonT(40)
    <3>3. IsFiniteSet(U!Stored') /\ Cardinality(U!Stored') <= 1
      BY <3>1, <3>2, FS_Subset
    <3> QED
      BY <1>1, <3>3, FS_CardinalityType, SameCount DEF U!BufferBounded
  <2>3. CASE ~U!BufferFull
    <3>1. U!Stored' \subseteq U!Stored \cup {m}
      BY <2>1, <2>3 DEF U!Stored, U!KeptPubMap3
    <3>2. /\ IsFiniteSet(U!Stored \cup {m})
          /\ Cardinality(U!Stored \cup {m}) <= Cardinality(U!Stored) + 1
      <4> HIDE DEF U!Stored, U!TypeOK, U!StoreTypeOK
      <4>1. /\ IsFiniteSet(U!Stored \cup {m})
            /\ \/ Cardinality(U!Stored \cup {m}) = Cardinality(U!Stored)
               \/ Cardinality(U!Stored \cup {m}) = Cardinality(U!Stored) + 1
        BY <1>1, FS_AddElement, Zenon
      <4> QED
        BY <1>1, <4>1
    <3>3. /\ Cardinality(U!Stored') \in Nat
          /\ Cardinality(U!Stored \cup {m}) \in Nat
          /\ Cardinality(U!Stored') <= Cardinality(U!Stored \cup {m})
      BY <3>1, <3>2, FS_Subset, FS_CardinalityType
    <3>4. Cardinality(U!Stored) < MaxBufferSize
      BY <1>1, <2>3, SameCount DEF U!BufferFull
    <3> QED
      BY <1>1, <3>2, <3>3, <3>4, SameCount DEF U!BufferBounded
  <2> QED
    BY <2>2, <2>3
<1>6. ASSUME NEW h, NEW sent, U!onMessageSent(sent, h) PROVE U!BufferBounded'
  BY <1>2, <1>6 DEF U!onMessageSent, U!Stored
<1> QED
  BY <1>3, <1>4, <1>5, <1>6, UnbufferedMessageSteps, ZenonT(40)
     DEF U!HandleOutputDone, U!HandleOutputFails, U!DestructorAssert

(* The initial state satisfies the inductive invariant.                    *)
LEMMA UnbufferedInvInit == U!Init => U!IInv
<1> SUFFICES ASSUME U!Init PROVE U!IInv
  OBVIOUS
<1>1. U!BufferBounded
  <2>1. U!Stored = {}
    BY DEF U!Init, U!Stored
  <2> QED
    BY <2>1, FS_EmptySet, StoreAssumption, SameCount DEF U!BufferBounded
<1>2. /\ U!NoDanglingMessage /\ U!NoDanglingHandler /\ U!PendingMeansWriteMask
      /\ U!SentAtMostOnce /\ U!OnlySubscribedTopics
  BY DEF U!Init, U!NoDanglingMessage, U!NoDanglingHandler, U!PendingMeansWriteMask,
         U!SentAtMostOnce, U!OnlySubscribedTopics
<1>3. /\ \A h \in Handler \ open : subscriptionMap2[h] = {}
      /\ \A m \in Msg \ heap : sentTo[m] = {}
  BY DEF U!Init
<1> QED
  BY <1>1, <1>2, <1>3, UnbufferedTypeInit DEF U!IInv

(* Every step keeps the inductive invariant.                               *)
LEMMA UnbufferedInvStep == U!IInv /\ [U!Next]_U!vars => U!IInv'
<1> SUFFICES ASSUME U!IInv, [U!Next]_U!vars PROVE U!IInv'
  OBVIOUS
<1>1. U!TypeOK' /\ U!NoDanglingMessage' /\ U!BufferBounded'
  BY UnbufferedTypeStep, UnbufferedNoDanglingMessageStep, UnbufferedBufferBoundedStep DEF U!IInv
<1>2. U!SentAtMostOnce' /\ \A m \in Msg \ heap' : sentTo'[m] = {}
  BY UnbufferedSentAtMostOnceStep DEF U!IInv
<1>3. UnbufferedHandlerInv'
  BY UnbufferedHandlerInvStep DEF U!IInv, UnbufferedHandlerInv
<1> QED
  BY <1>1, <1>2, <1>3 DEF U!IInv, UnbufferedHandlerInv

(* The inductive invariant of the broker without buffering.                *)
THEOREM UnbufferedInvariant == U!Spec => []U!IInv
  BY UnbufferedInvInit, UnbufferedInvStep, PTL DEF U!Spec

(* The maps and the handlers keep their types.                             *)
THEOREM UnbufferedTypeCorrect == U!Spec => []U!TypeOK
<1>1. U!IInv => U!TypeOK
  BY DEF U!IInv
<1> QED
  BY <1>1, UnbufferedInvariant, PTL

(* handleOutput never sends a deleted message, onMessageSent never deletes *)
(* one twice.                                                              *)
THEOREM UnbufferedNoDanglingMessageHolds == U!Spec => []U!NoDanglingMessage
<1>1. U!IInv => U!NoDanglingMessage
  BY DEF U!IInv
<1> QED
  BY <1>1, UnbufferedInvariant, PTL

(* addMessage and isClientOnline never call a deleted handler.             *)
THEOREM UnbufferedNoDanglingHandlerHolds == U!Spec => []U!NoDanglingHandler
<1>1. U!IInv => U!NoDanglingHandler
  BY DEF U!IInv
<1> QED
  BY <1>1, UnbufferedInvariant, PTL

(* A subscribed connection with pending messages waits for output.         *)
THEOREM UnbufferedPendingMeansWriteMaskHolds == U!Spec => []U!PendingMeansWriteMask
<1>1. U!IInv => U!PendingMeansWriteMask
  BY DEF U!IInv
<1> QED
  BY <1>1, UnbufferedInvariant, PTL

(* checkBufferSize bounds the buffer.                                      *)
THEOREM UnbufferedBufferBoundedHolds == U!Spec => []U!BufferBounded
<1>1. U!IInv => U!BufferBounded
  BY DEF U!IInv
<1> QED
  BY <1>1, UnbufferedInvariant, PTL

(* No message is sent twice to a connection.                               *)
THEOREM UnbufferedSentAtMostOnceHolds == U!Spec => []U!SentAtMostOnce
<1>1. U!IInv => U!SentAtMostOnce
  BY DEF U!IInv
<1> QED
  BY <1>1, UnbufferedInvariant, PTL

(* Messages on topics a connection never subscribed to are inherited ones. *)
THEOREM OnlySubscribedTopicsHolds == U!Spec => []U!OnlySubscribedTopics
<1>1. U!IInv => U!OnlySubscribedTopics
  BY DEF U!IInv
<1> QED
  BY <1>1, UnbufferedInvariant, PTL

(* A message leaves the buffer only by being deleted.                      *)
THEOREM UnbufferedLeavesByDeleteHolds == U!Spec => U!LeavesByDelete
<1>1. U!IInv /\ [U!Next]_U!vars =>
        [\A m \in U!Stored : U!up' /\ PubMap3'[m] = {} => m \notin heap']_U!vars
  BY UnbufferedLeavesByDeleteStep DEF U!IInv
<1> QED
  BY <1>1, UnbufferedInvariant, PTL DEF U!Spec, U!LeavesByDelete
=============================================================================
