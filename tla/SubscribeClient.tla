--------------------------- MODULE SubscribeClient ---------------------------
(***************************************************************************)
(* A subscriber (msg/SubscribeClient.cpp) and the broker's end of its      *)
(* connection (msg/SubscriberProxy.cpp): the loop of run(), which sends    *)
(* the subscriptions asked for, waits for events, watches the connection   *)
(* with keep-alive probes and makes a new one when it is lost, while other *)
(* threads subscribe and unsubscribe.                                      *)
(*                                                                         *)
(* A connection can be reset, which both ends notice, or go silent:        *)
(* nothing sent arrives any more, and only the probes can tell.  The build *)
(* leaves assert() on; a failing assertion stops the client, and `status'  *)
(* names it.                                                               *)
(***************************************************************************)
EXTENDS Naturals, Sequences, FiniteSets

CONSTANTS
    Topic,              \* topic names
    enableBuffering,    \* SubscriberHandler::enableBuffering of the broker
    keepAliveTryTimes,  \* probes sent without an answer before giving up
    MaxCalls,           \* bound on the calls of other threads
    MaxFailures,        \* bound on the failures of connections
    MaxInFlight         \* bound on the messages to the broker under way, and on
                        \* those to the client while it reads none of them

ASSUME ClientAssumption == enableBuffering \in BOOLEAN

ASSUME BoundsAssumption ==
    {keepAliveTryTimes, MaxCalls, MaxFailures, MaxInFlight} \subseteq Nat

VARIABLES
    toSubcribeTopics, subcribedTopics, toUnSubcribeTopics,
    id,         \* the client id, 0 for "0"
    run,        \* where run() is: "conn_ok", "process", "events", "input"
                \* or "reconnect"
    connectionErrorPending,
    handler,    \* the SubscribeClientHandler is there
    half,       \* it has a half-read message: tmpMsg # 0
    keepAliveEnabled,
    timer,      \* the keep-alive timer is set
    unackedKeepAliveProbes,
    recent,     \* input came within the last keepAliveTimeSpan
    status,     \* "up", or the assertion that stopped the client
    link,       \* "up", "reset" or "silent"
    toBroker, toClient,     \* messages under way
    peer,       \* the broker: [id, topics] of the handler of this connection,
                \* and the next id it will give out
    calls, failures         \* counted for the bounds

subVars == <<toSubcribeTopics, subcribedTopics, toUnSubcribeTopics>>
aliveVars == <<keepAliveEnabled, timer, unackedKeepAliveProbes, recent>>
connVars == <<connectionErrorPending, handler, half>>
netVars == <<link, toBroker, toClient, peer>>
vars == <<subVars, id, run, connVars, aliveVars, status, netVars, calls, failures>>

NoConnection == [id |-> 0, topics |-> {}]

(* init() has connected.                                                   *)
Init ==
    /\ toSubcribeTopics = {} /\ subcribedTopics = {} /\ toUnSubcribeTopics = {}
    /\ id = 0
    /\ run = "conn_ok"
    /\ connectionErrorPending = FALSE /\ handler = TRUE /\ half = FALSE
    /\ keepAliveEnabled = FALSE /\ timer = FALSE
    /\ unackedKeepAliveProbes = 0 /\ recent = FALSE
    /\ status = "up"
    /\ link = "up" /\ toBroker = <<>> /\ toClient = <<>>
    /\ peer = [handler |-> NoConnection, nextId |-> 1]
    /\ calls = 0 /\ failures = 0

up == status = "up"

Abort(why) ==
    /\ status' = why
    /\ UNCHANGED <<subVars, id, run, connVars, aliveVars, netVars, calls, failures>>

-----------------------------------------------------------------------------
(* Calls of other threads.                                                 *)

Call ==
    /\ up
    /\ calls < MaxCalls
    /\ calls' = calls + 1
    /\ UNCHANGED <<subcribedTopics, id, run, connVars, aliveVars, status, netVars, failures>>

subscribeTopic(t) ==
    /\ Call
    /\ IF t \in subcribedTopics THEN UNCHANGED <<toSubcribeTopics, toUnSubcribeTopics>>
       ELSE /\ toSubcribeTopics' = toSubcribeTopics \cup {t}
            /\ toUnSubcribeTopics' = toUnSubcribeTopics \ {t}

unSubscribeTopic(t) ==
    /\ Call
    /\ toSubcribeTopics' = toSubcribeTopics \ {t}
    /\ toUnSubcribeTopics' = IF t \in subcribedTopics \ toSubcribeTopics
                               THEN toUnSubcribeTopics \cup {t}
                               ELSE toUnSubcribeTopics

-----------------------------------------------------------------------------
(* run() while the connection is there.                                    *)

enableKeepAlive ==
    /\ timer' = (timer \/ ~keepAliveEnabled)
    /\ keepAliveEnabled' = TRUE
    /\ UNCHANGED <<unackedKeepAliveProbes, recent>>

onConnOk ==
    /\ up /\ run = "conn_ok"
    /\ IF connectionErrorPending THEN Abort("error_pending")
       ELSE /\ enableKeepAlive
            /\ run' = "process"
            /\ UNCHANGED <<subVars, id, connVars, status, netVars, calls, failures>>

(* A request on its way to the broker; into a dead connection it is lost.  *)
Sent(requests) == IF link = "up" THEN toBroker \o requests ELSE <<>>

(* The topics of a std::set in the order of its iterator.                  *)
Listed(S) ==
    CHOOSE s \in [1..Cardinality(S) -> S] : \A j, k \in DOMAIN s : s[j] = s[k] => j = k

Requests ==
    LET sub == Listed(toSubcribeTopics)
        unsub == Listed(toUnSubcribeTopics)
    IN  [k \in 1..Len(sub) |-> <<"subscribe", sub[k], id>>]
          \o [k \in 1..Len(unsub) |-> <<"unsubscribe", unsub[k], id>>]

(* MsgProtocol::send returns -1: the connection was reset, or the socket   *)
(* takes no more for now.                                                  *)
SendFails ==
    \/ link = "reset" /\ UNCHANGED failures
    \/ link # "reset" /\ failures < MaxFailures /\ failures' = failures + 1

processUnSubOnly ==
    /\ up /\ run = "process" /\ ~connectionErrorPending
    /\ toBroker' = Sent(SelectSeq(Requests, LAMBDA r : r[1] = "unsubscribe"))
    /\ run' = "events"
    /\ UNCHANGED <<subVars, id, connVars, aliveVars, status, link, toClient, peer,
                   calls, failures>>

(* Every request not yet answered is sent, again if it was sent before.    *)
processAllSubAndUnSub ==
    /\ up /\ run = "process" /\ ~connectionErrorPending
    /\ \/ Requests = <<>> \/ (handler /\ link # "reset")
    /\ Len(Sent(Requests)) <= MaxInFlight
    /\ toBroker' = Sent(Requests)
    /\ run' = "events"
    /\ UNCHANGED <<subVars, id, connVars, aliveVars, status, link, toClient, peer,
                   calls, failures>>

processFails ==
    /\ up /\ run = "process" /\ ~connectionErrorPending
    /\ Requests # <<>>
    /\ IF ~handler THEN Abort("no_handler")
       ELSE /\ SendFails
            /\ connectionErrorPending' = TRUE
            /\ UNCHANGED <<subVars, id, run, handler, half, aliveVars, status, netVars, calls>>

(* The timer fires in handleEvents(): it probes the peer unless there was  *)
(* input lately; a failure ends the timer and the connection.              *)
Probed ==
    /\ link # "reset"
    /\ toBroker' = Sent(<<<<"probe">>>>)
    /\ UNCHANGED <<recent, timer, connectionErrorPending, failures>>

ProbeFails ==
    /\ connectionErrorPending' = TRUE
    /\ timer' = FALSE
    /\ UNCHANGED <<recent, toBroker>>

NoLimit ==
    /\ unackedKeepAliveProbes' = unackedKeepAliveProbes + 1
    /\ Probed \/ (SendFails /\ ProbeFails)

ForgetProbes ==
    /\ unackedKeepAliveProbes' = 0
    /\ Probed \/ (SendFails /\ ProbeFails)

sendKeepAliveProbe ==
    IF ~handler THEN UNCHANGED <<unackedKeepAliveProbes, failures>> /\ ProbeFails
    ELSE IF recent
      THEN /\ recent' = FALSE
           /\ UNCHANGED <<unackedKeepAliveProbes, timer, connectionErrorPending, toBroker, failures>>
    ELSE /\ unackedKeepAliveProbes' = unackedKeepAliveProbes + 1
         /\ IF unackedKeepAliveProbes' > keepAliveTryTimes
              THEN ProbeFails /\ UNCHANGED failures
              ELSE Probed \/ (SendFails /\ ProbeFails)

handleTimeout ==
    /\ up /\ run = "events" /\ timer
    /\ Len(toBroker) < MaxInFlight
    /\ sendKeepAliveProbe
    /\ run' = "input"
    /\ UNCHANGED <<subVars, id, handler, half, keepAliveEnabled, status, link, toClient, peer,
                   calls>>

(* handleEvents() dispatches one handleInput() at most.                    *)
Input ==
    /\ up /\ run \in {"events", "input"} /\ handler
    /\ run' = "process"
    /\ unackedKeepAliveProbes' = 0
    /\ recent' = TRUE
    /\ UNCHANGED <<keepAliveEnabled, timer, peer, link, toBroker, calls, failures>>

NoInput ==
    /\ up
    /\ \/ run = "input" /\ Len(toClient) < MaxInFlight
       \/ run = "events" /\ toClient = <<>> /\ link # "reset"
    /\ run' = "process"
    /\ UNCHANGED <<subVars, id, connVars, aliveVars, status, netVars, calls, failures>>

HalfRead ==
    /\ Input
    /\ toClient # <<>> /\ ~half
    /\ half' = TRUE
    /\ UNCHANGED <<subVars, id, connectionErrorPending, handler, status, toClient>>

InputErrorUnnoticed ==
    /\ Input
    /\ link = "reset"
    /\ handler' = FALSE /\ half' = FALSE
    /\ UNCHANGED <<subVars, id, connectionErrorPending, status, toClient>>

(* The reactor removes and deletes the handler.                            *)
InputError ==
    /\ Input
    /\ link = "reset"
    /\ connectionErrorPending' = TRUE
    /\ handler' = FALSE /\ half' = FALSE
    /\ UNCHANGED <<subVars, id, status, toClient>>

onSubScribeTopicOk(t, i) ==
    IF t \notin toSubcribeTopics
      THEN /\ status' = "not_asked_for"
           /\ UNCHANGED <<subVars, id>>
    ELSE IF t \in subcribedTopics
      THEN /\ status' = "already_subscribed"
           /\ UNCHANGED <<subVars, id>>
    ELSE /\ toSubcribeTopics' = toSubcribeTopics \ {t}
         /\ subcribedTopics' = subcribedTopics \cup {t}
         /\ id' = IF id = 0 THEN i ELSE id
         /\ UNCHANGED <<toUnSubcribeTopics, status>>

onUnSubScribeTopicOk(t) ==
    /\ IF t \in subcribedTopics
         THEN subcribedTopics' = subcribedTopics \ {t} /\ UNCHANGED status
         ELSE /\ status' = "not_subscribed"
              /\ UNCHANGED subcribedTopics
    /\ UNCHANGED <<toSubcribeTopics, toUnSubcribeTopics, id>>

handleInput ==
    /\ Input
    /\ toClient # <<>>
    /\ toClient' = Tail(toClient)
    /\ half' = FALSE
    /\ LET msg == Head(toClient)
       IN  CASE msg[1] = "subscribe_ok" -> onSubScribeTopicOk(msg[2], msg[3])
             [] msg[1] = "unsubscribe_ok" -> onUnSubScribeTopicOk(msg[2])
             [] OTHER -> UNCHANGED <<subVars, id, status>>
    /\ UNCHANGED <<connectionErrorPending, handler>>

-----------------------------------------------------------------------------
(* run() when the connection is lost.                                      *)

connError ==
    /\ up /\ run = "process" /\ connectionErrorPending
    /\ run' = "reconnect"
    /\ toSubcribeTopics' = toSubcribeTopics \cup (subcribedTopics \ toUnSubcribeTopics)
    /\ timer' = FALSE
    /\ UNCHANGED <<toUnSubcribeTopics, id, connVars, unackedKeepAliveProbes, recent, status,
                   netVars, calls, failures>>

KeepSubscribed == connError /\ keepAliveEnabled' = FALSE /\ UNCHANGED subcribedTopics

KeepEnabled == connError /\ subcribedTopics' = {} /\ UNCHANGED keepAliveEnabled

onConnError == connError /\ keepAliveEnabled' = FALSE /\ subcribedTopics' = {}

(* The old handler is deleted; connect() is tried until it succeeds.       *)
reestablishConnection ==
    /\ up /\ run = "reconnect"
    /\ IF handler /\ half THEN Abort("half_read")
       ELSE /\ run' = "conn_ok"
            /\ connectionErrorPending' = FALSE
            /\ unackedKeepAliveProbes' = 0
            /\ handler' = TRUE /\ half' = FALSE
            /\ link' = "up" /\ toBroker' = <<>> /\ toClient' = <<>>
            /\ peer' = [peer EXCEPT !.handler = NoConnection]
            /\ UNCHANGED <<subVars, id, keepAliveEnabled, timer, recent, status, calls, failures>>

-----------------------------------------------------------------------------
(* The broker and the network.                                             *)

BrokerLeavesClient == UNCHANGED <<subVars, id, run, connVars, aliveVars, status, calls>>

Reply(request) ==
    LET h == peer.handler
        i == IF ~enableBuffering THEN 0
             ELSE IF request[3] = 0 THEN peer.nextId ELSE request[3]
    IN  CASE request[1] = "subscribe" ->
               /\ peer' = [handler |-> [id |-> i, topics |-> h.topics \cup {request[2]}],
                           nextId |-> IF enableBuffering /\ request[3] = 0
                                        THEN peer.nextId + 1 ELSE peer.nextId]
               /\ toClient' = Append(toClient, <<"subscribe_ok", request[2], i>>)
          [] request[1] = "unsubscribe" ->
               /\ peer' = [peer EXCEPT !.handler.topics = @ \ {request[2]}]
               /\ toClient' = Append(toClient, <<"unsubscribe_ok", request[2]>>)
          [] OTHER ->
               /\ toClient' = Append(toClient, <<"ack">>)
               /\ UNCHANGED peer

(* The broker's handler takes the next request.  An unsubscription under   *)
(* another id than the handler's fails its assertion: the broker dies.     *)
BrokerInput ==
    /\ up /\ link = "up" /\ toBroker # <<>>
    /\ LET request == Head(toBroker)
       IN  IF request[1] = "unsubscribe" /\ request[3] # peer.handler.id
             THEN link' = "reset" /\ UNCHANGED <<toBroker, toClient, peer>>
             ELSE /\ Reply(request)
                  /\ toBroker' = Tail(toBroker)
                  /\ UNCHANGED link
    /\ UNCHANGED failures
    /\ BrokerLeavesClient

(* The broker sends an event on a topic the connection is subscribed to.   *)
BrokerEvent ==
    /\ up /\ link = "up" /\ peer.handler.topics # {} /\ Len(toClient) < MaxInFlight
    /\ toClient' = Append(toClient, <<"event">>)
    /\ UNCHANGED <<link, toBroker, peer, failures>>
    /\ BrokerLeavesClient

LinkFails ==
    /\ up /\ link = "up" /\ failures < MaxFailures
    /\ failures' = failures + 1
    /\ link' \in {"reset", "silent"}
    /\ toBroker' = <<>>
    /\ UNCHANGED <<toClient, peer>>
    /\ BrokerLeavesClient

-----------------------------------------------------------------------------
HandleEvents == handleTimeout \/ NoInput \/ HalfRead \/ InputError \/ handleInput

Run ==
    \/ onConnOk \/ processAllSubAndUnSub \/ processFails \/ HandleEvents
    \/ onConnError \/ reestablishConnection

Next ==
    \/ \E t \in Topic : subscribeTopic(t) \/ unSubscribeTopic(t)
    \/ Run
    \/ BrokerInput \/ BrokerEvent \/ LinkFails

Spec == Init /\ [][Next]_vars

(* run() goes on.  The timer is periodic, and each handleEvents() expires  *)
(* it first, so it fires again and again; a readable socket is reported by *)
(* every select(); and the broker's reactor gets to its input.             *)
FairSpec ==
    /\ Spec
    /\ WF_vars(Run)
    /\ SF_vars(handleTimeout) /\ SF_vars(InputError \/ handleInput)
    /\ WF_vars(BrokerInput)

-----------------------------------------------------------------------------
(* Properties.                                                             *)

(* Types: the flags, the places of the program, the counts, the sets of    *)
(* topics, which stay finite, and the messages and the broker's state.     *)
FlagsOK ==
    /\ connectionErrorPending \in BOOLEAN /\ handler \in BOOLEAN /\ half \in BOOLEAN
    /\ keepAliveEnabled \in BOOLEAN /\ timer \in BOOLEAN /\ recent \in BOOLEAN

PlacesOK ==
    /\ run \in {"conn_ok", "process", "events", "input", "reconnect"}
    /\ status \in {"up", "error_pending", "no_handler", "not_asked_for", "already_subscribed",
                   "not_subscribed", "half_read"}
    /\ link \in {"up", "reset", "silent"}

CountsOK ==
    /\ unackedKeepAliveProbes \in 0..keepAliveTryTimes + 1
    /\ calls \in 0..MaxCalls /\ failures \in 0..MaxFailures

TopicsOK ==
    \A s \in {toSubcribeTopics, subcribedTopics, toUnSubcribeTopics} :
      s \subseteq Topic /\ IsFiniteSet(s)

Request == {<<"probe">>} \cup ({"subscribe", "unsubscribe"} \X Topic \X Nat)

Answer ==
    {<<"ack">>, <<"event">>} \cup ({"subscribe_ok"} \X Topic \X Nat)
      \cup ({"unsubscribe_ok"} \X Topic)

NetOK ==
    /\ id \in Nat
    /\ toBroker \in Seq(Request) /\ toClient \in Seq(Answer)
    /\ peer \in [handler : [id : Nat, topics : SUBSET Topic], nextId : Nat]

TypeOK == FlagsOK /\ PlacesOK /\ CountsOK /\ TopicsOK /\ NetOK

(* A connection in use is watched: whichever way the last one was lost,    *)
(* the keep-alive timer is set again for the next, and the handler is gone *)
(* only when connectionErrorPending is set, so that run() never waits for  *)
(* a connection that was deleted (assertions of SubscribeClient.cpp:251    *)
(* and :275).                                                              *)
KeepAliveArmed ==
    ~connectionErrorPending =>
      /\ handler
      /\ run \in {"process", "events", "input"} => timer

(* While a connection is up, the broker's handler for it has every         *)
(* subscription that the client takes for granted, but for one whose       *)
(* Msg_UnSubscribe_OK is on its way.                                       *)
SubscribedAtBroker ==
    up /\ link = "up" => \A t \in subcribedTopics :
      \/ t \in peer.handler.topics
      \/ \E k \in DOMAIN toClient : toClient[k] = <<"unsubscribe_ok", t>>

(* What makes the above hold in every reachable state.  The timer is off   *)
(* when a connection is made, and the counter of probes passes its limit   *)
(* only with the timer off and an error pending, until the counter is      *)
(* reset; nothing is taken for subscribed when a connection is made.       *)
Places ==
    /\ run \in {"conn_ok", "reconnect"} => ~keepAliveEnabled
    /\ unackedKeepAliveProbes > keepAliveTryTimes =>
         connectionErrorPending /\ ~timer /\ run # "conn_ok"
    /\ run = "reconnect" => subcribedTopics = {}

(* A subscription whose Msg_Subscribe_OK is on its way holds at the broker *)
(* or has a later Msg_UnSubscribe_OK behind it.                            *)
AnswersInOrder ==
    up /\ link = "up" => \A k \in DOMAIN toClient :
      toClient[k][1] = "subscribe_ok" =>
        \/ toClient[k][2] \in peer.handler.topics
        \/ \E j \in DOMAIN toClient :
             j > k /\ toClient[j] = <<"unsubscribe_ok", toClient[k][2]>>

(* The inductive invariant.                                                *)
IInv == TypeOK /\ Places /\ KeepAliveArmed /\ SubscribedAtBroker /\ AnswersInOrder

(* A Msg_Subscribe_OK arrives only for a topic that waits for one, as      *)
(* onSubScribeTopicOk asserts (SubscribeClient.cpp:128).                   *)
SubscribeOkExpected == status # "not_asked_for"

(* A connection gone silent is noticed, and replaced.                      *)
SilentLossDetected == link = "silent" ~> (link = "up" \/ ~up)

(* Every topic asked for is subscribed in the end, or no longer asked for. *)
SubscriptionAnswered ==
    \A t \in Topic : t \in toSubcribeTopics ~> (t \notin toSubcribeTopics \/ ~up)
=============================================================================
