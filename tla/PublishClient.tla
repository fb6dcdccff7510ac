---------------------------- MODULE PublishClient ----------------------------
(***************************************************************************)
(* A publisher (msg/PublishClient.cpp): the thread of svc(), which watches *)
(* the connection to the broker, makes a new one when it is lost and then  *)
(* sends the messages of the buffer file, while other threads publish.     *)
(*                                                                         *)
(* Everything but the file is lost when the process ends; the application  *)
(* may start it again.  A connection can be reset or go silent; a send     *)
(* into a dead connection may still succeed, and one into a full socket    *)
(* fails.  A failing assert() stops the process; `status' names it.        *)
(***************************************************************************)
EXTENDS Naturals, Sequences

CONSTANTS
    brokerBuffering,    \* SubscriberHandler::enableBuffering of the broker
    keepAliveTryTimes,  \* probes sent without an answer before giving up
    MaxMessages,        \* bound on the messages published
    MaxFailures,        \* bound on the failures of connections and sends
    MaxEnds,            \* bound on the times the process ends
    MaxInFlight         \* bound on the probes and answers under way

ASSUME PublisherAssumption == brokerBuffering \in BOOLEAN

ASSUME BoundsAssumption ==
    /\ {keepAliveTryTimes, MaxMessages, MaxFailures, MaxEnds} \subseteq Nat
    /\ MaxInFlight \in Nat \ {0}

VARIABLES
    status,     \* "off", "up", or the assertion that stopped the process
    svc,        \* where svc() is: "conn_ok", "flush", "events", "timeout", "probe",
                \* "input", "conn_error", "reestablish", "connect" or "established"
    flushTo,    \* where svc() goes on after publishFromBuffer()
    reading,    \* the entry publishFromBuffer() is at, which then holds the mutex, or 0
    connectionErrorPending,
    handler,    \* the PublishClientHandler is there
    enableBuffering,
    keepAliveEnabled,
    timer,      \* the keep-alive timer is set
    unackedKeepAliveProbes,
    file,       \* messages in msgBufferFilename
    link,       \* "up", "reset", "silent" or "closed"
    probes,     \* probes under way to the broker
    toClient,   \* answers under way from it
    published,  \* the number of messages published: they are 1..published
    sent,       \* how often the send of a message has succeeded
    expired,    \* messages left out as too old
    lost,       \* messages of the file not read because a send failed
    failures, ends          \* counted for the bounds

aliveVars == <<keepAliveEnabled, timer, unackedKeepAliveProbes>>
netVars == <<link, probes, toClient>>
msgVars == <<file, published, sent, expired, lost>>
svcVars == <<svc, flushTo, reading>>
vars == <<status, svcVars, connectionErrorPending, handler, enableBuffering, aliveVars,
          msgVars, netVars, failures, ends>>

Message == 1..MaxMessages

Init ==
    /\ status = "off" /\ svc = "conn_ok" /\ flushTo = "events" /\ reading = 0
    /\ connectionErrorPending = FALSE /\ handler = FALSE /\ enableBuffering = FALSE
    /\ keepAliveEnabled = FALSE /\ timer = FALSE /\ unackedKeepAliveProbes = 0
    /\ file = <<>> /\ published = 0 /\ sent = [m \in Message |-> 0] /\ expired = {}
    /\ lost = {}
    /\ link = "closed" /\ probes = 0 /\ toClient = <<>>
    /\ failures = 0 /\ ends = 0

up == status = "up"

Abort(why) ==
    /\ status' = why
    /\ UNCHANGED <<svcVars, connectionErrorPending, handler, enableBuffering, aliveVars,
                   msgVars, netVars, failures, ends>>

Goto(place) == svc' = place /\ UNCHANGED <<flushTo, reading>>

(* A new connection to the broker, and the end of one.                     *)
Connected(answers) == link' = "up" /\ probes' = 0 /\ toClient' = answers

Gone(how) == link' = how /\ probes' = 0 /\ toClient' = <<>>

(* MsgProtocol::send returns -1: the connection was reset, or the socket   *)
(* takes no more for now.                                                  *)
SendFails ==
    \/ link = "reset" /\ UNCHANGED failures
    \/ link # "reset" /\ failures < MaxFailures /\ failures' = failures + 1

-----------------------------------------------------------------------------
(* The process: init() after a successful connect, and its end.            *)

(* The broker's answer brings its settings, unless it is still not there   *)
(* after a second.  Half an answer fails an assertion.                     *)
registerToBroker ==
    \/ /\ enableBuffering' = brokerBuffering
       /\ Connected(<<>>)
       /\ status' = "up"
    \/ /\ Connected(<<"publish_ok">>)
       /\ status' = "up"
       /\ UNCHANGED enableBuffering
    \/ /\ Connected(<<>>)
       /\ status' = "half_read"
       /\ UNCHANGED enableBuffering

init ==
    /\ status = "off"
    /\ handler' = TRUE
    /\ registerToBroker
    /\ UNCHANGED <<svcVars, connectionErrorPending, aliveVars, msgVars, failures, ends>>

ProcessEnds ==
    /\ status # "off" /\ ends < MaxEnds
    /\ ends' = ends + 1
    /\ status' = "off" /\ svc' = "conn_ok" /\ flushTo' = "events" /\ reading' = 0
    /\ connectionErrorPending' = FALSE /\ handler' = FALSE /\ enableBuffering' = FALSE
    /\ keepAliveEnabled' = FALSE /\ timer' = FALSE /\ unackedKeepAliveProbes' = 0
    /\ Gone("closed")
    /\ UNCHANGED <<msgVars, failures>>

-----------------------------------------------------------------------------
(* Other threads publish.  publishFromBuffer() holds the mutex.            *)

publishToBuffer_i(m) == file' = IF enableBuffering THEN Append(file, m) ELSE file

(* The send, and the buffer file when an error is or becomes pending.      *)
PublishBody ==
    /\ up /\ published < MaxMessages
    /\ published' = published + 1
    /\ \/ /\ connectionErrorPending
          /\ publishToBuffer_i(published')
          /\ UNCHANGED <<connectionErrorPending, sent, failures>>
       \/ /\ ~connectionErrorPending
          /\ sent' = [sent EXCEPT ![published'] = @ + 1]
          /\ UNCHANGED <<connectionErrorPending, file, failures>>
       \/ /\ ~connectionErrorPending
          /\ SendFails
          /\ connectionErrorPending' = TRUE
          /\ publishToBuffer_i(published')
          /\ UNCHANGED sent
    /\ UNCHANGED <<status, svcVars, handler, enableBuffering, aliveVars, expired, lost, netVars, ends>>

PublishUnlocked == PublishBody

publish == reading = 0 /\ PublishBody

-----------------------------------------------------------------------------
(* svc(): messages from the buffer file.                                   *)

EmptyFileFails ==
    /\ up /\ svc = "flush" /\ reading = 0
    /\ IF connectionErrorPending \/ file = <<>>
         THEN /\ svc' = IF flushTo = "established" THEN "reestablish" ELSE flushTo
              /\ UNCHANGED <<flushTo, reading>>
         ELSE reading' = 1 /\ UNCHANGED <<svc, flushTo>>
    /\ UNCHANGED <<status, connectionErrorPending, handler, enableBuffering, aliveVars,
                   msgVars, netVars, failures, ends>>

publishFromBuffer ==
    /\ up /\ svc = "flush" /\ reading = 0
    /\ IF connectionErrorPending
         THEN /\ svc' = IF flushTo = "established" THEN "reestablish" ELSE flushTo
              /\ UNCHANGED <<flushTo, reading>>
         ELSE reading' = 1 /\ UNCHANGED <<svc, flushTo>>
    /\ UNCHANGED <<status, connectionErrorPending, handler, enableBuffering, aliveVars,
                   msgVars, netVars, failures, ends>>

(* One entry is sent, or left out as too old, or fails and ends the loop.  *)
FlushEntry ==
    /\ up /\ reading \in 1..Len(file)
    /\ \/ /\ sent' = [sent EXCEPT ![file[reading]] = @ + 1]
          /\ reading' = reading + 1
          /\ UNCHANGED <<connectionErrorPending, expired, lost, failures>>
       \/ /\ expired' = expired \cup {file[reading]}
          /\ reading' = reading + 1
          /\ UNCHANGED <<connectionErrorPending, sent, lost, failures>>
       \/ /\ SendFails
          /\ connectionErrorPending' = TRUE
          /\ lost' = lost \cup {file[k] : k \in reading..Len(file)}
          /\ reading' = MaxMessages + 1
          /\ UNCHANGED <<sent, expired>>
    /\ UNCHANGED <<status, svc, flushTo, handler, enableBuffering, aliveVars, file, published,
                   netVars, ends>>

FileKept ==
    /\ up /\ reading > Len(file)
    /\ reading' = 0 /\ svc' = flushTo
    /\ UNCHANGED <<status, flushTo, connectionErrorPending, handler, enableBuffering,
                   aliveVars, msgVars, netVars, failures, ends>>

clearBufferFile_i ==
    /\ up /\ reading > Len(file)
    /\ file' = <<>>
    /\ reading' = 0 /\ svc' = flushTo
    /\ UNCHANGED <<status, flushTo, connectionErrorPending, handler, enableBuffering,
                   aliveVars, published, sent, expired, lost, netVars, failures, ends>>

-----------------------------------------------------------------------------
(* svc() while the connection is there.                                    *)

enableKeepAlive ==
    /\ timer' = (timer \/ ~keepAliveEnabled)
    /\ keepAliveEnabled' = TRUE
    /\ UNCHANGED unackedKeepAliveProbes

onConnOkNoFlush ==
    /\ up /\ svc = "conn_ok"
    /\ enableKeepAlive
    /\ Goto("events")
    /\ UNCHANGED <<status, connectionErrorPending, handler, enableBuffering, msgVars,
                   netVars, failures, ends>>

onConnOk ==
    /\ up /\ svc = "conn_ok"
    /\ enableKeepAlive
    /\ svc' = IF enableBuffering THEN "flush" ELSE "events"
    /\ flushTo' = "events"
    /\ UNCHANGED <<status, reading, connectionErrorPending, handler, enableBuffering, msgVars,
                   netVars, failures, ends>>

(* The loop of svc(): handleEvents() runs a timer that is due and then the *)
(* input, until an error is pending.                                       *)
HandleEvents ==
    /\ up /\ svc = "events"
    /\ \/ connectionErrorPending /\ Goto("conn_error")
       \/ ~connectionErrorPending /\ timer /\ Goto("timeout")
       \/ ~connectionErrorPending /\ Goto("input")
    /\ UNCHANGED <<status, connectionErrorPending, handler, enableBuffering, aliveVars,
                   msgVars, netVars, failures, ends>>

(* The handler looks at the error flag under the mutex and lets go of it.  *)
handleTimeout ==
    /\ up /\ svc = "timeout"
    /\ Goto(IF connectionErrorPending THEN "input" ELSE "probe")
    /\ UNCHANGED <<status, connectionErrorPending, handler, enableBuffering, aliveVars,
                   msgVars, netVars, failures, ends>>

Probed ==
    /\ link = "up" => probes + Len(toClient) < MaxInFlight
    /\ probes' = IF link = "up" THEN probes + 1 ELSE probes
    /\ UNCHANGED <<timer, connectionErrorPending, failures>>

ProbeFails ==
    /\ timer' = FALSE
    /\ connectionErrorPending' = TRUE
    /\ UNCHANGED probes

ForgetProbes ==
    /\ up /\ svc = "probe" /\ ~connectionErrorPending
    /\ unackedKeepAliveProbes' = 0
    /\ Probed \/ (SendFails /\ ProbeFails)
    /\ Goto("input")
    /\ UNCHANGED <<status, handler, enableBuffering, keepAliveEnabled, msgVars, link, toClient, ends>>

sendKeepAliveProbe ==
    /\ up /\ svc = "probe"
    /\ IF connectionErrorPending THEN Abort("error_pending")
       ELSE /\ unackedKeepAliveProbes' = unackedKeepAliveProbes + 1
            /\ IF unackedKeepAliveProbes' > keepAliveTryTimes
                 THEN ProbeFails /\ UNCHANGED failures
                 ELSE Probed \/ (SendFails /\ ProbeFails)
            /\ Goto("input")
            /\ UNCHANGED <<status, handler, enableBuffering, keepAliveEnabled, msgVars, link,
                           toClient, ends>>

NoInput ==
    /\ up /\ svc = "input"
    /\ link # "reset"
    /\ Goto("events")
    /\ UNCHANGED <<status, connectionErrorPending, handler, enableBuffering, aliveVars,
                   msgVars, netVars, failures, ends>>

(* An answer to a probe is read; the end of the connection, half an answer *)
(* and one of another type end in handleClose().                           *)
handleInput ==
    /\ up /\ svc = "input"
    /\ unackedKeepAliveProbes' = 0
    /\ Goto("events")
    /\ \/ /\ toClient # <<>> /\ Head(toClient) = "ack"
          /\ toClient' = Tail(toClient)
          /\ UNCHANGED <<connectionErrorPending, handler, link, probes, failures>>
       \/ /\ \/ link = "reset" /\ UNCHANGED failures
             \/ toClient # <<>> /\ Head(toClient) = "publish_ok" /\ UNCHANGED failures
             \/ toClient # <<>> /\ failures < MaxFailures /\ failures' = failures + 1
          /\ connectionErrorPending' = TRUE
          /\ handler' = FALSE
          /\ Gone("closed")
    /\ UNCHANGED <<status, enableBuffering, keepAliveEnabled, timer, msgVars, ends>>

-----------------------------------------------------------------------------
(* svc() once an error is pending.                                         *)

(* The timer is cancelled.                                                 *)
onConnError ==
    /\ up /\ svc = "conn_error"
    /\ keepAliveEnabled' = FALSE /\ timer' = FALSE
    /\ Goto("reestablish")
    /\ UNCHANGED <<status, connectionErrorPending, handler, enableBuffering,
                   unackedKeepAliveProbes, msgVars, netVars, failures, ends>>

KeepProbes ==
    /\ up /\ svc = "reestablish" /\ connectionErrorPending
    /\ handler' = FALSE
    /\ Gone("closed")
    /\ Goto("connect")
    /\ UNCHANGED <<status, connectionErrorPending, enableBuffering, aliveVars, msgVars, failures,
                   ends>>

ClearedEarly ==
    /\ up /\ svc = "reestablish"
    /\ handler' = FALSE /\ connectionErrorPending' = FALSE
    /\ Gone("closed")
    /\ Goto("connect")
    /\ UNCHANGED <<status, enableBuffering, aliveVars, msgVars, failures, ends>>

(* The handler that is still there is removed from the reactor, which      *)
(* closes and deletes it; then the client connects until it succeeds.      *)
reestablishConnection ==
    /\ up /\ svc = "reestablish"
    /\ IF ~connectionErrorPending THEN Abort("no_error_pending")
       ELSE /\ unackedKeepAliveProbes' = 0
            /\ handler' = FALSE
            /\ Gone("closed")
            /\ Goto("connect")
            /\ UNCHANGED <<status, connectionErrorPending, enableBuffering, keepAliveEnabled,
                           timer, msgVars, failures, ends>>

connect ==
    /\ up /\ svc = "connect"
    /\ handler' = TRUE /\ connectionErrorPending' = FALSE
    /\ Connected(<<>>)
    /\ svc' = IF enableBuffering THEN "flush" ELSE "established"
    /\ flushTo' = "established"
    /\ UNCHANGED <<status, reading, enableBuffering, aliveVars, msgVars, failures, ends>>

(* setConnectionError(false), whatever has happened since connect.         *)
Established ==
    /\ up /\ svc = "established"
    /\ connectionErrorPending' = FALSE
    /\ Goto("conn_ok")
    /\ UNCHANGED <<status, handler, enableBuffering, aliveVars, msgVars, netVars, failures, ends>>

-----------------------------------------------------------------------------
(* The broker and the network.                                             *)

BrokerAnswers ==
    /\ up /\ link = "up" /\ probes > 0
    /\ probes' = probes - 1
    /\ toClient' = Append(toClient, "ack")
    /\ UNCHANGED <<status, svcVars, connectionErrorPending, handler, enableBuffering, aliveVars,
                   msgVars, link, failures, ends>>

LinkFails ==
    /\ up /\ link = "up" /\ failures < MaxFailures
    /\ failures' = failures + 1
    /\ Gone("reset") \/ Gone("silent")
    /\ UNCHANGED <<status, svcVars, connectionErrorPending, handler, enableBuffering, aliveVars,
                   msgVars, ends>>

Svc ==
    \/ onConnOk \/ publishFromBuffer \/ FlushEntry \/ clearBufferFile_i
    \/ HandleEvents \/ handleTimeout \/ sendKeepAliveProbe \/ NoInput \/ handleInput
    \/ onConnError \/ reestablishConnection \/ connect \/ Established

Next == init \/ ProcessEnds \/ publish \/ Svc \/ BrokerAnswers \/ LinkFails

Spec == Init /\ [][Next]_vars

(* The thread of svc() goes on, connecting succeeds when it is tried often *)
(* enough, the timer is due again and again, select() reports input that   *)
(* is there, and the broker answers what arrives.                          *)
FairSpec ==
    /\ Spec
    /\ WF_vars(Svc) /\ WF_vars(BrokerAnswers)
    /\ SF_vars(HandleEvents /\ svc' = "timeout")
    /\ SF_vars(handleInput)

-----------------------------------------------------------------------------
(* Types: the flags, the places of the program, the counts and the data.   *)
FlagsOK ==
    /\ connectionErrorPending \in BOOLEAN /\ handler \in BOOLEAN
    /\ enableBuffering \in BOOLEAN /\ keepAliveEnabled \in BOOLEAN /\ timer \in BOOLEAN

PlacesOK ==
    /\ status \in {"off", "up", "half_read", "error_pending", "no_error_pending"}
    /\ svc \in {"conn_ok", "flush", "events", "timeout", "probe", "input", "conn_error",
                "reestablish", "connect", "established"}
    /\ flushTo \in {"events", "established"}
    /\ link \in {"up", "reset", "silent", "closed"}

CountsOK ==
    /\ reading \in 0..MaxMessages + 1 /\ published \in 0..MaxMessages
    /\ unackedKeepAliveProbes \in 0..keepAliveTryTimes + 1
    /\ failures \in 0..MaxFailures /\ ends \in 0..MaxEnds

BufferOK ==
    /\ file \in Seq(Message) /\ sent \in [Message -> Nat]
    /\ expired \subseteq Message /\ lost \subseteq Message

AnswersOK ==
    /\ toClient \in Seq({"ack", "publish_ok"})
    /\ probes \in Nat /\ probes + Len(toClient) <= MaxInFlight

TypeOK == FlagsOK /\ PlacesOK /\ CountsOK /\ BufferOK /\ AnswersOK

(* Whenever no error is pending the handler is there: publish(), which     *)
(* looks at the flag only, and the probe and the flush can use its stream, *)
(* although svc() deletes the handler and makes new ones meanwhile.  To    *)
(* this end an error stays pending while svc() is on its way to a new      *)
(* connection, as reestablishConnectionAndPublishFromBuffer asserts        *)
(* (PublishClient.cpp:318), also on the second turn of its loop.           *)
HandlerUnlessError ==
    /\ up /\ ~connectionErrorPending => handler
    /\ up /\ svc \in {"conn_error", "reestablish", "connect"} => connectionErrorPending
    /\ status # "no_error_pending"

(* A message is sent once, and once more for each end of the process that  *)
(* comes between sending the buffer file and clearing it.                  *)
SentAtMostOnce == \A m \in Message : sent[m] <= 1 + ends

(* A message leaves the buffer file only after it was sent or found too    *)
(* old, or with the rest of the file after a send that failed: one that    *)
(* publish() adds meanwhile is never cleared unread.                       *)
ClearedWhenRead ==
    [][\A k \in DOMAIN file : file' = <<>> =>
          sent[file[k]] > 0 \/ file[k] \in expired \cup lost]_vars

(* A probe is sent only while no error is pending, as sendKeepAliveProbe   *)
(* asserts (PublishClient.cpp:294).                                        *)
ProbeWithoutError == status # "error_pending"

(* What makes the above hold in every reachable state.  A process starts   *)
(* at the top of svc(); the handler is there wherever the error may be     *)
(* cleared; the counter of probes is below its limit unless an error is    *)
(* pending, which no thread clears before the counter is reset.            *)
Places ==
    /\ status = "off" => svc = "conn_ok" /\ reading = 0 /\ ~connectionErrorPending
    /\ up /\ svc \in {"conn_ok", "flush", "established"} => handler
    /\ reading > 0 => svc = "flush"
    /\ unackedKeepAliveProbes > keepAliveTryTimes =>
         connectionErrorPending /\ svc \notin {"conn_ok", "flush", "connect", "established"}

(* The file holds messages in the order they were published.  Those before *)
(* the entry being read were sent, left out or given up in this pass, the  *)
(* others only in passes that the end of the process cut short.            *)
FileRead ==
    /\ Len(file) <= published
    /\ \A k \in DOMAIN file : file[k] <= published
    /\ \A j, k \in DOMAIN file : j < k => file[j] < file[k]
    /\ \A m \in Message : m > published => sent[m] = 0
    /\ \A k \in DOMAIN file :
         IF k < reading THEN sent[file[k]] > 0 \/ file[k] \in expired \cup lost
                        ELSE sent[file[k]] <= ends

(* The inductive invariant.                                                *)
IInv == TypeOK /\ HandlerUnlessError /\ Places /\ SentAtMostOnce /\ FileRead

(* A buffered message does not stay in the file: the connection is made    *)
(* anew and the file sent, whatever publish() does in between.             *)
BufferFlushed == file # <<>> /\ enableBuffering ~> (file = <<>> \/ ~up)

(* A connection that is lost, silently too, is noticed and replaced, even  *)
(* when the error is forgotten by the last line of svc()'s loop.           *)
LossRepaired == link # "up" /\ up ~> (link = "up" \/ ~up)
=============================================================================
