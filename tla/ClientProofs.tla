---------------------------- MODULE ClientProofs ----------------------------
(***************************************************************************)
(* Safety of the two clients of the broker: of the publisher               *)
(* (PublishClient) for any number of messages, failures, restarts and      *)
(* probes, and then of the subscriber and the broker's end of its          *)
(* connection (SubscribeClient, whose definitions are the Sub!... below)   *)
(* for any set of topics and any number of calls, failures, probes and     *)
(* messages under way.  They are separate programs: no theorem relates a   *)
(* state of one to a state of the other.                                   *)
(***************************************************************************)
EXTENDS PublishClient, TLAPS

-----------------------------------------------------------------------------
(* The publisher.                                                          *)

(* Initially the state is well typed.                                      *)
LEMMA TypeInit == Init => TypeOK
<1>1. Init => FlagsOK
  BY Zenon DEF Init, FlagsOK
<1>2. Init => PlacesOK
  BY DEF Init, PlacesOK
<1>3. Init => CountsOK
  BY BoundsAssumption DEF Init, CountsOK
<1>4. Init => BufferOK
  BY DEF Init, BufferOK
<1>5. Init => AnswersOK
  BY BoundsAssumption DEF Init, AnswersOK
<1> QED
  BY <1>1, <1>2, <1>3, <1>4, <1>5 DEF TypeOK

(* The flags of the client stay Boolean.                                   *)
LEMMA FlagsStep == FlagsOK /\ [Next]_vars => FlagsOK'
<1> SUFFICES ASSUME FlagsOK, [Next]_vars PROVE FlagsOK'
  OBVIOUS
<1> USE DEF FlagsOK, svcVars, aliveVars
<1>1. CASE init
  BY <1>1, PublisherAssumption, Zenon DEF init, registerToBroker, Connected
<1>2. CASE ProcessEnds
  BY <1>2, Zenon DEF ProcessEnds, Gone
<1>3. CASE publish
  BY <1>3, Zenon DEF publish, PublishBody, publishToBuffer_i, SendFails
<1>4. CASE onConnOk
  BY <1>4, Zenon DEF onConnOk, enableKeepAlive
<1>5. CASE publishFromBuffer
  BY <1>5, Zenon DEF publishFromBuffer
<1>6. CASE FlushEntry
  BY <1>6, Zenon DEF FlushEntry, SendFails
<1>7. CASE clearBufferFile_i
  BY <1>7, Zenon DEF clearBufferFile_i
<1>8. CASE HandleEvents
  BY <1>8, Zenon DEF HandleEvents, Goto
<1>9. CASE handleTimeout
  BY <1>9, Zenon DEF handleTimeout, Goto
<1>10. CASE sendKeepAliveProbe
  BY <1>10, Zenon DEF sendKeepAliveProbe, Goto, Abort, Probed, ProbeFails, SendFails
<1>11. CASE NoInput
  BY <1>11, Zenon DEF NoInput, Goto
<1>12. CASE handleInput
  BY <1>12, Zenon DEF handleInput, Goto, Gone
<1>13. CASE onConnError
  BY <1>13, Zenon DEF onConnError, Goto
<1>14. CASE reestablishConnection
  BY <1>14, Zenon DEF reestablishConnection, Goto, Gone, Abort
<1>15. CASE connect
  BY <1>15, Zenon DEF connect, Connected
<1>16. CASE Established
  BY <1>16, Zenon DEF Established, Goto
<1>17. CASE BrokerAnswers
  BY <1>17, Zenon DEF BrokerAnswers
<1>18. CASE LinkFails
  BY <1>18, Zenon DEF LinkFails, Gone
<1>19. CASE UNCHANGED vars
  BY <1>19 DEF vars
<1> QED
  BY <1>1, <1>2, <1>3, <1>4, <1>5, <1>6, <1>7, <1>8, <1>9, <1>10, <1>11, <1>12, <1>13,
     <1>14, <1>15, <1>16, <1>17, <1>18, <1>19 DEF Next, Svc

(* The places of svc(), of the process and of the connection stay known.   *)
LEMMA PlacesOKStep == PlacesOK /\ [Next]_vars => PlacesOK'
<1> SUFFICES ASSUME PlacesOK, [Next]_vars PROVE PlacesOK'
  OBVIOUS
<1> USE DEF PlacesOK, svcVars, netVars
<1>1. CASE init
  BY <1>1 DEF init, registerToBroker, Connected
<1>2. CASE ProcessEnds
  BY <1>2 DEF ProcessEnds, Gone
<1>3. CASE publish
  BY <1>3 DEF publish, PublishBody, publishToBuffer_i, SendFails
<1>4. CASE onConnOk
  BY <1>4 DEF onConnOk, enableKeepAlive
<1>5. CASE publishFromBuffer
  BY <1>5 DEF publishFromBuffer
<1>6. CASE FlushEntry
  BY <1>6 DEF FlushEntry, SendFails
<1>7. CASE clearBufferFile_i
  BY <1>7 DEF clearBufferFile_i
<1>8. CASE HandleEvents
  BY <1>8 DEF HandleEvents, Goto
<1>9. CASE handleTimeout
  BY <1>9 DEF handleTimeout, Goto
<1>10. CASE sendKeepAliveProbe
  BY <1>10 DEF sendKeepAliveProbe, Goto, Abort, Probed, ProbeFails, SendFails
<1>11. CASE NoInput
  BY <1>11 DEF NoInput, Goto
<1>12. CASE handleInput
  BY <1>12 DEF handleInput, Goto, Gone
<1>13. CASE onConnError
  BY <1>13 DEF onConnError, Goto
<1>14. CASE reestablishConnection
  BY <1>14 DEF reestablishConnection, Goto, Gone, Abort
<1>15. CASE connect
  BY <1>15 DEF connect, Connected
<1>16. CASE Established
  BY <1>16 DEF Established, Goto
<1>17. CASE BrokerAnswers
  BY <1>17 DEF BrokerAnswers
<1>18. CASE LinkFails
  BY <1>18 DEF LinkFails, Gone
<1>19. CASE UNCHANGED vars
  BY <1>19 DEF vars
<1> QED
  BY <1>1, <1>2, <1>3, <1>4, <1>5, <1>6, <1>7, <1>8, <1>9, <1>10, <1>11, <1>12, <1>13,
     <1>14, <1>15, <1>16, <1>17, <1>18, <1>19 DEF Next, Svc

(* The counts keep their bounds: the number of unanswered probes stays     *)
(* within its limit, and the reader within the file.                       *)
LEMMA CountsStep ==
    CountsOK /\ BufferOK /\ Places /\ Len(file) <= published /\ [Next]_vars => CountsOK'
<1> SUFFICES ASSUME CountsOK, BufferOK, Places, Len(file) <= published, [Next]_vars
             PROVE  CountsOK'
  OBVIOUS
<1> USE BoundsAssumption DEF CountsOK, svcVars, aliveVars, msgVars
<1>1. CASE init
  BY <1>1 DEF init, registerToBroker, Connected
<1>2. CASE ProcessEnds
  BY <1>2 DEF ProcessEnds, Gone
<1>3. CASE publish
  BY <1>3, SMTT(30) DEF publish, PublishBody, publishToBuffer_i, SendFails
<1>4. CASE onConnOk
  BY <1>4 DEF onConnOk, enableKeepAlive
<1>5. CASE publishFromBuffer
  BY <1>5 DEF publishFromBuffer
<1>6. CASE FlushEntry
  <2>1. Len(file) \in Nat
    BY DEF BufferOK
  <2>2. reading' \in 0..MaxMessages + 1 /\ failures' \in 0..MaxFailures
    BY <1>6, <2>1, SMTT(30) DEF FlushEntry, SendFails
  <2> QED
    BY <1>6, <2>2 DEF FlushEntry
<1>7. CASE clearBufferFile_i
  BY <1>7 DEF clearBufferFile_i
<1>8. CASE HandleEvents
  BY <1>8 DEF HandleEvents, Goto
<1>9. CASE handleTimeout
  BY <1>9 DEF handleTimeout, Goto
<1>10. CASE sendKeepAliveProbe
  <2>1. CASE connectionErrorPending
    BY <1>10, <2>1 DEF sendKeepAliveProbe, Abort
  <2>2. CASE ~connectionErrorPending
    <3>1. unackedKeepAliveProbes <= keepAliveTryTimes
      BY <2>2 DEF Places
    <3>2. unackedKeepAliveProbes' = unackedKeepAliveProbes + 1
      BY <1>10, <2>2 DEF sendKeepAliveProbe
    <3>3. failures' \in 0..MaxFailures
      BY <1>10, <2>2, SMTT(30) DEF sendKeepAliveProbe, SendFails, Probed
    <3>4. UNCHANGED <<reading, published, ends>>
      BY <1>10, <2>2 DEF sendKeepAliveProbe, Goto
    <3> QED
      BY <3>1, <3>2, <3>3, <3>4
  <2> QED
    BY <2>1, <2>2
<1>11. CASE NoInput
  BY <1>11 DEF NoInput, Goto
<1>12. CASE handleInput
  BY <1>12, SMTT(30) DEF handleInput, Goto, Gone
<1>13. CASE onConnError
  BY <1>13 DEF onConnError, Goto
<1>14. CASE reestablishConnection
  BY <1>14, SMTT(30) DEF reestablishConnection, Goto, Gone, Abort
<1>15. CASE connect
  BY <1>15 DEF connect, Connected
<1>16. CASE Established
  BY <1>16 DEF Established, Goto
<1>17. CASE BrokerAnswers
  BY <1>17 DEF BrokerAnswers
<1>18. CASE LinkFails
  BY <1>18 DEF LinkFails, Gone
<1>19. CASE UNCHANGED vars
  BY <1>19 DEF vars
<1> QED
  BY <1>1, <1>2, <1>3, <1>4, <1>5, <1>6, <1>7, <1>8, <1>9, <1>10, <1>11, <1>12, <1>13,
     <1>14, <1>15, <1>16, <1>17, <1>18, <1>19 DEF Next, Svc

(* The buffer file and what became of its messages keep their types.       *)
LEMMA BufferStep == CountsOK /\ BufferOK /\ [Next]_vars => BufferOK'
<1> SUFFICES ASSUME CountsOK, BufferOK, [Next]_vars PROVE BufferOK'
  OBVIOUS
<1> USE BoundsAssumption DEF BufferOK, msgVars
<1>1. CASE init
  BY <1>1 DEF init, registerToBroker, Connected
<1>2. CASE ProcessEnds
  BY <1>2 DEF ProcessEnds, Gone
<1>3. CASE publish
  <2>1. published' \in Message
    BY <1>3 DEF publish, PublishBody, CountsOK, Message
  <2>2. file' = file \/ file' = Append(file, published')
    BY <1>3 DEF publish, PublishBody, publishToBuffer_i
  <2>3. sent' = sent \/ sent' = [sent EXCEPT ![published'] = @ + 1]
    BY <1>3 DEF publish, PublishBody
  <2>4. UNCHANGED <<expired, lost>>
    BY <1>3 DEF publish, PublishBody
  <2>5. file' \in Seq(Message)
    <3>1. Append(file, published') \in Seq(Message)
      BY <2>1, SMT
    <3> QED
      BY <2>2, <3>1, Zenon
  <2> QED
    BY <2>1, <2>3, <2>4, <2>5, SMTT(30)
<1>4. CASE onConnOk
  BY <1>4 DEF onConnOk, enableKeepAlive
<1>5. CASE publishFromBuffer
  BY <1>5 DEF publishFromBuffer
<1>6. CASE FlushEntry
  <2>1. file[reading] \in Message /\ \A k \in reading..Len(file) : file[k] \in Message
    BY <1>6 DEF FlushEntry
  <2>2. sent' \in [Message -> Nat]
    BY <1>6, <2>1, SMTT(30) DEF FlushEntry
  <2>3. expired' \subseteq Message /\ lost' \subseteq Message /\ file' = file
    BY <1>6, <2>1, Zenon DEF FlushEntry
  <2> QED
    BY <2>2, <2>3
<1>7. CASE clearBufferFile_i
  BY <1>7 DEF clearBufferFile_i
<1>8. CASE HandleEvents
  BY <1>8 DEF HandleEvents, Goto
<1>9. CASE handleTimeout
  BY <1>9 DEF handleTimeout, Goto
<1>10. CASE sendKeepAliveProbe
  BY <1>10 DEF sendKeepAliveProbe, Goto, Abort, Probed, ProbeFails, SendFails
<1>11. CASE NoInput
  BY <1>11 DEF NoInput, Goto
<1>12. CASE handleInput
  BY <1>12 DEF handleInput, Goto, Gone
<1>13. CASE onConnError
  BY <1>13 DEF onConnError, Goto
<1>14. CASE reestablishConnection
  BY <1>14 DEF reestablishConnection, Goto, Gone, Abort
<1>15. CASE connect
  BY <1>15 DEF connect, Connected
<1>16. CASE Established
  BY <1>16 DEF Established, Goto
<1>17. CASE BrokerAnswers
  BY <1>17 DEF BrokerAnswers
<1>18. CASE LinkFails
  BY <1>18 DEF LinkFails, Gone
<1>19. CASE UNCHANGED vars
  BY <1>19 DEF vars
<1> QED
  BY <1>1, <1>2, <1>3, <1>4, <1>5, <1>6, <1>7, <1>8, <1>9, <1>10, <1>11, <1>12, <1>13,
     <1>14, <1>15, <1>16, <1>17, <1>18, <1>19 DEF Next, Svc

(* The answers and the probes under way keep their types and their bound.  *)
LEMMA AnswersStep == AnswersOK /\ [Next]_vars => AnswersOK'
<1> SUFFICES ASSUME AnswersOK, [Next]_vars PROVE AnswersOK'
  OBVIOUS
<1> USE DEF netVars
<1>a. ASSUME UNCHANGED <<probes, toClient>> PROVE AnswersOK'
  BY <1>a DEF AnswersOK
<1>b. ASSUME probes' = 0, toClient' = <<>> PROVE AnswersOK'
  BY <1>b, BoundsAssumption DEF AnswersOK
<1>1. CASE init
  <2>1. probes' = 0 /\ (toClient' = <<>> \/ toClient' = <<"publish_ok">>)
    BY <1>1 DEF init, registerToBroker, Connected
  <2>2. CASE toClient' = <<"publish_ok">>
    <3>1. <<"publish_ok">> \in Seq({"ack", "publish_ok"}) /\ Len(<<"publish_ok">>) = 1
      OBVIOUS
    <3> QED
      BY <2>1, <2>2, <3>1, BoundsAssumption DEF AnswersOK
  <2> QED
    BY <2>1, <2>2, <1>b
<1>2. CASE ProcessEnds
  BY <1>2, <1>b DEF ProcessEnds, Gone
<1>3. CASE publish
  BY <1>3, <1>a DEF publish, PublishBody, publishToBuffer_i, SendFails
<1>4. CASE onConnOk
  BY <1>4, <1>a DEF onConnOk, enableKeepAlive
<1>5. CASE publishFromBuffer
  BY <1>5, <1>a DEF publishFromBuffer
<1>6. CASE FlushEntry
  BY <1>6, <1>a DEF FlushEntry, SendFails
<1>7. CASE clearBufferFile_i
  BY <1>7, <1>a DEF clearBufferFile_i
<1>8. CASE HandleEvents
  BY <1>8, <1>a DEF HandleEvents, Goto
<1>9. CASE handleTimeout
  BY <1>9, <1>a DEF handleTimeout, Goto
<1>10. CASE sendKeepAliveProbe
  <2>1. /\ toClient' = toClient
        /\ probes' = probes \/ (probes' = probes + 1 /\ probes + Len(toClient) < MaxInFlight)
    BY <1>10 DEF sendKeepAliveProbe, Abort, Probed, ProbeFails, netVars
  <2> QED
    BY <2>1, BoundsAssumption DEF AnswersOK
<1>11. CASE NoInput
  BY <1>11, <1>a DEF NoInput, Goto
<1>12. CASE handleInput
  <2>1. CASE probes' = 0 /\ toClient' = <<>>
    BY <2>1, <1>b
  <2>2. CASE UNCHANGED probes /\ toClient # <<>> /\ toClient' = Tail(toClient)
    BY <2>2, BoundsAssumption DEF AnswersOK
  <2> QED
    BY <1>12, <2>1, <2>2 DEF handleInput, Gone
<1>13. CASE onConnError
  BY <1>13, <1>a DEF onConnError, Goto
<1>14. CASE reestablishConnection
  BY <1>14, <1>a, <1>b DEF reestablishConnection, Abort, Gone
<1>15. CASE connect
  BY <1>15, <1>b DEF connect, Connected
<1>16. CASE Established
  BY <1>16, <1>a DEF Established, Goto
<1>17. CASE BrokerAnswers
  BY <1>17, BoundsAssumption DEF BrokerAnswers, AnswersOK
<1>18. CASE LinkFails
  BY <1>18, <1>b DEF LinkFails, Gone
<1>19. CASE UNCHANGED vars
  BY <1>19, <1>a DEF vars
<1> QED
  BY <1>1, <1>2, <1>3, <1>4, <1>5, <1>6, <1>7, <1>8, <1>9, <1>10, <1>11, <1>12, <1>13,
     <1>14, <1>15, <1>16, <1>17, <1>18, <1>19 DEF Next, Svc

(* A step keeps the handler there unless an error is pending, and the      *)
(* error pending until the new connection is made.                         *)
LEMMA HandlerStep ==
    HandlerUnlessError /\ Places /\ PlacesOK /\ CountsOK /\ BufferOK /\ [Next]_vars => HandlerUnlessError'
<1> SUFFICES ASSUME HandlerUnlessError, Places, PlacesOK, CountsOK, BufferOK, [Next]_vars
             PROVE  HandlerUnlessError'
  OBVIOUS
<1> USE DEF HandlerUnlessError, Places, up, svcVars
<1>1. CASE init
  BY <1>1 DEF init, registerToBroker, Connected
<1>2. CASE ProcessEnds
  BY <1>2 DEF ProcessEnds, Gone
<1>3. CASE publish
  BY <1>3 DEF publish, PublishBody, publishToBuffer_i, SendFails
<1>4. CASE onConnOk
  BY <1>4 DEF onConnOk, enableKeepAlive
<1>5. CASE publishFromBuffer
  BY <1>5 DEF publishFromBuffer
<1>6. CASE FlushEntry
  BY <1>6 DEF FlushEntry, SendFails
<1>7. CASE clearBufferFile_i
  <2>1. reading > 0
    BY <1>7 DEF clearBufferFile_i, CountsOK, BufferOK
  <2> QED
    BY <1>7, <2>1 DEF clearBufferFile_i, PlacesOK
<1>8. CASE HandleEvents
  BY <1>8 DEF HandleEvents, Goto
<1>9. CASE handleTimeout
  BY <1>9 DEF handleTimeout, Goto
<1>10. CASE sendKeepAliveProbe
  BY <1>10 DEF sendKeepAliveProbe, Goto, Abort, Probed, ProbeFails, SendFails
<1>11. CASE NoInput
  BY <1>11 DEF NoInput, Goto
<1>12. CASE handleInput
  BY <1>12 DEF handleInput, Goto, Gone
<1>13. CASE onConnError
  BY <1>13 DEF onConnError, Goto
<1>14. CASE reestablishConnection
  BY <1>14 DEF reestablishConnection, Goto, Gone, Abort
<1>15. CASE connect
  BY <1>15 DEF connect, Connected
<1>16. CASE Established
  BY <1>16 DEF Established, Goto
<1>17. CASE BrokerAnswers
  BY <1>17 DEF BrokerAnswers
<1>18. CASE LinkFails
  BY <1>18 DEF LinkFails, Gone
<1>19. CASE UNCHANGED vars
  BY <1>19 DEF vars
<1> QED
  BY <1>1, <1>2, <1>3, <1>4, <1>5, <1>6, <1>7, <1>8, <1>9, <1>10, <1>11, <1>12, <1>13,
     <1>14, <1>15, <1>16, <1>17, <1>18, <1>19 DEF Next, Svc

(* A step keeps what is known of the places of svc().                      *)
LEMMA PlacesStep ==
    HandlerUnlessError /\ Places /\ PlacesOK /\ CountsOK /\ [Next]_vars => Places'
<1> SUFFICES ASSUME HandlerUnlessError, Places, PlacesOK, CountsOK, [Next]_vars
             PROVE  Places'
  OBVIOUS
<1> USE BoundsAssumption DEF HandlerUnlessError, Places, PlacesOK, CountsOK, up, svcVars, aliveVars
<1>1. CASE init
  BY <1>1 DEF init, registerToBroker, Connected
<1>2. CASE ProcessEnds
  BY <1>2 DEF ProcessEnds, Gone
<1>3. CASE publish
  BY <1>3 DEF publish, PublishBody, publishToBuffer_i, SendFails
<1>4. CASE onConnOk
  BY <1>4 DEF onConnOk, enableKeepAlive
<1>5. CASE publishFromBuffer
  BY <1>5 DEF publishFromBuffer
<1>6. CASE FlushEntry
  BY <1>6 DEF FlushEntry, SendFails
<1>7. CASE clearBufferFile_i
  BY <1>7 DEF clearBufferFile_i
<1>8. CASE HandleEvents
  BY <1>8 DEF HandleEvents, Goto
<1>9. CASE handleTimeout
  BY <1>9 DEF handleTimeout, Goto
<1>10. CASE sendKeepAliveProbe
  BY <1>10 DEF sendKeepAliveProbe, Goto, Abort, Probed, ProbeFails, SendFails
<1>11. CASE NoInput
  BY <1>11 DEF NoInput, Goto
<1>12. CASE handleInput
  BY <1>12 DEF handleInput, Goto, Gone
<1>13. CASE onConnError
  BY <1>13 DEF onConnError, Goto
<1>14. CASE reestablishConnection
  BY <1>14 DEF reestablishConnection, Goto, Gone, Abort
<1>15. CASE connect
  BY <1>15 DEF connect, Connected
<1>16. CASE Established
  BY <1>16 DEF Established, Goto
<1>17. CASE BrokerAnswers
  BY <1>17 DEF BrokerAnswers
<1>18. CASE LinkFails
  BY <1>18 DEF LinkFails, Gone
<1>19. CASE UNCHANGED vars
  BY <1>19 DEF vars
<1> QED
  BY <1>1, <1>2, <1>3, <1>4, <1>5, <1>6, <1>7, <1>8, <1>9, <1>10, <1>11, <1>12, <1>13,
     <1>14, <1>15, <1>16, <1>17, <1>18, <1>19, Zenon DEF Next, Svc

(* Along a step a message is sent at most once for each end of the process,*)
(* and the entries of the file before the one being read are done with.    *)
LEMMA FileStep ==
    CountsOK /\ BufferOK /\ FileRead /\ SentAtMostOnce /\ [Next]_vars => (FileRead /\ SentAtMostOnce)'
<1> SUFFICES ASSUME CountsOK, BufferOK, FileRead, SentAtMostOnce, [Next]_vars
             PROVE  (FileRead /\ SentAtMostOnce)'
  OBVIOUS
<1> USE DEF svcVars, msgVars
<1>a. ASSUME UNCHANGED <<reading, file, published, sent, expired, lost, ends>>
      PROVE  (FileRead /\ SentAtMostOnce)'
  BY <1>a DEF FileRead, SentAtMostOnce
<1>1. CASE init
  BY <1>1, <1>a DEF init
<1>2. CASE ProcessEnds
  <2>1. /\ ends' = ends + 1 /\ reading' = 0 /\ ends \in Nat
        /\ UNCHANGED <<file, published, sent, expired, lost>>
    BY <1>2 DEF ProcessEnds, CountsOK
  <2>2. \A m \in Message : sent[m] \in Nat
    BY DEF BufferOK
  <2>3. \A k \in DOMAIN file : file[k] \in Message /\ k \in Nat /\ ~(k < 0)
    BY DEF BufferOK
  <2>4. SentAtMostOnce'
    BY <2>1, <2>2 DEF SentAtMostOnce
  <2>5. \A k \in DOMAIN file : sent[file[k]] <= ends'
    BY <2>1, <2>2, <2>3 DEF SentAtMostOnce
  <2> QED
    BY <2>1, <2>3, <2>4, <2>5 DEF FileRead
<1>3. CASE publish
  <2> DEFINE m == published + 1
  <2>1. /\ m \in Message /\ published' = m /\ reading = 0 /\ reading' = 0 /\ published \in Nat
        /\ UNCHANGED <<expired, lost, ends>> /\ ends \in Nat
    BY <1>3, BoundsAssumption DEF publish, PublishBody, CountsOK, Message
  <2>2. sent[m] = 0
    BY <2>1 DEF FileRead
  <2>3. \A n \in Message : sent[n] \in Nat /\ n \in Nat
    BY DEF BufferOK, Message
  <2>a. \A k \in DOMAIN file : file[k] \in Message /\ file[k] <= published
    BY DEF BufferOK, FileRead
  <2>4. CASE UNCHANGED file /\ sent' = [sent EXCEPT ![m] = @ + 1]
    <3>1. \A n \in Message : sent'[n] = IF n = m THEN 1 ELSE sent[n]
      BY <2>1, <2>2, <2>4 DEF BufferOK
    <3>2. \A k \in DOMAIN file : file[k] \in Message /\ file[k] # m /\ file[k] \in Nat
      BY <2>1, <2>3, <2>a
    <3>3. SentAtMostOnce'
      BY <2>1, <3>1 DEF SentAtMostOnce
    <3>4. \A n \in Message : n > published' => sent'[n] = 0
      BY <2>1, <3>1 DEF FileRead, Message
    <3> QED
      BY <2>1, <2>4, <3>1, <3>2, <3>3, <3>4 DEF FileRead, BufferOK
  <2>5. CASE UNCHANGED sent /\ (UNCHANGED file \/ file' = Append(file, m))
    <3>1. SentAtMostOnce'
      BY <2>1, <2>5 DEF SentAtMostOnce
    <3>2. \A n \in Message : n > published' => sent'[n] = 0
      BY <2>1, <2>5 DEF FileRead, Message
    <3>3. \A k \in DOMAIN file : file[k] \in Message /\ file[k] < m /\ file[k] <= m
      BY <2>1, <2>3, <2>a
    <3>4. CASE UNCHANGED file
      BY <2>1, <2>5, <3>1, <3>2, <3>3, <3>4 DEF FileRead, BufferOK
    <3>5. CASE file' = Append(file, m)
      <4>1. /\ Len(file') = Len(file) + 1 /\ DOMAIN file' = 1..Len(file) + 1
            /\ \A k \in 1..Len(file) : file'[k] = file[k]
            /\ file'[Len(file) + 1] = m /\ Len(file) \in Nat /\ DOMAIN file = 1..Len(file)
        BY <2>1, <3>5 DEF BufferOK
      <4>2. Len(file') <= published' /\ \A k \in DOMAIN file' : file'[k] <= published'
        BY <2>1, <3>3, <4>1 DEF FileRead
      <4>3. \A j, k \in DOMAIN file' : j < k => file'[j] < file'[k]
        BY <3>3, <4>1 DEF FileRead
      <4>4. \A k \in DOMAIN file' : ~(k < reading') /\ sent'[file'[k]] <= ends'
        BY <2>1, <2>2, <2>5, <4>1 DEF FileRead
      <4> QED
        BY <3>1, <3>2, <4>2, <4>3, <4>4 DEF FileRead
    <3> QED
      BY <2>5, <3>4, <3>5
  <2> QED
    BY <1>3, <2>1, <2>4, <2>5 DEF publish, PublishBody, publishToBuffer_i
<1>4. CASE onConnOk
  BY <1>4, <1>a DEF onConnOk
<1>5. CASE publishFromBuffer
  <2>1. CASE UNCHANGED reading
    BY <1>5, <2>1, <1>a DEF publishFromBuffer
  <2>2. CASE reading = 0 /\ reading' = 1
    <3>1. UNCHANGED <<file, published, sent, expired, lost, ends>>
      BY <1>5 DEF publishFromBuffer
    <3>2. \A k \in DOMAIN file : k \in Nat /\ k > 0
      BY DEF BufferOK
    <3> QED
      BY <2>2, <3>1, <3>2 DEF FileRead, SentAtMostOnce
  <2> QED
    BY <1>5, <2>1, <2>2 DEF publishFromBuffer
<1>6. CASE FlushEntry
  <2> DEFINE m == file[reading]
  <2>1. /\ reading \in 1..Len(file) /\ UNCHANGED <<file, published, ends>>
        /\ Len(file) \in Nat /\ DOMAIN file = 1..Len(file) /\ ends \in Nat
        /\ m \in Message /\ m <= published /\ sent[m] <= ends
    BY <1>6, SMTT(30) DEF FlushEntry, FileRead, BufferOK, CountsOK
  <2>2. \A n \in Message : sent[n] \in Nat /\ n \in Nat
    BY DEF BufferOK, Message
  <2>3. \A k \in DOMAIN file : file[k] \in Message /\ (k # reading => file[k] # m)
    BY <2>1, <2>2 DEF FileRead, BufferOK
  <2>4. CASE /\ sent' = [sent EXCEPT ![m] = @ + 1]
             /\ reading' = reading + 1 /\ UNCHANGED <<expired, lost>>
    <3>1. \A n \in Message : sent'[n] = IF n = m THEN sent[n] + 1 ELSE sent[n]
      BY <2>1, <2>4 DEF BufferOK
    <3>2. SentAtMostOnce'
      BY <2>1, <2>2, <3>1 DEF SentAtMostOnce
    <3>3. \A n \in Message : n > published' => sent'[n] = 0
      BY <2>1, <2>2, <3>1 DEF FileRead, CountsOK
    <3>4. \A k \in DOMAIN file :
             IF k < reading' THEN sent'[file[k]] > 0 \/ file[k] \in expired \cup lost
                             ELSE sent'[file[k]] <= ends
      BY <2>1, <2>2, <2>3, <2>4, <3>1 DEF FileRead
    <3> QED
      BY <2>1, <2>4, <3>2, <3>3, <3>4 DEF FileRead
  <2>5. CASE /\ expired' = expired \cup {m}
             /\ reading' = reading + 1 /\ UNCHANGED <<sent, lost>>
    <3>1. \A k \in DOMAIN file :
             IF k < reading' THEN sent[file[k]] > 0 \/ file[k] \in expired' \cup lost
                             ELSE sent[file[k]] <= ends
      BY <2>1, <2>5 DEF FileRead
    <3> QED
      BY <2>1, <2>5, <3>1 DEF FileRead, SentAtMostOnce
  <2>6. CASE /\ lost' = lost \cup {file[k] : k \in reading..Len(file)}
             /\ reading' = MaxMessages + 1 /\ UNCHANGED <<sent, expired>>
    <3>1. \A k \in DOMAIN file :
             k < reading' /\ (sent[file[k]] > 0 \/ file[k] \in expired \cup lost')
      BY <2>1, <2>6, BoundsAssumption DEF FileRead, CountsOK
    <3> QED
      BY <2>1, <2>6, <3>1 DEF FileRead, SentAtMostOnce
  <2> QED
    BY <1>6, <2>4, <2>5, <2>6 DEF FlushEntry
<1>7. CASE clearBufferFile_i
  <2>1. file' = <<>> /\ UNCHANGED <<published, sent, expired, lost, ends>>
    BY <1>7 DEF clearBufferFile_i
  <2>2. Len(file') = 0 /\ DOMAIN file' = {} /\ published \in Nat
    BY <2>1 DEF CountsOK
  <2> QED
    BY <2>1, <2>2 DEF FileRead, SentAtMostOnce
<1>8. CASE HandleEvents
  BY <1>8, <1>a DEF HandleEvents, Goto
<1>9. CASE handleTimeout
  BY <1>9, <1>a DEF handleTimeout, Goto
<1>10. CASE sendKeepAliveProbe
  BY <1>10, <1>a DEF sendKeepAliveProbe, Goto, Abort
<1>11. CASE NoInput
  BY <1>11, <1>a DEF NoInput, Goto
<1>12. CASE handleInput
  BY <1>12, <1>a DEF handleInput, Goto
<1>13. CASE onConnError
  BY <1>13, <1>a DEF onConnError, Goto
<1>14. CASE reestablishConnection
  BY <1>14, <1>a DEF reestablishConnection, Goto, Abort
<1>15. CASE connect
  BY <1>15, <1>a DEF connect
<1>16. CASE Established
  BY <1>16, <1>a DEF Established, Goto
<1>17. CASE BrokerAnswers
  BY <1>17, <1>a DEF BrokerAnswers
<1>18. CASE LinkFails
  BY <1>18, <1>a DEF LinkFails
<1>19. CASE UNCHANGED vars
  BY <1>19, <1>a DEF vars
<1> QED
  BY <1>1, <1>2, <1>3, <1>4, <1>5, <1>6, <1>7, <1>8, <1>9, <1>10, <1>11, <1>12, <1>13,
     <1>14, <1>15, <1>16, <1>17, <1>18, <1>19 DEF Next, Svc

(* Every reachable state of the publisher satisfies the inductive          *)
(* invariant.                                                              *)
THEOREM PublisherInvariant == Spec => []IInv
<1>1. Init => IInv
  <2>1. Init => HandlerUnlessError /\ Places
    BY BoundsAssumption DEF Init, HandlerUnlessError, Places, up
  <2>2. Init => SentAtMostOnce /\ FileRead
    BY DEF Init, SentAtMostOnce, FileRead, Message
  <2> QED
    BY <2>1, <2>2, TypeInit DEF IInv
<1>2. IInv /\ [Next]_vars => IInv'
  <2> SUFFICES ASSUME IInv, [Next]_vars PROVE IInv'
    OBVIOUS
  <2>1. FlagsOK /\ PlacesOK /\ CountsOK /\ BufferOK /\ AnswersOK
    BY DEF IInv, TypeOK
  <2>2. HandlerUnlessError /\ Places /\ SentAtMostOnce /\ FileRead
    BY DEF IInv
  <2>3. Len(file) <= published
    BY <2>2 DEF FileRead
  <2>4. TypeOK'
    BY <2>1, <2>2, <2>3, FlagsStep, PlacesOKStep, CountsStep, BufferStep, AnswersStep
       DEF TypeOK
  <2>5. HandlerUnlessError' /\ Places'
    BY <2>1, <2>2, HandlerStep, PlacesStep
  <2>6. SentAtMostOnce' /\ FileRead'
    BY <2>1, <2>2, FileStep
  <2> QED
    BY <2>4, <2>5, <2>6 DEF IInv
<1> QED
  BY <1>1, <1>2, PTL DEF Spec

(* publish(), the probe and the flush always find the handler whose stream *)
(* they use, and reestablishConnectionAndPublishFromBuffer always finds    *)
(* the error pending that it asserts.                                      *)
THEOREM HandlerAlwaysThere == Spec => []HandlerUnlessError
<1>1. IInv => HandlerUnlessError
  BY DEF IInv
<1> QED
  BY <1>1, PublisherInvariant, PTL

(* However publish(), svc() and the ends of the process interleave, a      *)
(* message is sent once, and once more for each end of the process.        *)
THEOREM NoDuplicates == Spec => []SentAtMostOnce
<1>1. IInv => SentAtMostOnce
  BY DEF IInv
<1> QED
  BY <1>1, PublisherInvariant, PTL

(* The buffer file is cleared of no message that was not sent, too old or  *)
(* given up with the rest of the file.                                     *)
THEOREM NothingClearedUnread == Spec => ClearedWhenRead
<1> DEFINE Read(k) == sent[file[k]] > 0 \/ file[k] \in expired \cup lost
<1>1. ASSUME IInv, [Next]_vars PROVE \A k \in DOMAIN file : file' = <<>> => Read(k)
  <2>1. SUFFICES ASSUME NEW k \in DOMAIN file, file' = <<>> PROVE Read(k)
    OBVIOUS
  <2>2. file \in Seq(Message) /\ Len(file) \in Nat /\ DOMAIN file = 1..Len(file)
    BY <1>1 DEF IInv, TypeOK, BufferOK
  <2>3. file # <<>>
    BY <2>1, <2>2
  <2>4. ~UNCHANGED file
    BY <2>1, <2>3
  <2>5. publish => FALSE
    <3>1. SUFFICES ASSUME publish PROVE FALSE
      OBVIOUS
    <3>2. published' \in Message
      BY <1>1, <3>1, BoundsAssumption DEF publish, PublishBody, IInv, TypeOK, CountsOK, Message
    <3>3. file' = Append(file, published')
      BY <2>4, <3>1 DEF publish, PublishBody, publishToBuffer_i
    <3>4. Len(Append(file, published')) = Len(file) + 1
      BY <2>2, <3>2, SMT
    <3> QED
      BY <2>1, <2>2, <3>3, <3>4
  <2>6. clearBufferFile_i
    BY <1>1, <2>4, <2>5, Zenon
       DEF Next, Svc, vars, msgVars, init, ProcessEnds, onConnOk, publishFromBuffer, FlushEntry,
           HandleEvents, handleTimeout, sendKeepAliveProbe, Abort, NoInput, handleInput,
           onConnError, reestablishConnection, connect, Established, BrokerAnswers, LinkFails
  <2>7. k < reading
    BY <1>1, <2>2, <2>6 DEF clearBufferFile_i, IInv, TypeOK, CountsOK
  <2> QED
    BY <1>1, <2>7 DEF IInv, FileRead
<1>2. ASSUME IInv, [Next]_vars
      PROVE  [\A k \in DOMAIN file : file' = <<>> => Read(k)]_vars
  BY <1>1, <1>2
<1> QED
  BY <1>2, PublisherInvariant, PTL DEF Spec, ClearedWhenRead

-----------------------------------------------------------------------------
(* The subscriber.                                                         *)

CONSTANT Topic

(* The state that only the subscriber has.                                 *)
VARIABLES toSubcribeTopics, subcribedTopics, toUnSubcribeTopics, id, run, half,
          recent, toBroker, peer, calls

(* The subscriber's broker buffers or not, as the publisher's does.  The   *)
(* subscriber's two bounds of its own may be any natural numbers; the      *)
(* constants put in their place are just that.                             *)
Sub == INSTANCE SubscribeClient WITH enableBuffering <- brokerBuffering,
                                     MaxCalls <- MaxMessages,
                                     MaxInFlight <- MaxEnds

(* The flags of the client stay Boolean.                                   *)
LEMMA SubscriberFlagsStep == Sub!FlagsOK /\ [Sub!Next]_Sub!vars => Sub!FlagsOK'
<1> SUFFICES ASSUME Sub!FlagsOK, [Sub!Next]_Sub!vars PROVE Sub!FlagsOK'
  OBVIOUS
<1> USE DEF Sub!FlagsOK, Sub!connVars, Sub!aliveVars
<1>1. CASE \E t \in Topic : Sub!subscribeTopic(t)
  BY <1>1, Zenon DEF Sub!subscribeTopic, Sub!Call
<1>2. CASE \E t \in Topic : Sub!unSubscribeTopic(t)
  BY <1>2, Zenon DEF Sub!unSubscribeTopic, Sub!Call
<1>3. CASE Sub!onConnOk
  BY <1>3, Zenon DEF Sub!onConnOk, Sub!enableKeepAlive, Sub!Abort
<1>4. CASE Sub!processAllSubAndUnSub
  BY <1>4, Zenon DEF Sub!processAllSubAndUnSub
<1>5. CASE Sub!processFails
  BY <1>5, Zenon DEF Sub!processFails, Sub!Abort, Sub!SendFails
<1>6. CASE Sub!handleTimeout
  BY <1>6, Zenon DEF Sub!handleTimeout, Sub!sendKeepAliveProbe, Sub!Probed, Sub!ProbeFails, Sub!SendFails
<1>7. CASE Sub!NoInput
  BY <1>7, Zenon DEF Sub!NoInput
<1>8. CASE Sub!HalfRead
  BY <1>8, Zenon DEF Sub!HalfRead, Sub!Input
<1>9. CASE Sub!InputError
  BY <1>9, Zenon DEF Sub!InputError, Sub!Input
<1>10. CASE Sub!handleInput
  BY <1>10, Zenon DEF Sub!handleInput, Sub!Input, Sub!onSubScribeTopicOk, Sub!onUnSubScribeTopicOk
<1>11. CASE Sub!onConnError
  BY <1>11, Zenon DEF Sub!onConnError, Sub!connError
<1>12. CASE Sub!reestablishConnection
  BY <1>12, Zenon DEF Sub!reestablishConnection, Sub!Abort
<1>13. CASE Sub!BrokerInput
  BY <1>13, Zenon DEF Sub!BrokerInput, Sub!Reply, Sub!BrokerLeavesClient
<1>14. CASE Sub!BrokerEvent
  BY <1>14, Zenon DEF Sub!BrokerEvent, Sub!BrokerLeavesClient
<1>15. CASE Sub!LinkFails
  BY <1>15, Zenon DEF Sub!LinkFails, Sub!BrokerLeavesClient
<1>16. CASE UNCHANGED Sub!vars
  BY <1>16 DEF Sub!vars
<1> QED
  BY <1>1, <1>2, <1>3, <1>4, <1>5, <1>6, <1>7, <1>8, <1>9, <1>10, <1>11, <1>12, <1>13,
     <1>14, <1>15, <1>16 DEF Sub!Next, Sub!Run, Sub!HandleEvents

(* The places of run(), of the client and of the connection stay known.    *)
LEMMA SubscriberPlacesOKStep == Sub!PlacesOK /\ [Sub!Next]_Sub!vars => Sub!PlacesOK'
<1> SUFFICES ASSUME Sub!PlacesOK, [Sub!Next]_Sub!vars PROVE Sub!PlacesOK'
  OBVIOUS
<1> USE DEF Sub!PlacesOK, Sub!netVars
<1>1. CASE \E t \in Topic : Sub!subscribeTopic(t)
  BY <1>1 DEF Sub!subscribeTopic, Sub!Call
<1>2. CASE \E t \in Topic : Sub!unSubscribeTopic(t)
  BY <1>2 DEF Sub!unSubscribeTopic, Sub!Call
<1>3. CASE Sub!onConnOk
  BY <1>3 DEF Sub!onConnOk, Sub!enableKeepAlive, Sub!Abort
<1>4. CASE Sub!processAllSubAndUnSub
  BY <1>4 DEF Sub!processAllSubAndUnSub
<1>5. CASE Sub!processFails
  BY <1>5 DEF Sub!processFails, Sub!Abort, Sub!SendFails
<1>6. CASE Sub!handleTimeout
  BY <1>6 DEF Sub!handleTimeout, Sub!sendKeepAliveProbe, Sub!Probed, Sub!ProbeFails, Sub!SendFails
<1>7. CASE Sub!NoInput
  BY <1>7 DEF Sub!NoInput
<1>8. CASE Sub!HalfRead
  BY <1>8 DEF Sub!HalfRead, Sub!Input
<1>9. CASE Sub!InputError
  BY <1>9 DEF Sub!InputError, Sub!Input
<1>10. CASE Sub!handleInput
  BY <1>10 DEF Sub!handleInput, Sub!Input, Sub!onSubScribeTopicOk, Sub!onUnSubScribeTopicOk
<1>11. CASE Sub!onConnError
  BY <1>11 DEF Sub!onConnError, Sub!connError
<1>12. CASE Sub!reestablishConnection
  BY <1>12 DEF Sub!reestablishConnection, Sub!Abort
<1>13. CASE Sub!BrokerInput
  BY <1>13 DEF Sub!BrokerInput, Sub!Reply, Sub!BrokerLeavesClient
<1>14. CASE Sub!BrokerEvent
  BY <1>14 DEF Sub!BrokerEvent, Sub!BrokerLeavesClient
<1>15. CASE Sub!LinkFails
  BY <1>15 DEF Sub!LinkFails, Sub!BrokerLeavesClient
<1>16. CASE UNCHANGED Sub!vars
  BY <1>16 DEF Sub!vars
<1> QED
  BY <1>1, <1>2, <1>3, <1>4, <1>5, <1>6, <1>7, <1>8, <1>9, <1>10, <1>11, <1>12, <1>13,
     <1>14, <1>15, <1>16 DEF Sub!Next, Sub!Run, Sub!HandleEvents

(* The number of probes without an answer stays within its limit.          *)
LEMMA SubscriberCountsStep == Sub!CountsOK /\ Sub!Places /\ [Sub!Next]_Sub!vars => Sub!CountsOK'
<1> SUFFICES ASSUME Sub!CountsOK, Sub!Places, [Sub!Next]_Sub!vars PROVE Sub!CountsOK'
  OBVIOUS
<1> USE BoundsAssumption DEF Sub!CountsOK, Sub!aliveVars
<1>1. CASE \E t \in Topic : Sub!subscribeTopic(t)
  BY <1>1 DEF Sub!subscribeTopic, Sub!Call
<1>2. CASE \E t \in Topic : Sub!unSubscribeTopic(t)
  BY <1>2 DEF Sub!unSubscribeTopic, Sub!Call
<1>3. CASE Sub!onConnOk
  BY <1>3 DEF Sub!onConnOk, Sub!enableKeepAlive, Sub!Abort
<1>4. CASE Sub!processAllSubAndUnSub
  BY <1>4 DEF Sub!processAllSubAndUnSub
<1>5. CASE Sub!processFails
  BY <1>5 DEF Sub!processFails, Sub!Abort, Sub!SendFails
<1>6. CASE Sub!handleTimeout
  <2>1. Sub!sendKeepAliveProbe
    BY <1>6 DEF Sub!handleTimeout
  <2>2. unackedKeepAliveProbes <= keepAliveTryTimes
    BY <1>6 DEF Sub!handleTimeout, Sub!Places
  <2>3. \/ UNCHANGED unackedKeepAliveProbes
        \/ unackedKeepAliveProbes' = unackedKeepAliveProbes + 1
    BY <2>1, Zenon DEF Sub!sendKeepAliveProbe
  <2>4. UNCHANGED failures \/ Sub!SendFails
    BY <2>1, Zenon DEF Sub!sendKeepAliveProbe, Sub!Probed
  <2>5. failures' \in 0..MaxFailures
    BY <2>4 DEF Sub!SendFails
  <2>6. UNCHANGED calls
    BY <1>6 DEF Sub!handleTimeout
  <2> QED
    BY <2>2, <2>3, <2>5, <2>6
<1>7. CASE Sub!NoInput
  BY <1>7 DEF Sub!NoInput
<1>8. CASE Sub!HalfRead
  BY <1>8 DEF Sub!HalfRead, Sub!Input
<1>9. CASE Sub!InputError
  BY <1>9 DEF Sub!InputError, Sub!Input
<1>10. CASE Sub!handleInput
  BY <1>10 DEF Sub!handleInput, Sub!Input, Sub!onSubScribeTopicOk, Sub!onUnSubScribeTopicOk
<1>11. CASE Sub!onConnError
  BY <1>11 DEF Sub!onConnError, Sub!connError
<1>12. CASE Sub!reestablishConnection
  BY <1>12 DEF Sub!reestablishConnection, Sub!Abort
<1>13. CASE Sub!BrokerInput
  BY <1>13 DEF Sub!BrokerInput, Sub!Reply, Sub!BrokerLeavesClient
<1>14. CASE Sub!BrokerEvent
  BY <1>14 DEF Sub!BrokerEvent, Sub!BrokerLeavesClient
<1>15. CASE Sub!LinkFails
  BY <1>15 DEF Sub!LinkFails, Sub!BrokerLeavesClient
<1>16. CASE UNCHANGED Sub!vars
  BY <1>16 DEF Sub!vars
<1> QED
  BY <1>1, <1>2, <1>3, <1>4, <1>5, <1>6, <1>7, <1>8, <1>9, <1>10, <1>11, <1>12, <1>13,
     <1>14, <1>15, <1>16 DEF Sub!Next, Sub!Run, Sub!HandleEvents

(* The timer, the error and the probes keep in step.                       *)
LEMMA SubscriberPlacesStep ==
    Sub!Places /\ Sub!KeepAliveArmed /\ Sub!PlacesOK /\ Sub!CountsOK /\ [Sub!Next]_Sub!vars => (Sub!Places /\ Sub!KeepAliveArmed)'
<1> SUFFICES ASSUME Sub!Places, Sub!KeepAliveArmed, Sub!PlacesOK, Sub!CountsOK, [Sub!Next]_Sub!vars
             PROVE  (Sub!Places /\ Sub!KeepAliveArmed)'
  OBVIOUS
<1> USE BoundsAssumption DEF Sub!Places, Sub!KeepAliveArmed, Sub!PlacesOK, Sub!CountsOK, Sub!up, Sub!connVars, Sub!aliveVars, Sub!subVars
<1>1. CASE \E t \in Topic : Sub!subscribeTopic(t)
  BY <1>1 DEF Sub!subscribeTopic, Sub!Call
<1>2. CASE \E t \in Topic : Sub!unSubscribeTopic(t)
  BY <1>2 DEF Sub!unSubscribeTopic, Sub!Call
<1>3. CASE Sub!onConnOk
  BY <1>3, ZenonT(40) DEF Sub!onConnOk, Sub!enableKeepAlive, Sub!Abort
<1>4. CASE Sub!processAllSubAndUnSub
  BY <1>4 DEF Sub!processAllSubAndUnSub
<1>5. CASE Sub!processFails
  BY <1>5 DEF Sub!processFails, Sub!Abort, Sub!SendFails
<1>6. CASE Sub!handleTimeout
  BY <1>6, Zenon DEF Sub!handleTimeout, Sub!sendKeepAliveProbe, Sub!Probed, Sub!ProbeFails, Sub!SendFails
<1>7. CASE Sub!NoInput
  BY <1>7, Zenon DEF Sub!NoInput
<1>8. CASE Sub!HalfRead
  BY <1>8 DEF Sub!HalfRead, Sub!Input
<1>9. CASE Sub!InputError
  BY <1>9 DEF Sub!InputError, Sub!Input
<1>10. CASE Sub!handleInput
  BY <1>10 DEF Sub!handleInput, Sub!Input, Sub!onSubScribeTopicOk, Sub!onUnSubScribeTopicOk
<1>11. CASE Sub!onConnError
  BY <1>11 DEF Sub!onConnError, Sub!connError
<1>12. CASE Sub!reestablishConnection
  BY <1>12 DEF Sub!reestablishConnection, Sub!Abort
<1>13. CASE Sub!BrokerInput
  BY <1>13 DEF Sub!BrokerInput, Sub!Reply, Sub!BrokerLeavesClient
<1>14. CASE Sub!BrokerEvent
  BY <1>14 DEF Sub!BrokerEvent, Sub!BrokerLeavesClient
<1>15. CASE Sub!LinkFails
  BY <1>15 DEF Sub!LinkFails, Sub!BrokerLeavesClient
<1>16. CASE UNCHANGED Sub!vars
  BY <1>16 DEF Sub!vars
<1> QED
  BY <1>1, <1>2, <1>3, <1>4, <1>5, <1>6, <1>7, <1>8, <1>9, <1>10, <1>11, <1>12, <1>13,
     <1>14, <1>15, <1>16, Zenon DEF Sub!Next, Sub!Run, Sub!HandleEvents

(* The kinds of answer, told apart by their first component.               *)
LEMMA AnswerKinds ==
    ASSUME NEW m \in Sub!Answer
    PROVE  /\ m[1] = "subscribe_ok" => m[2] \in Topic /\ m[3] \in Nat
           /\ m[1] = "unsubscribe_ok" => m[2] \in Topic /\ m = <<"unsubscribe_ok", m[2]>>
BY DEF Sub!Answer

(* The kinds of request.                                                   *)
LEMMA RequestKinds ==
    ASSUME NEW m \in Sub!Request
    PROVE  m[1] \in {"subscribe", "unsubscribe"} => m[2] \in Topic /\ m[3] \in Nat
BY DEF Sub!Request

(* A step loses no subscription at the broker that the client takes for    *)
(* granted without an answer that says so on its way.                      *)
LEMMA SubscribedStep ==
    Sub!NetOK /\ Sub!Places /\ Sub!SubscribedAtBroker /\ Sub!AnswersInOrder /\ [Sub!Next]_Sub!vars => (Sub!SubscribedAtBroker /\ Sub!AnswersInOrder)'
<1> SUFFICES ASSUME Sub!NetOK, Sub!Places, Sub!SubscribedAtBroker, Sub!AnswersInOrder, [Sub!Next]_Sub!vars
             PROVE  (Sub!SubscribedAtBroker /\ Sub!AnswersInOrder)'
  OBVIOUS
<1> USE DEF Sub!netVars, Sub!subVars, Sub!up
<1>a. ASSUME ~Sub!up' \/ UNCHANGED status, UNCHANGED <<subcribedTopics, link, toClient, peer>>
      PROVE  (Sub!SubscribedAtBroker /\ Sub!AnswersInOrder)'
  BY <1>a, Zenon DEF Sub!SubscribedAtBroker, Sub!AnswersInOrder
<1>c. ASSUME Sub!up, link = "up", NEW k \in DOMAIN toClient, toClient[k][1] = "subscribe_ok",
             toClient[k][2] \notin peer.handler.topics
      PROVE  \E j \in DOMAIN toClient :
               j > k /\ toClient[j] = <<"unsubscribe_ok", toClient[k][2]>>
  BY <1>c, Zenon DEF Sub!AnswersInOrder
<1>d. ASSUME ASSUME Sub!up', link' = "up", NEW k \in DOMAIN toClient', toClient'[k][1] = "subscribe_ok",
                    toClient'[k][2] \notin peer'.handler.topics
             PROVE  \E j \in DOMAIN toClient' :
                      j > k /\ toClient'[j] = <<"unsubscribe_ok", toClient'[k][2]>>
      PROVE  Sub!AnswersInOrder'
  BY <1>d, Zenon DEF Sub!AnswersInOrder
<1>b. ASSUME toClient' = Append(toClient, <<"ack">>) \/ toClient' = Append(toClient, <<"event">>),
             UNCHANGED <<subcribedTopics, link, peer, status>>
      PROVE  (Sub!SubscribedAtBroker /\ Sub!AnswersInOrder)'
  <2>1. PICK m \in {<<"ack">>, <<"event">>} : toClient' = Append(toClient, m)
    BY <1>b
  <2>2. m[1] # "subscribe_ok"
    BY <2>1
  <2>3. /\ DOMAIN toClient' = 1..Len(toClient) + 1 /\ DOMAIN toClient = 1..Len(toClient)
        /\ Len(toClient) \in Nat /\ toClient'[Len(toClient) + 1] = m
        /\ \A k \in DOMAIN toClient : k \in DOMAIN toClient' /\ toClient'[k] = toClient[k]
    BY <2>1 DEF Sub!NetOK, Sub!Answer
  <2>4. Sub!SubscribedAtBroker'
    BY <1>b, <2>3, Zenon DEF Sub!SubscribedAtBroker
  <2>5. Sub!AnswersInOrder'
    <3>1. ASSUME Sub!up', link' = "up", NEW k \in DOMAIN toClient', toClient'[k][1] = "subscribe_ok",
                 toClient'[k][2] \notin peer'.handler.topics
          PROVE  \E j \in DOMAIN toClient' :
                   j > k /\ toClient'[j] = <<"unsubscribe_ok", toClient'[k][2]>>
      <4>1. k \in DOMAIN toClient /\ toClient'[k] = toClient[k]
        BY <2>2, <2>3, <3>1, SMTT(30)
      <4> QED
        BY <1>b, <1>c, <2>3, <3>1, <4>1, ZenonT(40)
    <3> QED
      BY <1>d, <3>1, Zenon
  <2> QED
    BY <2>4, <2>5
<1>1. CASE \E t \in Topic : Sub!subscribeTopic(t)
  BY <1>1, <1>a DEF Sub!subscribeTopic, Sub!Call
<1>2. CASE \E t \in Topic : Sub!unSubscribeTopic(t)
  BY <1>2, <1>a DEF Sub!unSubscribeTopic, Sub!Call
<1>3. CASE Sub!onConnOk
  BY <1>3, <1>a DEF Sub!onConnOk, Sub!enableKeepAlive, Sub!Abort
<1>4. CASE Sub!processAllSubAndUnSub
  BY <1>4, <1>a DEF Sub!processAllSubAndUnSub
<1>5. CASE Sub!processFails
  BY <1>5, <1>a DEF Sub!processFails, Sub!Abort, Sub!SendFails
<1>6. CASE Sub!handleTimeout
  BY <1>6, <1>a DEF Sub!handleTimeout
<1>7. CASE Sub!NoInput
  BY <1>7, <1>a DEF Sub!NoInput
<1>8. CASE Sub!HalfRead
  BY <1>8, <1>a DEF Sub!HalfRead, Sub!Input
<1>9. CASE Sub!InputError
  BY <1>9, <1>a DEF Sub!InputError, Sub!Input
<1>10. CASE Sub!handleInput
  <2> DEFINE msg == Head(toClient)
  <2>1. SUFFICES ASSUME Sub!up', link' = "up" PROVE (Sub!SubscribedAtBroker /\ Sub!AnswersInOrder)'
    BY DEF Sub!SubscribedAtBroker, Sub!AnswersInOrder
  <2>2. /\ msg \in Sub!Answer /\ toClient' = Tail(toClient) /\ UNCHANGED peer
        /\ Sub!up /\ link = "up" /\ toClient # <<>> /\ toClient \in Seq(Sub!Answer)
    BY <1>10, <2>1 DEF Sub!handleInput, Sub!Input, Sub!NetOK
  <2>3. /\ Len(toClient) \in Nat \ {0} /\ DOMAIN toClient = 1..Len(toClient)
        /\ DOMAIN toClient' = 1..Len(toClient) - 1 /\ msg = toClient[1]
        /\ \A k \in DOMAIN toClient' : toClient'[k] = toClient[k + 1] /\ k + 1 \in DOMAIN toClient
        /\ \A k \in DOMAIN toClient : k > 1 => k - 1 \in DOMAIN toClient' /\ k = (k - 1) + 1
    BY <2>2
  <2> HIDE DEF msg
  <2>4. ASSUME NEW k \in DOMAIN toClient, k > 1, NEW t, toClient[k] = <<"unsubscribe_ok", t>>
        PROVE  \E j \in DOMAIN toClient' : j = k - 1 /\ toClient'[j] = <<"unsubscribe_ok", t>>
    BY <2>3, <2>4
  <2>5. Sub!AnswersInOrder'
    <3>1. SUFFICES ASSUME NEW k \in DOMAIN toClient', toClient'[k][1] = "subscribe_ok",
                          toClient'[k][2] \notin peer.handler.topics
                   PROVE  \E j \in DOMAIN toClient' :
                             j > k /\ toClient'[j] = <<"unsubscribe_ok", toClient'[k][2]>>
      BY <2>2, ZenonT(40) DEF Sub!AnswersInOrder
    <3>2. PICK j \in DOMAIN toClient :
             j > k + 1 /\ toClient[j] = <<"unsubscribe_ok", toClient'[k][2]>>
      <4>1. /\ k + 1 \in DOMAIN toClient /\ toClient'[k] = toClient[k + 1]
            /\ toClient[k + 1][1] = "subscribe_ok"
            /\ toClient[k + 1][2] \notin peer.handler.topics
        BY <2>3, <3>1
      <4>2. \E j \in DOMAIN toClient :
              j > k + 1 /\ toClient[j] = <<"unsubscribe_ok", toClient[k + 1][2]>>
        BY <1>c, <2>2, <4>1
      <4> QED
        BY <4>1, <4>2
    <3> QED
      BY <2>3, <2>4, <3>2, SMTT(30)
  <2>6. Sub!SubscribedAtBroker'
    <3>1. SUFFICES ASSUME NEW t \in subcribedTopics', t \notin peer.handler.topics
                   PROVE  \E k \in DOMAIN toClient' : toClient'[k] = <<"unsubscribe_ok", t>>
      BY <2>2, Zenon DEF Sub!SubscribedAtBroker
    <3>2. CASE msg[1] = "subscribe_ok"
      <4>1. Sub!onSubScribeTopicOk(msg[2], msg[3])
        BY <1>10, <3>2 DEF Sub!handleInput, msg
      <4>2. subcribedTopics' = subcribedTopics \cup {msg[2]}
        BY <2>1, <2>2, <4>1 DEF Sub!onSubScribeTopicOk
      <4>3. CASE t = msg[2]
        <5>1. PICK j \in DOMAIN toClient : j > 1 /\ toClient[j] = <<"unsubscribe_ok", t>>
          <6>1. /\ 1 \in DOMAIN toClient /\ toClient[1][1] = "subscribe_ok" /\ t = toClient[1][2]
                /\ toClient[1][2] \notin peer.handler.topics
            BY <2>3, <3>1, <3>2, <4>3, SMTT(30)
          <6>2. \E j \in DOMAIN toClient :
                  j > 1 /\ toClient[j] = <<"unsubscribe_ok", toClient[1][2]>>
            BY <1>c, <2>2, <6>1
          <6> QED
            BY <6>1, <6>2
        <5> QED
          BY <2>4, <5>1
      <4>4. CASE t \in subcribedTopics
        <5>1. PICK j \in DOMAIN toClient : toClient[j] = <<"unsubscribe_ok", t>>
          BY <2>2, <3>1, <4>4 DEF Sub!SubscribedAtBroker
        <5>2. j # 1
          BY <2>3, <3>2, <5>1
        <5> QED
          BY <2>3, <2>4, <5>1, <5>2, SMTT(30)
      <4> QED
        BY <3>1, <4>2, <4>3, <4>4
    <3>3. CASE msg[1] = "unsubscribe_ok"
      <4>1. Sub!onUnSubScribeTopicOk(msg[2])
        BY <1>10, <3>3 DEF Sub!handleInput, msg
      <4>2. subcribedTopics' = subcribedTopics \ {msg[2]}
        BY <2>1, <2>2, <4>1 DEF Sub!onUnSubScribeTopicOk
      <4>3. PICK j \in DOMAIN toClient : toClient[j] = <<"unsubscribe_ok", t>>
        BY <2>2, <3>1, <4>2 DEF Sub!SubscribedAtBroker
      <4>4. j # 1
        BY <2>3, <3>1, <4>2, <4>3, SMTT(30)
      <4> QED
        BY <2>3, <2>4, <4>3, <4>4, SMTT(30)
    <3>4. CASE msg[1] \notin {"subscribe_ok", "unsubscribe_ok"}
      <4>1. UNCHANGED subcribedTopics
        BY <1>10, <3>4 DEF Sub!handleInput, msg
      <4>2. PICK j \in DOMAIN toClient : toClient[j] = <<"unsubscribe_ok", t>>
        BY <2>2, <3>1, <4>1 DEF Sub!SubscribedAtBroker
      <4>3. j # 1
        BY <2>3, <3>4, <4>2, SMTT(30)
      <4> QED
        BY <2>3, <2>4, <4>2, <4>3, SMTT(30)
    <3> QED
      BY <3>2, <3>3, <3>4
  <2> QED
    BY <2>5, <2>6
<1>11. CASE Sub!onConnError
  <2>1. subcribedTopics' = {} /\ UNCHANGED <<status, link, toClient, peer>>
    BY <1>11 DEF Sub!onConnError, Sub!connError
  <2> QED
    BY <2>1 DEF Sub!SubscribedAtBroker, Sub!AnswersInOrder
<1>12. CASE Sub!reestablishConnection
  <2>1. CASE ~Sub!up'
    BY <2>1 DEF Sub!SubscribedAtBroker, Sub!AnswersInOrder
  <2>2. CASE subcribedTopics' = {} /\ toClient' = <<>>
    <3>1. DOMAIN toClient' = {}
      BY <2>2
    <3> QED
      BY <2>2, <3>1 DEF Sub!SubscribedAtBroker, Sub!AnswersInOrder
  <2> QED
    BY <1>12, <2>1, <2>2 DEF Sub!reestablishConnection, Sub!Abort, Sub!Places
<1>13. CASE Sub!BrokerInput
  <2> DEFINE request == Head(toBroker)
  <2>1. /\ request \in Sub!Request /\ toClient \in Seq(Sub!Answer) /\ Sub!up /\ link = "up"
        /\ UNCHANGED <<subcribedTopics, status>>
        /\ Len(toClient) \in Nat /\ DOMAIN toClient = 1..Len(toClient)
    BY <1>13 DEF Sub!BrokerInput, Sub!NetOK, Sub!BrokerLeavesClient
  <2>2. CASE link' = "reset"
    BY <2>2 DEF Sub!SubscribedAtBroker, Sub!AnswersInOrder
  <2>3. CASE Sub!Reply(request) /\ UNCHANGED link
    <3> HIDE DEF request
    <3>1. ASSUME NEW m \in Sub!Answer, toClient' = Append(toClient, m)
          PROVE  /\ DOMAIN toClient' = 1..Len(toClient) + 1
                 /\ \A k \in DOMAIN toClient : k \in DOMAIN toClient' /\ toClient'[k] = toClient[k]
                 /\ toClient'[Len(toClient) + 1] = m
      BY <2>1, <3>1
    <3>2. CASE request[1] = "subscribe"
      <4> DEFINE i == IF ~brokerBuffering THEN 0
                      ELSE IF request[3] = 0 THEN peer.nextId ELSE request[3]
                 m == <<"subscribe_ok", request[2], i>>
      <4>1. m \in Sub!Answer
        BY <2>1, <3>2, RequestKinds DEF Sub!NetOK, Sub!Answer
      <4>2. /\ toClient' = Append(toClient, m)
            /\ peer'.handler.topics = peer.handler.topics \cup {request[2]}
        BY <2>3, <3>2 DEF Sub!Reply
      <4>3. m[1] = "subscribe_ok" /\ m[2] = request[2]
        OBVIOUS
      <4> HIDE DEF m
      <4>4. Sub!SubscribedAtBroker'
        BY <2>1, <3>1, <4>1, <4>2, ZenonT(40) DEF Sub!SubscribedAtBroker
      <4>5. Sub!AnswersInOrder'
        <5>1. ASSUME Sub!up', link' = "up", NEW k \in DOMAIN toClient', toClient'[k][1] = "subscribe_ok",
                     toClient'[k][2] \notin peer'.handler.topics
              PROVE  \E j \in DOMAIN toClient' :
                       j > k /\ toClient'[j] = <<"unsubscribe_ok", toClient'[k][2]>>
          <6>1. k \in DOMAIN toClient /\ toClient'[k] = toClient[k]
            BY <2>1, <3>1, <4>1, <4>2, <4>3, <5>1, SMTT(30)
          <6>2. toClient[k][1] = "subscribe_ok" /\ toClient[k][2] \notin peer.handler.topics
            BY <4>2, <5>1, <6>1
          <6>3. \E j \in DOMAIN toClient :
                  j > k /\ toClient[j] = <<"unsubscribe_ok", toClient[k][2]>>
            BY <1>c, <2>1, <6>1, <6>2, ZenonT(40)
          <6> QED
            BY <3>1, <4>1, <4>2, <6>1, <6>3
        <5> QED
          BY <1>d, <5>1, Zenon
      <4> QED
        BY <4>4, <4>5
    <3>3. CASE request[1] = "unsubscribe"
      <4> DEFINE m == <<"unsubscribe_ok", request[2]>>
      <4>1. m \in Sub!Answer
        BY <2>1, <3>3, RequestKinds DEF Sub!Answer
      <4>2. /\ toClient' = Append(toClient, m)
            /\ peer'.handler.topics = peer.handler.topics \ {request[2]}
        BY <2>3, <3>3 DEF Sub!Reply, Sub!NetOK
      <4>3. m[1] # "subscribe_ok"
        OBVIOUS
      <4>4. Len(toClient) + 1 \in DOMAIN toClient'
        BY <2>1, <3>1, <4>1, <4>2
      <4>5. Sub!SubscribedAtBroker'
        BY <2>1, <3>1, <4>1, <4>2, <4>4, ZenonT(40) DEF Sub!SubscribedAtBroker
      <4>6. Sub!AnswersInOrder'
        <5>1. ASSUME Sub!up', link' = "up", NEW k \in DOMAIN toClient', toClient'[k][1] = "subscribe_ok",
                     toClient'[k][2] \notin peer'.handler.topics
              PROVE  \E j \in DOMAIN toClient' :
                       j > k /\ toClient'[j] = <<"unsubscribe_ok", toClient'[k][2]>>
          <6>1. k \in DOMAIN toClient /\ toClient'[k] = toClient[k]
            BY <2>1, <3>1, <4>1, <4>2, <4>3, <5>1, SMTT(30)
          <6>2. CASE toClient[k][2] = request[2]
            BY <2>1, <3>1, <4>1, <4>2, <4>4, <6>1, <6>2, SMTT(60)
          <6>3. CASE toClient[k][2] # request[2]
            <7>1. toClient[k][1] = "subscribe_ok" /\ toClient[k][2] \notin peer.handler.topics
              BY <4>2, <5>1, <6>1, <6>3
            <7>2. \E j \in DOMAIN toClient :
                    j > k /\ toClient[j] = <<"unsubscribe_ok", toClient[k][2]>>
              BY <1>c, <2>1, <6>1, <7>1, Zenon
            <7> QED
              BY <3>1, <4>1, <4>2, <6>1, <7>2
          <6> QED
            BY <6>2, <6>3
        <5> QED
          BY <1>d, <5>1, Zenon
      <4> QED
        BY <4>5, <4>6
    <3>4. CASE request[1] \notin {"subscribe", "unsubscribe"}
      <4>1. UNCHANGED peer /\ toClient' = Append(toClient, <<"ack">>)
        BY <2>3, <3>4 DEF Sub!Reply
      <4> QED
        BY <1>b, <2>1, <2>3, <4>1
    <3> QED
      BY <3>2, <3>3, <3>4
  <2> QED
    BY <1>13, <2>2, <2>3 DEF Sub!BrokerInput
<1>14. CASE Sub!BrokerEvent
  BY <1>14, <1>b DEF Sub!BrokerEvent, Sub!BrokerLeavesClient
<1>15. CASE Sub!LinkFails
  <2>1. link' # "up"
    BY <1>15 DEF Sub!LinkFails
  <2> QED
    BY <2>1 DEF Sub!SubscribedAtBroker, Sub!AnswersInOrder
<1>16. CASE UNCHANGED Sub!vars
  BY <1>16, <1>a DEF Sub!vars
<1> QED
  BY <1>1, <1>2, <1>3, <1>4, <1>5, <1>6, <1>7, <1>8, <1>9, <1>10, <1>11, <1>12, <1>13,
     <1>14, <1>15, <1>16 DEF Sub!Next, Sub!Run, Sub!HandleEvents

-----------------------------------------------------------------------------
(* What is left is about the topics, which are finite sets.                *)

INSTANCE FiniteSetTheorems

(* Both modules mean the finite sets of FiniteSets.                        *)
LEMMA SameCounting ==
    \A S : Sub!IsFiniteSet(S) = IsFiniteSet(S) /\ Sub!Cardinality(S) = Cardinality(S)
BY DEF Sub!IsFiniteSet, IsFiniteSet, Sub!Cardinality, Cardinality

(* A finite set is listed as a sequence of its elements.                   *)
LEMMA ListedType ==
    ASSUME NEW S, IsFiniteSet(S)
    PROVE  Sub!Listed(S) \in Seq(S)
<1>1. PICK f : f \in Bijection(1..Cardinality(S), S)
  BY FS_CardinalityType DEF ExistsBijection
<1>2. f \in [1..Cardinality(S) -> S] /\ \A j, k \in DOMAIN f : f[j] = f[k] => j = k
  BY <1>1 DEF Bijection, Injection, IsInjective
<1>3. Sub!Listed(S) \in [1..Cardinality(S) -> S]
  BY <1>2, SameCounting, Zenon DEF Sub!Listed
<1> QED
  BY <1>3, FS_CardinalityType

(* What run() sends is a sequence of requests.                             *)
LEMMA RequestsType ==
    ASSUME Sub!TopicsOK, id \in Nat
    PROVE  Sub!Requests \in Seq(Sub!Request)
<1> DEFINE sub == Sub!Listed(toSubcribeTopics)
           unsub == Sub!Listed(toUnSubcribeTopics)
           A == [k \in 1..Len(sub) |-> <<"subscribe", sub[k], id>>]
           B == [k \in 1..Len(unsub) |-> <<"unsubscribe", unsub[k], id>>]
<1>1. sub \in Seq(Topic) /\ unsub \in Seq(Topic)
  <2>1. sub \in Seq(toSubcribeTopics) /\ unsub \in Seq(toUnSubcribeTopics)
    BY ListedType, SameCounting DEF Sub!TopicsOK
  <2> QED
    BY <2>1, SameCounting DEF Sub!TopicsOK
<1> HIDE DEF sub, unsub
<1>2. A \in Seq(Sub!Request)
  BY <1>1 DEF Sub!Request
<1>3. B \in Seq(Sub!Request)
  BY <1>1 DEF Sub!Request
<1> HIDE DEF A, B
<1>4. A \o B \in Seq(Sub!Request)
  BY <1>2, <1>3
<1>5. Sub!Requests = A \o B
  BY DEF Sub!Requests, A, B, sub, unsub
<1> QED
  BY <1>4, <1>5

(* The topics asked for and subscribed stay finite sets of topics.         *)
LEMMA TopicsStep == Sub!TopicsOK /\ Sub!NetOK /\ [Sub!Next]_Sub!vars => Sub!TopicsOK'
<1> SUFFICES ASSUME Sub!TopicsOK, Sub!NetOK, [Sub!Next]_Sub!vars PROVE Sub!TopicsOK'
  OBVIOUS
<1> USE DEF Sub!subVars
<1>a. ASSUME UNCHANGED <<toSubcribeTopics, subcribedTopics, toUnSubcribeTopics>>
      PROVE  Sub!TopicsOK'
  BY <1>a, SameCounting DEF Sub!TopicsOK
<1>1. CASE \E t \in Topic : Sub!subscribeTopic(t)
  <2>1. PICK t \in Topic : Sub!subscribeTopic(t)
    BY <1>1
  <2>2. IsFiniteSet(toSubcribeTopics \cup {t}) /\ IsFiniteSet(toUnSubcribeTopics \ {t})
    BY FS_AddElement, FS_RemoveElement, SameCounting DEF Sub!TopicsOK
  <2> QED
    BY <2>1, <2>2, SameCounting DEF Sub!subscribeTopic, Sub!Call, Sub!TopicsOK
<1>2. CASE \E t \in Topic : Sub!unSubscribeTopic(t)
  <2>1. PICK t \in Topic : Sub!unSubscribeTopic(t)
    BY <1>2
  <2>2. IsFiniteSet(toSubcribeTopics \ {t}) /\ IsFiniteSet(toUnSubcribeTopics \cup {t})
    BY FS_AddElement, FS_RemoveElement, SameCounting, ZenonT(40) DEF Sub!TopicsOK
  <2> QED
    BY <2>1, <2>2, SameCounting DEF Sub!unSubscribeTopic, Sub!Call, Sub!TopicsOK
<1>3. CASE Sub!onConnOk
  BY <1>3, <1>a DEF Sub!onConnOk, Sub!enableKeepAlive, Sub!Abort
<1>4. CASE Sub!processAllSubAndUnSub
  BY <1>4, <1>a DEF Sub!processAllSubAndUnSub
<1>5. CASE Sub!processFails
  BY <1>5, <1>a DEF Sub!processFails, Sub!Abort, Sub!SendFails
<1>6. CASE Sub!handleTimeout
  BY <1>6, <1>a DEF Sub!handleTimeout, Sub!sendKeepAliveProbe, Sub!Probed, Sub!ProbeFails, Sub!SendFails
<1>7. CASE Sub!NoInput
  BY <1>7, <1>a DEF Sub!NoInput
<1>8. CASE Sub!HalfRead
  BY <1>8, <1>a DEF Sub!HalfRead, Sub!Input
<1>9. CASE Sub!InputError
  BY <1>9, <1>a DEF Sub!InputError, Sub!Input
<1>10. CASE Sub!handleInput
  <2> DEFINE msg == Head(toClient)
  <2>1. msg \in Sub!Answer
    BY <1>10 DEF Sub!handleInput, Sub!NetOK
  <2>2. CASE msg[1] = "subscribe_ok"
    <3>1. msg[2] \in Topic
      BY <2>1, <2>2, AnswerKinds
    <3>2. /\ IsFiniteSet(toSubcribeTopics \ {msg[2]})
          /\ IsFiniteSet(subcribedTopics \cup {msg[2]})
      BY FS_AddElement, FS_RemoveElement, SameCounting, Zenon DEF Sub!TopicsOK
    <3>3. Sub!onSubScribeTopicOk(msg[2], msg[3])
      BY <1>10, <2>2 DEF Sub!handleInput
    <3> QED
      BY <3>1, <3>2, <3>3, SameCounting DEF Sub!onSubScribeTopicOk, Sub!TopicsOK
  <2>3. CASE msg[1] = "unsubscribe_ok"
    <3>1. IsFiniteSet(subcribedTopics \ {msg[2]})
      BY FS_RemoveElement, SameCounting DEF Sub!TopicsOK
    <3>2. Sub!onUnSubScribeTopicOk(msg[2])
      BY <1>10, <2>3 DEF Sub!handleInput
    <3> QED
      BY <3>1, <3>2, SameCounting, ZenonT(40) DEF Sub!onUnSubScribeTopicOk, Sub!TopicsOK
  <2>4. CASE msg[1] \notin {"subscribe_ok", "unsubscribe_ok"}
    BY <1>10, <2>4, <1>a DEF Sub!handleInput
  <2> QED
    BY <2>2, <2>3, <2>4
<1>11. CASE Sub!onConnError
  <2>1. IsFiniteSet(toSubcribeTopics \cup (subcribedTopics \ toUnSubcribeTopics))
    <3>1. IsFiniteSet(toSubcribeTopics) /\ IsFiniteSet(subcribedTopics)
      BY SameCounting DEF Sub!TopicsOK
    <3>2. IsFiniteSet(subcribedTopics \ toUnSubcribeTopics)
      BY <3>1, FS_Subset
    <3> QED
      BY <3>1, <3>2, FS_Union, Zenon
  <2>2. IsFiniteSet({})
    BY FS_EmptySet
  <2> QED
    BY <1>11, <2>1, <2>2, SameCounting DEF Sub!onConnError, Sub!connError, Sub!TopicsOK
<1>12. CASE Sub!reestablishConnection
  BY <1>12, <1>a DEF Sub!reestablishConnection, Sub!Abort
<1>13. CASE Sub!BrokerInput
  BY <1>13, <1>a DEF Sub!BrokerInput, Sub!Reply, Sub!BrokerLeavesClient
<1>14. CASE Sub!BrokerEvent
  BY <1>14, <1>a DEF Sub!BrokerEvent, Sub!BrokerLeavesClient
<1>15. CASE Sub!LinkFails
  BY <1>15, <1>a DEF Sub!LinkFails, Sub!BrokerLeavesClient
<1>16. CASE UNCHANGED Sub!vars
  BY <1>16, <1>a DEF Sub!vars
<1> QED
  BY <1>1, <1>2, <1>3, <1>4, <1>5, <1>6, <1>7, <1>8, <1>9, <1>10, <1>11, <1>12, <1>13,
     <1>14, <1>15, <1>16 DEF Sub!Next, Sub!Run, Sub!HandleEvents

(* The messages under way and the broker keep their types.                 *)
LEMMA NetStep == Sub!TopicsOK /\ Sub!NetOK /\ [Sub!Next]_Sub!vars => Sub!NetOK'
<1> SUFFICES ASSUME Sub!TopicsOK, Sub!NetOK, [Sub!Next]_Sub!vars PROVE Sub!NetOK'
  OBVIOUS
<1> USE DEF Sub!netVars
<1>a. ASSUME UNCHANGED <<id, toBroker, toClient, peer>> PROVE Sub!NetOK'
  BY <1>a DEF Sub!NetOK
<1>1. CASE \E t \in Topic : Sub!subscribeTopic(t)
  BY <1>1, <1>a DEF Sub!subscribeTopic, Sub!Call
<1>2. CASE \E t \in Topic : Sub!unSubscribeTopic(t)
  BY <1>2, <1>a DEF Sub!unSubscribeTopic, Sub!Call
<1>3. CASE Sub!onConnOk
  BY <1>3, <1>a DEF Sub!onConnOk, Sub!enableKeepAlive, Sub!Abort
<1>4. CASE Sub!processAllSubAndUnSub
  <2>1. Sub!Requests \in Seq(Sub!Request)
    BY RequestsType DEF Sub!NetOK
  <2>2. toBroker \o Sub!Requests \in Seq(Sub!Request) /\ <<>> \in Seq(Sub!Request)
    BY <2>1 DEF Sub!NetOK
  <2>3. toBroker' \in Seq(Sub!Request)
    BY <1>4, <2>2, Zenon DEF Sub!processAllSubAndUnSub, Sub!Sent
  <2> QED
    BY <1>4, <2>3 DEF Sub!processAllSubAndUnSub, Sub!NetOK
<1>5. CASE Sub!processFails
  BY <1>5, <1>a DEF Sub!processFails, Sub!Abort, Sub!SendFails
<1>6. CASE Sub!handleTimeout
  <2>1. <<<<"probe">>>> \in Seq(Sub!Request)
    BY DEF Sub!Request
  <2>2. toBroker \o <<<<"probe">>>> \in Seq(Sub!Request) /\ <<>> \in Seq(Sub!Request)
    BY <2>1 DEF Sub!NetOK
  <2>3. Sub!sendKeepAliveProbe
    BY <1>6 DEF Sub!handleTimeout
  <2>4. UNCHANGED toBroker \/ toBroker' = Sub!Sent(<<<<"probe">>>>)
    BY <2>3, Zenon DEF Sub!sendKeepAliveProbe, Sub!Probed, Sub!ProbeFails
  <2>5. toBroker' \in Seq(Sub!Request)
    BY <2>2, <2>4, Zenon DEF Sub!Sent, Sub!NetOK
  <2> QED
    BY <1>6, <2>5 DEF Sub!handleTimeout, Sub!NetOK
<1>7. CASE Sub!NoInput
  BY <1>7, <1>a DEF Sub!NoInput
<1>8. CASE Sub!HalfRead
  BY <1>8, <1>a DEF Sub!HalfRead, Sub!Input
<1>9. CASE Sub!InputError
  BY <1>9, <1>a DEF Sub!InputError, Sub!Input
<1>10. CASE Sub!handleInput
  <2> DEFINE msg == Head(toClient)
  <2>1. msg \in Sub!Answer /\ toClient' \in Seq(Sub!Answer)
    BY <1>10 DEF Sub!handleInput, Sub!NetOK
  <2>2. msg[1] = "subscribe_ok" => msg[3] \in Nat
    BY <2>1, AnswerKinds
  <2> HIDE DEF msg
  <2>3. \/ UNCHANGED id
        \/ msg[1] = "subscribe_ok" /\ id' = msg[3]
    BY <1>10 DEF Sub!handleInput, Sub!onSubScribeTopicOk, Sub!onUnSubScribeTopicOk, msg
  <2> QED
    BY <1>10, <2>1, <2>2, <2>3 DEF Sub!handleInput, Sub!Input, Sub!NetOK
<1>11. CASE Sub!onConnError
  BY <1>11, <1>a DEF Sub!onConnError, Sub!connError
<1>12. CASE Sub!reestablishConnection
  <2>1. CASE UNCHANGED <<id, toBroker, toClient, peer>>
    BY <1>a, <2>1
  <2>2. CASE /\ UNCHANGED id /\ toBroker' = <<>> /\ toClient' = <<>>
             /\ peer' = [peer EXCEPT !.handler = Sub!NoConnection]
    BY <2>2 DEF Sub!NetOK, Sub!NoConnection
  <2> QED
    BY <1>12, <2>1, <2>2 DEF Sub!reestablishConnection, Sub!Abort
<1>13. CASE Sub!BrokerInput
  <2> DEFINE request == Head(toBroker)
  <2>1. request \in Sub!Request /\ Tail(toBroker) \in Seq(Sub!Request) /\ UNCHANGED id
    BY <1>13 DEF Sub!BrokerInput, Sub!NetOK, Sub!BrokerLeavesClient
  <2>2. CASE UNCHANGED <<toBroker, toClient, peer>>
    BY <2>1, <2>2, <1>a
  <2>3. CASE Sub!Reply(request) /\ toBroker' = Tail(toBroker)
    <3> HIDE DEF request
    <3>1. CASE request[1] = "subscribe"
      <4> DEFINE i == IF ~brokerBuffering THEN 0
                      ELSE IF request[3] = 0 THEN peer.nextId ELSE request[3]
             n == IF brokerBuffering /\ request[3] = 0 THEN peer.nextId + 1 ELSE peer.nextId
             h == [id |-> i, topics |-> peer.handler.topics \cup {request[2]}]
      <4>1. request[2] \in Topic /\ i \in Nat /\ n \in Nat
        BY <2>1, <3>1, RequestKinds DEF Sub!NetOK
      <4>2. <<"subscribe_ok", request[2], i>> \in Sub!Answer
        BY <4>1 DEF Sub!Answer
      <4>3. /\ toClient' = Append(toClient, <<"subscribe_ok", request[2], i>>)
            /\ peer' = [handler |-> h, nextId |-> n]
        BY <2>3, <3>1 DEF Sub!Reply
      <4> HIDE DEF i, n
      <4>4. toClient' \in Seq(Sub!Answer)
        BY <4>2, <4>3 DEF Sub!NetOK
      <4>5. peer' \in [handler : [id : Nat, topics : SUBSET Topic], nextId : Nat]
        BY <4>1, <4>3 DEF Sub!NetOK
      <4> QED
        BY <2>1, <2>3, <4>4, <4>5 DEF Sub!NetOK
    <3>2. CASE request[1] = "unsubscribe"
      <4>1. <<"unsubscribe_ok", request[2]>> \in Sub!Answer
        BY <2>1, <3>2, RequestKinds DEF Sub!Answer
      <4>2. /\ peer' = [peer EXCEPT !.handler.topics = @ \ {request[2]}]
            /\ toClient' = Append(toClient, <<"unsubscribe_ok", request[2]>>)
        BY <2>3, <3>2 DEF Sub!Reply
      <4>3. peer' \in [handler : [id : Nat, topics : SUBSET Topic], nextId : Nat]
        BY <4>2 DEF Sub!NetOK
      <4>4. toClient' \in Seq(Sub!Answer)
        BY <4>1, <4>2 DEF Sub!NetOK
      <4> QED
        BY <2>1, <2>3, <4>3, <4>4 DEF Sub!NetOK
    <3>3. CASE request[1] \notin {"subscribe", "unsubscribe"}
      <4>1. UNCHANGED peer /\ toClient' = Append(toClient, <<"ack">>)
        BY <2>3, <3>3 DEF Sub!Reply
      <4>2. toClient' \in Seq(Sub!Answer)
        BY <4>1 DEF Sub!NetOK, Sub!Answer
      <4> QED
        BY <2>1, <2>3, <4>1, <4>2 DEF Sub!NetOK
    <3> QED
      BY <3>1, <3>2, <3>3
  <2> QED
    BY <1>13, <2>2, <2>3 DEF Sub!BrokerInput
<1>14. CASE Sub!BrokerEvent
  <2>1. toClient' \in Seq(Sub!Answer)
    BY <1>14 DEF Sub!BrokerEvent, Sub!NetOK, Sub!Answer
  <2> QED
    BY <1>14, <2>1 DEF Sub!BrokerEvent, Sub!BrokerLeavesClient, Sub!NetOK
<1>15. CASE Sub!LinkFails
  BY <1>15 DEF Sub!LinkFails, Sub!BrokerLeavesClient, Sub!NetOK
<1>16. CASE UNCHANGED Sub!vars
  BY <1>16, <1>a DEF Sub!vars
<1> QED
  BY <1>1, <1>2, <1>3, <1>4, <1>5, <1>6, <1>7, <1>8, <1>9, <1>10, <1>11, <1>12, <1>13,
     <1>14, <1>15, <1>16 DEF Sub!Next, Sub!Run, Sub!HandleEvents

(* Every reachable state of the subscriber satisfies the inductive         *)
(* invariant.                                                              *)
THEOREM SubscriberInvariant == Sub!Spec => []Sub!IInv
<1>1. Sub!Init => Sub!IInv
  <2> SUFFICES ASSUME Sub!Init PROVE Sub!IInv
    OBVIOUS
  <2>1. Sub!FlagsOK
    BY Zenon DEF Sub!Init, Sub!FlagsOK
  <2>2. Sub!PlacesOK /\ Sub!CountsOK
    BY BoundsAssumption DEF Sub!Init, Sub!PlacesOK, Sub!CountsOK
  <2>3. Sub!TopicsOK
    BY FS_EmptySet, SameCounting DEF Sub!Init, Sub!TopicsOK
  <2>4. Sub!NetOK
    BY SMTT(30) DEF Sub!Init, Sub!NetOK, Sub!NoConnection
  <2>5. Sub!Places /\ Sub!KeepAliveArmed
    BY BoundsAssumption, SMTT(30) DEF Sub!Init, Sub!Places, Sub!KeepAliveArmed
  <2>6. Sub!SubscribedAtBroker /\ Sub!AnswersInOrder
    BY SMTT(30) DEF Sub!Init, Sub!SubscribedAtBroker, Sub!AnswersInOrder
  <2> QED
    BY <2>1, <2>2, <2>3, <2>4, <2>5, <2>6 DEF Sub!IInv, Sub!TypeOK
<1>2. Sub!IInv /\ [Sub!Next]_Sub!vars => Sub!IInv'
  BY SubscriberFlagsStep, SubscriberPlacesOKStep, SubscriberCountsStep, SubscriberPlacesStep, TopicsStep, NetStep, SubscribedStep
     DEF Sub!IInv, Sub!TypeOK
<1> QED
  BY <1>1, <1>2, PTL DEF Sub!Spec

(* Whichever way the last connection was lost, the next one is watched,    *)
(* and run() waits for input only while its handler is there.              *)
THEOREM AlwaysWatched == Sub!Spec => []Sub!KeepAliveArmed
<1>1. Sub!IInv => Sub!KeepAliveArmed
  BY DEF Sub!IInv
<1> QED
  BY <1>1, SubscriberInvariant, PTL

(* Whatever calls, answers and losses of the connection interleave, the    *)
(* broker has the subscriptions that the client takes for granted, or the  *)
(* answer that ends one is on its way.                                     *)
THEOREM BrokerHasSubscriptions == Sub!Spec => []Sub!SubscribedAtBroker
<1>1. Sub!IInv => Sub!SubscribedAtBroker
  BY DEF Sub!IInv
<1> QED
  BY <1>1, SubscriberInvariant, PTL
=============================================================================
