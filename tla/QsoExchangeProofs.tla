------------------------- MODULE QsoExchangeProofs -------------------------
(***************************************************************************)
(* Proofs about a contact: whatever it does is something the workers of    *)
(* TransmitReceive do, so that their theorems hold during a contact; a     *)
(* contact that ends by itself has had its 73 on the air; and no line of   *)
(* it is passed over, for any number of workers, any length of the minute  *)
(* and any acts of the operator.                                           *)
(***************************************************************************)
EXTENDS QsoExchange, TransmitReceiveProofs

\* A contact adds to the state and to the steps of the workers, and takes
\* nothing away from what TransmitReceive says of them.
LEMMA ContactStep == [ExchangeNext]_<<vars, exchange>> => [Next]_vars
<1> SUFFICES ASSUME [ExchangeNext]_<<vars, exchange>> PROVE [Next]_vars
  OBVIOUS
<1>1. CASE startQSOWithThisGuy \/ UNCHANGED <<vars, exchange>>
  BY <1>1 DEF startQSOWithThisGuy
<1>2. CASE \E i \in 0 .. Last : SayLine(i)
  BY <1>2, Zenon DEF SayLine, Next, Aside
<1>3. CASE Press
  BY <1>3, Zenon DEF Press, Event, Next
<1>4. CASE HearAnswer \/ NextSecond
  BY <1>4, Zenon DEF HearAnswer, NextSecond, Event, Next
<1>5. CASE ExchangeHandler
  BY <1>5, Zenon DEF ExchangeHandler, Dispatch, Answer, Handler, Next
<1>6. ASSUME NEW m \in Mons, ExchangeMonitor(m) \/ EndRecording(m) PROVE Next
  BY <1>6, Zenon DEF ExchangeMonitor, EndRecording, Workers, Next
<1>7. ASSUME NEW t \in Txs, ExchangeTransmitter(t) PROVE Next
  BY <1>7, Zenon DEF ExchangeTransmitter, KeyMessage, EndTransmission, TransmitWorker,
                     Workers, Next
<1>8. CASE ExchangeMorse
  BY <1>8, Zenon DEF ExchangeMorse, Audio, Next
<1>9. QED
  BY <1>1, <1>2, <1>3, <1>4, <1>5, <1>6, <1>7, <1>8, Zenon
  DEF ExchangeNext, ExchangeOperator, ExchangeRest, Click

\* A contact is a behaviour of the workers: what is proved of them in
\* TransmitReceiveProofs (the rig has an owner, no worker has two recordings,
\* ...) is true during a contact.
THEOREM ContactImplementsWorkers == ExchangeSpec => Spec
BY ContactStep, PTL DEF ExchangeSpec, Spec

-----------------------------------------------------------------------------
\* Moving on stays within the four lines.
LEMMA ToggleTypes ==
  ASSUME ExchangeTypeOK, toggleXmitSequence \/ UNCHANGED <<count, message>>, built' = built
  PROVE  /\ count' \in 0 .. Last + 1
         /\ message' \in NoLine .. Last
         /\ built' => message' # NoLine
BY DEF ExchangeTypeOK, toggleXmitSequence, Last, NoLine

\* The counter of a contact, its line on the air and its line in the message
\* field stay within the exchange (ExchangeTypeOK).
THEOREM ContactTypeCorrect == ExchangeSpec => []ExchangeTypeOK
<1>1. ExchangeInit => ExchangeTypeOK
  <2> SUFFICES ASSUME ExchangeInit PROVE ExchangeTypeOK
    OBVIOUS
  <2>1. count \in 0 .. Last + 1 /\ message \in NoLine .. Last /\ sent \in NoLine .. Last
    BY DEF ExchangeInit, Last, NoLine
  <2>2. QED
    BY <2>1 DEF ExchangeInit, ExchangeTypeOK
<1>2. ExchangeTypeOK /\ [ExchangeNext]_<<vars, exchange>> => ExchangeTypeOK'
  <2> SUFFICES ASSUME ExchangeTypeOK, [ExchangeNext]_<<vars, exchange>>
               PROVE  ExchangeTypeOK'
    OBVIOUS
  <2>1. Crosses \in BOOLEAN
    BY DEF Crosses
  <2>2. Crossing => crossed' \in BOOLEAN
    BY <2>1, Zenon DEF Crossing, ExchangeTypeOK
  <2>3. NothingSaid => ExchangeTypeOK'
    BY <2>2 DEF NothingSaid, ExchangeTypeOK
  <2>4. CASE startQSOWithThisGuy
    BY <2>4 DEF startQSOWithThisGuy, ExchangeTypeOK, Last, NoLine
  <2>5. ASSUME NEW i \in 0 .. Last, SayLine(i) PROVE ExchangeTypeOK'
    BY <2>2, <2>5 DEF SayLine, ExchangeTypeOK, Last, NoLine
  <2>6. CASE HearAnswer
    BY <2>2, <2>6 DEF HearAnswer, ExchangeTypeOK
  <2>7. CASE Answer
    <3>1. /\ toggleXmitSequence \/ UNCHANGED <<count, message>>
          /\ UNCHANGED <<built, sent, fresh>>
      BY <2>7 DEF Answer
    <3>2. crossed' \in BOOLEAN
      BY <2>2, <2>7 DEF Answer
    <3>3. QED
      BY <3>1, <3>2, ToggleTypes DEF ExchangeTypeOK
  <2>8. ASSUME NEW m \in Mons, EndRecording(m) PROVE ExchangeTypeOK'
    <3>1. fresh' \in BOOLEAN /\ UNCHANGED <<built, count, message, sent>>
      BY <2>8 DEF EndRecording, ExchangeTypeOK
    <3>2. crossed' \in BOOLEAN
      BY <2>2, <2>8 DEF EndRecording
    <3>3. QED
      BY <3>1, <3>2 DEF ExchangeTypeOK
  <2>9. ASSUME NEW t \in Txs, KeyMessage(t) PROVE ExchangeTypeOK'
    BY <2>2, <2>9 DEF KeyMessage, ExchangeTypeOK
  <2>10. ASSUME NEW t \in Txs, EndTransmission(t) PROVE ExchangeTypeOK'
    <3>1. /\ toggleXmitSequence \/ UNCHANGED <<count, message>>
          /\ UNCHANGED <<built, sent, fresh>>
      BY <2>10 DEF EndTransmission
    <3>2. crossed' \in BOOLEAN
      BY <2>2, <2>10 DEF EndTransmission
    <3>3. QED
      BY <3>1, <3>2, ToggleTypes DEF ExchangeTypeOK
  <2>11. CASE NextSecond
    BY <2>2, <2>11 DEF NextSecond, ExchangeTypeOK
  <2>12. CASE UNCHANGED exchange
    BY <2>12 DEF exchange, ExchangeTypeOK
  <2>13. QED
    BY <2>3, <2>4, <2>5, <2>6, <2>7, <2>8, <2>9, <2>10, <2>11, <2>12, Zenon
    DEF ExchangeNext, ExchangeOperator, ExchangeRest, Click, Press, ExchangeHandler, Dispatch,
        ExchangeMonitor, ExchangeTransmitter, ExchangeMorse
<1>3. QED
  BY <1>1, <1>2, PTL DEF ExchangeSpec

-----------------------------------------------------------------------------
(* What the two things a contact cares for, m_sent73 and m_qsoInProgress,  *)
(* are changed by.                                                         *)

Untouched == g'.sent73 = g.sent73 /\ (g'.qsoInProgress => g.qsoInProgress)

LEMMA SetsUntouched ==
  ASSUME g \in Settings
  PROVE  /\ g' = g => Untouched
         /\ \A b : g' = [g EXCEPT !.monitoring = b] => Untouched
         /\ \A b : g' = [g EXCEPT !.transmitting = b] => Untouched
         /\ \A b : g' = [g EXCEPT !.killAll = b] => Untouched
         /\ \A b : g' = [g EXCEPT !.monitorButton = b] => Untouched
         /\ \A b : g' = [g EXCEPT !.transmitButton = b] => Untouched
         /\ \A b : g' = [g EXCEPT !.morseNext = b] => Untouched
         /\ \A b : g' = [g EXCEPT !.sendCall = b] => Untouched
         /\ \A b : g' = [g EXCEPT !.light = b] => Untouched
         /\ g' = [g EXCEPT !.qsoInProgress = FALSE] => Untouched
         /\ g' = [g EXCEPT !.qsoInProgress = @ /\ ~g.sent73] => Untouched
         /\ g' = [g EXCEPT !.morseNext = FALSE, !.sendCall = FALSE] => Untouched
BY DEF Settings, Untouched

LEMMA ContactTouches ==
  ASSUME TypeOK, [Next]_vars
  PROVE  \/ Untouched
         \/ checkFor73
         \/ HearLine \/ chooseThisThingToSay
         \/ \E t \in Txs : generateTonesForMessage(t)
<1>0. g \in Settings
  BY DEF TypeOK
<1> USE <1>0, SetsUntouched
<1>1. ASSUME NEW th \in Threads, dispatchMonitorQueue(th) PROVE Untouched
  BY <1>1, Zenon DEF dispatchMonitorQueue, StartMonitor, DisableMonitor, Sets, Shows
<1>2. ASSUME NEW th, Requests(th) \/ StartTransmitter(th) PROVE Untouched
  BY <1>2, Zenon DEF Requests, StartTransmitter, Test, Sets, Shows
<1>3. ASSUME NEW th, setUpJt9(th) PROVE Untouched
  BY <1>3, Zenon DEF setUpJt9, Test, Sets
<1>4. CASE MainStatement
  BY <1>4, Zenon DEF MainStatement, record48SecondsAndDecode, transmitMessage,
     killAllViaTransmitQueue, sendCallAfterNextTransmission, KillTheRest, AnswerLine, Sets, Shows
<1>5. ASSUME NEW m, MonitorWorker(m) \/ OnTickStatement(m) \/ GiveBack(m) PROVE Untouched
  BY <1>5, Zenon DEF MonitorWorker, RecordWait, StopMonitoring, EndRecordWait, StartRecording,
     DispatchOnTick, OnTickStatement, GiveBack, Test, Sets, Shows
<1>6. ASSUME NEW t, OnAirWorker(t) PROVE Untouched
  BY <1>6, Zenon DEF OnAirWorker, TransmitWait, EndTransmitWait, Sign, clickPttOn, Play,
     EndOfSlot, StopPlayer, clickPttOff, Test, Sets, Shows
<1>7. ASSUME NEW t, OnTick2Statement(t) PROVE Untouched
  <2>1. \/ g' = [g EXCEPT !.qsoInProgress = @ /\ ~g.sent73]
        \/ g' = g \/ (\E b : g' = [g EXCEPT !.monitoring = b])
        \/ (\E b : g' = [g EXCEPT !.monitorButton = b])
        \/ (\E b : g' = [g EXCEPT !.transmitting = b])
        \/ (\E b : g' = [g EXCEPT !.light = b])
    BY <1>7 DEF OnTick2Statement, EndQso, LookAtKill, Test, Sets, Shows
  <2>2. QED
    BY <2>1, Zenon
<1>8. CASE testPTT \/ startPlayer \/ quitPlayer \/ Audio \/ Tick \/ UNCHANGED vars
  BY <1>8, Zenon DEF testPTT, startPlayer, quitPlayer, Audio, MorseSent, MorseCut, FileEnds,
     Tick, vars
<1> HIDE DEF Untouched
<1>9. QED
  BY <1>1, <1>2, <1>3, <1>4, <1>5, <1>6, <1>7, <1>8, Steps, Zenon DEF MainStatement

-----------------------------------------------------------------------------
(* The 73.  m_sent73 says what the line on the air is: while a             *)
(* transmission has not ended, a 73 it has found is the last line.         *)

InTheAir(t) == at[t] \in {217, 218} \cup OnAirLines \cup ClosingLines

LEMMA OnTheAirIs == OnTheAir <=> \E t \in Txs : InTheAir(t)
BY DEF OnTheAir, InTransmission, InTheAir, KeyingLines, OnAirLines, ClosingLines, SetUpLines,
       MonitorQueueLines

\* Nothing takes a worker to the air but generateTonesForMessage.
LEMMA TakesToTheAir ==
  ASSUME TypeOK, [Next]_vars, NEW t \in Txs, InTheAir(t)', ~InTheAir(t)
  PROVE  at[t] = 216 /\ at'[t] = 217 /\ generateTonesForMessage(t)
<1>0. at \in [Threads -> Nat] /\ t \in Threads /\ t \notin Mons /\ t # Operator
  BY OwnerAssumption DEF TypeOK, PlacesOK, Threads
<1>1. at'[t] \in {217, 218} \cup OnAirLines \cup ClosingLines
      /\ at[t] \notin {217, 218} \cup OnAirLines \cup ClosingLines
  BY DEF InTheAir
<1> HIDE DEF InTheAir
<1>2. at[t] = 216 /\ at'[t] = 217
  <2>1. CASE \A x \in Threads : at'[x] = at[x]
    BY <1>0, <1>1, <2>1
  <2>2. ASSUME NEW th \in Threads, Flow(th), \A x \in Threads : x # th => Stays(x)
        PROVE  at[t] = 216 /\ at'[t] = 217
    <3>1. CASE t # th
      <4>1. at'[t] = at[t] \/ at'[t] = 198
        BY <1>0, <2>2, <3>1 DEF Stays
      <4>2. QED
        BY <1>1, <4>1 DEF OnAirLines, ClosingLines, SetUpLines, MonitorQueueLines
    <3>2. CASE t = th
      <4>1. at[t] \notin {181} \cup SetUpLines \cup MonitorQueueLines
        BY <1>0, <1>1 DEF TypeOK, PlacesOK, TransmitLines, WaitLines, KeyingLines, OnAirLines,
                          ClosingLines, SetUpLines, MonitorQueueLines
      <4>2. ~MonitorQueueFlow(t) /\ ~SetUpFlow(t)
        BY <4>1 DEF MonitorQueueFlow, SetUpFlow, Goto, SetUpLines, MonitorQueueLines, Become,
                    Same, MonitoringBecomes, TransmittingBecomes, KillAllBecomes, ButtonBecomes
      <4>3. OnTick2Flow(t) \/ OnAirFlow(t)
        BY <1>0, <2>2, <3>2, <4>2 DEF Flow
      <4>4. ~OnTick2Flow(t)
        BY <1>1 DEF OnTick2Flow, Goto, ClosingLines, Become,
                    Same, MonitoringBecomes, TransmittingBecomes, KillAllBecomes, ButtonBecomes
      <4>5. QED
        BY <1>0, <1>1, <4>3, <4>4 DEF OnAirFlow, Goto, OnAirLines, ClosingLines, SetUpLines,
                                      MonitorQueueLines
    <3>3. QED
      BY <3>1, <3>2
  <2>3. QED
    BY <2>1, <2>2, StepFlow
<1>3. generateTonesForMessage(t)
  <2>1. at[t] \notin {0} \cup SetUpLines \cup MonitorQueueLines
    BY <1>2 DEF SetUpLines, MonitorQueueLines
  <2>2. generateTonesForMessage(t) \/ OnAirWorker(t) \/ OnTick2Statement(t)
    BY <1>2, <2>1, NobodyElseMoves
  <2>3. ~OnTick2Statement(t)
    BY <1>2, Froms
  <2>4. ~OnAirWorker(t)
    BY <1>2 DEF OnAirWorker, TransmitWait, EndTransmitWait, Sign, clickPttOn, Play, EndOfSlot,
                StopPlayer, clickPttOff, Test, Sets, Goto
  <2>5. QED
    BY <2>2, <2>3, <2>4
<1>4. QED
  BY <1>2, <1>3

-----------------------------------------------------------------------------
(* Which step of a contact a step of the workers is.                       *)

LEMMA Calls ==
  ASSUME NEW th
  PROVE  /\ dispatchTransmitQueue(th)
              => dispatchMonitorQueue(th) \/ Requests(th) \/ StartTransmitter(th)
         /\ onTick(th)
              => \/ setUpJt9(th) \/ OnTickStatement(th) \/ GiveBack(th)
                 \/ dispatchMonitorQueue(th) \/ Requests(th) \/ StartTransmitter(th)
         /\ onTick2(th) => setUpJt9(th) \/ dispatchMonitorQueue(th) \/ OnTick2Statement(th)
<1>1. dispatchTransmitQueue(th)
      => dispatchMonitorQueue(th) \/ Requests(th) \/ StartTransmitter(th)
  BY Zenon DEF dispatchTransmitQueue, Requests
<1>2. onTick(th) => \/ setUpJt9(th) \/ OnTickStatement(th) \/ GiveBack(th)
                    \/ dispatchTransmitQueue(th)
  BY Zenon DEF onTick, OnTickStatement
<1>3. onTick2(th) => setUpJt9(th) \/ dispatchMonitorQueue(th) \/ OnTick2Statement(th)
  BY Zenon DEF onTick2, OnTick2Statement
<1>4. QED
  BY <1>1, <1>2, <1>3

\* The main thread moves by its own statements alone.
LEMMA MainElsewhere ==
  ASSUME TypeOK, Workers
  PROVE  at'[Operator] = at[Operator]
<1>0. /\ g \in Settings /\ mem \in BOOLEAN /\ PlacesOK /\ Operator \in Threads
      /\ \A m \in Mons : m \in Threads /\ m # Operator /\ m \notin Txs
      /\ \A t \in Txs : t \in Threads /\ t # Operator
  BY OwnerAssumption DEF TypeOK, Threads
<1>1. ASSUME NEW th \in Mons \cup Txs, dispatchMonitorQueue(th) PROVE at'[Operator] = at[Operator]
  <2>1. CASE StartMonitor(th)
    <3>1. Goto(th, 72, Return(th))
      BY <2>1 DEF StartMonitor
    <3>2. QED
      BY <1>0, <3>1, SharedLines, GotoMoves, OthersStay
  <2>2. CASE Toggles(th)
    BY <1>0, <2>2, TogglesTypes, OthersStay
  <2>3. QED
    BY <1>1, <2>1, <2>2, Zenon DEF dispatchMonitorQueue, Toggles
<1>2. ASSUME NEW m \in Mons, Requests(m) PROVE at'[Operator] = at[Operator]
  BY <1>0, <1>2, RequestsTypes, OthersStay
<1>3. ASSUME NEW m \in Mons, StartTransmitter(m) PROVE at'[Operator] = at[Operator]
  BY <1>0, <1>3 DEF StartTransmitter, PlacesOK
<1>4. ASSUME NEW th \in Mons \cup Txs, setUpJt9(th) PROVE at'[Operator] = at[Operator]
  BY <1>0, <1>4, SetUpTypes, OthersStay
<1>5. ASSUME NEW m \in Mons, OnTickStatement(m) PROVE at'[Operator] = at[Operator]
  BY <1>0, <1>5, OnTickTypes, OthersStay
<1>6. ASSUME NEW m \in Mons, GiveBack(m) PROVE at'[Operator] = at[Operator]
  BY <1>0, <1>6 DEF GiveBack, Goto, PlacesOK
<1>7. ASSUME NEW m \in Mons, MonitorWorker(m) PROVE at'[Operator] = at[Operator]
  BY <1>7, MonitorTypes DEF TypeOK
<1>8. ASSUME NEW t \in Txs, generateTonesForMessage(t) \/ OnAirWorker(t)
      PROVE  at'[Operator] = at[Operator]
  BY <1>0, <1>8, OnAirTypes, OthersStay DEF TypeOK
<1>9. ASSUME NEW t \in Txs, OnTick2Statement(t) PROVE at'[Operator] = at[Operator]
  BY <1>0, <1>9, OnTick2Types, OthersStay
<1>10. /\ \A m \in Mons : m \in Mons \cup Txs
       /\ \A t \in Txs : t \in Mons \cup Txs
  OBVIOUS
<1>11. QED
  BY <1>1, <1>2, <1>3, <1>4, <1>5, <1>6, <1>7, <1>8, <1>9, <1>10, Calls, Zenon
  DEF Workers, TransmitWorker

\* What begins with a heard line or a click on one.
LEMMA OnlyByALine ==
  ASSUME TypeOK, ExchangeNext, at'[Operator] \in {494, 535}, at'[Operator] # at[Operator]
  PROVE  \/ at'[Operator] = 494 /\ \E i \in 0 .. Last : SayLine(i)
         \/ at'[Operator] = 535 /\ HearAnswer
<1>0. at \in [Threads -> Nat] /\ Operator \in Threads /\ Return(Operator) = 0
  BY OwnerAssumption DEF TypeOK, PlacesOK, Threads, Return
<1>1. CASE startQSOWithThisGuy \/ ExchangeMorse \/ NextSecond
  BY <1>1 DEF startQSOWithThisGuy, vars, ExchangeMorse, MorseSent, MorseCut, NextSecond, Tick
<1>2. ASSUME NEW i \in 0 .. Last, SayLine(i) PROVE at'[Operator] \in {494, 496}
  BY <1>2 DEF SayLine
<1>3. CASE HearAnswer
  BY <1>0, <1>3 DEF HearAnswer, HearLine, Sets, Goto
<1>4. CASE Press
  BY <1>0, <1>4 DEF Press, Button, record48SecondsAndDecode, transmitMessage,
                    killAllViaTransmitQueue, Sets, Goto
<1>5. CASE ExchangeHandler
  <2>1. CASE KillTheRest \/ AnswerLine \/ checkFor73
    <3>1. KillTheRest => at'[Operator] \in {0, 280, 281, 282, 284}
      <4>1. KillTheRest => \/ Goto(Operator, 279, 280) \/ Goto(Operator, 280, 281)
                           \/ Goto(Operator, 281, 282) \/ Goto(Operator, 282, 284)
                           \/ Goto(Operator, 284, 0)
        BY Zenon DEF KillTheRest, Sets
      <4>2. QED
        BY <1>0, <4>1 DEF Goto
    <3>2. AnswerLine => at'[Operator] \in {0, 153}
      BY <1>0 DEF AnswerLine, Sets, Goto
    <3>3. checkFor73 => at'[Operator] = 0
      BY <1>0 DEF checkFor73, Sets, Goto
    <3>4. QED
      BY <2>1, <3>1, <3>2, <3>3
  <2>2. CASE dispatchTransmitQueue(Operator)
    <3>1. CASE dispatchMonitorQueue(Operator)
      BY <1>0, <3>1 DEF dispatchMonitorQueue, DisableMonitor, StartMonitor, Sets, Goto
    <3>2. CASE Requests(Operator)
      BY <1>0, <3>2 DEF Requests, Test, Sets, Goto
    <3>3. CASE StartTransmitter(Operator)
      BY <1>0, <3>3, OwnerAssumption DEF StartTransmitter
    <3>4. QED
      BY <2>2, <3>1, <3>2, <3>3, Calls
  <2>3. QED
    BY <1>5, <2>1, <2>2, Zenon DEF ExchangeHandler, Dispatch, Answer
<1>6. CASE \/ \E m \in Mons : ExchangeMonitor(m) \/ EndRecording(m)
           \/ \E t \in Txs : ExchangeTransmitter(t)
  <2>1. ASSUME NEW m \in Mons, ExchangeMonitor(m) \/ EndRecording(m) PROVE Workers
    BY <2>1 DEF Workers, ExchangeMonitor, EndRecording
  <2>2. ASSUME NEW t \in Txs, ExchangeTransmitter(t) PROVE Workers
    BY <2>2 DEF Workers, ExchangeTransmitter, KeyMessage, EndTransmission, TransmitWorker
  <2>3. QED
    BY <1>6, <2>1, <2>2, MainElsewhere
<1>7. QED
  BY <1>1, <1>2, <1>3, <1>4, <1>5, <1>6 DEF ExchangeNext, ExchangeOperator, ExchangeRest, Click

\* What takes a worker to the air.
LEMMA OnlyKeyMessage ==
  ASSUME TypeOK, ExchangeNext, NEW t \in Txs, at[t] = 216, at'[t] # 216
  PROVE  KeyMessage(t)
<1>0. at[t] \notin {0} \cup SetUpLines \cup MonitorQueueLines
  BY DEF SetUpLines, MonitorQueueLines
<1> DEFINE Others == \E u \in Txs \ {t} : generateTonesForMessage(u) \/ OnAirWorker(u)
                                            \/ OnTick2Statement(u)
<1>1. ~(startQSOWithThisGuy \/ ExchangeMorse \/ NextSecond)
  BY DEF startQSOWithThisGuy, vars, ExchangeMorse, MorseSent, MorseCut, NextSecond, Tick
<1>2. ~MainStatement
  BY <1>0, Elsewhere
<1>3. ~ \E th \in Threads : dispatchMonitorQueue(th)
  BY <1>0, Elsewhere
<1>4. ~ \E th \in Mons \cup {Operator} : Requests(th) \/ StartTransmitter(th)
  BY <1>0, Elsewhere
<1>5. ~ \E th \in Mons \cup Txs : setUpJt9(th)
  BY <1>0, Elsewhere
<1>6. ~ \E m \in Mons : MonitorWorker(m) \/ OnTickStatement(m) \/ GiveBack(m)
  BY <1>0, Elsewhere
<1>7. ~Others
  BY <1>0, Elsewhere
<1>8. ~OnAirWorker(t) /\ ~OnTick2Statement(t)
  BY Froms DEF OnAirWorker, TransmitWait, EndTransmitWait, Sign, clickPttOn, Play, EndOfSlot,
               StopPlayer, clickPttOff, Test, Sets, Goto
<1>9. /\ Operator \in Threads /\ Operator \in Mons \cup {Operator}
      /\ \A m \in Mons : m \in Threads /\ m \in Mons \cup {Operator} /\ m \in Mons \cup Txs
      /\ \A u \in Txs : u \in Threads /\ u \in Mons \cup Txs
  BY DEF Threads
<1>10. ~(Click \/ Press \/ HearAnswer \/ ExchangeHandler)
  <2>1. ~(\E i \in 0 .. Last : SayLine(i)) /\ ~Press /\ ~HearAnswer
    BY <1>2, Zenon DEF SayLine, Press, Button, HearAnswer, MainStatement
  <2>2. ~dispatchTransmitQueue(Operator)
    BY <1>3, <1>4, <1>9, Calls
  <2>3. ~ExchangeHandler
    BY <1>2, <2>2, Zenon DEF ExchangeHandler, Dispatch, Answer, MainStatement
  <2>4. QED
    BY <1>1, <2>1, <2>3 DEF Click
<1>11. ASSUME NEW m \in Mons PROVE ~ExchangeMonitor(m) /\ ~EndRecording(m)
  <2>1. m \in Threads /\ m \in Mons \cup {Operator} /\ m \in Mons \cup Txs
    BY <1>9
  <2>2. ~onTick(m)
    BY <1>3, <1>4, <1>5, <1>6, <2>1, Calls
  <2>3. QED
    BY <1>6, <2>2 DEF ExchangeMonitor, EndRecording
<1>12. ASSUME NEW u \in Txs, ExchangeTransmitter(u) PROVE KeyMessage(t)
  <2>1. ~setUpJt9(u) /\ ~dispatchMonitorQueue(u)
    BY <1>3, <1>5, <1>9
  <2>2. CASE u = t
    BY <1>8, <1>12, <2>1, <2>2, Calls DEF ExchangeTransmitter, EndTransmission
  <2>3. CASE u # t
    <3>1. ~generateTonesForMessage(u) /\ ~OnAirWorker(u) /\ ~OnTick2Statement(u)
      BY <1>7, <2>3
    <3>2. QED
      BY <1>12, <2>1, <3>1, Calls DEF ExchangeTransmitter, EndTransmission, KeyMessage
  <2>4. QED
    BY <2>2, <2>3
<1> HIDE DEF Others
<1>13. QED
  BY <1>1, <1>10, <1>11, <1>12 DEF ExchangeNext, ExchangeOperator, ExchangeRest

-----------------------------------------------------------------------------
(* A contact that ends by itself has had its 73 on the air.                *)

\* A line goes on the air, or one is clicked or heard, or the sequence moves on
\* or stays.
Goes ==
  /\ UNCHANGED <<built, sent>>
  /\ toggleXmitSequence \/ UNCHANGED <<count, message>>

LEMMA ContactSays ==
  ASSUME ExchangeNext
  PROVE  \/ startQSOWithThisGuy \/ HearAnswer \/ Goes
         \/ \E i \in 0 .. Last : SayLine(i)
         \/ \E t \in Txs : KeyMessage(t)
<1>1. NothingSaid => Goes
  BY DEF NothingSaid, Goes
<1>2. Answer => Goes
  BY DEF Answer, Goes
<1>3. NextSecond => Goes
  BY DEF NextSecond, Goes
<1>4. ASSUME NEW m, EndRecording(m) PROVE Goes
  BY <1>4 DEF EndRecording, Goes
<1>5. ASSUME NEW t, EndTransmission(t) PROVE Goes
  BY <1>5 DEF EndTransmission, Goes
<1>6. Press \/ ExchangeHandler \/ ExchangeMorse => Goes
  BY <1>1, <1>2 DEF Press, ExchangeHandler, Dispatch, ExchangeMorse
<1>7. ASSUME NEW m, ExchangeMonitor(m) PROVE Goes
  BY <1>1, <1>7 DEF ExchangeMonitor
<1>8. ASSUME NEW t, ExchangeTransmitter(t) PROVE Goes \/ KeyMessage(t)
  BY <1>1, <1>5, <1>8 DEF ExchangeTransmitter
<1>9. QED
  BY <1>3, <1>4, <1>6, <1>7, <1>8 DEF ExchangeNext, ExchangeOperator, ExchangeRest, Click

Carried ==
  /\ OnTheAir /\ g.sent73 => sent = Last
  /\ at[Operator] = 494 => message = Last /\ count >= Last /\ (OnTheAir => sent = Last)

LEMMA AirKept ==
  ASSUME TypeOK, ExchangeNext, ~ \E t \in Txs : KeyMessage(t)
  PROVE  /\ OnTheAir' => OnTheAir
         /\ g'.sent73 => g.sent73 \/ at[Operator] = 494
<1>1. ASSUME NEW t \in Txs PROVE ~generateTonesForMessage(t)
  <2>1. generateTonesForMessage(t) => at[t] = 216 /\ at'[t] = 217
    BY DEF generateTonesForMessage, Sets, Goto, TypeOK, PlacesOK, Threads
  <2>2. QED
    BY <2>1, OnlyKeyMessage
<1>2. [Next]_vars
  BY ContactStep
<1>3. ASSUME NEW t \in Txs, InTheAir(t)' PROVE InTheAir(t)
  BY <1>1, <1>2, <1>3, TakesToTheAir
<1>4. OnTheAir' => OnTheAir
  <2>1. OnTheAir' => \E t \in Txs : InTheAir(t)'
    BY DEF OnTheAir, InTransmission, InTheAir, KeyingLines, OnAirLines, ClosingLines,
       SetUpLines, MonitorQueueLines
  <2>2. QED
    BY <1>3, <2>1, OnTheAirIs
<1>5. checkFor73 => at[Operator] = 494 \/ ~g'.sent73
  BY DEF checkFor73, Sets, Goto, TypeOK, Settings
<1>6. HearLine \/ chooseThisThingToSay => g'.sent73 = g.sent73
  <2>1. HearLine \/ chooseThisThingToSay => g' = [g EXCEPT !.qsoInProgress = TRUE]
    BY Zenon DEF HearLine, chooseThisThingToSay, Sets
  <2>2. QED
    BY <2>1 DEF TypeOK, Settings
<1>7. QED
  BY <1>1, <1>2, <1>4, <1>5, <1>6, ContactTouches DEF Untouched

LEMMA CarriedInductive ==
  ASSUME TypeOK, ExchangeTypeOK, Carried, [ExchangeNext]_<<vars, exchange>>
  PROVE  Carried'
<1>1. CASE startQSOWithThisGuy
  BY <1>1 DEF startQSOWithThisGuy, Hasty, OnTheAir, InTransmission, Carried, vars
<1>2. ASSUME NEW i \in 0 .. Last, SayLine(i), ~ \E t \in Txs : KeyMessage(t) PROVE Carried'
  <2>1. /\ at[Operator] = 0 /\ message' = i /\ count' = i
        /\ at'[Operator] = 494 => i = Last
        /\ OnTheAir => sent' = Last
    BY <1>2 DEF SayLine, chooseThisThingToSay, Sets, Goto, Hasty
  <2>2. QED
    BY <1>2, <2>1, AirKept DEF Carried, ExchangeNext, ExchangeOperator, Click, Last
<1>3. CASE HearAnswer /\ ~ \E t \in Txs : KeyMessage(t)
  <2>1. at[Operator] = 0 /\ at'[Operator] = 535 /\ (OnTheAir => sent' = sent)
    BY <1>3 DEF HearAnswer, HearLine, Sets, Goto, TypeOK, PlacesOK, Threads
  <2>2. ExchangeNext
    BY <1>3 DEF ExchangeNext, ExchangeRest
  <2>3. QED
    BY <1>3, <2>1, <2>2, AirKept DEF Carried
<1>4. ASSUME NEW t \in Txs, KeyMessage(t) PROVE Carried'
  <2>1. Workers
    BY <1>4 DEF KeyMessage, Workers, TransmitWorker
  <2>2. at'[Operator] = at[Operator]
    BY <2>1, MainElsewhere
  <2>3. sent' = message /\ UNCHANGED <<count, message>> /\ g'.sent73 = (message = Last)
    BY <1>4 DEF KeyMessage
  <2>4. QED
    BY <2>2, <2>3 DEF Carried
<1>5. CASE ExchangeNext /\ Goes /\ (~ \E t \in Txs : KeyMessage(t))
           /\ ~ \E i \in 0 .. Last : SayLine(i)
  <2>1. at'[Operator] = 494 => at[Operator] = 494
    BY <1>5, OnlyByALine
  <2>2. message = Last /\ count >= Last => message' = Last /\ count' >= Last
    BY <1>5 DEF Goes, toggleXmitSequence, ExchangeTypeOK, Last
  <2>3. sent' = sent
    BY <1>5 DEF Goes
  <2>4. QED
    BY <1>5, <2>1, <2>2, <2>3, AirKept DEF Carried
<1>6. CASE UNCHANGED <<vars, exchange>>
  BY <1>6 DEF vars, exchange, OnTheAir, InTransmission, Carried
<1>7. QED
  BY <1>1, <1>2, <1>3, <1>4, <1>5, <1>6, ContactSays

\* A contact that ends by itself has had its 73 on the air (EndsWith73), however
\* the operator's clicks fall between the statements of the workers.
THEOREM ContactEndsWith73 == ExchangeSpec => EndsWith73
<1>1. Init => Carried
  BY OwnerAssumption DEF Init, Carried, OnTheAir, InTransmission, KeyingLines, OnAirLines,
     ClosingLines, SetUpLines, MonitorQueueLines, Threads
<1>2. ASSUME TypeOK, Carried, NEW t \in Txs, EndQso(t), g.qsoInProgress, ~g'.qsoInProgress
      PROVE  sent = Last
  <2>1. at[t] = 253 /\ g' = [g EXCEPT !.qsoInProgress = @ /\ ~g.sent73]
    BY <1>2 DEF EndQso, Sets, Goto
  <2>2. InTheAir(t)
    BY <2>1 DEF InTheAir, ClosingLines
  <2>3. g.sent73
    BY <1>2, <2>1 DEF TypeOK, Settings
  <2>4. QED
    BY <1>2, <2>2, <2>3, OnTheAirIs DEF Carried
<1>3. TypeOK /\ ExchangeTypeOK /\ Carried /\ [ExchangeNext]_<<vars, exchange>> => Carried'
  BY CarriedInductive
<1>4. TypeOK /\ Carried
        => [\A t \in Txs : EndQso(t) /\ g.qsoInProgress /\ ~g'.qsoInProgress
                           => sent = Last]_<<vars, exchange>>
  BY <1>2
<1>5. QED
  BY <1>1, <1>3, <1>4, ContactImplementsWorkers, TypeCorrect, ContactTypeCorrect, PTL
  DEF ExchangeSpec, EndsWith73

=============================================================================
