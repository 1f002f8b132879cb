----------------------- MODULE TransmitReceiveProofs -----------------------
(***************************************************************************)
(* Proofs that the invariants of TransmitReceive hold for any number of    *)
(* workers, any length of the minute and of the slot, and workers that     *)
(* sleep through any number of clock ticks.                                *)
(***************************************************************************)
EXTENDS TransmitReceive, TLAPS

-----------------------------------------------------------------------------
(* The steps, one group for each method and each block.                    *)

\* The statements of the two blocks themselves, without those of the methods
\* they call.
OnTickStatement(m) ==
  \/ TickOver(m) /\ Sets(m, 0, 122, g)
  \/ Test(m, 122, 124, ~g.monitoring \/ g.killAll, 128)
  \/ Sets(m, 124, 133, Shows(FALSE, 0))
  \/ Sets(m, 128, 378, Shows(TRUE, 0))
  \/ Test(m, 131, 153, g.qsoInProgress, 133)

OnTick2Statement(t) ==
  \/ Sets(t, 242, 249, IF g.transmitting THEN Shows(TRUE, 2) ELSE Shows(FALSE, 0))
  \/ Sets(t, 249, 250, [g EXCEPT !.monitoring = FALSE])
  \/ Sets(t, 250, 251, [g EXCEPT !.monitorButton = TRUE])
  \/ Sets(t, 251, 252, [g EXCEPT !.transmitting = FALSE])
  \/ Sets(t, 252, 253, g)
  \/ EndQso(t)
  \/ LookAtKill(t)
  \/ Sets(t, 257, IF DecodeOwn THEN 378 ELSE 68, [g EXCEPT !.monitoring = FALSE])

\* The statements of dispatchTransmitQueue, without the call within it.
Requests(th) ==
  \/ Test(th, 153, 155, g.transmitting, 163)
  \/ Sets(th, 155, 156, [g EXCEPT !.transmitting = FALSE])
  \/ Sets(th, 156, 157, [g EXCEPT !.monitoring = FALSE])
  \/ Sets(th, 157, 158, [g EXCEPT !.transmitButton = FALSE])
  \/ Sets(th, 158, 68, [g EXCEPT !.monitorButton = TRUE])
  \/ Sets(th, 163, 164, [g EXCEPT !.transmitButton = TRUE])
  \/ Sets(th, 164, 166, [g EXCEPT !.killAll = FALSE])
  \/ Sets(th, 166, 172, [g EXCEPT !.transmitting = g.monitoring \/ ~@])
  \/ Sets(th, 172, 173, Shows(g.transmitting, 0))
  \/ Test(th, 173, 174, ~g.transmitting, 179)
  \/ Sets(th, 174, 175, [g EXCEPT !.monitoring = FALSE])
  \/ Sets(th, 175, 179, [g EXCEPT !.qsoInProgress = FALSE])
  \/ Test(th, 179, 181, g.transmitting, Return(th))

\* What only the main thread does.
MainStatement ==
  \/ record48SecondsAndDecode \/ transmitMessage \/ killAllViaTransmitQueue
  \/ HearLine \/ sendCallAfterNextTransmission \/ chooseThisThingToSay
  \/ KillTheRest \/ checkFor73 \/ AnswerLine

LEMMA Steps ==
  ASSUME [Next]_vars
  PROVE  \/ \E th \in Threads : dispatchMonitorQueue(th)
         \/ \E th \in Mons \cup {Operator} : Requests(th) \/ StartTransmitter(th)
         \/ \E th \in Mons \cup Txs : setUpJt9(th)
         \/ MainStatement
         \/ testPTT \/ startPlayer \/ quitPlayer
         \/ \E m \in Mons : MonitorWorker(m) \/ OnTickStatement(m) \/ GiveBack(m)
         \/ \E t \in Txs : generateTonesForMessage(t) \/ OnAirWorker(t)
                            \/ OnTick2Statement(t)
         \/ Audio \/ Tick \/ UNCHANGED vars
<1>1. ASSUME NEW th \in Threads, dispatchTransmitQueue(th)
      PROVE  dispatchMonitorQueue(th) \/ Requests(th) \/ StartTransmitter(th)
  BY <1>1, Zenon DEF dispatchTransmitQueue, Requests
<1>2. ASSUME NEW m \in Mons, onTick(m)
      PROVE  setUpJt9(m) \/ dispatchTransmitQueue(m) \/ OnTickStatement(m) \/ GiveBack(m)
  BY <1>2, Zenon DEF onTick, OnTickStatement
<1>3. ASSUME NEW t \in Txs, onTick2(t)
      PROVE  setUpJt9(t) \/ dispatchMonitorQueue(t) \/ OnTick2Statement(t)
  BY <1>3, Zenon DEF onTick2, OnTick2Statement
<1>4. /\ Operator \in Threads /\ Operator \in Mons \cup {Operator}
      /\ \A m \in Mons : m \in Threads /\ m \in Mons \cup {Operator} /\ m \in Mons \cup Txs
      /\ \A t \in Txs : t \in Threads /\ t \in Mons \cup Txs
  BY DEF Threads
<1>5. CASE Event \/ Aside
  BY <1>5, Zenon DEF Event, Button, Aside, MainStatement
<1>6. CASE Handler
  BY <1>1, <1>4, <1>6, Zenon DEF Handler, MainStatement
<1>7. CASE Workers
  BY <1>1, <1>2, <1>3, <1>4, <1>7, Zenon DEF Workers, TransmitWorker
<1>8. QED
  BY <1>5, <1>6, <1>7, Zenon DEF Next

-----------------------------------------------------------------------------
(* The types.                                                              *)

\* The colours there are, and the calls that show the two that matter.
LEMMA LightColours ==
  ASSUME NEW onOff, NEW recWait
  PROVE  /\ setRecordState(onOff, recWait) \in {"none", "yellow", "red"}
         /\ recWait # 1 => setRecordState(onOff, recWait) # "yellow"
         /\ recWait # 3 => setRecordState(onOff, recWait) # "red"
         /\ ~onOff => setRecordState(onOff, recWait) = "none"
BY DEF setRecordState

LEMMA ShownSettings ==
  ASSUME g \in Settings, NEW onOff, NEW recWait
  PROVE  Shows(onOff, recWait) \in Settings
BY LightColours DEF Shows, Settings

\* The places of each thread.
Lines(th) == {0} \cup (IF th = Operator THEN MainLines
                       ELSE IF th \in Mons THEN OnTickLines ELSE TransmitLines)

LEMMA SharedLines ==
  ASSUME NEW th \in Threads
  PROVE  /\ MonitorQueueLines \cup {Return(th)} \subseteq Lines(th)
         /\ th \notin Txs => TransmitQueueLines \subseteq Lines(th)
         /\ th # Operator => SetUpLines \cup {AfterSetUp(th)} \subseteq Lines(th)
         /\ Lines(th) \subseteq Nat
BY OwnerAssumption
   DEF Lines, Threads, Return, AfterSetUp, MonitorQueueLines, TransmitQueueLines, SetUpLines,
       MainLines, KillLines, OnTickLines, TransmitLines, WaitLines, KeyingLines, OnAirLines,
       ClosingLines

LEMMA WorkersLines ==
  /\ \A m \in Mons : m \in Threads /\ Lines(m) = {0} \cup OnTickLines
  /\ \A t \in Txs : t \in Threads /\ Lines(t) = {0} \cup TransmitLines
  /\ Operator \in Threads /\ Lines(Operator) = {0} \cup MainLines
BY OwnerAssumption DEF Lines, Threads

\* A step of one thread to one of its places...
Moves(th) == \E to \in Lines(th) : at' = [at EXCEPT ![th] = to]

LEMMA GotoMoves ==
  ASSUME NEW th, NEW from, NEW to \in Lines(th), Goto(th, from, to)
  PROVE  Moves(th) /\ at[th] = from
BY DEF Goto, Moves

\* ... that changes nothing but its place and the settings.
Quiet == UNCHANGED <<sec, mem, mon, rec, ticks, keyedBy, player, cwTime>>

LEMMA Places ==
  ASSUME PlacesOK, NEW th \in Threads, Moves(th)
  PROVE  PlacesOK'
<1>1. PICK to \in Lines(th) : at' = [at EXCEPT ![th] = to]
  BY DEF Moves
<1>2. at' \in [Threads -> Nat]
  BY <1>1, SharedLines DEF PlacesOK
<1>3. \A x \in Threads : at'[x] = IF x = th THEN to ELSE at[x]
  BY <1>1 DEF PlacesOK
<1>4. /\ Operator \in Threads /\ \A m \in Mons : m \in Threads /\ m # Operator
      /\ \A t \in Txs : t \in Threads /\ t # Operator /\ t \notin Mons
  BY OwnerAssumption DEF Threads
<1>5. QED
  BY <1>2, <1>3, <1>4, Zenon DEF PlacesOK, Lines

LEMMA QuietTypes ==
  ASSUME TypeOK, NEW th \in Threads, Moves(th), g' \in Settings, Quiet
  PROVE  TypeOK'
BY Places, Zenon DEF TypeOK, Quiet

-----------------------------------------------------------------------------
(* Where the steps lead, and that they keep the type of the settings.      *)

LEMMA RequestsTypes ==
  ASSUME g \in Settings, NEW th \in Mons \cup {Operator}, Requests(th)
  PROVE  th \in Threads /\ at[th] # 0 /\ Moves(th) /\ g' \in Settings /\ Quiet
<1>1. th \in Threads /\ th \notin Txs
  BY OwnerAssumption DEF Threads
<1>2. \/ Goto(th, 153, 155) \/ Goto(th, 153, 163) \/ Goto(th, 155, 156) \/ Goto(th, 156, 157)
      \/ Goto(th, 157, 158) \/ Goto(th, 158, 68) \/ Goto(th, 163, 164) \/ Goto(th, 164, 166)
      \/ Goto(th, 166, 172) \/ Goto(th, 172, 173) \/ Goto(th, 173, 174) \/ Goto(th, 173, 179)
      \/ Goto(th, 174, 175) \/ Goto(th, 175, 179) \/ Goto(th, 179, 181)
      \/ Goto(th, 179, Return(th))
  BY DEF Requests, Test, Sets
<1>3. {68, 155, 156, 157, 158, 163, 164, 166, 172, 173, 174, 175, 179, 181, Return(th)}
         \subseteq Lines(th)
  BY <1>1, SharedLines DEF TransmitQueueLines, MonitorQueueLines
<1>4. at[th] # 0 /\ Moves(th)
  BY <1>2, <1>3, GotoMoves
<1>5. Shows(g.transmitting, 0) \in Settings
  BY ShownSettings
<1>6. g' \in Settings
  BY <1>5 DEF Requests, Test, Sets, Settings
<1>7. Quiet
  BY DEF Requests, Test, Sets, Quiet
<1>8. QED
  BY <1>1, <1>4, <1>6, <1>7

LEMMA SetUpTypes ==
  ASSUME g \in Settings, NEW th \in Mons \cup Txs, setUpJt9(th)
  PROVE  th \in Threads /\ at[th] # 0 /\ Moves(th) /\ g' \in Settings /\ Quiet
<1>1. th \in Threads /\ th # Operator
  BY OwnerAssumption DEF Threads
<1>2. \/ Goto(th, 378, 384) \/ Goto(th, 384, 385) \/ Goto(th, 385, 386)
      \/ Goto(th, 378, AfterSetUp(th)) \/ Goto(th, 386, AfterSetUp(th))
  BY DEF setUpJt9, Test, Sets
<1>3. {384, 385, 386, AfterSetUp(th)} \subseteq Lines(th)
  BY <1>1, SharedLines DEF SetUpLines
<1>4. at[th] # 0 /\ Moves(th)
  BY <1>2, <1>3, GotoMoves
<1>5. g' \in Settings /\ Quiet
  BY DEF setUpJt9, Test, Sets, Settings, Quiet
<1>6. QED
  BY <1>1, <1>4, <1>5

LEMMA OnTickTypes ==
  ASSUME g \in Settings, NEW m \in Mons, OnTickStatement(m)
  PROVE  (at[m] # 0 \/ ticks[m] > 0) /\ Moves(m) /\ g' \in Settings /\ Quiet
<1>1. \/ Goto(m, 0, 122) /\ ticks[m] > 0
      \/ Goto(m, 122, 124) \/ Goto(m, 122, 128) \/ Goto(m, 124, 133) \/ Goto(m, 128, 378)
      \/ Goto(m, 131, 153) \/ Goto(m, 131, 133)
  BY DEF OnTickStatement, TickOver, Test, Sets
<1>2. {122, 124, 128, 133, 153, 378} \subseteq Lines(m)
  BY WorkersLines DEF OnTickLines, TransmitQueueLines, SetUpLines
<1>3. (at[m] # 0 \/ ticks[m] > 0) /\ Moves(m)
  BY <1>1, <1>2, GotoMoves
<1>4. Shows(FALSE, 0) \in Settings /\ Shows(TRUE, 0) \in Settings
  BY ShownSettings
<1>5. g' \in Settings /\ Quiet
  BY <1>4 DEF OnTickStatement, Test, Sets, Quiet
<1>6. QED
  BY <1>3, <1>5

LEMMA OnTick2Types ==
  ASSUME g \in Settings, NEW t \in Txs, OnTick2Statement(t)
  PROVE  Moves(t) /\ g' \in Settings /\ Quiet
<1>1. \/ Goto(t, 242, 249) \/ Goto(t, 249, 250) \/ Goto(t, 250, 251) \/ Goto(t, 251, 252)
      \/ Goto(t, 252, 253) \/ Goto(t, 253, 254) \/ Goto(t, 254, 257) \/ Goto(t, 254, 0)
      \/ Goto(t, 257, 378) \/ Goto(t, 257, 68)
  BY DEF OnTick2Statement, EndQso, LookAtKill, Test, Sets
<1>2. {0, 68, 249, 250, 251, 252, 253, 254, 257, 378} \subseteq Lines(t)
  BY WorkersLines DEF TransmitLines, ClosingLines, MonitorQueueLines, SetUpLines
<1>3. Moves(t)
  BY <1>1, <1>2, GotoMoves
<1>4. Shows(FALSE, 0) \in Settings /\ Shows(TRUE, 2) \in Settings
  BY ShownSettings
<1>5. g' \in Settings
  BY <1>4 DEF OnTick2Statement, EndQso, LookAtKill, Test, Sets, Settings
<1>6. Quiet
  BY DEF OnTick2Statement, EndQso, LookAtKill, Test, Sets, Quiet
<1>7. QED
  BY <1>3, <1>5, <1>6

LEMMA MainTypes ==
  ASSUME g \in Settings, mem \in BOOLEAN, MainStatement
  PROVE  /\ Moves(Operator) /\ g' \in Settings /\ mem' \in BOOLEAN
         /\ UNCHANGED <<sec, mon, rec, ticks, keyedBy, player, cwTime>>
<1> USE DEF MainStatement, record48SecondsAndDecode, transmitMessage, killAllViaTransmitQueue,
            HearLine, sendCallAfterNextTransmission, chooseThisThingToSay, KillTheRest,
            checkFor73, AnswerLine
<1>1. \/ Goto(Operator, 0, 68) \/ Goto(Operator, 0, 153) \/ Goto(Operator, 0, 279)
      \/ Goto(Operator, 0, 535) \/ Goto(Operator, 0, 0) \/ Goto(Operator, 0, 494)
      \/ Goto(Operator, 0, 496) \/ Goto(Operator, 279, 280) \/ Goto(Operator, 280, 281)
      \/ Goto(Operator, 281, 282) \/ Goto(Operator, 282, 284) \/ Goto(Operator, 284, 0)
      \/ Goto(Operator, 494, 0) \/ Goto(Operator, 496, 0) \/ Goto(Operator, 535, 153)
      \/ Goto(Operator, 535, 0)
  BY DEF Sets
<1>2. {0, 68, 153, 279, 280, 281, 282, 284, 494, 496, 535} \subseteq Lines(Operator)
  BY WorkersLines DEF MainLines, KillLines, TransmitQueueLines, MonitorQueueLines
<1>3. Moves(Operator)
  BY <1>1, <1>2, GotoMoves
<1>4. Shows(FALSE, 0) \in Settings
  BY ShownSettings
<1>5. g' \in Settings
  <2>1. \/ g' = g \/ g' = [g EXCEPT !.monitoring = FALSE] \/ g' = [g EXCEPT !.transmitting = FALSE]
        \/ g' = [g EXCEPT !.killAll = TRUE] \/ g' = [g EXCEPT !.monitorButton = TRUE]
        \/ g' = [g EXCEPT !.sendCall = TRUE] \/ g' = Shows(FALSE, 0)
        \/ \E b \in BOOLEAN : g' = [g EXCEPT !.qsoInProgress = b] \/ g' = [g EXCEPT !.sent73 = b]
    BY Zenon DEF Sets
  <2>2. QED
    BY <1>4, <2>1 DEF Settings
<1>6. mem' \in BOOLEAN /\ UNCHANGED <<sec, mon, rec, ticks, keyedBy, player, cwTime>>
  BY DEF setUpAndAttachSharedMemory, Sets
<1>7. QED
  BY <1>3, <1>5, <1>6

\* Everything dispatchMonitorQueue does apart from starting a worker.
Toggles(th) ==
  \/ Sets(th, 68, 69, [g EXCEPT !.monitoring = ~@])
  \/ Sets(th, 69, 70, [g EXCEPT !.killAll = FALSE])
  \/ Sets(th, 70, 71, Shows(g.monitoring, 0))
  \/ DisableMonitor(th)
  \/ /\ ~(g.monitoring /\ ~g.transmitting)
     /\ Sets(th, 72, Return(th), g)

LEMMA TogglesTypes ==
  ASSUME g \in Settings, PlacesOK, NEW th \in Threads, Toggles(th)
  PROVE  at[th] # 0 /\ Moves(th) /\ g' \in Settings /\ Quiet
<1>1. {69, 70, 71, 72, Return(th)} \subseteq Lines(th)
  BY SharedLines DEF MonitorQueueLines
<1>2. at[th] = 181 => 193 \in Lines(th)
  <2>1. at[th] = 181 => th \notin Txs
    BY DEF PlacesOK, TransmitLines, WaitLines, KeyingLines, OnAirLines, ClosingLines,
           SetUpLines, MonitorQueueLines
  <2>2. QED
    BY <2>1, SharedLines DEF TransmitQueueLines
<1>3. \/ Goto(th, 68, 69) \/ Goto(th, 69, 70) \/ Goto(th, 70, 71) \/ Goto(th, 71, 72)
      \/ Goto(th, 181, 193) \/ Goto(th, 72, Return(th))
  BY DEF Toggles, DisableMonitor, Sets
<1>4. at[th] # 0 /\ Moves(th)
  <2>1. CASE Goto(th, 181, 193)
    <3>1. at[th] = 181
      BY <2>1 DEF Goto
    <3>2. QED
      BY <1>2, <2>1, <3>1, GotoMoves
  <2>2. CASE ~Goto(th, 181, 193)
    BY <1>1, <1>3, <2>2, GotoMoves
  <2>3. QED
    BY <2>1, <2>2
<1>5. Shows(g.monitoring, 0) \in Settings
  BY ShownSettings
<1>6. g' \in Settings /\ Quiet
  BY <1>5 DEF Toggles, DisableMonitor, Sets, Settings, Quiet
<1>7. QED
  BY <1>4, <1>6

LEMMA StartTransmitterPlaces ==
  ASSUME PlacesOK, NEW th \in Mons \cup {Operator}, StartTransmitter(th)
  PROVE  PlacesOK'
<1>1. th \in Threads /\ Return(th) \in Lines(th)
  BY SharedLines DEF Threads
<1>2. PICK t \in Txs : at' = [at EXCEPT ![t] = 198, ![th] = Return(th)]
  BY DEF StartTransmitter
<1>3. t \in Threads /\ t # th /\ 198 \in Lines(t)
  BY OwnerAssumption, WorkersLines DEF TransmitLines, WaitLines
<1>4. at' \in [Threads -> Nat]
  BY <1>1, <1>2, <1>3, SharedLines DEF PlacesOK
<1>5. \A x \in Threads : at'[x] = IF x = th THEN Return(th) ELSE IF x = t THEN 198 ELSE at[x]
  BY <1>2, <1>3 DEF PlacesOK
<1>6. \A x \in Threads : at[x] \in Lines(x)
  BY WorkersLines DEF PlacesOK, Threads
<1>7. \A x \in Threads : at'[x] \in Lines(x)
  BY <1>1, <1>3, <1>5, <1>6
<1>8. QED
  BY <1>4, <1>7, WorkersLines DEF PlacesOK

LEMMA OnAirTypes ==
  ASSUME g \in Settings, cwTime \in BOOLEAN, keyedBy \in Txs \cup {Operator, NoOne},
         player \in {"off", "tones", "file"}, NEW t \in Txs,
         generateTonesForMessage(t) \/ OnAirWorker(t)
  PROVE  /\ Moves(t) /\ g' \in Settings /\ cwTime' \in BOOLEAN
         /\ keyedBy' \in Txs \cup {Operator, NoOne} /\ player' \in {"off", "tones", "file"}
         /\ UNCHANGED <<sec, mem, mon, rec, ticks>>
<1> USE DEF generateTonesForMessage, OnAirWorker, TransmitWait, EndTransmitWait, clickPttOn,
            Play, EndOfSlot, StopPlayer, clickPttOff, Test
<1>1. \/ Goto(t, 198, 202) \/ Goto(t, 198, 0) \/ Goto(t, 202, 203) \/ Goto(t, 203, 215)
      \/ Goto(t, 215, 216) \/ Goto(t, 215, 0) \/ Goto(t, 216, 217) \/ Goto(t, 217, 218)
      \/ Goto(t, 218, 219) \/ Goto(t, 219, 220) \/ Goto(t, 220, 224) \/ Goto(t, 224, 235)
      \/ Goto(t, 235, 238) \/ Goto(t, 238, 239) \/ Goto(t, 239, 240) \/ Goto(t, 240, 242)
  BY DEF Sign, Sets
<1>2. {0, 202, 203, 215, 216, 217, 218, 219, 220, 224, 235, 238, 239, 240, 242}
         \subseteq Lines(t)
  BY WorkersLines DEF TransmitLines, WaitLines, KeyingLines, OnAirLines, ClosingLines
<1>3. Moves(t)
  BY <1>1, <1>2, GotoMoves
<1>4. g' \in Settings
  <2>1. CASE Sign(t)
    <3>1. ((g.sent73 \/ g.sendCall) \/ g.morseNext) \in BOOLEAN
      OBVIOUS
    <3>2. QED
      BY <2>1, <3>1 DEF Sign, Settings
  <2>2. CASE ~Sign(t)
    <3>1. Shows(TRUE, 4) \in Settings /\ Shows(g.transmitting, 3) \in Settings
      BY ShownSettings
    <3>2. QED
      BY <2>2, <3>1 DEF Sets, Settings
  <2>3. QED
    BY <2>1, <2>2
<1>5. /\ cwTime' \in BOOLEAN /\ UNCHANGED <<sec, mem, mon, rec, ticks>>
      /\ keyedBy' \in {keyedBy, t, NoOne} /\ player' \in {player, "tones", "off"}
  BY DEF Sign, Sets
<1>6. QED
  BY <1>3, <1>4, <1>5

LEMMA MonitorTypes ==
  ASSUME g \in Settings, NEW m \in Mons, MonitorWorker(m),
         mon \in [Mons -> {0, 84, 91, 104, 105, 107, 137}], rec \in [Mons -> BOOLEAN],
         ticks \in [Mons -> Nat]
  PROVE  /\ g' \in Settings
         /\ mon' \in [Mons -> {0, 84, 91, 104, 105, 107, 137}]
         /\ rec' \in [Mons -> BOOLEAN] /\ ticks' \in [Mons -> Nat]
         /\ UNCHANGED <<sec, mem, at, keyedBy, player, cwTime>>
<1>1. g' \in Settings
  <2>1. Shows(g.monitoring, 1) \in Settings
    BY ShownSettings
  <2>2. g' = g \/ g' = Shows(g.monitoring, 1) \/ g' = [g EXCEPT !.transmitButton = FALSE]
    BY Zenon DEF MonitorWorker, RecordWait, StopMonitoring, EndRecordWait,
                 StartRecording, DispatchOnTick
  <2>3. [g EXCEPT !.transmitButton = FALSE] \in Settings
    BY DEF Settings
  <2>4. QED
    BY <2>1, <2>2, <2>3, Zenon
<1>2. mon' \in [Mons -> {0, 84, 91, 104, 105, 107, 137}]
  BY DEF MonitorWorker, RecordWait, StopMonitoring, EndRecordWait, MonitorAt,
         StartRecording, DispatchOnTick
<1>3. rec' \in [Mons -> BOOLEAN]
  BY DEF MonitorWorker, RecordWait, StopMonitoring, EndRecordWait,
         StartRecording, DispatchOnTick
<1>4. ticks' \in [Mons -> Nat]
  <2>1. ticks' = ticks \/ ticks' = [ticks EXCEPT ![m] = @ + 1]
    BY DEF MonitorWorker, RecordWait, StopMonitoring, EndRecordWait,
           StartRecording, DispatchOnTick
  <2>2. QED
    BY <2>1
<1>5. UNCHANGED <<sec, mem, at, keyedBy, player, cwTime>>
  BY Zenon DEF MonitorWorker, RecordWait, StopMonitoring, EndRecordWait,
               StartRecording, DispatchOnTick
<1>6. QED
  BY <1>1, <1>2, <1>3, <1>4, <1>5

-----------------------------------------------------------------------------
\* A worker is past its loop only while an onTick of its is counted, so that
\* giving back never counts below zero.
NoneLost == \A m \in Mons : at[m] # 0 => ticks[m] > 0

LEMMA QuietLosesNone ==
  ASSUME TypeOK, NoneLost, NEW th \in Threads, Moves(th), ticks' = ticks,
         th \in Mons => at[th] # 0 \/ ticks[th] > 0
  PROVE  NoneLost'
BY DEF TypeOK, PlacesOK, NoneLost, Moves, Threads

LEMMA TypesStep ==
  ASSUME TypeOK, NoneLost, [Next]_vars
  PROVE  TypeOK' /\ NoneLost'
<1>0. g \in Settings /\ PlacesOK
  BY DEF TypeOK
<1>1. ASSUME NEW th \in Threads, dispatchMonitorQueue(th) PROVE TypeOK' /\ NoneLost'
  <2>1. CASE StartMonitor(th)
    <3>0. Goto(th, 72, Return(th)) /\ ticks' = ticks
      BY <2>1, Zenon DEF StartMonitor
    <3>1. at[th] # 0 /\ Moves(th) /\ ticks' = ticks
      BY <3>0, SharedLines, GotoMoves
    <3>2. g' \in Settings
      BY <1>0, <2>1 DEF StartMonitor, Settings
    <3>3. mon' \in [Mons -> {0, 84, 91, 104, 105, 107, 137}] /\ rec' \in [Mons -> BOOLEAN]
      BY <2>1 DEF StartMonitor, TypeOK
    <3>4. UNCHANGED <<sec, mem, keyedBy, player, cwTime>>
      BY <2>1, Zenon DEF StartMonitor
    <3>5. PlacesOK'
      BY <1>0, <3>1, Places
    <3>6. QED
      BY <3>1, <3>2, <3>3, <3>4, <3>5, QuietLosesNone DEF TypeOK
  <2>2. CASE Toggles(th)
    BY <1>0, <2>2, TogglesTypes, QuietTypes, QuietLosesNone, Zenon DEF Quiet
  <2>3. QED
    BY <1>1, <2>1, <2>2, Zenon DEF dispatchMonitorQueue, Toggles
<1>2. ASSUME NEW th \in Mons \cup {Operator}, Requests(th) PROVE TypeOK' /\ NoneLost'
  BY <1>0, <1>2, RequestsTypes, QuietTypes, QuietLosesNone, Zenon DEF Quiet
<1>3. ASSUME NEW th \in Mons \cup {Operator}, StartTransmitter(th)
      PROVE  TypeOK' /\ NoneLost'
  <2>1. PlacesOK' /\ UNCHANGED <<sec, g, mem, mon, rec, ticks, keyedBy, player, cwTime>>
    BY <1>0, <1>3, StartTransmitterPlaces, Zenon DEF StartTransmitter
  <2>2. \A m \in Mons : at'[m] # 0 => at[m] # 0
    BY <1>0, <1>3, OwnerAssumption DEF StartTransmitter, PlacesOK, Threads
  <2>3. QED
    BY <2>1, <2>2, Zenon DEF TypeOK, NoneLost
<1>4. ASSUME NEW th \in Mons \cup Txs, setUpJt9(th) PROVE TypeOK' /\ NoneLost'
  BY <1>0, <1>4, SetUpTypes, QuietTypes, QuietLosesNone, Zenon DEF Quiet
<1>5. CASE MainStatement
  <2>1. /\ Moves(Operator) /\ g' \in Settings /\ mem' \in BOOLEAN
        /\ UNCHANGED <<sec, mon, rec, ticks, keyedBy, player, cwTime>>
    BY <1>0, <1>5, MainTypes, Zenon DEF TypeOK
  <2>2. Operator \in Threads /\ Operator \notin Mons
    BY OwnerAssumption DEF Threads
  <2>3. PlacesOK' /\ NoneLost'
    BY <1>0, <2>1, <2>2, Places, QuietLosesNone, Zenon
  <2>4. QED
    BY <2>1, <2>3, Zenon DEF TypeOK
<1>6. CASE testPTT \/ startPlayer \/ quitPlayer
  <2>1. UNCHANGED <<sec, g, mem, mon, rec, ticks, at, cwTime>>
    BY <1>6, Zenon DEF testPTT, startPlayer, quitPlayer
  <2>2. keyedBy' \in {keyedBy, NoOne, Operator} /\ player' \in {player, "file", "off"}
    BY <1>6 DEF testPTT, startPlayer, quitPlayer
  <2>3. QED
    BY <2>1, <2>2 DEF TypeOK, PlacesOK, NoneLost
<1>7. ASSUME NEW m \in Mons, MonitorWorker(m) PROVE TypeOK' /\ NoneLost'
  <2>1. /\ g' \in Settings
        /\ mon' \in [Mons -> {0, 84, 91, 104, 105, 107, 137}]
        /\ rec' \in [Mons -> BOOLEAN] /\ ticks' \in [Mons -> Nat]
        /\ UNCHANGED <<sec, mem, at, keyedBy, player, cwTime>>
    BY <1>7, MonitorTypes DEF TypeOK
  <2>2. ticks' = ticks \/ ticks' = [ticks EXCEPT ![m] = @ + 1]
    BY <1>7 DEF MonitorWorker, RecordWait, StopMonitoring, EndRecordWait,
                StartRecording, DispatchOnTick
  <2>3. NoneLost'
    BY <2>1, <2>2 DEF NoneLost, TypeOK
  <2>4. QED
    BY <2>1, <2>3, Zenon DEF TypeOK, PlacesOK
<1>8. ASSUME NEW m \in Mons, OnTickStatement(m) PROVE TypeOK' /\ NoneLost'
  BY <1>0, <1>8, OnTickTypes, WorkersLines, QuietTypes, QuietLosesNone, Zenon DEF Quiet
<1>9. ASSUME NEW m \in Mons, GiveBack(m) PROVE TypeOK' /\ NoneLost'
  <2>1. m \in Threads /\ at[m] = 133 /\ at' = [at EXCEPT ![m] = 0]
    BY <1>9, WorkersLines DEF GiveBack, Goto
  <2>2. PlacesOK'
    BY <1>0, <2>1, Places, SharedLines DEF Moves, Lines
  <2>3. ticks[m] > 0 /\ ticks' = [ticks EXCEPT ![m] = @ - 1]
    BY <1>9, <2>1 DEF GiveBack, NoneLost
  <2>4. ticks' \in [Mons -> Nat] /\ NoneLost'
    BY <2>1, <2>3, WorkersLines DEF TypeOK, PlacesOK, NoneLost
  <2>5. g' \in Settings /\ rec' \in [Mons -> BOOLEAN]
    BY <1>0, <1>9 DEF GiveBack, TypeOK, Settings
  <2>6. QED
    BY <1>9, <2>2, <2>4, <2>5, Zenon DEF GiveBack, TypeOK
<1>10. ASSUME NEW t \in Txs, generateTonesForMessage(t) \/ OnAirWorker(t)
       PROVE  TypeOK' /\ NoneLost'
  <2>1. /\ Moves(t) /\ g' \in Settings /\ cwTime' \in BOOLEAN
        /\ keyedBy' \in Txs \cup {Operator, NoOne} /\ player' \in {"off", "tones", "file"}
        /\ UNCHANGED <<sec, mem, mon, rec, ticks>>
    BY <1>0, <1>10, OnAirTypes DEF TypeOK
  <2>2. t \in Threads /\ t \notin Mons
    BY OwnerAssumption DEF Threads
  <2>3. PlacesOK' /\ NoneLost'
    BY <1>0, <2>1, <2>2, Places, QuietLosesNone, Zenon
  <2>4. QED
    BY <2>1, <2>3, Zenon DEF TypeOK
<1>11. ASSUME NEW t \in Txs, OnTick2Statement(t) PROVE TypeOK' /\ NoneLost'
  <2>1. t \in Threads /\ t \notin Mons
    BY OwnerAssumption DEF Threads
  <2>2. QED
    BY <1>0, <1>11, <2>1, OnTick2Types, QuietTypes, QuietLosesNone, Zenon DEF Quiet
<1>12. CASE Audio
  <2>1. g' \in Settings /\ player' \in {"off"} /\ cwTime' \in {cwTime, FALSE}
    BY <1>0, <1>12 DEF Audio, MorseSent, MorseCut, FileEnds, Settings
  <2>2. UNCHANGED <<sec, mem, mon, rec, ticks, at, keyedBy>>
    BY <1>12, Zenon DEF Audio, MorseSent, MorseCut, FileEnds
  <2>3. QED
    BY <2>1, <2>2 DEF TypeOK, PlacesOK, NoneLost
<1>13. CASE Tick
  <2>1. sec' \in 0 .. Minute - 1
    BY <1>13, ClockAssumption DEF Tick, TypeOK
  <2>2. UNCHANGED <<g, mem, mon, rec, ticks, at, keyedBy, player, cwTime>>
    BY <1>13, Zenon DEF Tick
  <2>3. QED
    BY <2>1, <2>2, Zenon DEF TypeOK, PlacesOK, NoneLost
<1>14. CASE UNCHANGED vars
  BY <1>14, Zenon DEF vars, TypeOK, PlacesOK, NoneLost
<1>15. QED
  BY <1>1, <1>2, <1>3, <1>4, <1>5, <1>6, <1>7, <1>8, <1>9, <1>10, <1>11, <1>12, <1>13,
     <1>14, Steps, Zenon

LEMMA TypesKept == Spec => [](TypeOK /\ NoneLost)
<1>1. Init => TypeOK /\ NoneLost
  <2> SUFFICES ASSUME Init PROVE TypeOK /\ NoneLost
    OBVIOUS
  <2>1. g \in Settings
    BY DEF Init, Settings
  <2>2. PlacesOK /\ NoneLost
    BY DEF Init, PlacesOK, NoneLost, Threads
  <2>3. QED
    BY <2>1, <2>2 DEF Init, TypeOK
<1>2. QED
  BY <1>1, TypesStep, PTL DEF Spec

\* Every variable keeps its type, and each thread is at a line of a handler
\* that runs on it.
THEOREM TypeCorrect == Spec => []TypeOK
BY TypesKept, PTL

-----------------------------------------------------------------------------
\* The line each statement of a group is at.
LEMMA Froms ==
  ASSUME NEW th
  PROVE  /\ dispatchMonitorQueue(th) => at[th] \in {68, 69, 70, 71, 72, 181}
         /\ Requests(th) => at[th] \in {153, 155, 156, 157, 158, 163, 164, 166, 172, 173,
                                        174, 175, 179}
         /\ setUpJt9(th) => at[th] \in {378, 384, 385, 386}
         /\ OnTickStatement(th) => at[th] \in {0, 122, 124, 128, 131}
         /\ OnTick2Statement(th) => at[th] \in {242, 249, 250, 251, 252, 253, 254, 257}
<1>1. dispatchMonitorQueue(th) => at[th] \in {68, 69, 70, 71, 72, 181}
  BY DEF dispatchMonitorQueue, DisableMonitor, StartMonitor, Sets, Goto
<1>2. Requests(th) => at[th] \in {153, 155, 156, 157, 158, 163, 164, 166, 172, 173,
                                  174, 175, 179}
  BY DEF Requests, Test, Sets, Goto
<1>3. setUpJt9(th) => at[th] \in {378, 384, 385, 386}
  BY DEF setUpJt9, Test, Sets, Goto
<1>4. OnTickStatement(th) => at[th] \in {0, 122, 124, 128, 131}
  BY DEF OnTickStatement, Test, Sets, Goto
<1>5. OnTick2Statement(th) => at[th] \in {242, 249, 250, 251, 252, 253, 254, 257}
  BY DEF OnTick2Statement, EndQso, LookAtKill, Test, Sets, Goto
<1>6. QED
  BY <1>1, <1>2, <1>3, <1>4, <1>5

\* The other threads stay where they are.
LEMMA OthersStay ==
  ASSUME PlacesOK, NEW th \in Threads, Moves(th)
  PROVE  \A x \in Threads : x # th => at'[x] = at[x]
BY DEF PlacesOK, Moves

LEMMA OthersStayBut ==
  ASSUME PlacesOK, NEW th \in Mons \cup {Operator}, StartTransmitter(th)
  PROVE  \A t \in Txs : at'[t] = at[t] \/ (at[t] = 0 /\ at'[t] = 198)
BY OwnerAssumption DEF PlacesOK, StartTransmitter, Threads

\* What happens between keying and the end of onTick2 happens on the worker's
\* own thread alone.
LEMMA Elsewhere ==
  ASSUME TypeOK, NEW t \in Txs, at[t] \notin {0} \cup SetUpLines \cup MonitorQueueLines,
         \/ \E th \in Threads : dispatchMonitorQueue(th)
         \/ \E th \in Mons \cup {Operator} : Requests(th) \/ StartTransmitter(th)
         \/ \E th \in Mons \cup Txs : setUpJt9(th)
         \/ MainStatement
         \/ testPTT \/ startPlayer \/ quitPlayer
         \/ \E m \in Mons : MonitorWorker(m) \/ OnTickStatement(m) \/ GiveBack(m)
         \/ \E u \in Txs \ {t} : generateTonesForMessage(u) \/ OnAirWorker(u)
                                  \/ OnTick2Statement(u)
         \/ Audio \/ Tick \/ UNCHANGED vars
  PROVE  at'[t] = at[t]
<1>0. g \in Settings /\ mem \in BOOLEAN /\ PlacesOK
  BY DEF TypeOK
<1>1. t \in Threads /\ t \notin Mons /\ t # Operator
  BY OwnerAssumption DEF Threads
<1>2. at[t] \notin {68, 69, 70, 71, 72, 181, 378, 384, 385, 386}
  BY <1>1 DEF TypeOK, PlacesOK, SetUpLines, MonitorQueueLines, TransmitLines, WaitLines,
              KeyingLines, OnAirLines, ClosingLines
<1>3. ASSUME NEW th \in Threads, dispatchMonitorQueue(th) PROVE at'[t] = at[t]
  <2>1. th # t
    BY <1>2, <1>3, Froms
  <2>2. CASE StartMonitor(th)
    <3>1. Goto(th, 72, Return(th))
      BY <2>2 DEF StartMonitor
    <3>2. QED
      BY <1>0, <1>1, <2>1, <3>1, SharedLines, GotoMoves, OthersStay
  <2>3. CASE Toggles(th)
    BY <1>0, <1>1, <2>1, <2>3, TogglesTypes, OthersStay
  <2>4. QED
    BY <1>3, <2>2, <2>3, Zenon DEF dispatchMonitorQueue, Toggles
<1>4. ASSUME NEW th \in Mons \cup {Operator}, Requests(th) \/ StartTransmitter(th)
      PROVE  at'[t] = at[t]
  BY <1>0, <1>1, <1>4, RequestsTypes, OthersStay, OthersStayBut
<1>5. ASSUME NEW th \in Mons \cup Txs, setUpJt9(th) PROVE at'[t] = at[t]
  BY <1>0, <1>1, <1>2, <1>5, Froms, SetUpTypes, OthersStay
<1>6. CASE MainStatement
  BY <1>0, <1>1, <1>6, MainTypes, WorkersLines, OthersStay
<1>7. ASSUME NEW m \in Mons, OnTickStatement(m) PROVE at'[t] = at[t]
  BY <1>0, <1>1, <1>7, OnTickTypes, WorkersLines, OthersStay
<1>8. ASSUME NEW m \in Mons, GiveBack(m) PROVE at'[t] = at[t]
  BY <1>0, <1>1, <1>8, WorkersLines DEF GiveBack, Goto, PlacesOK
<1>9. ASSUME NEW m \in Mons, MonitorWorker(m) PROVE at'[t] = at[t]
  BY <1>9, MonitorTypes DEF TypeOK
<1>10. ASSUME NEW u \in Txs \ {t},
              generateTonesForMessage(u) \/ OnAirWorker(u) \/ OnTick2Statement(u)
       PROVE  at'[t] = at[t]
  <2>1. u # t /\ u \in Threads
    BY <1>10, WorkersLines
  <2>2. Moves(u)
    BY <1>0, <1>10, OnAirTypes, OnTick2Types DEF TypeOK
  <2>3. QED
    BY <1>0, <1>1, <2>1, <2>2, OthersStay
<1>11. CASE testPTT \/ startPlayer \/ quitPlayer \/ Audio \/ Tick \/ UNCHANGED vars
  BY <1>11 DEF testPTT, startPlayer, quitPlayer, Audio, MorseSent, MorseCut, FileEnds,
               Tick, vars
<1>12. QED
  BY <1>3, <1>4, <1>5, <1>6, <1>7, <1>8, <1>9, <1>10, <1>11, Zenon

LEMMA NobodyElseMoves ==
  ASSUME TypeOK, NEW t \in Txs, at[t] \notin {0} \cup SetUpLines \cup MonitorQueueLines,
         [Next]_vars,
         ~(generateTonesForMessage(t) \/ OnAirWorker(t) \/ OnTick2Statement(t))
  PROVE  at'[t] = at[t]
<1>1. ASSUME NEW u \in Txs, generateTonesForMessage(u) \/ OnAirWorker(u) \/ OnTick2Statement(u)
      PROVE  u \in Txs \ {t}
  BY <1>1
<1>2. QED
  BY <1>1, Elsewhere, Steps, Zenon

\* A keyed rig has an onTick2 that will unkey it (RigHasAnOwner).
THEOREM RigOwned == Spec => []RigHasAnOwner
<1>1. Init => RigHasAnOwner
  BY OwnerAssumption DEF Init, RigHasAnOwner
<1>2. TypeOK /\ RigHasAnOwner /\ [Next]_vars => RigHasAnOwner'
  <2> SUFFICES ASSUME TypeOK, RigHasAnOwner, [Next]_vars, NEW t \in Txs, keyedBy' = t
               PROVE  at'[t] \in OnAirLines
    BY DEF RigHasAnOwner
  <2>0. t \in Threads /\ at \in [Threads -> Nat]
    BY DEF Threads, TypeOK, PlacesOK
  <2>1. CASE clickPttOn(t)
    BY <2>0, <2>1 DEF clickPttOn, Goto, OnAirLines
  <2>2. CASE ~clickPttOn(t)
    <3>1. keyedBy = t
      <4>1. ASSUME NEW th \in Threads, dispatchMonitorQueue(th) PROVE keyedBy' = keyedBy
        BY <4>1 DEF dispatchMonitorQueue, DisableMonitor, StartMonitor, Sets
      <4>2. ASSUME NEW th \in Mons \cup {Operator}, Requests(th) \/ StartTransmitter(th)
            PROVE  keyedBy' = keyedBy
        BY <4>2, RequestsTypes DEF StartTransmitter, Quiet, TypeOK
      <4>3. ASSUME NEW th \in Mons \cup Txs, setUpJt9(th) PROVE keyedBy' = keyedBy
        BY <4>3, SetUpTypes DEF Quiet, TypeOK
      <4>4. ASSUME MainStatement PROVE keyedBy' = keyedBy
        BY <4>4, MainTypes DEF TypeOK
      <4>5. ASSUME NEW m \in Mons, MonitorWorker(m) \/ OnTickStatement(m) \/ GiveBack(m)
            PROVE  keyedBy' = keyedBy
        BY <4>5, MonitorTypes, OnTickTypes DEF GiveBack, Quiet, TypeOK
      <4>6. ASSUME NEW u \in Txs,
                   generateTonesForMessage(u) \/ OnAirWorker(u) \/ OnTick2Statement(u)
            PROVE  keyedBy' = keyedBy \/ keyedBy' = NoOne \/ clickPttOn(u)
        <5>1. OnTick2Statement(u) => keyedBy' = keyedBy
          BY OnTick2Types DEF Quiet, TypeOK
        <5>2. QED
          BY <4>6, <5>1
          DEF generateTonesForMessage, OnAirWorker, TransmitWait, EndTransmitWait, Sign,
              Play, EndOfSlot, StopPlayer, clickPttOff, Test, Sets
      <4>7. testPTT \/ startPlayer \/ quitPlayer => keyedBy' \in {keyedBy, NoOne, Operator}
        BY DEF testPTT, startPlayer, quitPlayer
      <4>8. Audio \/ Tick \/ UNCHANGED vars => keyedBy' = keyedBy
        BY DEF Audio, MorseSent, MorseCut, FileEnds, Tick, vars
      <4>9. \A u \in Txs : clickPttOn(u) => keyedBy' = u
        BY DEF clickPttOn
      <4>10. t # NoOne /\ t # Operator
        BY OwnerAssumption
      <4>11. QED
        BY <2>2, <4>1, <4>2, <4>3, <4>4, <4>5, <4>6, <4>7, <4>8, <4>9, <4>10, Steps
    <3>2. at[t] \in OnAirLines
      BY <3>1 DEF RigHasAnOwner
    <3>3. CASE generateTonesForMessage(t) \/ OnAirWorker(t) \/ OnTick2Statement(t)
      <4>1. at[t] \notin {216, 242, 249, 250, 251, 252, 253, 254, 257}
        BY <3>2 DEF OnAirLines
      <4>2. OnAirWorker(t) /\ ~clickPttOff(t)
        <5>1. ~generateTonesForMessage(t) /\ ~OnTick2Statement(t)
          BY <4>1, Froms DEF generateTonesForMessage, Sets, Goto
        <5>2. ~clickPttOff(t)
          BY OwnerAssumption DEF clickPttOff
        <5>3. QED
          BY <3>3, <5>1, <5>2
      <4>3. \/ Goto(t, 198, 202) \/ Goto(t, 198, 0) \/ Goto(t, 202, 203) \/ Goto(t, 203, 215)
            \/ Goto(t, 215, 216) \/ Goto(t, 215, 0) \/ Goto(t, 217, 218)
            \/ Goto(t, 219, 220) \/ Goto(t, 220, 224) \/ Goto(t, 224, 235)
            \/ Goto(t, 235, 238) \/ Goto(t, 238, 239) \/ Goto(t, 239, 240)
        BY <2>2, <4>2 DEF OnAirWorker, TransmitWait, EndTransmitWait, Sign, Play, EndOfSlot,
                          StopPlayer, Test, Sets
      <4>4. QED
        BY <2>0, <3>2, <4>3 DEF Goto, OnAirLines
    <3>4. CASE ~(generateTonesForMessage(t) \/ OnAirWorker(t) \/ OnTick2Statement(t))
      <4>1. at[t] \notin {0} \cup SetUpLines \cup MonitorQueueLines
        BY <3>2 DEF OnAirLines, SetUpLines, MonitorQueueLines
      <4>2. QED
        BY <3>2, <3>4, <4>1, NobodyElseMoves
    <3>5. QED
      BY <3>3, <3>4
  <2>3. QED
    BY <2>1, <2>2
<1>3. QED
  BY <1>1, <1>2, TypeCorrect, PTL DEF Spec

-----------------------------------------------------------------------------
\* Who changes what the handshake is about.
LEMMA HandshakeSteps ==
  ASSUME TypeOK, [Next]_vars
  PROVE  \/ UNCHANGED <<mon, rec, ticks>>
         \/ \E th \in Threads : StartMonitor(th)
         \/ \E m \in Mons : MonitorWorker(m) \/ GiveBack(m)
<1>0. g \in Settings /\ mem \in BOOLEAN /\ PlacesOK
  BY DEF TypeOK
<1>1. ASSUME NEW th \in Threads, dispatchMonitorQueue(th), ~StartMonitor(th)
      PROVE  UNCHANGED <<mon, rec, ticks>>
  BY <1>1 DEF dispatchMonitorQueue, DisableMonitor, Sets
<1>2. ASSUME NEW th \in Mons \cup {Operator}, Requests(th) \/ StartTransmitter(th)
      PROVE  UNCHANGED <<mon, rec, ticks>>
  BY <1>0, <1>2, RequestsTypes DEF StartTransmitter, Quiet
<1>3. ASSUME NEW th \in Mons \cup Txs, setUpJt9(th) PROVE UNCHANGED <<mon, rec, ticks>>
  BY <1>0, <1>3, SetUpTypes DEF Quiet
<1>4. ASSUME MainStatement PROVE UNCHANGED <<mon, rec, ticks>>
  BY <1>0, <1>4, MainTypes
<1>5. ASSUME NEW m \in Mons, OnTickStatement(m) PROVE UNCHANGED <<mon, rec, ticks>>
  BY <1>0, <1>5, OnTickTypes DEF Quiet
<1>6. ASSUME NEW t \in Txs, generateTonesForMessage(t) \/ OnAirWorker(t) \/ OnTick2Statement(t)
      PROVE  UNCHANGED <<mon, rec, ticks>>
  BY <1>0, <1>6, OnAirTypes, OnTick2Types DEF Quiet, TypeOK
<1>7. testPTT \/ startPlayer \/ quitPlayer \/ Audio \/ Tick \/ UNCHANGED vars
      => UNCHANGED <<mon, rec, ticks>>
  BY DEF testPTT, startPlayer, quitPlayer, Audio, MorseSent, MorseCut, FileEnds, Tick, vars
<1>8. QED
  BY <1>1, <1>2, <1>3, <1>4, <1>5, <1>6, <1>7, Steps, Zenon

LEMMA HandshakeStep ==
  ASSUME TypeOK, NoneLost, OneRecordingPerMonitor, [Next]_vars
  PROVE  OneRecordingPerMonitor'
<1> USE DEF OneRecordingPerMonitor
<1>1. CASE UNCHANGED <<mon, rec, ticks>>
  BY <1>1
<1>2. ASSUME NEW th \in Threads, StartMonitor(th) PROVE OneRecordingPerMonitor'
  <2>1. PICK m \in Mons : /\ mon[m] = 0 /\ ticks[m] = 0
                          /\ mon' = [mon EXCEPT ![m] = 84]
                          /\ rec' = [rec EXCEPT ![m] = TRUE]
    BY <1>2, Zenon DEF StartMonitor
  <2>2. ticks' = ticks
    BY <1>2 DEF StartMonitor
  <2>3. QED
    BY <2>1, <2>2 DEF TypeOK
<1>3. ASSUME NEW m \in Mons, MonitorWorker(m) PROVE OneRecordingPerMonitor'
  <2>1. CASE RecordWait(m)
    BY <2>1 DEF RecordWait, MonitorAt, TypeOK
  <2>2. CASE StopMonitoring(m) \/ EndRecordWait(m)
    BY <2>2 DEF StopMonitoring, EndRecordWait, MonitorAt, TypeOK
  <2>3. CASE StartRecording(m)
    <3>1. UNCHANGED <<rec, ticks>>
      BY <2>3 DEF StartRecording
    <3>2. mon[m] \in {104, 105, 107} /\ \E p \in {84, 105, 107, 137} :
            mon' = [mon EXCEPT ![m] = p]
      BY <2>3, Zenon DEF StartRecording, MonitorAt
    <3>3. QED
      BY <3>1, <3>2 DEF TypeOK
  <2>4. CASE DispatchOnTick(m)
    BY <2>4 DEF DispatchOnTick, MonitorAt, TypeOK
  <2>5. QED
    BY <1>3, <2>1, <2>2, <2>3, <2>4 DEF MonitorWorker
<1>4. ASSUME NEW m \in Mons, GiveBack(m) PROVE OneRecordingPerMonitor'
  <2>1. ticks[m] = 1
    BY <1>4 DEF GiveBack, Goto, NoneLost, TypeOK
  <2>2. /\ mon' = mon /\ rec' = [rec EXCEPT ![m] = TRUE]
        /\ ticks' = [ticks EXCEPT ![m] = 0]
    BY <1>4, <2>1 DEF GiveBack
  <2>3. QED
    BY <2>1, <2>2 DEF TypeOK
<1>5. QED
  BY <1>1, <1>2, <1>3, <1>4, HandshakeSteps, Zenon

\* The handshake over `recording' (OneRecordingPerMonitor): a slot is taken by
\* a new worker only when neither the old one nor its onTick is left.
THEOREM RecordingHandshake == Spec => []OneRecordingPerMonitor
<1>1. Init => OneRecordingPerMonitor
  BY DEF Init, OneRecordingPerMonitor
<1>2. QED
  BY <1>1, HandshakeStep, TypesKept, PTL DEF Spec

-----------------------------------------------------------------------------
\* An indicator that shows yellow has a worker that is about to start its
\* onTick, or an onTick that is going to clear it.
YellowIsTrue ==
  g.light = "yellow" =>
    \E m \in Mons : mon[m] \in {107, 137}
                    \/ (ticks[m] > 0 /\ at[m] \in {0, 122, 124, 128})

RedIsTrue == g.light = "red" => \E t \in Txs : at[t] \in 224 .. 242

\* Of all the statements two show one of these colours.
LEMMA LightSteps ==
  ASSUME TypeOK, [Next]_vars,
         ~\E t \in Txs : Sets(t, 220, 224, Shows(g.transmitting, 3)),
         ~\E m \in Mons : mon[m] = 105 /\ StartRecording(m)
  PROVE  g'.light \in {g.light, "none"}
<1>0. g \in Settings
  BY DEF TypeOK
<1>1. \A recWait \in {0, 2, 4} : \A onOff : Shows(onOff, recWait).light = "none"
  BY <1>0 DEF Shows, setRecordState, Settings
<1>2. /\ Shows(FALSE, 0).light = "none" /\ Shows(TRUE, 0).light = "none"
      /\ Shows(TRUE, 2).light = "none" /\ Shows(TRUE, 4).light = "none"
      /\ Shows(g.monitoring, 0).light = "none" /\ Shows(g.transmitting, 0).light = "none"
  BY <1>1
<1>3. ASSUME NEW th \in Threads, dispatchMonitorQueue(th) PROVE g'.light \in {g.light, "none"}
  BY <1>0, <1>2, <1>3 DEF dispatchMonitorQueue, DisableMonitor, StartMonitor, Sets, Settings
<1>4. ASSUME NEW th \in Mons \cup {Operator}, Requests(th) \/ StartTransmitter(th)
      PROVE  g'.light \in {g.light, "none"}
  BY <1>0, <1>2, <1>4 DEF Requests, StartTransmitter, Test, Sets, Settings
<1>5. ASSUME NEW th \in Mons \cup Txs, setUpJt9(th) PROVE g'.light \in {g.light, "none"}
  BY <1>0, <1>5 DEF setUpJt9, Test, Sets, Settings
<1>6. ASSUME MainStatement PROVE g'.light \in {g.light, "none"}
  <2>1. \/ g' = g \/ g' = [g EXCEPT !.monitoring = FALSE] \/ g' = [g EXCEPT !.transmitting = FALSE]
        \/ g' = [g EXCEPT !.killAll = TRUE] \/ g' = [g EXCEPT !.monitorButton = TRUE]
        \/ g' = [g EXCEPT !.sendCall = TRUE] \/ g' = Shows(FALSE, 0)
        \/ \E b \in BOOLEAN : g' = [g EXCEPT !.qsoInProgress = b] \/ g' = [g EXCEPT !.sent73 = b]
    BY <1>6, Zenon
    DEF MainStatement, record48SecondsAndDecode, transmitMessage, killAllViaTransmitQueue,
        HearLine, sendCallAfterNextTransmission, chooseThisThingToSay, KillTheRest,
        checkFor73, AnswerLine, Sets
  <2>2. QED
    BY <1>0, <1>2, <2>1 DEF Settings
<1>7. ASSUME NEW m \in Mons, OnTickStatement(m) \/ GiveBack(m)
      PROVE  g'.light \in {g.light, "none"}
  <2>1. \/ g' = g \/ g' = Shows(FALSE, 0) \/ g' = Shows(TRUE, 0)
        \/ g' = [g EXCEPT !.transmitButton = TRUE]
    BY <1>7, Zenon DEF OnTickStatement, GiveBack, Test, Sets
  <2>2. QED
    BY <1>0, <1>2, <2>1 DEF Settings
<1>8. ASSUME NEW m \in Mons, MonitorWorker(m) PROVE g'.light \in {g.light, "none"}
  <2>1. g' = g \/ g' = [g EXCEPT !.transmitButton = FALSE]
        \/ (mon[m] = 105 /\ StartRecording(m))
    BY <1>8, Zenon DEF MonitorWorker, RecordWait, StopMonitoring, EndRecordWait,
                       StartRecording, MonitorAt, DispatchOnTick
  <2>2. QED
    BY <1>0, <2>1 DEF Settings
<1>9. ASSUME NEW t \in Txs, generateTonesForMessage(t) \/ OnAirWorker(t)
      PROVE  g'.light \in {g.light, "none"}
  <2>1. CASE Sign(t)
    BY <1>0, <2>1 DEF Sign, Settings
  <2>2. CASE ~Sign(t)
    <3>1. \/ g' = g \/ g' = Shows(TRUE, 4) \/ g' = [g EXCEPT !.morseNext = FALSE]
          \/ \E b \in BOOLEAN : g' = [g EXCEPT !.sent73 = b]
      <4>1. Play(t) => UNCHANGED g
        BY DEF Play
      <4>2. ~Play(t) /\ OnAirWorker(t)
            => g' = g \/ g' = Shows(TRUE, 4) \/ g' = [g EXCEPT !.morseNext = FALSE]
        BY <2>2 DEF OnAirWorker, TransmitWait, EndTransmitWait, clickPttOn, EndOfSlot,
                    StopPlayer, clickPttOff, Test, Sets
      <4>3. generateTonesForMessage(t) => \E b \in BOOLEAN : g' = [g EXCEPT !.sent73 = b]
        BY DEF generateTonesForMessage, Sets
      <4>4. QED
        BY <1>9, <4>1, <4>2, <4>3, Zenon
    <3>2. QED
      BY <1>0, <1>2, <3>1 DEF Settings
  <2>3. QED
    BY <2>1, <2>2
<1>10. ASSUME NEW t \in Txs, OnTick2Statement(t) PROVE g'.light \in {g.light, "none"}
  <2>1. \/ g' = g \/ g' = Shows(TRUE, 2) \/ g' = Shows(FALSE, 0)
        \/ g' = [g EXCEPT !.monitoring = FALSE] \/ g' = [g EXCEPT !.monitorButton = TRUE]
        \/ g' = [g EXCEPT !.transmitting = FALSE]
        \/ g' = [g EXCEPT !.qsoInProgress = @ /\ ~g.sent73]
    BY <1>10 DEF OnTick2Statement, EndQso, LookAtKill, Test, Sets
  <2>2. QED
    BY <1>0, <1>2, <2>1 DEF Settings
<1>11. Audio => g'.light \in {g.light, "none"}
  BY <1>0 DEF Audio, MorseSent, MorseCut, FileEnds, Settings
<1>12. testPTT \/ startPlayer \/ quitPlayer \/ Tick \/ UNCHANGED vars
       => g'.light \in {g.light, "none"}
  BY DEF testPTT, startPlayer, quitPlayer, Tick, vars
<1>13. QED
  BY <1>3, <1>4, <1>5, <1>6, <1>7, <1>8, <1>9, <1>10, <1>11, <1>12, Steps, Zenon

\* Nothing but the player's own statements moves a worker out of 224 .. 242, and
\* the statement that does clears the indicator.
LEMMA RedStays ==
  ASSUME TypeOK, NEW t \in Txs, at[t] \in 224 .. 242, [Next]_vars
  PROVE  at'[t] \in 224 .. 242 \/ g'.light = "none"
<1>0. g \in Settings /\ at \in [Threads -> Nat] /\ t \in Threads
  BY DEF TypeOK, PlacesOK, Threads
<1>1. at[t] \in {224, 235, 238, 239, 240, 242}
  BY OwnerAssumption
  DEF TypeOK, PlacesOK, TransmitLines, WaitLines, KeyingLines, OnAirLines, ClosingLines,
      SetUpLines, MonitorQueueLines
<1>2. CASE ~(generateTonesForMessage(t) \/ OnAirWorker(t) \/ OnTick2Statement(t))
  BY <1>1, <1>2, NobodyElseMoves DEF SetUpLines, MonitorQueueLines
<1>3. CASE OnTick2Statement(t)
  <2>1. Sets(t, 242, 249, IF g.transmitting THEN Shows(TRUE, 2) ELSE Shows(FALSE, 0))
    <3>1. at[t] = 242
      BY <1>1, <1>3, Froms
    <3>2. \/ Sets(t, 242, 249, IF g.transmitting THEN Shows(TRUE, 2) ELSE Shows(FALSE, 0))
          \/ Goto(t, 249, 250) \/ Goto(t, 250, 251) \/ Goto(t, 251, 252) \/ Goto(t, 252, 253)
          \/ Goto(t, 253, 254) \/ Goto(t, 254, 257) \/ Goto(t, 254, 0)
          \/ Goto(t, 257, 378) \/ Goto(t, 257, 68)
      BY <1>3 DEF OnTick2Statement, EndQso, LookAtKill, Test, Sets
    <3>3. /\ ~Goto(t, 249, 250) /\ ~Goto(t, 250, 251) /\ ~Goto(t, 251, 252)
          /\ ~Goto(t, 252, 253) /\ ~Goto(t, 253, 254) /\ ~Goto(t, 254, 257)
          /\ ~Goto(t, 254, 0) /\ ~Goto(t, 257, 378) /\ ~Goto(t, 257, 68)
      BY <3>1 DEF Goto
    <3>4. QED
      BY <3>2, <3>3
  <2>2. QED
    BY <1>0, <2>1 DEF Sets, Shows, setRecordState, Settings
<1>4. CASE generateTonesForMessage(t) \/ OnAirWorker(t)
  <2>1. \/ Goto(t, 224, 235) \/ Goto(t, 235, 238) \/ Goto(t, 238, 239) \/ Goto(t, 239, 240)
        \/ Goto(t, 240, 242)
    <3>1. \/ Goto(t, 198, 202) \/ Goto(t, 198, 0) \/ Goto(t, 202, 203) \/ Goto(t, 203, 215)
          \/ Goto(t, 215, 216) \/ Goto(t, 215, 0) \/ Goto(t, 216, 217) \/ Goto(t, 217, 218)
          \/ Goto(t, 218, 219) \/ Goto(t, 219, 220) \/ Goto(t, 220, 224) \/ Goto(t, 224, 235)
          \/ Goto(t, 235, 238) \/ Goto(t, 238, 239) \/ Goto(t, 239, 240) \/ Goto(t, 240, 242)
      BY <1>4 DEF generateTonesForMessage, OnAirWorker, TransmitWait, EndTransmitWait, Sign,
                  clickPttOn, Play, EndOfSlot, StopPlayer, clickPttOff, Test, Sets
    <3>2. QED
      BY <1>1, <3>1 DEF Goto
  <2>2. QED
    BY <1>0, <2>1 DEF Goto
<1>5. QED
  BY <1>2, <1>3, <1>4

LEMMA YellowStays ==
  ASSUME TypeOK, NoneLost, OneRecordingPerMonitor, NEW m \in Mons, [Next]_vars,
         mon[m] \in {107, 137} \/ (ticks[m] > 0 /\ at[m] \in {0, 122, 124, 128})
  PROVE  \/ mon'[m] \in {107, 137} \/ (ticks'[m] > 0 /\ at'[m] \in {0, 122, 124, 128})
         \/ g'.light = "none"
<1>0. /\ g \in Settings /\ mem \in BOOLEAN /\ at \in [Threads -> Nat] /\ PlacesOK
      /\ m \in Threads /\ m # Operator /\ m \notin Txs
  BY OwnerAssumption DEF TypeOK, PlacesOK, Threads
<1>1. CASE mon[m] \in {107, 137}
  <2>1. ticks[m] = 0 /\ at[m] = 0
    BY <1>1 DEF OneRecordingPerMonitor, NoneLost
  <2>2. ASSUME NEW th \in Threads, StartMonitor(th) PROVE mon'[m] = mon[m]
    BY <1>1, <2>2 DEF StartMonitor, TypeOK
  <2>3. ASSUME NEW n \in Mons, GiveBack(n) PROVE mon'[m] = mon[m]
    BY <2>3 DEF GiveBack
  <2>4. ASSUME NEW n \in Mons, MonitorWorker(n)
        PROVE  mon'[m] \in {107, 137} \/ (ticks'[m] > 0 /\ at'[m] = 0)
    <3>1. CASE n # m
      BY <1>1, <2>4, <3>1 DEF MonitorWorker, RecordWait, StopMonitoring, EndRecordWait,
                              StartRecording, MonitorAt, DispatchOnTick, TypeOK
    <3>2. CASE n = m /\ StartRecording(m)
      <4>1. mon[m] = 107 /\ mon' = [mon EXCEPT ![m] = 137]
        BY <1>1, <3>2 DEF StartRecording, MonitorAt
      <4>2. QED
        BY <4>1 DEF TypeOK
    <3>3. CASE n = m /\ DispatchOnTick(m)
      BY <2>1, <3>3 DEF DispatchOnTick, TypeOK
    <3>4. QED
      BY <1>1, <2>4, <3>1, <3>2, <3>3
      DEF MonitorWorker, RecordWait, StopMonitoring, EndRecordWait, MonitorAt
  <2>5. QED
    BY <1>1, <2>2, <2>3, <2>4, HandshakeSteps
<1>2. CASE mon[m] \notin {107, 137}
  <2>1. ticks[m] = 1 /\ at[m] \in {0, 122, 124, 128} /\ mon[m] \in {0, 84}
    BY <1>2 DEF OneRecordingPerMonitor, TypeOK
  <2>2. ticks'[m] = 1
    <3>1. ASSUME NEW th \in Threads, StartMonitor(th) PROVE ticks'[m] = 1
      BY <2>1, <3>1 DEF StartMonitor
    <3>2. ASSUME NEW n \in Mons, GiveBack(n) PROVE ticks'[m] = 1
      <4>1. n # m
        BY <2>1, <3>2 DEF GiveBack, Goto
      <4>2. QED
        BY <2>1, <3>2, <4>1 DEF GiveBack, TypeOK
    <3>3. ASSUME NEW n \in Mons, MonitorWorker(n) PROVE ticks'[m] = 1
      <4>1. ~DispatchOnTick(m)
        BY <2>1 DEF DispatchOnTick, MonitorAt
      <4>2. CASE DispatchOnTick(n)
        BY <2>1, <4>1, <4>2 DEF DispatchOnTick, TypeOK
      <4>3. CASE ~DispatchOnTick(n)
        BY <2>1, <3>3, <4>3 DEF MonitorWorker, RecordWait, StopMonitoring, EndRecordWait,
                                StartRecording
      <4>4. QED
        BY <4>2, <4>3
    <3>4. QED
      BY <2>1, <3>1, <3>2, <3>3, HandshakeSteps
  <2>3. at'[m] \in {0, 122, 124, 128} \/ g'.light = "none"
    <3>1. CASE OnTickStatement(m)
      <4>1. \/ Goto(m, 0, 122) \/ Goto(m, 122, 124) \/ Goto(m, 122, 128)
            \/ Sets(m, 124, 133, Shows(FALSE, 0)) \/ Sets(m, 128, 378, Shows(TRUE, 0))
        <5>1. \/ Goto(m, 0, 122) \/ Goto(m, 122, 124) \/ Goto(m, 122, 128)
              \/ Sets(m, 124, 133, Shows(FALSE, 0)) \/ Sets(m, 128, 378, Shows(TRUE, 0))
              \/ Goto(m, 131, 153) \/ Goto(m, 131, 133)
          BY <3>1 DEF OnTickStatement, Test, Sets
        <5>2. ~Goto(m, 131, 153) /\ ~Goto(m, 131, 133)
          BY <2>1 DEF Goto
        <5>3. QED
          BY <5>1, <5>2
      <4>2. Shows(FALSE, 0).light = "none" /\ Shows(TRUE, 0).light = "none"
        BY <1>0 DEF Shows, setRecordState, Settings
      <4>3. (\A from, to : Goto(m, from, to) => at'[m] = to)
            /\ (\A from, to, s : Sets(m, from, to, s) => g' = s)
        BY <1>0 DEF Sets, Goto
      <4>4. QED
        BY <4>1, <4>2, <4>3, Zenon
    <3>2. CASE ~OnTickStatement(m)
      <4>1. at'[m] = at[m]
        <5>1. ASSUME NEW th \in Threads, dispatchMonitorQueue(th) PROVE at'[m] = at[m]
          <6>1. th # m
            BY <2>1, <5>1, Froms
          <6>2. CASE StartMonitor(th)
            <7>1. Goto(th, 72, Return(th))
              BY <6>2 DEF StartMonitor
            <7>2. QED
              BY <1>0, <6>1, <7>1, SharedLines, GotoMoves, OthersStay
          <6>3. CASE Toggles(th)
            BY <1>0, <6>1, <6>3, TogglesTypes, OthersStay
          <6>4. QED
            BY <5>1, <6>2, <6>3, Zenon DEF dispatchMonitorQueue, Toggles
        <5>2. ASSUME NEW th \in Mons \cup {Operator}, Requests(th) PROVE at'[m] = at[m]
          BY <1>0, <2>1, <5>2, Froms, RequestsTypes, OthersStay
        <5>3. ASSUME NEW th \in Mons \cup {Operator}, StartTransmitter(th) PROVE at'[m] = at[m]
          BY <1>0, <2>1, <5>3 DEF StartTransmitter
        <5>4. ASSUME NEW th \in Mons \cup Txs, setUpJt9(th) PROVE at'[m] = at[m]
          BY <1>0, <2>1, <5>4, Froms, SetUpTypes, OthersStay
        <5>5. CASE MainStatement
          BY <1>0, <5>5, MainTypes, WorkersLines, OthersStay
        <5>6. ASSUME NEW n \in Mons, OnTickStatement(n) PROVE at'[m] = at[m]
          BY <1>0, <3>2, <5>6, OnTickTypes, WorkersLines, OthersStay
        <5>7. ASSUME NEW n \in Mons, GiveBack(n) PROVE at'[m] = at[m]
          BY <1>0, <2>1, <5>7 DEF GiveBack, Goto
        <5>8. ASSUME NEW n \in Mons, MonitorWorker(n) PROVE at'[m] = at[m]
          BY <5>8, MonitorTypes DEF TypeOK
        <5>9. ASSUME NEW u \in Txs,
                     generateTonesForMessage(u) \/ OnAirWorker(u) \/ OnTick2Statement(u)
              PROVE  at'[m] = at[m]
          <6>1. u \in Threads /\ u # m /\ Moves(u)
            BY <1>0, <5>9, WorkersLines, OnAirTypes, OnTick2Types DEF TypeOK
          <6>2. QED
            BY <1>0, <6>1, OthersStay
        <5>10. CASE testPTT \/ startPlayer \/ quitPlayer \/ Audio \/ Tick \/ UNCHANGED vars
          BY <5>10 DEF testPTT, startPlayer, quitPlayer, Audio, MorseSent, MorseCut, FileEnds,
                       Tick, vars
        <5>11. QED
          BY <5>1, <5>2, <5>3, <5>4, <5>5, <5>6, <5>7, <5>8, <5>9, <5>10, Steps, Zenon
      <4>2. QED
        BY <2>1, <4>1
    <3>3. QED
      BY <3>1, <3>2
  <2>4. QED
    BY <2>2, <2>3
<1>3. QED
  BY <1>1, <1>2

\* The indicator claims no more than what the workers are doing (LightIsTrue).
THEOREM LightShowsTheTruth == Spec => []LightIsTrue
<1> DEFINE Inv == RedIsTrue /\ YellowIsTrue
<1>1. Init => Inv
  BY DEF Init, RedIsTrue, YellowIsTrue
<1>2. TypeOK /\ NoneLost /\ OneRecordingPerMonitor /\ Inv /\ [Next]_vars => Inv'
  <2> SUFFICES ASSUME TypeOK, NoneLost, OneRecordingPerMonitor, Inv, [Next]_vars
               PROVE  Inv'
    OBVIOUS
  <2> USE DEF RedIsTrue, YellowIsTrue
  <2>0. g \in Settings /\ at \in [Threads -> Nat] /\ Txs \subseteq Threads
    BY DEF TypeOK, PlacesOK, Threads
  <2>1. ASSUME NEW t \in Txs, Sets(t, 220, 224, Shows(g.transmitting, 3)) PROVE Inv'
    <3>1. at'[t] = 224
      BY <2>0, <2>1 DEF Sets, Goto
    <3>2. g'.light \in {"red", "none"}
      BY <2>0, <2>1 DEF Sets, Shows, setRecordState, Settings
    <3>3. QED
      BY <3>1, <3>2
  <2>2. ASSUME NEW m \in Mons, mon[m] = 105, StartRecording(m) PROVE Inv'
    <3>1. mon'[m] = 107 /\ g' = Shows(g.monitoring, 1)
      BY <2>2 DEF StartRecording, MonitorAt, TypeOK
    <3>2. g'.light \in {"yellow", "none"}
      BY <2>0, <3>1 DEF Shows, setRecordState, Settings
    <3>3. QED
      BY <3>1, <3>2
  <2>3. CASE g'.light \in {g.light, "none"}
    BY <2>3, RedStays, YellowStays
  <2>4. QED
    BY <2>1, <2>2, <2>3, LightSteps
<1>3. Inv => LightIsTrue
  BY DEF RedIsTrue, YellowIsTrue, LightIsTrue
<1>4. QED
  BY <1>1, <1>2, <1>3, TypesKept, RecordingHandshake, PTL DEF Spec

-----------------------------------------------------------------------------
\* When the minute turns nothing is on the air any more, except for a worker
\* that waits for a signature nobody plays: what the polls do in time, and the
\* cut in the last second, leaves no other way round (DoneWithinTheMinute).
THEOREM TransmissionsEndInTime ==
  ASSUME Timely
  PROVE  Spec => DoneWithinTheMinute
<1>1. TypeOK /\ [Next]_vars
      => (sec' < sec => \A t \in Txs : InTransmission(t) => at[t] = 235 /\ player # "tones")
  <2> SUFFICES ASSUME TypeOK, [Next]_vars, sec' < sec, NEW t \in Txs, InTransmission(t)
               PROVE  at[t] = 235 /\ player # "tones"
    OBVIOUS
  <2>1. Tick
    <3>0. g \in Settings /\ mem \in BOOLEAN /\ PlacesOK /\ sec \in Nat
      BY DEF TypeOK
    <3>1. sec' # sec
      BY <3>0
    <3>2. ASSUME NEW th \in Threads, dispatchMonitorQueue(th) PROVE FALSE
      BY <3>1, <3>2 DEF dispatchMonitorQueue, DisableMonitor, StartMonitor, Sets
    <3>3. ASSUME NEW th \in Mons \cup {Operator}, Requests(th) \/ StartTransmitter(th)
          PROVE  FALSE
      BY <3>0, <3>1, <3>3, RequestsTypes DEF StartTransmitter, Quiet
    <3>4. ASSUME NEW th \in Mons \cup Txs, setUpJt9(th) PROVE FALSE
      BY <3>0, <3>1, <3>4, SetUpTypes DEF Quiet
    <3>5. ~MainStatement
      BY <3>0, <3>1, MainTypes
    <3>6. ASSUME NEW m \in Mons, MonitorWorker(m) \/ OnTickStatement(m) \/ GiveBack(m)
          PROVE  FALSE
      BY <3>0, <3>1, <3>6, MonitorTypes, OnTickTypes DEF GiveBack, Quiet, TypeOK
    <3>7. ASSUME NEW u \in Txs,
                 generateTonesForMessage(u) \/ OnAirWorker(u) \/ OnTick2Statement(u)
          PROVE  FALSE
      BY <3>0, <3>1, <3>7, OnAirTypes, OnTick2Types DEF Quiet, TypeOK
    <3>8. ~(testPTT \/ startPlayer \/ quitPlayer \/ Audio \/ UNCHANGED vars)
      BY <3>1 DEF testPTT, startPlayer, quitPlayer, Audio, MorseSent, MorseCut, FileEnds, vars
    <3>9. QED
      BY <3>2, <3>3, <3>4, <3>5, <3>6, <3>7, <3>8, Steps, Zenon
  <2>2. sec \in 0 .. Minute - 1
    BY DEF TypeOK
  <2>3. sec = Minute - 1 /\ sec > SlotEnd
    <3>1. sec + 1 < Minute => sec' = sec + 1
      BY <2>1, <2>2, ClockAssumption DEF Tick
    <3>2. QED
      BY <2>2, <3>1, ClockAssumption
  <2>4. ~TransmitReady(t) /\ ~MorseCutDue
    BY <2>1 DEF Tick
  <2>5. at[t] = 235 /\ cwTime
    BY <2>3, <2>4 DEF TransmitReady, PlayOver, MorseOver, InTransmission, KeyingLines,
                      OnAirLines, ClosingLines, SetUpLines, MonitorQueueLines
  <2>6. QED
    BY <2>3, <2>4, <2>5 DEF MorseCutDue
<1>2. QED
  BY <1>1, TypeCorrect, PTL DEF Spec, DoneWithinTheMinute

-----------------------------------------------------------------------------
(* Every step as a move of one thread, and what it makes of the three flags *)
(* and of the monitor button.                                              *)

\* m_monitoring, m_transmitting, m_killAll and whether the button is enabled.
Become(m, x, k, b) ==
  /\ g'.monitoring <=> m
  /\ g'.transmitting <=> x
  /\ g'.killAll <=> k
  /\ g'.monitorButton <=> b

Same == Become(g.monitoring, g.transmitting, g.killAll, g.monitorButton)
MonitoringBecomes(m) == Become(m, g.transmitting, g.killAll, g.monitorButton)
TransmittingBecomes(x) == Become(g.monitoring, x, g.killAll, g.monitorButton)
KillAllBecomes(k) == Become(g.monitoring, g.transmitting, k, g.monitorButton)
ButtonBecomes(b) == Become(g.monitoring, g.transmitting, g.killAll, b)

MonitorQueueFlow(th) ==
  \/ Goto(th, 68, 69) /\ MonitoringBecomes(~g.monitoring)
  \/ Goto(th, 69, 70) /\ KillAllBecomes(FALSE)
  \/ Goto(th, 70, 71) /\ Same
  \/ (Goto(th, 71, 72) \/ Goto(th, 181, 193)) /\ ButtonBecomes(FALSE)
  \/ Goto(th, 72, Return(th)) /\ Same

RequestsFlow(th) ==
  \/ Goto(th, 153, 155) /\ g.transmitting /\ Same
  \/ Goto(th, 153, 163) /\ ~g.transmitting /\ Same
  \/ Goto(th, 155, 156) /\ TransmittingBecomes(FALSE)
  \/ Goto(th, 156, 157) /\ MonitoringBecomes(FALSE)
  \/ Goto(th, 157, 158) /\ Same
  \/ Goto(th, 158, 68) /\ ButtonBecomes(TRUE)
  \/ Goto(th, 163, 164) /\ Same
  \/ Goto(th, 164, 166) /\ KillAllBecomes(FALSE)
  \/ Goto(th, 166, 172) /\ TransmittingBecomes(g.monitoring \/ ~g.transmitting)
  \/ (Goto(th, 172, 173) \/ Goto(th, 173, 179)) /\ Same
  \/ Goto(th, 173, 174) /\ ~g.transmitting /\ Same
  \/ Goto(th, 174, 175) /\ MonitoringBecomes(FALSE)
  \/ Goto(th, 175, 179) /\ Same
  \/ Goto(th, 179, 181) /\ g.transmitting /\ Same
  \/ Goto(th, 179, Return(th)) /\ ~g.transmitting /\ Same
  \/ at[th] = 193 /\ at'[th] = Return(th) /\ Same

SetUpFlow(th) ==
  \/ (Goto(th, 378, 384) \/ Goto(th, 384, 385) \/ Goto(th, 378, AfterSetUp(th))) /\ Same
  \/ Goto(th, 385, 386) /\ MonitoringBecomes(FALSE)
  \/ Goto(th, 386, AfterSetUp(th)) /\ TransmittingBecomes(FALSE)

MainFlow ==
  \/ /\ \/ Goto(Operator, 0, 0) \/ Goto(Operator, 0, 68) \/ Goto(Operator, 0, 153)
        \/ Goto(Operator, 0, 494) \/ Goto(Operator, 0, 496) \/ Goto(Operator, 0, 535)
        \/ Goto(Operator, 494, 0) \/ Goto(Operator, 496, 0)
        \/ Goto(Operator, 535, 153) \/ Goto(Operator, 535, 0)
     /\ Same
  \/ Goto(Operator, 0, 279) /\ MonitoringBecomes(FALSE)
  \/ Goto(Operator, 279, 280) /\ TransmittingBecomes(FALSE)
  \/ Goto(Operator, 281, 282) /\ KillAllBecomes(TRUE)
  \/ (Goto(Operator, 280, 281) \/ Goto(Operator, 282, 284)) /\ Same
  \/ Goto(Operator, 284, 0) /\ ButtonBecomes(TRUE)

OnTickFlow(m) ==
  \/ Goto(m, 122, 128) /\ ~g.killAll /\ Same
  \/ /\ Goto(m, 0, 122) \/ Goto(m, 122, 124) \/ Goto(m, 124, 133) \/ Goto(m, 128, 378)
        \/ Goto(m, 131, 153) \/ Goto(m, 131, 133) \/ Goto(m, 133, 0)
     /\ Same

OnTick2Flow(t) ==
  \/ (Goto(t, 242, 249) \/ Goto(t, 252, 253) \/ Goto(t, 253, 254)) /\ Same
  \/ (Goto(t, 249, 250) \/ Goto(t, 257, 378) \/ Goto(t, 257, 68)) /\ MonitoringBecomes(FALSE)
  \/ Goto(t, 250, 251) /\ ButtonBecomes(TRUE)
  \/ Goto(t, 251, 252) /\ TransmittingBecomes(FALSE)
  \/ Goto(t, 254, 257) /\ ~g.killAll /\ Same
  \/ Goto(t, 254, 0) /\ g.killAll /\ Same

OnAirFlow(t) ==
  /\ Same
  /\ \/ Goto(t, 198, 202) \/ Goto(t, 202, 203) \/ Goto(t, 203, 215)
     \/ (Goto(t, 198, 0) \/ Goto(t, 215, 0)) /\ ~g.transmitting
     \/ Goto(t, 215, 216) \/ Goto(t, 216, 217) \/ Goto(t, 217, 218) \/ Goto(t, 218, 219)
     \/ Goto(t, 219, 220) \/ Goto(t, 220, 224) \/ Goto(t, 224, 235) \/ Goto(t, 235, 238)
     \/ Goto(t, 238, 239) \/ Goto(t, 239, 240) \/ Goto(t, 240, 242)

Flow(th) ==
  \/ MonitorQueueFlow(th)
  \/ th \in Mons \cup {Operator} /\ RequestsFlow(th)
  \/ th \in Mons \cup Txs /\ SetUpFlow(th)
  \/ th = Operator /\ MainFlow
  \/ th \in Mons /\ OnTickFlow(th)
  \/ th \in Txs /\ (OnTick2Flow(th) \/ OnAirFlow(th))

\* A worker may be started meanwhile.
Stays(x) == at'[x] = at[x] \/ (x \in Txs /\ at[x] = 0 /\ at'[x] = 198)

-----------------------------------------------------------------------------
\* The colour of the indicator is none of the four.
LEMMA LightOnly ==
  ASSUME g \in Settings
  PROVE  \A onOff, recWait : g' = Shows(onOff, recWait) => Same
<1>1. \A colour : g' = [g EXCEPT !.light = colour] => Same
  BY DEF Settings, Same, Become
<1>2. QED
  BY <1>1, Zenon DEF Shows

LEMMA MonitorQueueFlows ==
  ASSUME g \in Settings, PlacesOK, NEW th \in Threads, dispatchMonitorQueue(th)
  PROVE  MonitorQueueFlow(th)
<1>1. \/ Goto(th, 68, 69) /\ g' = [g EXCEPT !.monitoring = ~@]
      \/ Goto(th, 69, 70) /\ g' = [g EXCEPT !.killAll = FALSE]
      \/ Goto(th, 70, 71) /\ g' = Shows(g.monitoring, 0)
      \/ (Goto(th, 71, 72) \/ Goto(th, 181, 193)) /\ g' = [g EXCEPT !.monitorButton = FALSE]
      \/ Goto(th, 72, Return(th)) /\ (g' = g \/ g' = [g EXCEPT !.transmitButton = TRUE])
  BY Zenon DEF dispatchMonitorQueue, DisableMonitor, StartMonitor, Sets
<1>2. /\ g' = [g EXCEPT !.monitoring = ~@] => MonitoringBecomes(~g.monitoring)
      /\ g' = [g EXCEPT !.killAll = FALSE] => KillAllBecomes(FALSE)
      /\ g' = Shows(g.monitoring, 0) => Same
      /\ g' = [g EXCEPT !.monitorButton = FALSE] => ButtonBecomes(FALSE)
      /\ g' = g \/ g' = [g EXCEPT !.transmitButton = TRUE] => Same
  BY DEF Settings, Shows, Become, Same, MonitoringBecomes, KillAllBecomes, ButtonBecomes
<1>3. QED
  BY <1>1, <1>2, Zenon DEF MonitorQueueFlow

LEMMA RequestsFlows ==
  ASSUME g \in Settings, PlacesOK, NEW th \in Mons \cup {Operator},
         Requests(th) \/ StartTransmitter(th)
  PROVE  RequestsFlow(th)
<1>0. th \in Threads /\ th \notin Txs
  BY OwnerAssumption DEF Threads
<1>1. CASE StartTransmitter(th)
  <2>1. at[th] = 193 /\ at'[th] = Return(th) /\ g' = g
    BY <1>0, <1>1 DEF StartTransmitter, PlacesOK
  <2>2. QED
    BY <2>1, Zenon DEF RequestsFlow, Same, Become
<1>2. CASE Requests(th)
  <2> USE DEF Sets, Settings, Shows, Become, Same
  <2>1. /\ Sets(th, 155, 156, [g EXCEPT !.transmitting = FALSE])
             => Goto(th, 155, 156) /\ TransmittingBecomes(FALSE)
        /\ Sets(th, 156, 157, [g EXCEPT !.monitoring = FALSE])
             => Goto(th, 156, 157) /\ MonitoringBecomes(FALSE)
        /\ Sets(th, 157, 158, [g EXCEPT !.transmitButton = FALSE]) => Goto(th, 157, 158) /\ Same
    BY DEF TransmittingBecomes, MonitoringBecomes
  <2>2. /\ Sets(th, 158, 68, [g EXCEPT !.monitorButton = TRUE])
             => Goto(th, 158, 68) /\ ButtonBecomes(TRUE)
        /\ Sets(th, 163, 164, [g EXCEPT !.transmitButton = TRUE]) => Goto(th, 163, 164) /\ Same
        /\ Sets(th, 164, 166, [g EXCEPT !.killAll = FALSE])
             => Goto(th, 164, 166) /\ KillAllBecomes(FALSE)
    BY DEF ButtonBecomes, KillAllBecomes
  <2>3. Sets(th, 166, 172, [g EXCEPT !.transmitting = g.monitoring \/ ~@])
        => Goto(th, 166, 172) /\ TransmittingBecomes(g.monitoring \/ ~g.transmitting)
    BY DEF TransmittingBecomes
  <2>4. /\ Sets(th, 174, 175, [g EXCEPT !.monitoring = FALSE])
             => Goto(th, 174, 175) /\ MonitoringBecomes(FALSE)
        /\ Sets(th, 175, 179, [g EXCEPT !.qsoInProgress = FALSE]) => Goto(th, 175, 179) /\ Same
    BY DEF MonitoringBecomes
  <2>5. /\ Test(th, 153, 155, g.transmitting, 163)
             => \/ Goto(th, 153, 155) /\ g.transmitting /\ Same
                \/ Goto(th, 153, 163) /\ ~g.transmitting /\ Same
        /\ Test(th, 173, 174, ~g.transmitting, 179)
             => \/ Goto(th, 173, 174) /\ ~g.transmitting /\ Same
                \/ Goto(th, 173, 179) /\ Same
        /\ Test(th, 179, 181, g.transmitting, Return(th))
             => \/ Goto(th, 179, 181) /\ g.transmitting /\ Same
                \/ Goto(th, 179, Return(th)) /\ ~g.transmitting /\ Same
    BY DEF Test
  <2> HIDE DEF Settings, Shows, Become, Same
  <2>6. Sets(th, 172, 173, Shows(g.transmitting, 0)) => Goto(th, 172, 173) /\ Same
    BY LightOnly, Zenon
  <2> HIDE DEF Sets
  <2>7. QED
    BY <1>2, <2>1, <2>2, <2>3, <2>4, <2>5, <2>6, Zenon DEF RequestsFlow, Requests
<1>3. QED
  BY <1>1, <1>2

LEMMA SetUpFlows ==
  ASSUME g \in Settings, PlacesOK, NEW th \in Mons \cup Txs, setUpJt9(th)
  PROVE  SetUpFlow(th)
<1>1. \/ (Goto(th, 378, 384) \/ Goto(th, 378, AfterSetUp(th))) /\ g' = g
      \/ Goto(th, 384, 385) /\ g' = [g EXCEPT !.qsoInProgress = FALSE]
      \/ Goto(th, 385, 386) /\ g' = [g EXCEPT !.monitoring = FALSE]
      \/ Goto(th, 386, AfterSetUp(th)) /\ g' = [g EXCEPT !.transmitting = FALSE]
  BY DEF setUpJt9, Test, Sets
<1>2. /\ g' = g => Same
      /\ g' = [g EXCEPT !.qsoInProgress = FALSE] => Same
      /\ g' = [g EXCEPT !.monitoring = FALSE] => MonitoringBecomes(FALSE)
      /\ g' = [g EXCEPT !.transmitting = FALSE] => TransmittingBecomes(FALSE)
  BY DEF Settings, Become, Same, MonitoringBecomes, TransmittingBecomes
<1>3. QED
  BY <1>1, <1>2, Zenon DEF SetUpFlow

LEMMA MainFlows ==
  ASSUME g \in Settings, PlacesOK, MainStatement
  PROVE  MainFlow
<1> USE DEF Sets, Settings, Shows, Become, Same
<1>1. record48SecondsAndDecode \/ transmitMessage
      => (Goto(Operator, 0, 68) \/ Goto(Operator, 0, 153)) /\ Same
  BY DEF record48SecondsAndDecode, transmitMessage
<1>2. killAllViaTransmitQueue => Goto(Operator, 0, 279) /\ MonitoringBecomes(FALSE)
  BY DEF killAllViaTransmitQueue, MonitoringBecomes
<1>3. KillTheRest
      => \/ Goto(Operator, 279, 280) /\ TransmittingBecomes(FALSE)
         \/ Goto(Operator, 281, 282) /\ KillAllBecomes(TRUE)
         \/ (Goto(Operator, 280, 281) \/ Goto(Operator, 282, 284)) /\ Same
         \/ Goto(Operator, 284, 0) /\ ButtonBecomes(TRUE)
  <2>1. /\ Sets(Operator, 279, 280, [g EXCEPT !.transmitting = FALSE])
             => Goto(Operator, 279, 280) /\ TransmittingBecomes(FALSE)
        /\ Sets(Operator, 280, 281, [g EXCEPT !.qsoInProgress = FALSE])
             => Goto(Operator, 280, 281) /\ Same
        /\ Sets(Operator, 281, 282, [g EXCEPT !.killAll = TRUE])
             => Goto(Operator, 281, 282) /\ KillAllBecomes(TRUE)
    BY DEF TransmittingBecomes, KillAllBecomes
  <2>2. Sets(Operator, 282, 284, Shows(FALSE, 0)) => Goto(Operator, 282, 284) /\ Same
    OBVIOUS
  <2>3. Sets(Operator, 284, 0, [g EXCEPT !.monitorButton = TRUE])
        => Goto(Operator, 284, 0) /\ ButtonBecomes(TRUE)
    BY DEF ButtonBecomes
  <2> HIDE DEF Sets, Settings, Shows, Become, Same
  <2>4. QED
    BY <2>1, <2>2, <2>3, Zenon DEF KillTheRest
<1>4. HearLine \/ sendCallAfterNextTransmission \/ chooseThisThingToSay \/ checkFor73
      => /\ \/ Goto(Operator, 0, 535) \/ Goto(Operator, 0, 0) \/ Goto(Operator, 0, 494)
            \/ Goto(Operator, 0, 496) \/ Goto(Operator, 494, 0) \/ Goto(Operator, 496, 0)
         /\ Same
  BY DEF HearLine, sendCallAfterNextTransmission, chooseThisThingToSay, checkFor73
<1>5. AnswerLine => (Goto(Operator, 535, 153) \/ Goto(Operator, 535, 0)) /\ Same
  BY DEF AnswerLine
<1> HIDE DEF Sets, Settings, Shows, Become, Same
<1>6. QED
  BY <1>1, <1>2, <1>3, <1>4, <1>5, Zenon DEF MainStatement, MainFlow

LEMMA OnTickFlows ==
  ASSUME g \in Settings, PlacesOK, NEW m \in Mons, OnTickStatement(m) \/ GiveBack(m)
  PROVE  OnTickFlow(m)
<1>1. \/ Goto(m, 122, 128) /\ ~g.killAll /\ g' = g
      \/ (Goto(m, 0, 122) \/ Goto(m, 122, 124) \/ Goto(m, 131, 153) \/ Goto(m, 131, 133)) /\ g' = g
      \/ Goto(m, 124, 133) /\ g' = Shows(FALSE, 0)
      \/ Goto(m, 128, 378) /\ g' = Shows(TRUE, 0)
      \/ Goto(m, 133, 0) /\ g' = [g EXCEPT !.transmitButton = TRUE]
  BY DEF OnTickStatement, GiveBack, Test, Sets
<1>2. /\ g' = g => Same
      /\ g' = Shows(FALSE, 0) => Same
      /\ g' = Shows(TRUE, 0) => Same
      /\ g' = [g EXCEPT !.transmitButton = TRUE] => Same
  BY DEF Settings, Shows, Become, Same
<1>3. QED
  BY <1>1, <1>2, Zenon DEF OnTickFlow

LEMMA OnTick2Flows ==
  ASSUME g \in Settings, PlacesOK, NEW t \in Txs, OnTick2Statement(t)
  PROVE  OnTick2Flow(t)
<1> USE DEF Sets, Settings, Shows, Become, Same
<1>1. Sets(t, 252, 253, g) => Goto(t, 252, 253) /\ Same
  OBVIOUS
<1>5. Sets(t, 242, 249, IF g.transmitting THEN Shows(TRUE, 2) ELSE Shows(FALSE, 0))
      => Goto(t, 242, 249) /\ Same
  <2> HIDE DEF Settings, Shows, Become, Same
  <2>1. Sets(t, 242, 249, IF g.transmitting THEN Shows(TRUE, 2) ELSE Shows(FALSE, 0))
        => Goto(t, 242, 249) /\ (g' = Shows(TRUE, 2) \/ g' = Shows(FALSE, 0))
    BY Zenon
  <2>2. QED
    BY <2>1, LightOnly, Zenon
<1>0. EndQso(t) => Goto(t, 253, 254) /\ Same
  <2>1. EndQso(t) => Goto(t, 253, 254) /\ \E b : g' = [g EXCEPT !.qsoInProgress = b]
    BY Zenon DEF EndQso
  <2>2. \A b : g' = [g EXCEPT !.qsoInProgress = b] => Same
    OBVIOUS
  <2> HIDE DEF Sets, Settings, Shows, Become, Same
  <2>3. QED
    BY <2>1, <2>2, Zenon
<1>2. /\ Sets(t, 249, 250, [g EXCEPT !.monitoring = FALSE])
           => Goto(t, 249, 250) /\ MonitoringBecomes(FALSE)
      /\ Sets(t, 250, 251, [g EXCEPT !.monitorButton = TRUE])
           => Goto(t, 250, 251) /\ ButtonBecomes(TRUE)
      /\ Sets(t, 251, 252, [g EXCEPT !.transmitting = FALSE])
           => Goto(t, 251, 252) /\ TransmittingBecomes(FALSE)
  BY DEF MonitoringBecomes, ButtonBecomes, TransmittingBecomes
<1>3. /\ g' = g => Same
      /\ g' = [g EXCEPT !.monitoring = FALSE] => MonitoringBecomes(FALSE)
  BY DEF MonitoringBecomes
<1> HIDE DEF Settings, Shows, Become, Same
<1>4. LookAtKill(t) => \/ Goto(t, 254, 257) /\ ~g.killAll /\ Same
                       \/ Goto(t, 254, 0) /\ g.killAll /\ Same
  BY <1>3, Zenon DEF LookAtKill, Test
<1>6. Sets(t, 257, IF DecodeOwn THEN 378 ELSE 68, [g EXCEPT !.monitoring = FALSE])
      => (Goto(t, 257, 378) \/ Goto(t, 257, 68)) /\ MonitoringBecomes(FALSE)
  BY <1>3, Zenon
<1> HIDE DEF Sets
<1>7. QED
  BY <1>0, <1>1, <1>2, <1>4, <1>5, <1>6, ZenonT(60) DEF OnTick2Statement, OnTick2Flow

LEMMA OnAirFlows ==
  ASSUME g \in Settings, PlacesOK, NEW t \in Txs, generateTonesForMessage(t) \/ OnAirWorker(t)
  PROVE  OnAirFlow(t)
<1>1. \/ Goto(t, 198, 202) \/ Goto(t, 202, 203) \/ Goto(t, 203, 215)
      \/ (Goto(t, 198, 0) \/ Goto(t, 215, 0)) /\ ~g.transmitting
      \/ Goto(t, 215, 216) \/ Goto(t, 216, 217) \/ Goto(t, 217, 218) \/ Goto(t, 218, 219)
      \/ Goto(t, 219, 220) \/ Goto(t, 220, 224) \/ Goto(t, 224, 235) \/ Goto(t, 235, 238)
      \/ Goto(t, 238, 239) \/ Goto(t, 239, 240) \/ Goto(t, 240, 242)
  BY DEF generateTonesForMessage, OnAirWorker, TransmitWait, EndTransmitWait, Sign,
         clickPttOn, Play, EndOfSlot, StopPlayer, clickPttOff, Test, Sets
<1>2. Same
  <2>1. Sign(t) => Same
    BY DEF Sign, Settings, Same, Become
  <2>2. OnAirWorker(t) /\ ~Sign(t)
        => g' = g \/ g' = Shows(TRUE, 4) \/ g' = Shows(g.transmitting, 3)
           \/ g' = [g EXCEPT !.morseNext = FALSE]
    BY DEF OnAirWorker, TransmitWait, EndTransmitWait, clickPttOn, Play, EndOfSlot,
           StopPlayer, clickPttOff, Test, Sets
  <2>3. generateTonesForMessage(t) => \E b \in BOOLEAN : g' = [g EXCEPT !.sent73 = b]
    BY DEF generateTonesForMessage, Sets
  <2>4. /\ g' = g => Same
        /\ g' = Shows(TRUE, 4) \/ g' = Shows(g.transmitting, 3) => Same
        /\ g' = [g EXCEPT !.morseNext = FALSE] => Same
        /\ \A b \in BOOLEAN : g' = [g EXCEPT !.sent73 = b] => Same
    BY DEF Settings, Shows, Become, Same
  <2>5. QED
    BY <2>1, <2>2, <2>3, <2>4, Zenon
<1>3. QED
  BY <1>1, <1>2, Zenon DEF OnAirFlow

LEMMA StepFlow ==
  ASSUME TypeOK, [Next]_vars
  PROVE  \/ Same /\ \A x \in Threads : at'[x] = at[x]
         \/ \E th \in Threads : Flow(th) /\ \A x \in Threads : x # th => Stays(x)
<1>0. /\ g \in Settings /\ mem \in BOOLEAN /\ PlacesOK /\ Operator \in Threads
      /\ Mons \subseteq Threads /\ Txs \subseteq Threads
  BY DEF TypeOK, Threads
<1>1. ASSUME NEW th \in Threads, Flow(th), Moves(th)
      PROVE  \E y \in Threads : Flow(y) /\ \A x \in Threads : x # y => Stays(x)
  <2>1. \A x \in Threads : x # th => Stays(x)
    BY <1>0, <1>1, OthersStay DEF Stays
  <2>2. QED
    BY <1>1, <2>1, Zenon
<1>2. ASSUME NEW th \in Threads, dispatchMonitorQueue(th) PROVE Flow(th) /\ Moves(th)
  <2>1. StartMonitor(th) => Moves(th)
    <3>1. StartMonitor(th) => Goto(th, 72, Return(th))
      BY DEF StartMonitor
    <3>2. QED
      BY <3>1, SharedLines, GotoMoves
  <2>2. Toggles(th) => Moves(th)
    BY <1>0, TogglesTypes
  <2>3. Moves(th)
    BY <1>2, <2>1, <2>2, Zenon DEF dispatchMonitorQueue, Toggles
  <2>4. QED
    BY <1>0, <1>2, <2>3, MonitorQueueFlows, Zenon DEF Flow
<1>3. ASSUME NEW th \in Mons \cup {Operator}, Requests(th)
      PROVE  th \in Threads /\ Flow(th) /\ Moves(th)
  BY <1>0, <1>3, RequestsFlows, RequestsTypes, Zenon DEF Flow
<1>4. ASSUME NEW th \in Mons \cup {Operator}, StartTransmitter(th)
      PROVE  \E y \in Threads : Flow(y) /\ \A x \in Threads : x # y => Stays(x)
  <2>1. th \in Threads /\ Flow(th)
    BY <1>0, <1>4, RequestsFlows DEF Flow
  <2>2. \A x \in Threads : x # th => Stays(x)
    BY <1>0, <1>4, OwnerAssumption DEF StartTransmitter, PlacesOK, Threads, Stays
  <2>3. QED
    BY <2>1, <2>2, Zenon
<1>5. ASSUME NEW th \in Mons \cup Txs, setUpJt9(th)
      PROVE  th \in Threads /\ Flow(th) /\ Moves(th)
  BY <1>0, <1>5, SetUpFlows, SetUpTypes, Zenon DEF Flow
<1>6. ASSUME MainStatement PROVE Flow(Operator) /\ Moves(Operator)
  BY <1>0, <1>6, MainFlows, MainTypes, Zenon DEF Flow
<1>7. ASSUME NEW m \in Mons, OnTickStatement(m) PROVE Flow(m) /\ Moves(m)
  BY <1>0, <1>7, OnTickFlows, OnTickTypes, Zenon DEF Flow
<1>8. ASSUME NEW m \in Mons, GiveBack(m) PROVE Flow(m) /\ Moves(m)
  <2>1. Goto(m, 133, 0)
    BY <1>8 DEF GiveBack
  <2>2. Moves(m)
    BY <2>1, GotoMoves DEF Lines
  <2>3. QED
    BY <1>0, <1>8, <2>2, OnTickFlows, Zenon DEF Flow
<1>9. ASSUME NEW m \in Mons, MonitorWorker(m)
      PROVE  Same /\ \A x \in Threads : at'[x] = at[x]
  <2>1. g' = g \/ g' = Shows(g.monitoring, 1) \/ g' = [g EXCEPT !.transmitButton = FALSE]
    BY <1>9, Zenon DEF MonitorWorker, RecordWait, StopMonitoring, EndRecordWait,
                       StartRecording, DispatchOnTick
  <2>2. Same
    BY <1>0, <2>1 DEF Settings, Shows, Same, Become
  <2>3. QED
    BY <1>0, <1>9, <2>2, MonitorTypes DEF TypeOK
<1>10. ASSUME NEW t \in Txs, generateTonesForMessage(t) \/ OnAirWorker(t)
       PROVE  Flow(t) /\ Moves(t)
  <2>1. Moves(t)
    BY <1>10, OnAirTypes DEF TypeOK
  <2>2. QED
    BY <1>0, <1>10, <2>1, OnAirFlows, Zenon DEF Flow
<1>11. ASSUME NEW t \in Txs, OnTick2Statement(t) PROVE Flow(t) /\ Moves(t)
  BY <1>0, <1>11, OnTick2Flows, OnTick2Types, Zenon DEF Flow
<1>12. CASE testPTT \/ startPlayer \/ quitPlayer \/ Audio \/ Tick \/ UNCHANGED vars
  <2>1. at' = at
    BY <1>12 DEF testPTT, startPlayer, quitPlayer, Audio, MorseSent, MorseCut, FileEnds,
                 Tick, vars
  <2>2. Same
    BY <1>0, <1>12 DEF testPTT, startPlayer, quitPlayer, Audio, MorseSent, MorseCut,
                       FileEnds, Tick, vars, Settings, Same, Become
  <2>3. QED
    BY <2>1, <2>2
<1>13. QED
  BY <1>0, <1>1, <1>2, <1>3, <1>4, <1>5, <1>6, <1>7, <1>8, <1>9, <1>10, <1>11, <1>12, Steps

-----------------------------------------------------------------------------
(* What a move can do to each of the four.                                 *)

LEMMA FlowEffects ==
  ASSUME at \in [Threads -> Nat], NEW th \in Threads, Flow(th)
  PROVE  /\ g'.monitoring => g.monitoring \/ (at[th] = 68 /\ at'[th] = 69)
         /\ g'.transmitting => g.transmitting \/ (at[th] = 166 /\ at'[th] = 172)
         /\ g'.killAll => \/ g.killAll /\ at[th] \notin {69, 164}
                          \/ th = Operator /\ at[th] = 281 /\ at'[th] = 282
         /\ ~g'.killAll => ~g.killAll \/ at[th] \in {69, 164}
         /\ g'.monitorButton
              => \/ g.monitorButton /\ at[th] \notin {71, 181}
                 \/ at[th] = 158 /\ at'[th] = 68
                 \/ th \in Txs /\ at[th] = 250 /\ at'[th] = 251
                 \/ th = Operator /\ at[th] = 284 /\ at'[th] = 0
         /\ ~g'.monitorButton => ~g.monitorButton \/ at[th] \in {71, 181}
<1> USE DEF Goto, Become, Same, MonitoringBecomes, TransmittingBecomes, KillAllBecomes,
            ButtonBecomes
<1>1. CASE MonitorQueueFlow(th)
  BY <1>1 DEF MonitorQueueFlow
<1>2. CASE RequestsFlow(th)
  BY <1>2 DEF RequestsFlow
<1>3. CASE SetUpFlow(th)
  BY <1>3 DEF SetUpFlow
<1>4. CASE th = Operator /\ MainFlow
  BY <1>4 DEF MainFlow
<1>5. CASE OnTickFlow(th)
  BY <1>5 DEF OnTickFlow
<1>6. CASE th \in Txs /\ OnTick2Flow(th)
  BY <1>6 DEF OnTick2Flow
<1>7. CASE OnAirFlow(th)
  BY <1>7 DEF OnAirFlow
<1>8. QED
  BY <1>1, <1>2, <1>3, <1>4, <1>5, <1>6, <1>7 DEF Flow

=============================================================================
