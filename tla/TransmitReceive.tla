-------------------------- MODULE TransmitReceive --------------------------
(***************************************************************************)
(* The half-duplex core of the application: queueDispatcher.m, the push-   *)
(* to-talk line of rigClass_link.mm and the buttons that reach them.       *)
(*                                                                         *)
(* dispatchMonitorQueue and dispatchTransmitQueue run on the main thread   *)
(* or inside a worker; each hands a block to a concurrent GCD queue.  A    *)
(* monitor worker waits for the top of the minute and starts an onTick     *)
(* block that records until second 48; a transmit worker waits for the top *)
(* of the minute, keys the rig and goes on in an onTick2 block that plays  *)
(* until second 48, lets the Morse signature finish and unkeys.  They share *)
(* the flags of gSettings and the two buttons, without a lock.             *)
(*                                                                         *)
(* Every thread has a place, the line of queueDispatcher.m it executes     *)
(* next; 0 is none.  One action is one statement; a test is one with the   *)
(* single assignment it guards, but not with a call it guards.  A poll is  *)
(* the pass through its loop that ends it.                                 *)
(***************************************************************************)
EXTENDS Integers

CONSTANTS
  Minute,     \* seconds of a transmit/receive period (60 in the code)
  SlotEnd,    \* last second of the recording or playing slot (48)
  Mons,       \* slots for monitor workers and their onTick blocks (a bound)
  Txs,        \* slots for transmit workers and their onTick2 blocks (a bound)
  Operator,   \* the main thread; keys the rig with the test button
  NoOne,      \* the rig is not keyed
  Timely,     \* TRUE: no worker sleeps through a change of the clock
  DecodeOwn,  \* gSettings.m_tx2QSO: decode one's own transmissions
  FilePlayer  \* TRUE: the operator also uses the play and stop buttons

ASSUME ClockAssumption ==
  Minute \in Nat /\ SlotEnd \in Nat /\ 0 < SlotEnd /\ SlotEnd + 1 < Minute
ASSUME OwnerAssumption ==
  /\ Operator \notin Mons \cup Txs /\ Mons \cap Txs = {}
  /\ NoOne \notin Txs \cup {Operator}
ASSUME SwitchAssumption == {Timely, DecodeOwn, FilePlayer} \subseteq BOOLEAN

VARIABLES
  sec,      \* second of the minute
  g,        \* gSettings, the two buttons and the colour of recInd
  mem,      \* mem_jt9 # NULL
  mon,      \* place of each monitor worker
  rec,      \* the __block variable `recording' each of them shares with onTick
  ticks,    \* how many onTick blocks each of them has running
  at,       \* place of the main thread, of each worker's onTick past its loop,
            \* and of each transmit worker, which goes on in its onTick2
  keyedBy,  \* who closed the PTT line last; m_test is TRUE when it is not NoOne
  player,   \* what wPlayer is running
  cwTime    \* thePlayer->cwTime: the Morse signature is still to be sent

vars == <<sec, g, mem, mon, rec, ticks, at, keyedBy, player, cwTime>>

Settings ==
  [monitoring : BOOLEAN, transmitting : BOOLEAN, killAll : BOOLEAN,
   qsoInProgress : BOOLEAN, sent73 : BOOLEAN, sendCall : BOOLEAN,
   morseNext : BOOLEAN, monitorButton : BOOLEAN, transmitButton : BOOLEAN,
   light : {"none", "yellow", "red"}]

\* The lines that are places.  494 and 496 are lines of checkFor73 in
\* qsoManager.m, 535 is one of printHeardSignals in WSJTXAppDelegate.m.
MonitorQueueLines  == {68, 69, 70, 71, 72}
TransmitQueueLines == {153, 155, 156, 157, 158, 163, 164, 166, 172, 173, 174,
                       175, 179, 181, 193} \cup MonitorQueueLines
SetUpLines  == {378, 384, 385, 386}
KillLines   == {279, 280, 281, 282, 284}
MainLines   == {494, 496, 535} \cup KillLines \cup TransmitQueueLines
OnTickLines == {122, 124, 128, 131, 133} \cup SetUpLines \cup TransmitQueueLines

WaitLines    == {198, 202, 203, 215}
KeyingLines  == {216, 217, 218}
OnAirLines   == {219, 220, 224, 235, 238, 239, 240}
ClosingLines == {242, 249, 250, 251, 252, 253, 254, 257}
                  \cup SetUpLines \cup MonitorQueueLines
TransmitLines == WaitLines \cup KeyingLines \cup OnAirLines \cup ClosingLines

Threads == Mons \cup Txs \cup {Operator}

\* A transmission that is past its wait for the top of the minute.
InTransmission(t) == at[t] \in KeyingLines \cup OnAirLines \cup ClosingLines

PlacesOK ==
  /\ at \in [Threads -> Nat]
  /\ at[Operator] \in {0} \cup MainLines
  /\ \A m \in Mons : at[m] \in {0} \cup OnTickLines
  /\ \A t \in Txs : at[t] \in {0} \cup TransmitLines

TypeOK ==
  /\ sec \in 0 .. Minute - 1
  /\ g \in Settings
  /\ mem \in BOOLEAN
  /\ mon \in [Mons -> {0, 84, 91, 104, 105, 107, 137}]
  /\ rec \in [Mons -> BOOLEAN]
  /\ ticks \in [Mons -> Nat]
  /\ PlacesOK
  /\ keyedBy \in Txs \cup {Operator, NoOne}
  /\ player \in {"off", "tones", "file"}
  /\ cwTime \in BOOLEAN

Init ==
  /\ sec \in 0 .. Minute - 1
  /\ g = [monitoring |-> FALSE, transmitting |-> FALSE, killAll |-> FALSE,
          qsoInProgress |-> FALSE, sent73 |-> FALSE, sendCall |-> FALSE,
          morseNext |-> FALSE, monitorButton |-> TRUE, transmitButton |-> TRUE,
          light |-> "none"]
  /\ mem = FALSE
  /\ mon = [m \in Mons |-> 0]
  /\ rec = [m \in Mons |-> FALSE]
  /\ ticks = [m \in Mons |-> 0]
  /\ at = [th \in Threads |-> 0]
  /\ keyedBy = NoOne
  /\ player = "off"
  /\ cwTime = FALSE

-----------------------------------------------------------------------------
(* Statements.                                                             *)

Goto(th, from, to) == at[th] = from /\ at' = [at EXCEPT ![th] = to]

\* A statement that changes nothing but settings: flags, buttons, indicator.
Sets(th, from, to, s) ==
  /\ Goto(th, from, to)
  /\ g' = s
  /\ UNCHANGED <<sec, mem, mon, rec, ticks, keyedBy, player, cwTime>>

Test(th, from, then, condition, else) ==
  Sets(th, from, IF condition THEN then ELSE else, g)

\* Every call with onOff TRUE sets both the recording and the transmitting
\* flag of the indicator, so its colour depends on the last call alone.
setRecordState(onOff, recWait) ==
  IF onOff /\ recWait = 1 THEN "yellow"
  ELSE IF onOff /\ recWait = 3 THEN "red"
  ELSE "none"

Shows(onOff, recWait) == [g EXCEPT !.light = setRecordState(onOff, recWait)]

\* Where a thread goes on after a dispatch method, setUpJt9 and checkFor73.
Return(th)     == IF th \in Mons THEN 133 ELSE 0
AfterSetUp(th) == IF th \in Mons THEN 131 ELSE 68

-----------------------------------------------------------------------------
(* The two queues, called by the main thread, onTick and onTick2.          *)

\* Mutation: `recording' starts as whatever it was.
StartMonitorUnset(th) ==
  /\ Goto(th, 72, Return(th))
  /\ g.monitoring /\ ~g.transmitting
  /\ g' = [g EXCEPT !.transmitButton = TRUE]
  /\ \E m \in Mons :
       /\ mon[m] = 0 /\ ticks[m] = 0
       /\ mon' = [mon EXCEPT ![m] = 84]
  /\ UNCHANGED <<sec, mem, rec, ticks, keyedBy, player, cwTime>>

\* The block that is dispatched looks at the same flags before anything else.
StartMonitor(th) ==
  /\ Goto(th, 72, Return(th))
  /\ g.monitoring /\ ~g.transmitting
  /\ g' = [g EXCEPT !.transmitButton = TRUE]
  /\ \E m \in Mons :
       /\ mon[m] = 0 /\ ticks[m] = 0
       /\ mon' = [mon EXCEPT ![m] = 84]
       /\ rec' = [rec EXCEPT ![m] = TRUE]
  /\ UNCHANGED <<sec, mem, ticks, keyedBy, player, cwTime>>

\* Mutation: the monitor button stays enabled.
DisableMonitorNot(th) ==
  Sets(th, 71, 72, g) \/ Sets(th, 181, 193, g)

DisableMonitor(th) ==
  \/ Sets(th, 71, 72, [g EXCEPT !.monitorButton = FALSE])
  \/ Sets(th, 181, 193, [g EXCEPT !.monitorButton = FALSE])

dispatchMonitorQueue(th) ==
  \/ Sets(th, 68, 69, [g EXCEPT !.monitoring = ~@])
  \/ Sets(th, 69, 70, [g EXCEPT !.killAll = FALSE])
  \/ Sets(th, 70, 71, Shows(g.monitoring, 0))
  \/ DisableMonitor(th)
  \/ StartMonitor(th)
  \/ /\ ~(g.monitoring /\ ~g.transmitting)
     /\ Sets(th, 72, Return(th), g)

StartTransmitter(th) ==
  /\ at[th] = 193
  /\ \E t \in Txs :
       /\ at[t] = 0
       /\ at' = [at EXCEPT ![t] = 198, ![th] = Return(th)]
  /\ UNCHANGED <<sec, g, mem, mon, rec, ticks, keyedBy, player, cwTime>>

\* A transmission that is already asked for is withdrawn (155 .. 159).
dispatchTransmitQueue(th) ==
  \/ Test(th, 153, 155, g.transmitting, 163)
  \/ Sets(th, 155, 156, [g EXCEPT !.transmitting = FALSE])
  \/ Sets(th, 156, 157, [g EXCEPT !.monitoring = FALSE])
  \/ Sets(th, 157, 158, [g EXCEPT !.transmitButton = FALSE])
  \/ Sets(th, 158, 68, [g EXCEPT !.monitorButton = TRUE])
  \/ dispatchMonitorQueue(th)
  \/ Sets(th, 163, 164, [g EXCEPT !.transmitButton = TRUE])
  \/ Sets(th, 164, 166, [g EXCEPT !.killAll = FALSE])
  \/ Sets(th, 166, 172, [g EXCEPT !.transmitting = g.monitoring \/ ~@])
  \/ Sets(th, 172, 173, Shows(g.transmitting, 0))
  \/ Test(th, 173, 174, ~g.transmitting, 179)
  \/ Sets(th, 174, 175, [g EXCEPT !.monitoring = FALSE])
  \/ Sets(th, 175, 179, [g EXCEPT !.qsoInProgress = FALSE])
  \/ Test(th, 179, 181, g.transmitting, Return(th))
  \/ StartTransmitter(th)

\* setUpJt9 hands the period to the decoder, or gives up without its memory.
setUpJt9(th) ==
  \/ Test(th, 378, AfterSetUp(th), mem, 384)
  \/ Sets(th, 384, 385, [g EXCEPT !.qsoInProgress = FALSE])
  \/ Sets(th, 385, 386, [g EXCEPT !.monitoring = FALSE])
  \/ Sets(th, 386, AfterSetUp(th), [g EXCEPT !.transmitting = FALSE])

checkFor73 ==
  \/ Sets(Operator, 494, 0, [g EXCEPT !.sent73 = TRUE])
  \/ Sets(Operator, 496, 0, [g EXCEPT !.sent73 = FALSE])

-----------------------------------------------------------------------------
(* The operator, and the decoder's answer, on the main thread, one event   *)
(* after the other.                                                        *)

\* Once attached the segment stays; before that an attempt may fail, and be
\* reported as a failure or not.
setUpAndAttachSharedMemory == mem' \in {mem, TRUE}

record48SecondsAndDecode ==
  /\ Goto(Operator, 0, 68) /\ g.monitorButton
  /\ setUpAndAttachSharedMemory
  /\ UNCHANGED <<sec, g, mon, rec, ticks, keyedBy, player, cwTime>>

transmitMessage ==
  /\ Goto(Operator, 0, 153) /\ g.transmitButton
  /\ setUpAndAttachSharedMemory
  /\ UNCHANGED <<sec, g, mon, rec, ticks, keyedBy, player, cwTime>>

killAllViaTransmitQueue == Sets(Operator, 0, 279, [g EXCEPT !.monitoring = FALSE])

KillTheRest ==
  \/ Sets(Operator, 279, 280, [g EXCEPT !.transmitting = FALSE])
  \/ Sets(Operator, 280, 281, [g EXCEPT !.qsoInProgress = FALSE])
  \/ Sets(Operator, 281, 282, [g EXCEPT !.killAll = TRUE])
  \/ Sets(Operator, 282, 284, Shows(FALSE, 0))
  \/ Sets(Operator, 284, 0, [g EXCEPT !.monitorButton = TRUE])

testPTT ==
  /\ at[Operator] = 0
  /\ keyedBy' = IF keyedBy # NoOne THEN NoOne ELSE Operator
  /\ UNCHANGED <<sec, g, mem, mon, rec, ticks, at, player, cwTime>>

sendCallAfterNextTransmission ==
  Sets(Operator, 0, 0, [g EXCEPT !.sendCall = TRUE])

\* A click on a line of the exchange; the line may or may not be a 73, which
\* checkFor73 finds out next.
chooseThisThingToSay ==
  \E is73 \in BOOLEAN :
    Sets(Operator, 0, IF is73 THEN 494 ELSE 496, [g EXCEPT !.qsoInProgress = TRUE])

startPlayer ==
  /\ FilePlayer /\ at[Operator] = 0 /\ player = "off"
  /\ player' = "file"
  /\ UNCHANGED <<sec, g, mem, mon, rec, ticks, at, keyedBy, cwTime>>

quitPlayer ==
  /\ FilePlayer /\ at[Operator] = 0 /\ player # "off"
  /\ player' = "off"
  /\ UNCHANGED <<sec, g, mem, mon, rec, ticks, at, keyedBy, cwTime>>

\* printHeardSignals meets a line with both call signs: addReceivedQSOLine
\* puts the QSO in progress.  The line may come at any time: the decoder is
\* another process.
HearLine == Sets(Operator, 0, 535, [g EXCEPT !.qsoInProgress = TRUE])

\* An answer is asked for unless a transmission already is.
AnswerLine ==
  \/ /\ g.qsoInProgress /\ ~g.transmitting
     /\ Goto(Operator, 535, 153)
     /\ setUpAndAttachSharedMemory
     /\ UNCHANGED <<sec, g, mon, rec, ticks, keyedBy, player, cwTime>>
  \/ /\ ~(g.qsoInProgress /\ ~g.transmitting)
     /\ Sets(Operator, 535, 0, g)

-----------------------------------------------------------------------------
(* Monitor workers (the block of dispatchMonitorQueue) and their onTick.   *)

Monitoring == g.monitoring /\ ~g.killAll /\ ~g.transmitting

MonitorAt(m, from, to) == mon[m] = from /\ mon' = [mon EXCEPT ![m] = to]

\* Mutation: `recording' is not cleared.
RecordWaitUnclaimed(m) ==
  /\ MonitorAt(m, 84, 91) /\ Monitoring /\ rec[m]
  /\ UNCHANGED <<sec, g, mem, rec, ticks, at, keyedBy, player, cwTime>>

\* The worker claims `recording' and waits for the top of the minute.
RecordWait(m) ==
  /\ MonitorAt(m, 84, 91) /\ Monitoring /\ rec[m]
  /\ rec' = [rec EXCEPT ![m] = FALSE]
  /\ UNCHANGED <<sec, g, mem, ticks, at, keyedBy, player, cwTime>>

\* Mutation: the loop ends for a transmission only.
StopMonitoringForTx(m) ==
  /\ MonitorAt(m, 84, 0) /\ g.transmitting
  /\ UNCHANGED <<sec, g, mem, rec, ticks, at, keyedBy, player, cwTime>>

StopMonitoring(m) ==
  /\ MonitorAt(m, 84, 0) /\ ~Monitoring
  /\ UNCHANGED <<sec, g, mem, rec, ticks, at, keyedBy, player, cwTime>>

RecordWaitOver(m) ==
  mon[m] = 91 /\ (sec = 0 \/ ~g.monitoring \/ g.transmitting)

EndRecordWait(m) ==
  /\ RecordWaitOver(m) /\ MonitorAt(m, 91, 104)
  /\ UNCHANGED <<sec, g, mem, rec, ticks, at, keyedBy, player, cwTime>>

\* Mutation: the indicator is set before the flags are looked at.
StartRecordingYellow(m) ==
  /\ \/ /\ MonitorAt(m, 104, IF Monitoring THEN 105 ELSE 84)
        /\ g' = Shows(TRUE, 1)
     \/ MonitorAt(m, 105, 107) /\ g' = g
     \/ /\ MonitorAt(m, 107, 137)
        /\ g' = [g EXCEPT !.transmitButton = FALSE]
  /\ UNCHANGED <<sec, mem, rec, ticks, at, keyedBy, player, cwTime>>

StartRecording(m) ==
  /\ \/ MonitorAt(m, 104, IF Monitoring THEN 105 ELSE 84) /\ g' = g
     \/ MonitorAt(m, 105, 107) /\ g' = Shows(g.monitoring, 1)
     \/ /\ MonitorAt(m, 107, 137)
        /\ g' = [g EXCEPT !.transmitButton = FALSE]
  /\ UNCHANGED <<sec, mem, rec, ticks, at, keyedBy, player, cwTime>>

DispatchOnTick(m) ==
  /\ MonitorAt(m, 137, 84)
  /\ ticks' = [ticks EXCEPT ![m] = @ + 1]
  /\ UNCHANGED <<sec, g, mem, rec, at, keyedBy, player, cwTime>>

TickOver(m) ==
  ticks[m] > 0 /\ at[m] = 0 /\ (sec > SlotEnd \/ ~Monitoring)

\* `recording' is given back, and the block is over.
GiveBack(m) ==
  /\ Goto(m, 133, 0)
  /\ rec' = [rec EXCEPT ![m] = TRUE]
  /\ ticks' = [ticks EXCEPT ![m] = @ - 1]
  /\ g' = [g EXCEPT !.transmitButton = TRUE]
  /\ UNCHANGED <<sec, mem, mon, keyedBy, player, cwTime>>

\* The end of onTick.  A transmission asked for meanwhile ends the recording
\* too, and takes the second branch.
onTick(m) ==
  \/ TickOver(m) /\ Sets(m, 0, 122, g)
  \/ Test(m, 122, 124, ~g.monitoring \/ g.killAll, 128)
  \/ Sets(m, 124, 133, Shows(FALSE, 0))
  \/ Sets(m, 128, 378, Shows(TRUE, 0))
  \/ setUpJt9(m)
  \/ Test(m, 131, 153, g.qsoInProgress, 133)
  \/ dispatchTransmitQueue(m)
  \/ GiveBack(m)

-----------------------------------------------------------------------------
(* Transmit workers (the block of dispatchTransmitQueue) and onTick2.      *)

TransmitWait(t) ==
  \/ Test(t, 198, 202, g.transmitting, 0)
  \/ Sets(t, 202, 203, Shows(TRUE, 4))

TransmitWaitOver(t) == at[t] = 203 /\ (sec = 0 \/ ~g.transmitting)

EndTransmitWait(t) ==
  \/ TransmitWaitOver(t) /\ Sets(t, 203, 215, g)
  \/ Test(t, 215, 216, g.transmitting, 0)

\* generateTonesForMessage takes the message and looks for a 73 in it.
generateTonesForMessage(t) ==
  \E is73 \in BOOLEAN : Sets(t, 216, 217, [g EXCEPT !.sent73 = is73])

\* morse prepares the signature when one is due.
Sign(t) ==
  LET due == g.sent73 \/ g.sendCall
  IN  /\ Goto(t, 217, 218)
      /\ g' = [g EXCEPT !.morseNext = due \/ @]
      /\ cwTime' = (due \/ cwTime)
      /\ UNCHANGED <<sec, mem, mon, rec, ticks, keyedBy, player>>

clickPttOn(t) ==
  /\ Goto(t, 218, 219)
  /\ keyedBy' = t
  /\ UNCHANGED <<sec, g, mem, mon, rec, ticks, player, cwTime>>

\* initializePlayer does nothing when the player is already running.
Play(t) ==
  \/ /\ Goto(t, 219, 220)
     /\ player' = IF player = "off" THEN "tones" ELSE player
     /\ UNCHANGED <<sec, g, mem, mon, rec, ticks, keyedBy, cwTime>>
  \/ Sets(t, 220, 224, Shows(g.transmitting, 3))

PlayOver(t) ==
  at[t] = 224 /\ (sec > SlotEnd \/ ~g.transmitting \/ g.killAll)

MorseOver(t) ==
  at[t] = 235 /\ ~(cwTime /\ ~g.killAll /\ g.morseNext /\ g.transmitting)

EndOfSlot(t) ==
  \/ PlayOver(t) /\ Sets(t, 224, 235, g)
  \/ MorseOver(t) /\ Sets(t, 235, 238, g)
  \/ Sets(t, 238, 239, [g EXCEPT !.morseNext = FALSE])

StopPlayer(t) ==
  /\ Goto(t, 239, 240)
  /\ player' = "off"
  /\ UNCHANGED <<sec, g, mem, mon, rec, ticks, keyedBy, cwTime>>

\* Mutation: clickPttOff is forgotten.
clickPttOffNot(t) ==
  /\ Goto(t, 240, 242)
  /\ UNCHANGED <<sec, g, mem, mon, rec, ticks, keyedBy, player, cwTime>>

clickPttOff(t) ==
  /\ Goto(t, 240, 242)
  /\ keyedBy' = NoOne
  /\ UNCHANGED <<sec, g, mem, mon, rec, ticks, player, cwTime>>

\* Mutation: m_killAll is not looked at.
LookAtKillNot(t) == Sets(t, 254, 257, g)

LookAtKill(t) == Test(t, 254, 257, ~g.killAll, 0)

\* Mutation: every transmission ends the QSO.
EndQsoAlways(t) == Sets(t, 253, 254, [g EXCEPT !.qsoInProgress = FALSE])

EndQso(t) ==
  Sets(t, 253, 254, [g EXCEPT !.qsoInProgress = @ /\ ~g.sent73])

\* The end of onTick2.  252 moves the sequence on, which is no part of this
\* module; nor is 259, which shows the lines that went out.
onTick2(t) ==
  \/ Sets(t, 242, 249, IF g.transmitting THEN Shows(TRUE, 2) ELSE Shows(FALSE, 0))
  \/ Sets(t, 249, 250, [g EXCEPT !.monitoring = FALSE])
  \/ Sets(t, 250, 251, [g EXCEPT !.monitorButton = TRUE])
  \/ Sets(t, 251, 252, [g EXCEPT !.transmitting = FALSE])
  \/ Sets(t, 252, 253, g)
  \/ EndQso(t)
  \/ LookAtKill(t)
  \/ Sets(t, 257, IF DecodeOwn THEN 378 ELSE 68, [g EXCEPT !.monitoring = FALSE])
  \/ setUpJt9(t)
  \/ dispatchMonitorQueue(t)

-----------------------------------------------------------------------------
(* The audio render callback and the clock.                                *)

\* JTWaveRenderProc sends the signature after the slot...
MorseSent ==
  /\ player = "tones" /\ cwTime /\ sec > SlotEnd
  /\ cwTime' = FALSE
  /\ player' = "off"
  /\ g' = [g EXCEPT !.morseNext = FALSE, !.sendCall = FALSE]
  /\ UNCHANGED <<sec, mem, mon, rec, ticks, at, keyedBy>>

\* Mutation: no cut.
NoMorseCut == FALSE

\* ... and cuts it in the last second of the minute.
MorseCutDue == player = "tones" /\ cwTime /\ sec = Minute - 1

\* Mutation: the player stops but cwTime stays.
MorseCutHalf ==
  /\ MorseCutDue
  /\ player' = "off"
  /\ UNCHANGED <<sec, g, mem, mon, rec, ticks, at, keyedBy, cwTime>>

MorseCut ==
  /\ MorseCutDue
  /\ cwTime' = FALSE
  /\ player' = "off"
  /\ UNCHANGED <<sec, g, mem, mon, rec, ticks, at, keyedBy>>

\* WavFileRenderProc reaches the end of the file.
FileEnds ==
  /\ player = "file"
  /\ player' = "off"
  /\ UNCHANGED <<sec, g, mem, mon, rec, ticks, at, keyedBy, cwTime>>

MonitorReady(m) ==
  \/ mon[m] = 84 /\ (rec[m] \/ ~Monitoring)
  \/ RecordWaitOver(m) \/ mon[m] \in {104, 105, 107, 137}
  \/ TickOver(m) \/ at[m] # 0

TransmitReady(t) ==
  \/ at[t] \notin {0, 203, 224, 235}
  \/ TransmitWaitOver(t) \/ PlayOver(t) \/ MorseOver(t)

\* Mutation: the second is not taken modulo the minute.
TickUnwrapped ==
  /\ sec' = sec + 1
  /\ UNCHANGED <<g, mem, mon, rec, ticks, at, keyedBy, player, cwTime>>

\* Polls are 50 or 100 ms apart.  When Timely, every poll that finds something
\* to do in this second, and what follows it, is over before the second is.
Tick ==
  /\ Timely => /\ \A m \in Mons : ~MonitorReady(m)
               /\ \A t \in Txs : ~TransmitReady(t)
               /\ at[Operator] = 0 /\ ~MorseCutDue
  /\ sec' = (sec + 1) % Minute
  /\ UNCHANGED <<g, mem, mon, rec, ticks, at, keyedBy, player, cwTime>>

-----------------------------------------------------------------------------
MonitorWorker(m) ==
  \/ RecordWait(m) \/ StopMonitoring(m) \/ EndRecordWait(m)
  \/ StartRecording(m) \/ DispatchOnTick(m)

OnAirWorker(t) ==
  \/ TransmitWait(t) \/ EndTransmitWait(t) \/ Sign(t) \/ clickPttOn(t)
  \/ Play(t) \/ EndOfSlot(t) \/ StopPlayer(t) \/ clickPttOff(t)

TransmitWorker(t) ==
  generateTonesForMessage(t) \/ OnAirWorker(t) \/ onTick2(t)

\* What begins on the main thread, and how it goes on.
Button ==
  record48SecondsAndDecode \/ transmitMessage \/ killAllViaTransmitQueue

Event == Button \/ HearLine

\* What the operator does that reaches neither queue.
Aside ==
  \/ testPTT \/ sendCallAfterNextTransmission \/ chooseThisThingToSay
  \/ startPlayer \/ quitPlayer

Handler ==
  \/ KillTheRest \/ checkFor73 \/ AnswerLine
  \/ dispatchTransmitQueue(Operator)

Audio == MorseSent \/ MorseCut \/ FileEnds

Workers ==
  \/ \E m \in Mons : MonitorWorker(m) \/ onTick(m)
  \/ \E t \in Txs : TransmitWorker(t)

Next == Event \/ Aside \/ Handler \/ Workers \/ Audio \/ Tick

Spec == Init /\ [][Next]_vars

\* GCD runs every dispatched block, a block that sleeps wakes up, a handler on
\* the main thread goes on, the audio unit keeps calling back and the clock
\* keeps going; nothing is assumed of the operator or of the stations heard.
Fairness ==
  /\ \A m \in Mons : WF_vars(MonitorWorker(m)) /\ WF_vars(onTick(m))
  /\ \A t \in Txs : WF_vars(TransmitWorker(t))
  /\ WF_vars(Handler) /\ WF_vars(MorseCut) /\ WF_vars(FileEnds) /\ WF_vars(Tick)

-----------------------------------------------------------------------------
(* Properties.                                                             *)

\* A rig keyed by a transmission has an onTick2 that is still going to unkey
\* it, whatever is cancelled, killed or asked for again meanwhile.
RigHasAnOwner == \A t \in Txs : keyedBy = t => at[t] \in OnAirLines

\* `recording' is a handshake between a monitor worker and its onTick: while
\* the one waits or the other records nobody else may claim it, so that one
\* worker never has two recordings going, nor waits for the next during one.
OneRecordingPerMonitor ==
  \A m \in Mons :
    /\ ticks[m] \in {0, 1}
    /\ ticks[m] = 1 => ~rec[m]
    /\ mon[m] \in {91, 104, 105, 107, 137} => ticks[m] = 0 /\ ~rec[m]

\* The indicator does not show red when no onTick2 is left to play, nor
\* yellow when no onTick is left to record.
LightIsTrue ==
  /\ g.light = "red" => \E t \in Txs : at[t] \in 224 .. 242
  /\ g.light = "yellow" => \E m \in Mons : ticks[m] > 0 \/ mon[m] \in {107, 137}

\* No transmission reaches into the next minute: what was keyed at the top of
\* a minute is unkeyed and done with before that minute is over, unless it waits
\* for Morse that no player sends (see WaitsWhileMorseGoes).
DoneWithinTheMinute ==
  [][sec' < sec => \A t \in Txs : InTransmission(t)
                                   => at[t] = 235 /\ player # "tones"]_vars

\* Every transmission that keys the rig comes to its end, but for one that
\* waits for Morse that no player sends (see WaitsWhileMorseGoes).
WaitsInVain(t) == at[t] = 235 /\ cwTime /\ player # "tones"

TransmissionEnds ==
  \A t \in Txs : (at[t] = 219) ~> (at[t] = 0 \/ []WaitsInVain(t))

\* When the operator kills everything and starts nothing again, all workers
\* come to an end and leave the rig unkeyed.
Idle ==
  /\ \A m \in Mons : mon[m] = 0 /\ ticks[m] = 0
  /\ \A t \in Txs : at[t] = 0
  /\ keyedBy \notin Txs

KillQuiesces == <>[](g.killAll) => <>[]Idle

\* Monitoring that is left alone records in minute after minute: no worker is
\* left looping with `recording' cleared and nobody to set it.
MonitoringRecords ==
  <>[]Monitoring => []<>(\E m \in Mons : ticks[m] > 0)

\* "we have 12 seconds to respond if m_qsoInProgress was set by qsoManager
\* make sure the transmit queue is ready to go": a QSO in progress while
\* monitoring gets its turn on the air, unless it is ended first.
QsoGetsItsTurn ==
  (g.qsoInProgress /\ g.monitoring)
    ~> (keyedBy \in Txs \/ ~g.qsoInProgress)

\* "wait while morse goes": onTick2 does not stay in that wait, the rig keyed,
\* when there is no Morse going.
WaitsWhileMorseGoes ==
  \A t \in Txs :
    (at[t] = 235 /\ player # "tones") ~> (at[t] # 235)

=============================================================================
