---------------------------- MODULE QsoExchange ----------------------------
(***************************************************************************)
(* A contact with one station: qsoManager.m and sequencer.m on top of the  *)
(* workers of TransmitReceive.  A click on a heard line prepares the four  *)
(* lines of an exchange (grid, strength, RRR, 73); the line in the message *)
(* field goes out with the next transmission; the sequence moves on when a *)
(* transmission of a QSO in progress ends, and when the station is heard   *)
(* while no transmission is asked for.                                     *)
(*                                                                         *)
(* Every action is one of TransmitReceive together with what it does to    *)
(* the exchange.  The answers heard are those of a decoder in time: they   *)
(* come between the end of a recording and the end of its minute; and they *)
(* are heard in recordings that went past second 0 of the minute.          *)
(***************************************************************************)
EXTENDS TransmitReceive

VARIABLES
  built,    \* the lines of an exchange are in _qsoLines, m_hisCall is set
  count,    \* sequenceCount
  message,  \* the line in theMessage, NoLine for the CQ it starts with
  sent,     \* the last line that went on the air, or need not any more
  fresh,    \* a period recorded in this minute is with the decoder
  crossed   \* a transmission was taken back, or two threads dispatched at once

exchange == <<built, count, message, sent, fresh, crossed>>

Last   == 3    \* index of the 73, sequenceMax of an exchange
NoLine == -1

ExchangeTypeOK ==
  /\ {built, fresh, crossed} \subseteq BOOLEAN
  /\ count \in 0 .. Last + 1
  /\ message \in NoLine .. Last
  /\ sent \in NoLine .. Last
  /\ built => message # NoLine

ExchangeInit ==
  /\ built = FALSE
  /\ count = 0
  /\ message = NoLine
  /\ sent = NoLine
  /\ fresh = FALSE
  /\ crossed = FALSE

-----------------------------------------------------------------------------
\* A transmission asked for is taken back, or two threads dispatch at once.
Dispatching(th) == at[th] \in ClosingLines \cup TransmitQueueLines \cup KillLines
Crosses ==
  \/ g.transmitting /\ ~g'.transmitting /\ \A t \in Txs : at[t] # 251 \/ at'[t] = 251
  \/ \E th \in Threads : at[th] = 153 /\ at'[th] = 155
  \/ \E th, other \in Threads : th # other /\ Dispatching(th)' /\ Dispatching(other)'

Crossing == crossed' = (crossed \/ Crosses)

NothingSaid == Crossing /\ UNCHANGED <<built, count, message, sent, fresh>>

\* Mutation: the bound of the sequence is not looked at.
TogglePastTheEnd ==
  /\ count' = count + 1
  /\ message' = IF built THEN count + 1 ELSE message

\* The counter moves past the last line and stays there (one value, Last + 1,
\* stands for all of them); the message does not.
toggleXmitSequence ==
  LET next == IF count > Last THEN count ELSE count + 1
  IN  /\ count' = next
      /\ message' = IF built /\ next <= Last THEN next ELSE message

\* A click while a transmission is on the air or an answer may come can make
\* the sequence move on from the line clicked: that is on the operator.
OnTheAir == \E t \in Txs : InTransmission(t) /\ at[t] # 216
Hasty == fresh \/ OnTheAir

startQSOWithThisGuy ==
  /\ at[Operator] = 0
  /\ built' = TRUE
  /\ count' = 0
  /\ message' = 0
  /\ sent' = IF Hasty THEN Last ELSE 0
  /\ UNCHANGED <<vars, fresh, crossed>>

\* A click on line i of the exchange; what went before no longer counts.
SayLine(i) ==
  /\ built
  /\ chooseThisThingToSay
  /\ at'[Operator] = IF i = Last THEN 494 ELSE 496
  /\ count' = i
  /\ message' = i
  /\ sent' = IF Hasty THEN Last ELSE i - 1
  /\ Crossing
  /\ UNCHANGED <<built, fresh>>

\* A line with both call signs, when onTick has handed over the recording and
\* is over.  Without a QSO in progress it begins one: the line it finds in the
\* message need not go out any more.
HearAnswer ==
  /\ built /\ fresh /\ \A m \in Mons : at[m] = 0
  /\ HearLine
  /\ sent' = IF g.transmitting \/ g.qsoInProgress \/ OnTheAir
              THEN sent ELSE message
  /\ Crossing
  /\ UNCHANGED <<built, count, message, fresh>>

\* Mutation: the sequence moves on although a transmission is asked for.
AnswerAlwaysToggles ==
  /\ AnswerLine
  /\ toggleXmitSequence
  /\ Crossing
  /\ UNCHANGED <<built, sent, fresh>>

Answer ==
  /\ AnswerLine
  /\ IF at'[Operator] = 153 THEN toggleXmitSequence
                            ELSE UNCHANGED <<count, message>>
  /\ Crossing
  /\ UNCHANGED <<built, sent, fresh>>

Dispatch == (KillTheRest \/ dispatchTransmitQueue(Operator)) /\ NothingSaid

\* generateTonesForMessage takes the message on the air.
KeyMessage(t) ==
  /\ generateTonesForMessage(t)
  /\ g'.sent73 = (message = Last)
  /\ sent' = message
  /\ Crossing
  /\ UNCHANGED <<built, count, message, fresh>>

\* Mutation: m_sent73 is looked at before the sequence, and stops it.
EndTransmissionLate(t) == onTick2(t) /\ NothingSaid

\* Line 252 moves the sequence on.
EndTransmission(t) ==
  /\ onTick2(t)
  /\ IF at[t] = 252 /\ g.qsoInProgress THEN toggleXmitSequence
                                       ELSE UNCHANGED <<count, message>>
  /\ Crossing
  /\ UNCHANGED <<built, sent, fresh>>

Press == Button /\ NothingSaid

\* A worker that ends its recording calls dispatchTransmitQueue too.
EndRecording(m) ==
  /\ onTick(m)
  /\ fresh' = (fresh \/ (at[m] = 378 /\ mem /\ sec # 0))
  /\ Crossing
  /\ UNCHANGED <<built, count, message, sent>>

NextSecond ==
  /\ Tick
  /\ fresh' = (fresh /\ sec' # 0)
  /\ Crossing
  /\ UNCHANGED <<built, count, message, sent>>

-----------------------------------------------------------------------------
Click == startQSOWithThisGuy \/ \E i \in 0 .. Last : SayLine(i)

ExchangeOperator == Click \/ Press

ExchangeHandler ==
  Dispatch \/ Answer \/ (checkFor73 /\ NothingSaid)

ExchangeMonitor(m) ==
  MonitorWorker(m) /\ NothingSaid

ExchangeTransmitter(t) ==
  \/ KeyMessage(t)
  \/ OnAirWorker(t) /\ NothingSaid
  \/ EndTransmission(t)

ExchangeMorse == (MorseSent \/ MorseCut) /\ NothingSaid

ExchangeRest ==
  \/ HearAnswer \/ ExchangeHandler
  \/ \E m \in Mons : ExchangeMonitor(m) \/ EndRecording(m)
  \/ \E t \in Txs : ExchangeTransmitter(t)
  \/ ExchangeMorse
  \/ NextSecond

ExchangeNext == ExchangeOperator \/ ExchangeRest

ExchangeSpec == Init /\ ExchangeInit /\ [][ExchangeNext]_<<vars, exchange>>

\* As Fairness; and there are finitely many answers in a second.
ExchangeFairness ==
  /\ \A m \in Mons : /\ WF_<<vars, exchange>>(ExchangeMonitor(m))
                     /\ WF_<<vars, exchange>>(EndRecording(m))
  /\ \A t \in Txs : WF_<<vars, exchange>>(ExchangeTransmitter(t))
  /\ WF_<<vars, exchange>>(ExchangeHandler)
  /\ WF_<<vars, exchange>>(ExchangeMorse) /\ SF_<<vars, exchange>>(NextSecond)

-----------------------------------------------------------------------------
(* Properties.                                                             *)

\* Two things move the sequence, the end of a transmission and an answer; of
\* a decoder in time they never both do so for one and the same line: no line
\* of an exchange is passed over, as long as no transmission is taken back or
\* asked for twice: by the operator, or by one of two workers that record the
\* same minute.
NoLineSkipped ==
  [][\A t \in Txs :
       at[t] = 216 /\ at'[t] = 217
       => message <= sent + 1 \/ crossed]_<<vars, exchange>>

\* A QSO that ends by itself has had its 73 on the air.
EndsWith73 ==
  [][\A t \in Txs :
       EndQso(t) /\ g.qsoInProgress /\ ~g'.qsoInProgress
       => sent = Last]_<<vars, exchange>>

\* A QSO in progress comes to its end once the operator records or transmits,
\* with or without further answers.  (After a withdrawal two workers may ask for
\* the next transmission and withdraw it: see QsoGetsItsTurn.)
QsoEnds ==
  (g.qsoInProgress /\ (g.monitoring \/ g.transmitting) /\ ~crossed)
    ~> (~g.qsoInProgress \/ crossed)

=============================================================================
