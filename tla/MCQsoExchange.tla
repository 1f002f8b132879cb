--------------------------- MODULE MCQsoExchange ---------------------------
(***************************************************************************)
(* QsoExchange for TLC: at most MaxEvents events of the operator, as in    *)
(* MCTransmitReceiveLive.                                                  *)
(***************************************************************************)
EXTENDS QsoExchange

CONSTANTS MaxClicks, MaxButtons

VARIABLES clicks, buttons

LowestSlot ==
  /\ \A m, n \in Mons :
       /\ mon[m] = 0 /\ ticks[m] = 0 /\ mon'[m] # 0 /\ n < m
       => mon[n] # 0 \/ ticks[n] > 0
  /\ \A t, u \in Txs :
       at[t] = 0 /\ at'[t] # 0 /\ u < t => at[u] # 0

MCInit == Init /\ ExchangeInit /\ clicks = 0 /\ buttons = 0

MCClick ==
  /\ clicks < MaxClicks /\ Click
  /\ clicks' = clicks + 1 /\ UNCHANGED buttons

MCButton ==
  /\ buttons < MaxButtons /\ Press
  /\ buttons' = buttons + 1 /\ UNCHANGED clicks

MCRest == ExchangeRest /\ LowestSlot /\ UNCHANGED <<clicks, buttons>>

\* Nothing is asked of a contact that was crossed, and it is left there.
Crossed == crossed /\ UNCHANGED <<vars, exchange, clicks, buttons>>

MCNext == (~crossed /\ (MCClick \/ MCButton \/ MCRest)) \/ Crossed

MCSpec == MCInit /\ [][MCNext]_<<vars, exchange, clicks, buttons>> /\ ExchangeFairness

=============================================================================
