----------------------- MODULE MCTransmitReceiveLive -----------------------
(***************************************************************************)
(* TransmitReceive for the temporal properties: at most MaxEvents events   *)
(* on the main thread, so that the worker slots suffice and no worker is   *)
(* held up for want of one (a deadlock would show it).                     *)
(***************************************************************************)
EXTENDS TransmitReceive

CONSTANTS
  MaxEvents,
  Hears      \* TRUE: lines with both call signs are heard

VARIABLE events

BoundedInit == Init /\ events = 0

\* The slots are numbered here and the lowest free one is taken: the other
\* choices differ by the name of the slot alone.
LowestSlot ==
  /\ \A m, n \in Mons :
       /\ mon[m] = 0 /\ ticks[m] = 0 /\ mon'[m] # 0 /\ n < m
       => mon[n] # 0 \/ ticks[n] > 0
  /\ \A t, u \in Txs :
       at[t] = 0 /\ at'[t] # 0 /\ u < t => at[u] # 0

BoundedEvent ==
  /\ events < MaxEvents /\ (Button \/ Aside \/ (Hears /\ HearLine))
  /\ events' = events + 1

BoundedRest ==
  /\ Handler \/ Workers \/ Audio \/ Tick
  /\ LowestSlot /\ UNCHANGED events

BoundedNext == BoundedEvent \/ BoundedRest

BoundedSpec ==
  BoundedInit /\ [][BoundedNext]_<<vars, events>> /\ Fairness

=============================================================================
