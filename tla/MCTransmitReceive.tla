------------------------- MODULE MCTransmitReceive -------------------------
(***************************************************************************)
(* Instances of TransmitReceiveKill for TLC: at most MaxEvents events      *)
(* begin on the main thread, and at most MaxAsides of them are such as     *)
(* dispatch nothing.                                                       *)
(***************************************************************************)
EXTENDS TransmitReceiveKill, TLC

CONSTANTS MaxEvents, MaxAsides

VARIABLES events, asides

\* The workers of a pool are interchangeable.
WorkerSymmetry == Permutations(Mons) \cup Permutations(Txs)

\* A dispatch that finds no slot free: the instance ends here, not the program.
OutOfSlots ==
  /\ \E th \in Threads :
       \/ at[th] = 72 /\ \A m \in Mons : mon[m] # 0 \/ ticks[m] # 0
       \/ at[th] = 193 /\ \A t \in Txs : at[t] # 0
  /\ UNCHANGED vars

MCInit == KillInit /\ events = 0 /\ asides = 0

MCNext ==
  /\ \/ /\ events < MaxEvents /\ Event
        /\ events' = events + 1 /\ UNCHANGED asides
     \/ /\ asides < MaxAsides /\ Aside
        /\ asides' = asides + 1 /\ UNCHANGED events
     \/ /\ Handler \/ Workers \/ Audio \/ Tick \/ OutOfSlots
        /\ UNCHANGED <<events, asides>>
  /\ MeetsLate

MCSpec == MCInit /\ [][MCNext]_<<vars, late, events, asides>>

=============================================================================
