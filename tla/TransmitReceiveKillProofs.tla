--------------------- MODULE TransmitReceiveKillProofs ---------------------
(***************************************************************************)
(* Proofs of what a kill and the monitor button can be relied on for, with *)
(* every statement of every thread a step of its own: for any number of    *)
(* workers, and workers that sleep through any number of clock ticks.      *)
(***************************************************************************)
EXTENDS TransmitReceiveKill, TransmitReceiveProofs

-----------------------------------------------------------------------------
(* The invariant.                                                          *)

\* The main thread is past the statement that clears m_killAll, which nobody
\* but itself sets.
Cleared ==
  at[Operator] \in {70, 71, 72, 166, 172, 173, 174, 175, 179, 181, 193} => ~g.killAll

\* While a kill lasts no worker can undo it.
NobodyPast == g.killAll \/ Killing => ~SomePastLook

\* What is done of a kill stays done.
KillHolds ==
  /\ Killing => ~g.monitoring
  /\ at[Operator] \in {280, 281, 282, 284} => ~g.transmitting
  /\ at[Operator] \in {282, 284} => g.killAll
  /\ g.killAll => at[Operator] \notin {155, 156, 157, 158}
  /\ g.killAll /\ at[Operator] \in {0, 494, 496, 535, 153, 163, 164}
       => ~g.monitoring /\ ~g.transmitting /\ g.monitorButton

\* A thread that is still going to disable the monitor button, or to clear
\* both flags.
Owes(th) ==
  \/ at[th] \in {68, 69, 70, 71}
  \/ th \in Txs /\ at[th] \in {251, 252, 253, 254, 257} \cup SetUpLines

OwesTransmitting(th) == Owes(th) \/ at[th] \in {172, 173, 174, 175, 179, 181}

ButtonOwed ==
  /\ g.monitorButton /\ g.monitoring => \E th \in Threads : Owes(th)
  /\ g.monitorButton /\ g.transmitting /\ at[Operator] # 279
       => \E th \in Threads : OwesTransmitting(th)

KillInv == Cleared /\ (~late => NobodyPast /\ KillHolds /\ ButtonOwed)

-----------------------------------------------------------------------------
(* How the threads move through the lines it speaks of.                    *)

\* Nobody gets past the look at m_killAll once it is set.
LEMMA LooksFirst ==
  ASSUME TypeOK, NEW th \in Mons \cup Txs, Flow(th), g.killAll, ~PastLook(th)
  PROVE  ~PastLook(th)'
<1>0. /\ th \in Threads /\ at \in [Threads -> Nat] /\ th # Operator
      /\ th \in Mons => th \notin Txs /\ Return(th) = 133 /\ AfterSetUp(th) = 131
      /\ th \in Txs => th \notin Mons /\ Return(th) = 0 /\ AfterSetUp(th) = 68
  BY OwnerAssumption DEF Threads, TypeOK, PlacesOK, Return, AfterSetUp
<1> USE <1>0 DEF Goto, Become, Same, MonitoringBecomes, TransmittingBecomes, KillAllBecomes,
                ButtonBecomes
<1>1. CASE th \in Mons
  <2>1. at[th] \in {0, 122, 124, 133}
    BY <1>1 DEF PastLook, TypeOK, PlacesOK
  <2>2. at'[th] \in {0, 122, 124, 133}
    <3>1. ~MonitorQueueFlow(th) /\ ~RequestsFlow(th) /\ ~SetUpFlow(th)
      BY <2>1 DEF MonitorQueueFlow, RequestsFlow, SetUpFlow
    <3>2. OnTickFlow(th)
      BY <1>1, <3>1 DEF Flow
    <3>3. QED
      BY <2>1, <3>2 DEF OnTickFlow
  <2>3. QED
    BY <1>1, <2>2 DEF PastLook, OnTickLines, SetUpLines, TransmitQueueLines, MonitorQueueLines
<1>2. CASE th \in Txs
  <2>1. at[th] \notin {257} \cup SetUpLines \cup MonitorQueueLines
    BY <1>2 DEF PastLook
  <2>2. at[th] # 181
    BY <1>2 DEF TypeOK, PlacesOK, TransmitLines, WaitLines, KeyingLines, OnAirLines,
                ClosingLines, SetUpLines, MonitorQueueLines
  <2>3. ~MonitorQueueFlow(th) /\ ~SetUpFlow(th)
    BY <2>1, <2>2 DEF MonitorQueueFlow, SetUpFlow, SetUpLines, MonitorQueueLines
  <2>4. OnTick2Flow(th) \/ OnAirFlow(th)
    BY <1>2, <2>3 DEF Flow
  <2>5. at'[th] \notin {257} \cup SetUpLines \cup MonitorQueueLines
    <3>1. CASE OnTick2Flow(th)
      BY <2>1, <3>1 DEF OnTick2Flow, SetUpLines, MonitorQueueLines
    <3>2. CASE OnAirFlow(th)
      BY <3>2 DEF OnAirFlow, SetUpLines, MonitorQueueLines
    <3>3. QED
      BY <2>4, <3>1, <3>2
  <2>6. QED
    BY <1>2, <2>5 DEF PastLook
<1>3. QED
  BY <1>1, <1>2

\* The main thread's way through a kill, and back from a dispatch method.
LEMMA MainMoves ==
  ASSUME TypeOK, Flow(Operator)
  PROVE  /\ Killing' => \/ Killing
                        \/ at[Operator] = 0 /\ at'[Operator] = 279 /\ ~g'.monitoring
         /\ at'[Operator] \in {280, 281, 282, 284}
              => at[Operator] \in {280, 281, 282, 284} \/ ~g'.transmitting
         /\ at[Operator] = 279 => ~g'.transmitting
         /\ at'[Operator] \in {282, 284} => at[Operator] \in {282, 284} \/ g'.killAll
         /\ at'[Operator] \in {155, 156, 157, 158}
              => \/ at[Operator] \in {155, 156, 157, 158}
                 \/ at[Operator] = 153 /\ g.transmitting
         /\ at'[Operator] \in {0, 494, 496, 535, 153, 163, 164}
              => \/ at[Operator] \in {0, 494, 496, 535, 153, 163, 164, 72, 179, 193}
                 \/ at[Operator] = 284 /\ ButtonBecomes(TRUE)
         /\ at'[Operator] \in {70, 71, 72, 166, 172, 173, 174, 175, 179, 181, 193}
              => \/ at[Operator] \in {70, 71, 72, 166, 172, 173, 174, 175, 179, 181, 193}
                 \/ ~g'.killAll
<1>0. /\ Operator \in Threads /\ at \in [Threads -> Nat] /\ Return(Operator) = 0
      /\ Operator \notin Mons /\ Operator \notin Txs
  BY OwnerAssumption DEF Threads, TypeOK, PlacesOK, Return
<1> USE <1>0 DEF Killing, KillLines, Goto, Become, Same, MonitoringBecomes,
                TransmittingBecomes, KillAllBecomes, ButtonBecomes
<1>1. CASE MonitorQueueFlow(Operator)
  BY <1>1 DEF MonitorQueueFlow, KillAllBecomes, Become
<1>2. CASE RequestsFlow(Operator)
  BY <1>2 DEF RequestsFlow, KillAllBecomes, Become
<1>3. CASE MainFlow
  BY <1>3 DEF MainFlow, MonitoringBecomes, TransmittingBecomes, KillAllBecomes, Become
<1>4. QED
  BY <1>1, <1>2, <1>3 DEF Flow

\* What a thread owes it does, or a kill is on.
LEMMA OwesMoves ==
  ASSUME TypeOK, NEW th \in Threads, Flow(th)
  PROVE  /\ Owes(th) => Owes(th)' \/ ~g'.monitorButton
                        \/ (th \in Txs /\ at[th] = 254 /\ g.killAll /\ Same)
         /\ OwesTransmitting(th)
              => OwesTransmitting(th)' \/ ~g'.monitorButton \/ ~g'.transmitting
                 \/ (th \in Txs /\ at[th] = 254 /\ g.killAll /\ Same)
<1>0. /\ at \in [Threads -> Nat]
      /\ th \in Txs => AfterSetUp(th) = 68 /\ th \notin Mons /\ th # Operator
                       /\ at[th] \notin {172, 173, 174, 175, 179, 181}
  BY OwnerAssumption
  DEF TypeOK, PlacesOK, AfterSetUp, TransmitLines, WaitLines, KeyingLines, OnAirLines,
      ClosingLines, SetUpLines, MonitorQueueLines
<1> USE <1>0 DEF Owes, OwesTransmitting, SetUpLines, Goto, Become, Same, MonitoringBecomes,
                TransmittingBecomes, KillAllBecomes, ButtonBecomes
<1>1. CASE MonitorQueueFlow(th)
  BY <1>1 DEF MonitorQueueFlow, ButtonBecomes, Become
<1>2. CASE th \in Mons \cup {Operator} /\ RequestsFlow(th)
  BY <1>2 DEF RequestsFlow, TransmittingBecomes, Same, Become
<1>3. CASE th \in Mons \cup Txs /\ SetUpFlow(th)
  BY <1>3 DEF SetUpFlow
<1>4. CASE th = Operator /\ MainFlow
  BY <1>4 DEF MainFlow
<1>5. CASE th \in Mons /\ OnTickFlow(th)
  BY <1>5 DEF OnTickFlow
<1>6. CASE th \in Txs /\ OnTick2Flow(th)
  BY <1>6 DEF OnTick2Flow
<1>7. CASE th \in Txs /\ OnAirFlow(th)
  BY <1>7 DEF OnAirFlow
<1>8. QED
  BY <1>1, <1>2, <1>3, <1>4, <1>5, <1>6, <1>7 DEF Flow

\* A worker at a statement that may undo a kill is past its look at m_killAll.
LEMMA Undoing ==
  ASSUME TypeOK, NEW th \in Mons \cup Txs, at[th] \in {68, 69, 71, 158, 164, 166, 181}
  PROVE  PastLook(th) /\ SomePastLook
<1>1. CASE th \in Mons
  BY <1>1 DEF PastLook, SomePastLook, OnTickLines, SetUpLines, TransmitQueueLines,
              MonitorQueueLines
<1>2. CASE th \in Txs
  <2>1. at[th] \in MonitorQueueLines
    BY <1>2 DEF TypeOK, PlacesOK, TransmitLines, WaitLines, KeyingLines, OnAirLines,
                ClosingLines, SetUpLines, MonitorQueueLines
  <2>2. QED
    BY <1>2, <2>1 DEF PastLook, SomePastLook
<1>3. QED
  BY <1>1, <1>2

-----------------------------------------------------------------------------
(* Each part of the invariant is kept by a move.  MainStays says where the *)
(* main thread is when the move is another's.                              *)

Move(th) == TypeOK /\ Flow(th) /\ \A x \in Threads : x # th => Stays(x)

LEMMA MainStays ==
  ASSUME NEW th \in Threads, Move(th), th # Operator
  PROVE  at'[Operator] = at[Operator] /\ th \in Mons \cup Txs /\ (Killing' <=> Killing)
<1>1. Operator \in Threads /\ Operator \notin Txs
  BY OwnerAssumption DEF Threads
<1>2. at'[Operator] = at[Operator]
  BY <1>1 DEF Move, Stays
<1>3. QED
  BY <1>2 DEF Killing, Threads

LEMMA ClearedStays ==
  ASSUME Cleared, NEW th \in Threads, Move(th)
  PROVE  Cleared'
<1>0. Operator \in Threads /\ at \in [Threads -> Nat]
  BY DEF Threads, Move, TypeOK, PlacesOK
<1>1. g'.killAll => g.killAll \/ (th = Operator /\ at'[Operator] = 282)
  BY <1>0, FlowEffects DEF Move
<1>2. CASE th = Operator
  BY <1>1, <1>2, MainMoves DEF Move, Cleared
<1>3. CASE th # Operator
  BY <1>1, <1>3, MainStays DEF Cleared
<1>4. QED
  BY <1>2, <1>3

LEMMA NobodyPastStays ==
  ASSUME NobodyPast, NEW th \in Threads, Move(th), Killing' => ~SomePastLook'
  PROVE  NobodyPast'
<1> SUFFICES ASSUME g'.killAll, ~Killing' PROVE ~SomePastLook'
  BY DEF NobodyPast
<1>0. at \in [Threads -> Nat]
  BY DEF Move, TypeOK, PlacesOK
<1>1. g.killAll
  BY <1>0, FlowEffects DEF Move, Killing, KillLines
<1>2. ASSUME NEW x \in Mons \cup Txs PROVE ~PastLook(x)'
  <2>1. ~PastLook(x) /\ x \in Threads
    BY <1>1 DEF NobodyPast, SomePastLook, Threads
  <2>2. CASE x = th
    BY <1>1, <2>1, <2>2, LooksFirst DEF Move
  <2>3. CASE x # th
    <3>1. Stays(x)
      BY <2>1, <2>3 DEF Move
    <3>2. CASE at'[x] = at[x]
      BY <2>1, <3>2 DEF PastLook
    <3>3. CASE x \in Txs /\ at'[x] = 198
      BY <3>3, OwnerAssumption DEF PastLook, SetUpLines, MonitorQueueLines
    <3>4. QED
      BY <3>1, <3>2, <3>3 DEF Stays
  <2>4. QED
    BY <2>2, <2>3
<1>3. QED
  BY <1>2 DEF SomePastLook

LEMMA KillHoldsStays ==
  ASSUME Cleared, NobodyPast, KillHolds, NEW th \in Threads, Move(th)
  PROVE  KillHolds'
<1>0. at \in [Threads -> Nat] /\ TypeOK /\ Flow(th)
  BY DEF Move, TypeOK, PlacesOK
<1>1. /\ g'.monitoring => g.monitoring \/ at[th] = 68
      /\ g'.transmitting => g.transmitting \/ at[th] = 166
      /\ g'.killAll => g.killAll \/ (th = Operator /\ at'[Operator] = 282)
      /\ ~g'.killAll => ~g.killAll \/ at[th] \in {69, 164}
      /\ ~g'.monitorButton => ~g.monitorButton \/ at[th] \in {71, 181}
  BY <1>0, FlowEffects
<1>2. CASE th # Operator
  <2>1. at'[Operator] = at[Operator] /\ (Killing' <=> Killing)
    BY <1>2, MainStays
  <2>2. g.killAll \/ Killing => at[th] \notin {68, 69, 71, 158, 164, 166, 181}
    BY <1>0, <1>2, MainStays, Undoing DEF NobodyPast
  <2>3. g'.killAll => g.killAll
    BY <1>1, <1>2
  <2>4. (at[Operator] \in {280, 281, 282, 284} => Killing)
    BY DEF Killing, KillLines
  <2>5. QED
    BY <1>1, <2>1, <2>2, <2>3, <2>4 DEF KillHolds
<1>3. CASE th = Operator
  <2>1. Flow(Operator)
    BY <1>0, <1>3
  <2>2. Killing' => ~g'.monitoring
    BY <1>0, <1>1, <1>3, <2>1, MainMoves DEF KillHolds, Killing, KillLines
  <2>3. at'[Operator] \in {280, 281, 282, 284} => ~g'.transmitting
    BY <1>0, <1>1, <1>3, <2>1, MainMoves DEF KillHolds
  <2>4. at'[Operator] \in {282, 284} => g'.killAll
    BY <1>0, <1>1, <1>3, <2>1, MainMoves DEF KillHolds
  <2>5. g'.killAll => at'[Operator] \notin {155, 156, 157, 158}
    BY <1>0, <1>1, <1>3, <2>1, MainMoves DEF KillHolds
  <2>6. ASSUME g'.killAll, at'[Operator] \in {0, 494, 496, 535, 153, 163, 164}
        PROVE  ~g'.monitoring /\ ~g'.transmitting /\ g'.monitorButton
    <3>1. g.killAll
      BY <1>1, <2>6
    <3>2. \/ at[Operator] \in {0, 494, 496, 535, 153, 163, 164, 72, 179, 193}
          \/ at[Operator] = 284 /\ ButtonBecomes(TRUE)
      BY <1>0, <2>1, <2>6, MainMoves
    <3>3. CASE at[Operator] \in {0, 494, 496, 535, 153, 163, 164}
      BY <1>1, <1>3, <3>1, <3>3 DEF KillHolds
    <3>4. CASE at[Operator] \in {72, 179, 193}
      BY <3>1, <3>4 DEF Cleared
    <3>5. CASE at[Operator] = 284 /\ ButtonBecomes(TRUE)
      BY <3>5 DEF KillHolds, Killing, KillLines, ButtonBecomes, Become
    <3>6. QED
      BY <3>2, <3>3, <3>4, <3>5 DEF ButtonBecomes, Become
  <2>7. QED
    BY <2>2, <2>3, <2>4, <2>5, <2>6 DEF KillHolds
<1>4. QED
  BY <1>2, <1>3

\* With a kill on, the main thread is about to toggle or has a kill to finish,
\* or nothing is going on.
LEMMA KilledMain ==
  ASSUME TypeOK, Cleared, KillHolds, g.killAll
  PROVE  \/ at[Operator] \in {68, 69}
         \/ ~g.monitoring /\ (~g.transmitting \/ at[Operator] = 279)
BY DEF Cleared, KillHolds, TypeOK, PlacesOK, MainLines, KillLines, TransmitQueueLines,
       MonitorQueueLines, Killing

LEMMA ButtonOwedStays ==
  ASSUME Cleared, KillHolds, ButtonOwed, NEW th \in Threads, Move(th), g'.monitorButton
  PROVE  /\ g'.monitoring => \E x \in Threads : Owes(x)'
         /\ g'.transmitting /\ at'[Operator] # 279
              => \E x \in Threads : OwesTransmitting(x)'
<1>0. /\ at \in [Threads -> Nat] /\ TypeOK /\ Flow(th) /\ Operator \in Threads
      /\ Operator \notin Txs
  BY OwnerAssumption DEF Move, TypeOK, PlacesOK, Threads
<1>1. /\ g'.monitoring => g.monitoring \/ at'[th] = 69
      /\ g'.transmitting => g.transmitting \/ at'[th] = 172
      /\ \/ g.monitorButton
         \/ at'[th] = 68
         \/ th \in Txs /\ at'[th] = 251
         \/ th = Operator /\ at[Operator] = 284
  BY <1>0, FlowEffects
<1>2. /\ at'[th] \in {68, 69} \/ (th \in Txs /\ at'[th] = 251) => Owes(th)' /\ OwesTransmitting(th)'
      /\ at'[th] = 172 => OwesTransmitting(th)'
  BY DEF Owes, OwesTransmitting
<1>3. at[Operator] = 284 => ~g.monitoring /\ ~g.transmitting
  BY DEF KillHolds, Killing, KillLines
<1>4. ASSUME NEW x \in Threads, x # th
      PROVE  /\ Owes(x) => Owes(x)'
             /\ OwesTransmitting(x) => OwesTransmitting(x)'
  <2>1. Stays(x)
    BY <1>4 DEF Move
  <2>2. QED
    BY <2>1 DEF Stays, Owes, OwesTransmitting, SetUpLines
<1>5. CASE th \in Txs /\ at[th] = 254 /\ g.killAll /\ Same
  <2>1. th # Operator /\ at'[Operator] = at[Operator]
    BY <1>0, <1>5, MainStays
  <2>2. (g'.monitoring <=> g.monitoring) /\ (g'.transmitting <=> g.transmitting)
    BY <1>5 DEF Same, Become
  <2>3. at[Operator] \in {68, 69} => Owes(Operator)' /\ OwesTransmitting(Operator)'
    BY <2>1 DEF Owes, OwesTransmitting
  <2>4. QED
    BY <1>0, <1>5, <2>1, <2>2, <2>3, KilledMain
<1>6. CASE ~(th \in Txs /\ at[th] = 254 /\ g.killAll /\ Same)
  <2>1. Owes(th) => Owes(th)'
    BY <1>0, <1>6, OwesMoves
  <2>2. OwesTransmitting(th) /\ g'.transmitting => OwesTransmitting(th)'
    BY <1>0, <1>6, OwesMoves
  <2>3. g'.monitoring => \E x \in Threads : Owes(x)'
    BY <1>1, <1>2, <1>3, <1>4, <2>1 DEF ButtonOwed
  <2>4. at[Operator] = 279 /\ at'[Operator] # 279 => ~g'.transmitting
    BY <1>0, MainMoves, MainStays
  <2>5. g'.transmitting /\ at'[Operator] # 279 => \E x \in Threads : OwesTransmitting(x)'
    BY <1>1, <1>2, <1>3, <1>4, <2>2, <2>4 DEF ButtonOwed
  <2>6. QED
    BY <2>3, <2>5
<1>7. QED
  BY <1>5, <1>6

\* The move of a kill that follows one that came late.
LEMMA FreshKill ==
  ASSUME NEW th \in Threads, Move(th), MeetsLate, late, ~late'
  PROVE  NobodyPast' /\ KillHolds' /\ ButtonOwed'
<1>1. ~Killing /\ Killing' /\ ~SomePastLook'
  BY DEF MeetsLate
<1>2. th = Operator
  BY <1>1, MainStays
<1>3. at'[Operator] = 279 /\ ~g'.monitoring
  BY <1>1, <1>2, MainMoves DEF Move
<1>4. QED
  BY <1>1, <1>3 DEF NobodyPast, KillHolds, ButtonOwed

LEMMA KillInvStep ==
  ASSUME TypeOK, KillInv, [Next /\ MeetsLate]_<<vars, late>>
  PROVE  KillInv'
<1>1. CASE UNCHANGED <<vars, late>>
  BY <1>1 DEF vars, KillInv, Cleared, NobodyPast, SomePastLook, PastLook, Killing, KillHolds,
              ButtonOwed, Owes, OwesTransmitting
<1>2. CASE Next /\ MeetsLate
  <2>1. CASE Same /\ \A x \in Threads : at'[x] = at[x]
    <3>1. /\ at'[Operator] = at[Operator] /\ (Killing' <=> Killing)
          /\ SomePastLook' <=> SomePastLook
      BY <2>1 DEF Threads, Killing, SomePastLook, PastLook
    <3>2. \A x \in Threads : /\ Owes(x)' <=> Owes(x)
                             /\ OwesTransmitting(x)' <=> OwesTransmitting(x)
      BY <2>1 DEF Owes, OwesTransmitting
    <3>3. ~late' => ~late
      BY <1>2, <3>1 DEF MeetsLate
    <3>4. QED
      BY <2>1, <3>1, <3>2, <3>3
      DEF Same, Become, KillInv, Cleared, NobodyPast, KillHolds, ButtonOwed
  <2>2. ASSUME NEW th \in Threads, Flow(th), \A x \in Threads : x # th => Stays(x)
        PROVE  KillInv'
    <3>1. Move(th) /\ Cleared
      BY <2>2 DEF Move, KillInv
    <3>2. Cleared'
      BY <3>1, ClearedStays
    <3>3. ASSUME ~late', ~late PROVE NobodyPast' /\ KillHolds' /\ ButtonOwed'
      <4>1. NobodyPast /\ KillHolds /\ ButtonOwed
        BY <3>3 DEF KillInv
      <4>2. Killing' => ~SomePastLook'
        BY <1>2, <3>3 DEF MeetsLate
      <4>3. NobodyPast' /\ KillHolds'
        BY <3>1, <4>1, <4>2, NobodyPastStays, KillHoldsStays
      <4>4. ButtonOwed'
        BY <3>1, <4>1, ButtonOwedStays DEF ButtonOwed
      <4>5. QED
        BY <4>3, <4>4
    <3>4. ASSUME ~late', late PROVE NobodyPast' /\ KillHolds' /\ ButtonOwed'
      BY <1>2, <3>1, <3>4, FreshKill
    <3>5. QED
      BY <3>2, <3>3, <3>4 DEF KillInv
  <2>3. QED
    BY <1>2, <2>1, <2>2, StepFlow
<1>3. QED
  BY <1>1, <1>2

LEMMA KillInvInit == ASSUME Init PROVE KillInv
BY OwnerAssumption DEF Init, KillInv, Cleared, NobodyPast, SomePastLook, PastLook, Killing,
  KillLines, KillHolds, ButtonOwed, Threads, OnTickLines, SetUpLines, MonitorQueueLines,
  TransmitQueueLines

\* The history adds nothing to the behaviour of the two queues.
LEMMA HistoryOnly == KillSpec => Spec
<1>1. KillInit => Init
  BY DEF KillInit
<1>2. [Next /\ MeetsLate]_<<vars, late>> => [Next]_vars
  BY DEF vars
<1>3. QED
  BY <1>1, <1>2, PTL DEF KillSpec, Spec

LEMMA KillInvAlways == KillSpec => [](TypeOK /\ KillInv)
<1>1. KillInit => KillInv
  BY KillInvInit DEF KillInit
<1>2. TypeOK /\ KillInv /\ [Next /\ MeetsLate]_<<vars, late>> => KillInv'
  BY KillInvStep
<1>3. KillSpec => []TypeOK
  BY HistoryOnly, TypeCorrect, PTL
<1>4. QED
  BY <1>1, <1>2, <1>3, PTL DEF KillSpec

-----------------------------------------------------------------------------
(* Theorems.                                                               *)

\* A kill that meets no worker past its look at m_killAll lasts: until
\* somebody begins again nobody monitors or transmits and the monitor button is
\* enabled, whatever statements the workers have yet to execute.
THEOREM KillLasts == KillSpec => []KillIsRespected
<1>1. TypeOK /\ KillInv => KillIsRespected
  BY DEF KillInv, KillHolds, KillIsRespected
<1>2. QED
  BY <1>1, KillInvAlways, PTL

\* When every handler and every block has come to its end, an enabled monitor
\* button means that nothing is going on, unless a kill came late: all that
\* enables the button before the flags are settled is settled by the same
\* thread.
THEOREM ButtonMeansIdle == KillSpec => []MonitorButtonMeansIdle
<1>1. TypeOK /\ KillInv => MonitorButtonMeansIdle
  <2> SUFFICES ASSUME TypeOK, KillInv, Settled, g.monitorButton, ~late
               PROVE  ~g.monitoring /\ ~g.transmitting
    BY DEF MonitorButtonMeansIdle
  <2>1. ASSUME NEW th \in Threads PROVE ~Owes(th) /\ ~OwesTransmitting(th)
    <3>1. CASE th \in Txs
      BY <3>1 DEF Settled, Owes, OwesTransmitting, TypeOK, PlacesOK, TransmitLines, WaitLines,
                  KeyingLines, OnAirLines, ClosingLines, SetUpLines, MonitorQueueLines
    <3>2. CASE th \notin Txs
      BY <3>2 DEF Settled, Threads, Owes, OwesTransmitting
    <3>3. QED
      BY <3>1, <3>2
  <2>2. QED
    BY <2>1 DEF KillInv, ButtonOwed, Settled
<1>2. QED
  BY <1>1, KillInvAlways, PTL

=============================================================================
