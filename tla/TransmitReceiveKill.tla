------------------------ MODULE TransmitReceiveKill ------------------------
(***************************************************************************)
(* What a kill, and the monitor button, can be relied on for.              *)
(*                                                                         *)
(* A worker looks at m_killAll (queueDispatcher.m:122 and 254) some time   *)
(* before it dispatches, which clears it again.  `late' is a history: the  *)
(* last kill met a worker that was between the two.                        *)
(***************************************************************************)
EXTENDS TransmitReceive

VARIABLE late

\* Past its look at m_killAll, and not yet back from the dispatch method.
PastLook(th) ==
  \/ th \in Mons /\ at[th] \in OnTickLines \ {122, 124, 133}
  \/ th \in Txs /\ at[th] \in {257} \cup SetUpLines \cup MonitorQueueLines

SomePastLook == \E th \in Mons \cup Txs : PastLook(th)

\* killAllViaTransmitQueue has begun and is not over.
Killing == at[Operator] \in KillLines

MeetsLate ==
  late' = \/ Killing' /\ SomePastLook'
          \/ Killing /\ late
          \/ ~Killing' /\ late

KillInit == Init /\ late = FALSE
KillSpec == KillInit /\ [][Next /\ MeetsLate]_<<vars, late>>

-----------------------------------------------------------------------------
(* Properties.                                                             *)

\* A kill that meets no worker past its look at m_killAll lasts: until the
\* operator (or an answer) begins again, nobody monitors, nobody transmits and
\* the monitor button is enabled, whatever the workers have yet to do.
KillIsRespected ==
  g.killAll /\ ~late /\ at[Operator] = 0
    => ~g.monitoring /\ ~g.transmitting /\ g.monitorButton

\* dispatchMonitorQueue toggles m_monitoring, so a press of the button should
\* not find it set.  While some thread is inside a handler it may; when all are
\* done the button is enabled only if nothing is going on, but for a late kill.
Settled ==
  /\ at[Operator] = 0
  /\ \A m \in Mons : at[m] = 0
  /\ \A t \in Txs : at[t] \notin ClosingLines

MonitorButtonMeansIdle ==
  Settled /\ g.monitorButton /\ ~late => ~g.monitoring /\ ~g.transmitting

=============================================================================
