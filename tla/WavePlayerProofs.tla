-------------------------- MODULE WavePlayerProofs --------------------------
(***************************************************************************)
(* Theorems about the player, for every set of audio units and every       *)
(* signature, while calls are short and watchers are not starved (Timely). *)
(***************************************************************************)
EXTENDS WavePlayer, TLAPS

-----------------------------------------------------------------------------
(* The inductive invariant.                                                *)

\* A caller is at one of these places.
At(places) == \E c \in Callers : at[c] \in places

Made(u) == u \in Units /\ unit[u] # None

\* What has been started, or is about to be stopped, has been made.
Types ==
  /\ TypeOK
  /\ running \/ At({"dispatch", "run", "quit"}) => outputUnit \in Units

\* One caller at a time is in the middle of initializePlayer or quitPlayer, and
\* its place tells whether the player runs.
OneCall ==
  /\ \A c, d \in Callers : at[c] \in Inside /\ at[d] \in Inside => c = d
  /\ At({"create", "dispatch", "run", "quit", "quit2"}) => ~running
  /\ At({"ready"}) => running
  /\ running \/ At({"dispatch", "run"}) => Made(outputUnit)
  /\ At({"quit", "quit2"}) => outputUnit \in Units

\* Only the unit made last is watched, by a watcher that has been called for
\* or is waiting for the end of what plays.
OneWatcher ==
  /\ At({"create", "dispatch"}) => \A u \in Units : watcher[u] = "off"
  /\ At({"run", "ready"}) => \A u \in Units : watcher[u] \in {"off", "poll"}
  /\ \A u \in Units : watcher[u] # "off" => u = outputUnit
  /\ \A u \in Units : watcher[u] \in {"test", "stop"} => imDone
  /\ \A u \in Units : watcher[u] = "poll" =>
       running \/ imDone \/ At({"run", "quit", "quit2"})

\* Whoever is about to dispose of a unit finds it there, and who leaves it is
\* the one that has found imDone set.
OneDisposer ==
  /\ ~again
  /\ At({"quit"}) /\ ~imDone => Made(outputUnit)
  /\ \A u \in Units : watcher[u] = "stop" => Made(u)
  /\ At({"create"}) => \A u \in Units : Made(u) => u \in met
  /\ At({"quit2"}) /\ Made(outputUnit) => outputUnit \in met
  /\ NoUnitStaysBehind

Agreed == OneCall /\ OneWatcher /\ OneDisposer

\* A unit that was left behind and still calls back.
LeftBehind == \E u \in met : unit[u] # None

\* A signature that has begun and was not torn off is heard until the end of
\* the minute: the watcher of its unit takes care of a player that is done.
SignatureGoesOn ==
  /\ ~cwTime => cwC = 0
  /\ running \/ At({"run"}) => watcher[outputUnit] # "off"
  /\ cwC > 0 /\ ~torn =>
       running /\ phase # "slot" /\ \E u \in Units : unit[u] = "tones"

\* startingFrameCount is not 0: a file plays or is being stopped, or it has
\* ended by itself, or was left behind, if only for the time its watcher took.
PlaceIsKnown ==
  frame > 0 =>
    \/ ended \/ LeftBehind
    \/ running \/ At({"dispatch", "run", "quit", "quit2"})
    \/ met # {} /\ (outputUnit \in met \/ at["worker"] = "playing")

\* imDone during a file means that it has ended, unless somebody else set it.
FileIsOver ==
  running /\ imDone /\ ~At({"run", "ready"}) /\ unit[outputUnit] = "file" =>
    ended \/ LeftBehind

\* Tones are the worker's, and do not make up a reason for a place in a file.
TonesArePlayed ==
  unit[outputUnit] = "tones" /\ (running \/ At({"dispatch", "run"})) =>
    /\ at["worker"] \in {"dispatch", "run", "ready", "playing"}
    /\ frame > 0 => ended \/ LeftBehind \/ met # {}

Beginnings == SignatureGoesOn /\ PlaceIsKnown /\ FileIsOver /\ TonesArePlayed

-----------------------------------------------------------------------------
(* The steps and the types.                                                *)

LEMMA TypesStep ==
  ASSUME Types, [Next]_vars PROVE Types'
<1> USE PlayerAssumption DEF PlayerAssumption, Types, TypeOK, At, Callers, Inside, nil, None,
       flags, morse, file, sound, history
<1>1. CASE startPlayer
  BY <1>1 DEF startPlayer, Clear, NoneDue, WatcherDue, Goes
<1>2. CASE transmit
  BY <1>2 DEF transmit, Clear, NoneDue, WatcherDue, Goes
<1>3. CASE quitOperator
  <2>1. /\ torn' \in BOOLEAN /\ running' \in BOOLEAN /\ ended' \in BOOLEAN
        /\ imDone' \in BOOLEAN /\ morseNext' \in BOOLEAN
    BY <1>3, Zenon DEF quitOperator, quitPlayer, Clear, Stops, ForgetFile
  <2>2. QED
    BY <1>3, <2>1 DEF quitOperator, quitPlayer, Stops, ForgetFile
<1>4. CASE quitWorker
  <2>1. /\ torn' \in BOOLEAN /\ running' \in BOOLEAN /\ ended' \in BOOLEAN
        /\ imDone' \in BOOLEAN /\ morseNext' \in BOOLEAN
    BY <1>4, Zenon DEF quitWorker, quitPlayer, Clear, Stops, ForgetFile
  <2>2. QED
    BY <1>4, <2>1 DEF quitWorker, quitPlayer, Stops, ForgetFile
<1>5. CASE Tick
  BY <1>5 DEF Tick, NextPhase
<1>6. ASSUME NEW c \in Callers, CreateUnit(c) PROVE Types'
  BY <1>6 DEF CreateUnit, Goes, Spare, readFile
<1>7. ASSUME NEW c \in Callers, DispatchWatcher(c) PROVE Types'
  BY <1>7 DEF DispatchWatcher, Goes
<1>8. ASSUME NEW c \in Callers, SetRunning(c) PROVE Types'
  BY <1>8 DEF SetRunning, Goes
<1>9. ASSUME NEW c \in Callers, ClearDone(c) PROVE Types'
  BY <1>9 DEF ClearDone, Goes
<1>10. ASSUME NEW c \in Callers, StopOutput(c) PROVE Types'
  <2>1. outputUnit \in Units
    BY <1>10 DEF StopOutput, Goes
  <2>2. unit' \in [Units -> {None, "tones", "file"}] /\ met' \subseteq Units
    BY <1>10, <2>1 DEF StopOutput, Dispose
  <2>3. at' \in [Callers -> Inside \cup {"idle", "playing"}]
    BY <1>10 DEF StopOutput, Goes
  <2>4. again' \in BOOLEAN /\ outputUnit' = outputUnit
    BY <1>10, Zenon DEF StopOutput, Dispose
  <2>5. TypeOK'
    BY <1>10, <2>2, <2>3, <2>4, Zenon DEF StopOutput
  <2>6. QED
    BY <2>1, <2>4, <2>5
<1>11. ASSUME NEW c \in Callers, SetDone(c) PROVE Types'
  <2>1. imDone' \in BOOLEAN /\ ended' \in BOOLEAN
    BY <1>11, Zenon DEF SetDone, ForgetFile
  <2>2. /\ total' \in 0 .. Longest /\ frame' \in 0 .. Longest
        /\ at' \in [Callers -> Inside \cup {"idle", "playing"}]
    BY <1>11 DEF SetDone, Goes, ForgetFile
  <2>3. TypeOK'
    BY <1>11, <2>1, <2>2, Zenon DEF SetDone
  <2>4. QED
    BY <1>11, <2>3 DEF SetDone, Goes
<1>12. ASSUME NEW u \in Units, Poll(u) PROVE Types'
  BY <1>12 DEF Poll
<1>13. ASSUME NEW u \in Units, Test(u) PROVE Types'
  BY <1>13 DEF Test
<1>14. ASSUME NEW u \in Units, Stop(u) PROVE Types'
  BY <1>14 DEF Stop, Stops, Dispose
<1>15. ASSUME NEW u \in Units, WavFileRenderProc(u) PROVE Types'
  BY <1>15 DEF WavFileRenderProc
<1>16. ASSUME NEW u \in Units, TonesEnd(u) PROVE Types'
  BY <1>16 DEF TonesEnd, Tones
<1>17. ASSUME NEW u \in Units, SendElement(u) PROVE Types'
  BY <1>17 DEF SendElement, Signing, Tones
<1>18. ASSUME NEW u \in Units, MorseSent(u) PROVE Types'
  <2>1. cwC' \in 0 .. cwMax
    BY <1>18 DEF MorseSent, Signing, Tones
  <2>2. QED
    BY <1>18, <2>1, Zenon DEF MorseSent, Signing, Tones
<1>19. ASSUME NEW u \in Units, MorseCut(u) PROVE Types'
  <2>1. cwC' \in 0 .. cwMax
    BY <1>19 DEF MorseCut, Signing, Tones
  <2>2. QED
    BY <1>19, <2>1, Zenon DEF MorseCut, Signing, Tones
<1>20. CASE UNCHANGED vars
  BY <1>20 DEF vars
<1>21. QED
  BY <1>1, <1>2, <1>3, <1>4, <1>5, <1>6, <1>7, <1>8, <1>9, <1>10,
     <1>11, <1>12, <1>13, <1>14, <1>15, <1>16, <1>17, <1>18, <1>19, <1>20
     DEF Next, InCall, Watch

LEMMA OneCallStep ==
  ASSUME TypeOK, Timely, OneCall, OneWatcher, OneDisposer, [Next]_vars PROVE OneCall'
<1> USE PlayerAssumption DEF PlayerAssumption, TypeOK, OneCall, OneWatcher, OneDisposer, At, Made,
       Callers, Inside, nil, None, flags, morse, file, sound, history
<1>1. CASE startPlayer
  BY <1>1 DEF startPlayer, Clear, NoneDue, WatcherDue, Goes
<1>2. CASE transmit
  BY <1>2 DEF transmit, Clear, NoneDue, WatcherDue, Goes
<1>3. CASE quitOperator
  BY <1>3 DEF quitOperator, quitPlayer, Clear, Stops, ForgetFile
<1>4. CASE quitWorker
  BY <1>4 DEF quitWorker, quitPlayer, Clear, Stops, ForgetFile
<1>5. CASE Tick
  BY <1>5 DEF Tick, NextPhase
<1>6. ASSUME NEW c \in Callers, CreateUnit(c) PROVE OneCall'
  BY <1>6 DEF CreateUnit, Goes, Spare, readFile
<1>7. ASSUME NEW c \in Callers, DispatchWatcher(c) PROVE OneCall'
  BY <1>7 DEF DispatchWatcher, Goes
<1>8. ASSUME NEW c \in Callers, SetRunning(c) PROVE OneCall'
  BY <1>8 DEF SetRunning, Goes
<1>9. ASSUME NEW c \in Callers, ClearDone(c) PROVE OneCall'
  BY <1>9 DEF ClearDone, Goes
<1>10. ASSUME NEW c \in Callers, StopOutput(c) PROVE OneCall'
  BY <1>10 DEF StopOutput, Goes, Dispose
<1>11. ASSUME NEW c \in Callers, SetDone(c) PROVE OneCall'
  BY <1>11 DEF SetDone, Goes, ForgetFile
<1>12. ASSUME NEW u \in Units, Poll(u) PROVE OneCall'
  BY <1>12 DEF Poll
<1>13. ASSUME NEW u \in Units, Test(u) PROVE OneCall'
  BY <1>13 DEF Test
<1>14. ASSUME NEW u \in Units, Stop(u) PROVE OneCall'
  BY <1>14 DEF Stop, Stops, Dispose
<1>15. ASSUME NEW u \in Units, WavFileRenderProc(u) PROVE OneCall'
  BY <1>15 DEF WavFileRenderProc
<1>16. ASSUME NEW u \in Units, TonesEnd(u) PROVE OneCall'
  BY <1>16 DEF TonesEnd, Tones
<1>17. ASSUME NEW u \in Units, SendElement(u) PROVE OneCall'
  BY <1>17 DEF SendElement, Signing, Tones
<1>18. ASSUME NEW u \in Units, MorseSent(u) PROVE OneCall'
  BY <1>18 DEF MorseSent, Signing, Tones
<1>19. ASSUME NEW u \in Units, MorseCut(u) PROVE OneCall'
  BY <1>19 DEF MorseCut, Signing, Tones
<1>20. CASE UNCHANGED vars
  BY <1>20 DEF vars
<1>21. QED
  BY <1>1, <1>2, <1>3, <1>4, <1>5, <1>6, <1>7, <1>8, <1>9, <1>10,
     <1>11, <1>12, <1>13, <1>14, <1>15, <1>16, <1>17, <1>18, <1>19, <1>20
     DEF Next, InCall, Watch

LEMMA OneWatcherStep ==
  ASSUME TypeOK, Timely, OneCall, OneWatcher, [Next]_vars PROVE OneWatcher'
<1> USE PlayerAssumption DEF PlayerAssumption, TypeOK, OneCall, OneWatcher, At, Made,
       Callers, Inside, nil, None, flags, morse, file, sound, history
<1>1. CASE startPlayer
  BY <1>1 DEF startPlayer, Clear, NoneDue, WatcherDue, Goes
<1>2. CASE transmit
  BY <1>2 DEF transmit, Clear, NoneDue, WatcherDue, Goes
<1>3. CASE quitOperator
  BY <1>3 DEF quitOperator, quitPlayer, Clear, Stops, ForgetFile
<1>4. CASE quitWorker
  BY <1>4 DEF quitWorker, quitPlayer, Clear, Stops, ForgetFile
<1>5. CASE Tick
  BY <1>5 DEF Tick, NextPhase
<1>6. ASSUME NEW c \in Callers, CreateUnit(c) PROVE OneWatcher'
  BY <1>6 DEF CreateUnit, Goes, Spare, readFile
<1>7. ASSUME NEW c \in Callers, DispatchWatcher(c) PROVE OneWatcher'
  BY <1>7 DEF DispatchWatcher, Goes
<1>8. ASSUME NEW c \in Callers, SetRunning(c) PROVE OneWatcher'
  BY <1>8 DEF SetRunning, Goes
<1>9. ASSUME NEW c \in Callers, ClearDone(c) PROVE OneWatcher'
  BY <1>9 DEF ClearDone, Goes
<1>10. ASSUME NEW c \in Callers, StopOutput(c) PROVE OneWatcher'
  BY <1>10 DEF StopOutput, Goes, Dispose
<1>11. ASSUME NEW c \in Callers, SetDone(c) PROVE OneWatcher'
  BY <1>11 DEF SetDone, Goes, ForgetFile
<1>12. ASSUME NEW u \in Units, Poll(u) PROVE OneWatcher'
  BY <1>12 DEF Poll
<1>13. ASSUME NEW u \in Units, Test(u) PROVE OneWatcher'
  BY <1>13 DEF Test
<1>14. ASSUME NEW u \in Units, Stop(u) PROVE OneWatcher'
  BY <1>14 DEF Stop, Stops, Dispose
<1>15. ASSUME NEW u \in Units, WavFileRenderProc(u) PROVE OneWatcher'
  BY <1>15 DEF WavFileRenderProc
<1>16. ASSUME NEW u \in Units, TonesEnd(u) PROVE OneWatcher'
  BY <1>16 DEF TonesEnd, Tones
<1>17. ASSUME NEW u \in Units, SendElement(u) PROVE OneWatcher'
  BY <1>17 DEF SendElement, Signing, Tones
<1>18. ASSUME NEW u \in Units, MorseSent(u) PROVE OneWatcher'
  BY <1>18 DEF MorseSent, Signing, Tones
<1>19. ASSUME NEW u \in Units, MorseCut(u) PROVE OneWatcher'
  BY <1>19 DEF MorseCut, Signing, Tones
<1>20. CASE UNCHANGED vars
  BY <1>20 DEF vars
<1>21. QED
  BY <1>1, <1>2, <1>3, <1>4, <1>5, <1>6, <1>7, <1>8, <1>9, <1>10,
     <1>11, <1>12, <1>13, <1>14, <1>15, <1>16, <1>17, <1>18, <1>19, <1>20
     DEF Next, InCall, Watch

LEMMA OneDisposerStep ==
  ASSUME TypeOK, Timely, OneCall, OneWatcher, OneDisposer, [Next]_vars PROVE OneDisposer'
<1> USE PlayerAssumption DEF PlayerAssumption, TypeOK, OneCall, OneWatcher, OneDisposer, At, Made,
       NoUnitStaysBehind, Callers, Inside, nil, None, flags, morse, file, sound, history
<1>1. CASE startPlayer
  BY <1>1 DEF startPlayer, Clear, NoneDue, WatcherDue, Goes
<1>2. CASE transmit
  BY <1>2 DEF transmit, Clear, NoneDue, WatcherDue, Goes
<1>3. CASE quitOperator
  BY <1>3 DEF quitOperator, quitPlayer, Clear, Stops, ForgetFile
<1>4. CASE quitWorker
  BY <1>4 DEF quitWorker, quitPlayer, Clear, Stops, ForgetFile
<1>5. CASE Tick
  BY <1>5 DEF Tick, NextPhase
<1>6. ASSUME NEW c \in Callers, CreateUnit(c) PROVE OneDisposer'
  BY <1>6 DEF CreateUnit, Goes, Spare, readFile
<1>7. ASSUME NEW c \in Callers, DispatchWatcher(c) PROVE OneDisposer'
  BY <1>7 DEF DispatchWatcher, Goes
<1>8. ASSUME NEW c \in Callers, SetRunning(c) PROVE OneDisposer'
  BY <1>8 DEF SetRunning, Goes
<1>9. ASSUME NEW c \in Callers, ClearDone(c) PROVE OneDisposer'
  BY <1>9 DEF ClearDone, Goes
<1>10. ASSUME NEW c \in Callers, StopOutput(c) PROVE OneDisposer'
  BY <1>10 DEF StopOutput, Goes, Dispose
<1>11. ASSUME NEW c \in Callers, SetDone(c) PROVE OneDisposer'
  BY <1>11 DEF SetDone, Goes, ForgetFile
<1>12. ASSUME NEW u \in Units, Poll(u) PROVE OneDisposer'
  BY <1>12 DEF Poll
<1>13. ASSUME NEW u \in Units, Test(u) PROVE OneDisposer'
  BY <1>13 DEF Test
<1>14. ASSUME NEW u \in Units, Stop(u) PROVE OneDisposer'
  BY <1>14 DEF Stop, Stops, Dispose
<1>15. ASSUME NEW u \in Units, WavFileRenderProc(u) PROVE OneDisposer'
  BY <1>15 DEF WavFileRenderProc
<1>16. ASSUME NEW u \in Units, TonesEnd(u) PROVE OneDisposer'
  BY <1>16 DEF TonesEnd, Tones
<1>17. ASSUME NEW u \in Units, SendElement(u) PROVE OneDisposer'
  BY <1>17 DEF SendElement, Signing, Tones
<1>18. ASSUME NEW u \in Units, MorseSent(u) PROVE OneDisposer'
  BY <1>18 DEF MorseSent, Signing, Tones
<1>19. ASSUME NEW u \in Units, MorseCut(u) PROVE OneDisposer'
  BY <1>19 DEF MorseCut, Signing, Tones
<1>20. CASE UNCHANGED vars
  BY <1>20 DEF vars
<1>21. QED
  BY <1>1, <1>2, <1>3, <1>4, <1>5, <1>6, <1>7, <1>8, <1>9, <1>10,
     <1>11, <1>12, <1>13, <1>14, <1>15, <1>16, <1>17, <1>18, <1>19, <1>20
     DEF Next, InCall, Watch

\* A step of the program is a step of the player, or none.
LEMMA HeardStep ==
  ASSUME TypeOK, Timely, OneCall, OneWatcher, OneDisposer, [Next]_vars PROVE [Heard!Next]_heard
<1> USE DEF TypeOK, OneCall, OneWatcher, OneDisposer, At, Made, heard, Heard!Next,
       Heard!Start, Heard!End, Callers, Inside, nil, None, flags, morse, file, sound, history
<1>1. CASE startPlayer
  BY <1>1 DEF startPlayer, Clear, NoneDue, WatcherDue, Goes
<1>2. CASE transmit
  BY <1>2 DEF transmit, Clear, NoneDue, WatcherDue, Goes
<1>3. CASE quitOperator
  BY <1>3 DEF quitOperator, quitPlayer, Clear, Stops, ForgetFile
<1>4. CASE quitWorker
  BY <1>4 DEF quitWorker, quitPlayer, Clear, Stops, ForgetFile
<1>5. CASE Tick
  BY <1>5 DEF Tick, NextPhase
<1>6. ASSUME NEW c \in Callers, CreateUnit(c) PROVE [Heard!Next]_heard
  BY <1>6 DEF CreateUnit, Goes, Spare, readFile
<1>7. ASSUME NEW c \in Callers, DispatchWatcher(c) PROVE [Heard!Next]_heard
  BY <1>7 DEF DispatchWatcher, Goes
<1>8. ASSUME NEW c \in Callers, SetRunning(c) PROVE [Heard!Next]_heard
  BY <1>8 DEF SetRunning, Goes
<1>9. ASSUME NEW c \in Callers, ClearDone(c) PROVE [Heard!Next]_heard
  BY <1>9 DEF ClearDone, Goes
<1>10. ASSUME NEW c \in Callers, StopOutput(c) PROVE [Heard!Next]_heard
  BY <1>10 DEF StopOutput, Goes, Dispose
<1>11. ASSUME NEW c \in Callers, SetDone(c) PROVE [Heard!Next]_heard
  BY <1>11 DEF SetDone, Goes, ForgetFile
<1>12. ASSUME NEW u \in Units, Poll(u) PROVE [Heard!Next]_heard
  BY <1>12 DEF Poll
<1>13. ASSUME NEW u \in Units, Test(u) PROVE [Heard!Next]_heard
  BY <1>13 DEF Test
<1>14. ASSUME NEW u \in Units, Stop(u) PROVE [Heard!Next]_heard
  BY <1>14 DEF Stop, Stops, Dispose
<1>15. ASSUME NEW u \in Units, WavFileRenderProc(u) PROVE [Heard!Next]_heard
  BY <1>15 DEF WavFileRenderProc
<1>16. ASSUME NEW u \in Units, TonesEnd(u) PROVE [Heard!Next]_heard
  BY <1>16 DEF TonesEnd, Tones
<1>17. ASSUME NEW u \in Units, SendElement(u) PROVE [Heard!Next]_heard
  BY <1>17 DEF SendElement, Signing, Tones
<1>18. ASSUME NEW u \in Units, MorseSent(u) PROVE [Heard!Next]_heard
  BY <1>18 DEF MorseSent, Signing, Tones
<1>19. ASSUME NEW u \in Units, MorseCut(u) PROVE [Heard!Next]_heard
  BY <1>19 DEF MorseCut, Signing, Tones
<1>20. CASE UNCHANGED vars
  BY <1>20 DEF vars
<1>21. QED
  BY <1>1, <1>2, <1>3, <1>4, <1>5, <1>6, <1>7, <1>8, <1>9, <1>10,
     <1>11, <1>12, <1>13, <1>14, <1>15, <1>16, <1>17, <1>18, <1>19, <1>20
     DEF Next, InCall, Watch

LEMMA SignatureGoesOnStep ==
  ASSUME TypeOK, Timely, OneCall, OneWatcher, OneDisposer, Beginnings, [Next]_vars
  PROVE  SignatureGoesOn'
<1> USE PlayerAssumption DEF PlayerAssumption, TypeOK, OneCall, OneWatcher, OneDisposer, At, Made,
       NoUnitStaysBehind, Callers, Inside, nil, None, flags, morse, file, sound, history,
       Beginnings, SignatureGoesOn
<1>1. CASE startPlayer
  BY <1>1 DEF startPlayer, Clear, NoneDue, WatcherDue, Goes
<1>2. CASE transmit
  BY <1>2 DEF transmit, Clear, NoneDue, WatcherDue, Goes
<1>3. CASE quitOperator
  BY <1>3 DEF quitOperator, quitPlayer, Clear, Stops, ForgetFile
<1>4. CASE quitWorker
  BY <1>4 DEF quitWorker, quitPlayer, Clear, Stops, ForgetFile
<1>5. CASE Tick
  BY <1>5 DEF Tick, NextPhase, NoneDue, WatcherDue, Clear, Signing, Tones
<1>6. ASSUME NEW c \in Callers, CreateUnit(c) PROVE SignatureGoesOn'
  BY <1>6 DEF CreateUnit, Goes, Spare, readFile
<1>7. ASSUME NEW c \in Callers, DispatchWatcher(c) PROVE SignatureGoesOn'
  BY <1>7 DEF DispatchWatcher, Goes
<1>8. ASSUME NEW c \in Callers, SetRunning(c) PROVE SignatureGoesOn'
  BY <1>8 DEF SetRunning, Goes
<1>9. ASSUME NEW c \in Callers, ClearDone(c) PROVE SignatureGoesOn'
  BY <1>9 DEF ClearDone, Goes
<1>10. ASSUME NEW c \in Callers, StopOutput(c) PROVE SignatureGoesOn'
  BY <1>10 DEF StopOutput, Goes, Dispose
<1>11. ASSUME NEW c \in Callers, SetDone(c) PROVE SignatureGoesOn'
  BY <1>11 DEF SetDone, Goes, ForgetFile
<1>12. ASSUME NEW u \in Units, Poll(u) PROVE SignatureGoesOn'
  BY <1>12 DEF Poll
<1>13. ASSUME NEW u \in Units, Test(u) PROVE SignatureGoesOn'
  BY <1>13 DEF Test
<1>14. ASSUME NEW u \in Units, Stop(u) PROVE SignatureGoesOn'
  BY <1>14 DEF Stop, Stops, Dispose
<1>15. ASSUME NEW u \in Units, WavFileRenderProc(u) PROVE SignatureGoesOn'
  BY <1>15 DEF WavFileRenderProc
<1>16. ASSUME NEW u \in Units, TonesEnd(u) PROVE SignatureGoesOn'
  BY <1>16 DEF TonesEnd, Tones
<1>17. ASSUME NEW u \in Units, SendElement(u) PROVE SignatureGoesOn'
  BY <1>17 DEF SendElement, Signing, Tones
<1>18. ASSUME NEW u \in Units, MorseSent(u) PROVE SignatureGoesOn'
  BY <1>18 DEF MorseSent, Signing, Tones
<1>19. ASSUME NEW u \in Units, MorseCut(u) PROVE SignatureGoesOn'
  BY <1>19 DEF MorseCut, Signing, Tones
<1>20. CASE UNCHANGED vars
  BY <1>20 DEF vars
<1>21. QED
  BY <1>1, <1>2, <1>3, <1>4, <1>5, <1>6, <1>7, <1>8, <1>9, <1>10,
     <1>11, <1>12, <1>13, <1>14, <1>15, <1>16, <1>17, <1>18, <1>19, <1>20
     DEF Next, InCall, Watch

LEMMA PlaceIsKnownStep ==
  ASSUME TypeOK, Timely, OneCall, OneWatcher, OneDisposer, Beginnings, [Next]_vars
  PROVE  PlaceIsKnown'
<1> USE PlayerAssumption DEF PlayerAssumption, TypeOK, OneCall, OneWatcher, OneDisposer, At, Made,
       NoUnitStaysBehind, Callers, Inside, nil, None, flags, morse, file, sound, history,
       Beginnings, LeftBehind, PlaceIsKnown, FileIsOver, TonesArePlayed
<1>1. CASE startPlayer
  BY <1>1 DEF startPlayer, Clear, NoneDue, WatcherDue, Goes
<1>2. CASE transmit
  BY <1>2 DEF transmit, Clear, NoneDue, WatcherDue, Goes
<1>3. CASE quitOperator
  BY <1>3 DEF quitOperator, quitPlayer, Clear, Stops, ForgetFile
<1>4. CASE quitWorker
  BY <1>4 DEF quitWorker, quitPlayer, Clear, Stops, ForgetFile
<1>5. CASE Tick
  BY <1>5 DEF Tick, NextPhase, NoneDue, WatcherDue, Clear, Signing, Tones
<1>6. ASSUME NEW c \in Callers, CreateUnit(c) PROVE PlaceIsKnown'
  BY <1>6 DEF CreateUnit, Goes, Spare, readFile
<1>7. ASSUME NEW c \in Callers, DispatchWatcher(c) PROVE PlaceIsKnown'
  BY <1>7 DEF DispatchWatcher, Goes
<1>8. ASSUME NEW c \in Callers, SetRunning(c) PROVE PlaceIsKnown'
  BY <1>8 DEF SetRunning, Goes
<1>9. ASSUME NEW c \in Callers, ClearDone(c) PROVE PlaceIsKnown'
  BY <1>9 DEF ClearDone, Goes
<1>10. ASSUME NEW c \in Callers, StopOutput(c) PROVE PlaceIsKnown'
  BY <1>10 DEF StopOutput, Goes, Dispose
<1>11. ASSUME NEW c \in Callers, SetDone(c) PROVE PlaceIsKnown'
  BY <1>11 DEF SetDone, Goes, ForgetFile
<1>12. ASSUME NEW u \in Units, Poll(u) PROVE PlaceIsKnown'
  BY <1>12 DEF Poll
<1>13. ASSUME NEW u \in Units, Test(u) PROVE PlaceIsKnown'
  BY <1>13 DEF Test
<1>14. ASSUME NEW u \in Units, Stop(u) PROVE PlaceIsKnown'
  BY <1>14 DEF Stop, Stops, Dispose
<1>15. ASSUME NEW u \in Units, WavFileRenderProc(u) PROVE PlaceIsKnown'
  BY <1>15 DEF WavFileRenderProc
<1>16. ASSUME NEW u \in Units, TonesEnd(u) PROVE PlaceIsKnown'
  BY <1>16 DEF TonesEnd, Tones
<1>17. ASSUME NEW u \in Units, SendElement(u) PROVE PlaceIsKnown'
  BY <1>17 DEF SendElement, Signing, Tones
<1>18. ASSUME NEW u \in Units, MorseSent(u) PROVE PlaceIsKnown'
  BY <1>18 DEF MorseSent, Signing, Tones
<1>19. ASSUME NEW u \in Units, MorseCut(u) PROVE PlaceIsKnown'
  BY <1>19 DEF MorseCut, Signing, Tones
<1>20. CASE UNCHANGED vars
  BY <1>20 DEF vars
<1>21. QED
  BY <1>1, <1>2, <1>3, <1>4, <1>5, <1>6, <1>7, <1>8, <1>9, <1>10,
     <1>11, <1>12, <1>13, <1>14, <1>15, <1>16, <1>17, <1>18, <1>19, <1>20
     DEF Next, InCall, Watch

LEMMA FileIsOverStep ==
  ASSUME TypeOK, Timely, OneCall, OneWatcher, OneDisposer, Beginnings, [Next]_vars
  PROVE  FileIsOver'
<1> USE PlayerAssumption DEF PlayerAssumption, TypeOK, OneCall, OneWatcher, OneDisposer, At, Made,
       NoUnitStaysBehind, Callers, Inside, nil, None, flags, morse, file, sound, history,
       Beginnings, LeftBehind, PlaceIsKnown, FileIsOver, TonesArePlayed
<1>1. CASE startPlayer
  BY <1>1 DEF startPlayer, Clear, NoneDue, WatcherDue, Goes
<1>2. CASE transmit
  BY <1>2 DEF transmit, Clear, NoneDue, WatcherDue, Goes
<1>3. CASE quitOperator
  BY <1>3 DEF quitOperator, quitPlayer, Clear, Stops, ForgetFile
<1>4. CASE quitWorker
  BY <1>4 DEF quitWorker, quitPlayer, Clear, Stops, ForgetFile
<1>5. CASE Tick
  BY <1>5 DEF Tick, NextPhase, NoneDue, WatcherDue, Clear, Signing, Tones
<1>6. ASSUME NEW c \in Callers, CreateUnit(c) PROVE FileIsOver'
  BY <1>6 DEF CreateUnit, Goes, Spare, readFile
<1>7. ASSUME NEW c \in Callers, DispatchWatcher(c) PROVE FileIsOver'
  BY <1>7 DEF DispatchWatcher, Goes
<1>8. ASSUME NEW c \in Callers, SetRunning(c) PROVE FileIsOver'
  BY <1>8 DEF SetRunning, Goes
<1>9. ASSUME NEW c \in Callers, ClearDone(c) PROVE FileIsOver'
  BY <1>9 DEF ClearDone, Goes
<1>10. ASSUME NEW c \in Callers, StopOutput(c) PROVE FileIsOver'
  BY <1>10 DEF StopOutput, Goes, Dispose
<1>11. ASSUME NEW c \in Callers, SetDone(c) PROVE FileIsOver'
  BY <1>11 DEF SetDone, Goes, ForgetFile
<1>12. ASSUME NEW u \in Units, Poll(u) PROVE FileIsOver'
  BY <1>12 DEF Poll
<1>13. ASSUME NEW u \in Units, Test(u) PROVE FileIsOver'
  BY <1>13 DEF Test
<1>14. ASSUME NEW u \in Units, Stop(u) PROVE FileIsOver'
  BY <1>14 DEF Stop, Stops, Dispose
<1>15. ASSUME NEW u \in Units, WavFileRenderProc(u) PROVE FileIsOver'
  BY <1>15 DEF WavFileRenderProc
<1>16. ASSUME NEW u \in Units, TonesEnd(u) PROVE FileIsOver'
  BY <1>16 DEF TonesEnd, Tones
<1>17. ASSUME NEW u \in Units, SendElement(u) PROVE FileIsOver'
  BY <1>17 DEF SendElement, Signing, Tones
<1>18. ASSUME NEW u \in Units, MorseSent(u) PROVE FileIsOver'
  BY <1>18 DEF MorseSent, Signing, Tones
<1>19. ASSUME NEW u \in Units, MorseCut(u) PROVE FileIsOver'
  BY <1>19 DEF MorseCut, Signing, Tones
<1>20. CASE UNCHANGED vars
  BY <1>20 DEF vars
<1>21. QED
  BY <1>1, <1>2, <1>3, <1>4, <1>5, <1>6, <1>7, <1>8, <1>9, <1>10,
     <1>11, <1>12, <1>13, <1>14, <1>15, <1>16, <1>17, <1>18, <1>19, <1>20
     DEF Next, InCall, Watch

LEMMA TonesArePlayedStep ==
  ASSUME TypeOK, Timely, OneCall, OneWatcher, OneDisposer, Beginnings, [Next]_vars
  PROVE  TonesArePlayed'
<1> USE PlayerAssumption DEF PlayerAssumption, TypeOK, OneCall, OneWatcher, OneDisposer, At, Made,
       NoUnitStaysBehind, Callers, Inside, nil, None, flags, morse, file, sound, history,
       Beginnings, LeftBehind, PlaceIsKnown, FileIsOver, TonesArePlayed
<1>1. CASE startPlayer
  BY <1>1 DEF startPlayer, Clear, NoneDue, WatcherDue, Goes
<1>2. CASE transmit
  BY <1>2 DEF transmit, Clear, NoneDue, WatcherDue, Goes
<1>3. CASE quitOperator
  BY <1>3 DEF quitOperator, quitPlayer, Clear, Stops, ForgetFile
<1>4. CASE quitWorker
  BY <1>4 DEF quitWorker, quitPlayer, Clear, Stops, ForgetFile
<1>5. CASE Tick
  BY <1>5 DEF Tick, NextPhase, NoneDue, WatcherDue, Clear, Signing, Tones
<1>6. ASSUME NEW c \in Callers, CreateUnit(c) PROVE TonesArePlayed'
  BY <1>6 DEF CreateUnit, Goes, Spare, readFile
<1>7. ASSUME NEW c \in Callers, DispatchWatcher(c) PROVE TonesArePlayed'
  BY <1>7 DEF DispatchWatcher, Goes
<1>8. ASSUME NEW c \in Callers, SetRunning(c) PROVE TonesArePlayed'
  BY <1>8 DEF SetRunning, Goes
<1>9. ASSUME NEW c \in Callers, ClearDone(c) PROVE TonesArePlayed'
  BY <1>9 DEF ClearDone, Goes
<1>10. ASSUME NEW c \in Callers, StopOutput(c) PROVE TonesArePlayed'
  BY <1>10 DEF StopOutput, Goes, Dispose
<1>11. ASSUME NEW c \in Callers, SetDone(c) PROVE TonesArePlayed'
  BY <1>11 DEF SetDone, Goes, ForgetFile
<1>12. ASSUME NEW u \in Units, Poll(u) PROVE TonesArePlayed'
  BY <1>12 DEF Poll
<1>13. ASSUME NEW u \in Units, Test(u) PROVE TonesArePlayed'
  BY <1>13 DEF Test
<1>14. ASSUME NEW u \in Units, Stop(u) PROVE TonesArePlayed'
  BY <1>14 DEF Stop, Stops, Dispose
<1>15. ASSUME NEW u \in Units, WavFileRenderProc(u) PROVE TonesArePlayed'
  BY <1>15 DEF WavFileRenderProc
<1>16. ASSUME NEW u \in Units, TonesEnd(u) PROVE TonesArePlayed'
  BY <1>16 DEF TonesEnd, Tones
<1>17. ASSUME NEW u \in Units, SendElement(u) PROVE TonesArePlayed'
  BY <1>17 DEF SendElement, Signing, Tones
<1>18. ASSUME NEW u \in Units, MorseSent(u) PROVE TonesArePlayed'
  BY <1>18 DEF MorseSent, Signing, Tones
<1>19. ASSUME NEW u \in Units, MorseCut(u) PROVE TonesArePlayed'
  BY <1>19 DEF MorseCut, Signing, Tones
<1>20. CASE UNCHANGED vars
  BY <1>20 DEF vars
<1>21. QED
  BY <1>1, <1>2, <1>3, <1>4, <1>5, <1>6, <1>7, <1>8, <1>9, <1>10,
     <1>11, <1>12, <1>13, <1>14, <1>15, <1>16, <1>17, <1>18, <1>19, <1>20
     DEF Next, InCall, Watch

LEMMA InitAgrees == Init => Types /\ Agreed
<1> SUFFICES ASSUME Init PROVE Types /\ Agreed
  OBVIOUS
<1>1. /\ unit \in [Units -> {None, "tones", "file"}]
      /\ watcher \in [Units -> {"off", "poll", "test", "stop"}]
      /\ at \in [Callers -> Inside \cup {"idle", "playing"}]
      /\ cwC \in 0 .. cwMax
      /\ total \in 0 .. Longest /\ frame \in 0 .. Longest /\ met \subseteq Units
  BY PlayerAssumption DEF PlayerAssumption, Init
<1>2. TypeOK
  BY <1>1, Zenon DEF Init, TypeOK, nil
<1>3. \A places : At(places) => "idle" \in places
  BY DEF Init, At, Callers
<1>4. \A u \in Units : ~Made(u) /\ watcher[u] = "off"
  BY DEF Init, Made
<1>5. QED
  BY <1>1, <1>2, <1>3, <1>4
     DEF Init, Types, Agreed, OneCall, OneWatcher, OneDisposer, Made, Inside,
         NoUnitStaysBehind

LEMMA TypesInvariant == Spec => []Types
<1>1. Types /\ [Next]_vars => Types'
  BY TypesStep
<1>2. QED
  BY <1>1, InitAgrees, PTL DEF Spec

LEMMA AgreedInvariant ==
  ASSUME Timely
  PROVE  Spec => []Agreed
<1>1. Types /\ Agreed /\ [Next]_vars => Agreed'
  BY OneCallStep, OneWatcherStep, OneDisposerStep DEF Agreed, Types
<1>2. QED
  BY <1>1, InitAgrees, TypesInvariant, PTL DEF Spec

LEMMA BeginningsInvariant ==
  ASSUME Timely
  PROVE  Spec => []Beginnings
<1>1. Init => Beginnings
  <2> SUFFICES ASSUME Init PROVE Beginnings
    OBVIOUS
  <2>1. \A places : At(places) => "idle" \in places
    BY DEF Init, At, Callers
  <2>2. QED
    BY <2>1 DEF Init, Beginnings, SignatureGoesOn, PlaceIsKnown, FileIsOver, TonesArePlayed
<1>2. Types /\ Agreed /\ Beginnings /\ [Next]_vars => Beginnings'
  BY SignatureGoesOnStep, PlaceIsKnownStep, FileIsOverStep, TonesArePlayedStep
     DEF Types, Agreed, Beginnings
<1>3. QED
  BY <1>1, <1>2, TypesInvariant, AgreedInvariant, PTL DEF Spec

-----------------------------------------------------------------------------
(* The theorems.                                                           *)

\* Every variable keeps to its type, whatever the threads do to each other: no
\* element of a signature is sent that is not there, no unit stopped that has
\* never been made.
THEOREM PlayerTypeCorrect == Spec => []TypeOK
BY TypesInvariant, PTL DEF Types

\* quitPlayer and the watcher never dispose of the same unit, as long as no call
\* begins in the middle of another one and no player is started while a watcher
\* has yet to act.
THEOREM UnitsAreDisposedOnce ==
  ASSUME Timely
  PROVE  Spec => []DisposedOnce
<1>1. Agreed => DisposedOnce
  BY DEF Agreed, OneDisposer, DisposedOnce
<1>2. QED
  BY <1>1, AgreedInvariant, PTL

\* Nor do they leave a unit to each other, except for the one quitPlayer found
\* with imDone set before its watcher did.
THEOREM UnitsAreNotLeft ==
  ASSUME Timely
  PROVE  Spec => []NoUnitStaysBehind
<1>1. Agreed => NoUnitStaysBehind
  BY DEF Agreed, OneDisposer
<1>2. QED
  BY <1>1, AgreedInvariant, PTL

\* A transmission to be signed begins with the first element of the signature,
\* or the last signature was torn off: cwC outlives the player that counted it.
THEOREM SignaturesBeginAtTheirBeginning ==
  ASSUME Timely
  PROVE  Spec => SignatureFromItsBeginning
<1>1. /\ Types /\ Agreed /\ Beginnings
      => (transmit /\ cwTime' => cwC = 0 \/ torn)
  <2> SUFFICES ASSUME Types, Beginnings, transmit PROVE cwC = 0 \/ torn
    OBVIOUS
  <2>1. phase = "slot"
    BY DEF transmit
  <2>2. cwC > 0 => torn
    BY <2>1 DEF Beginnings, SignatureGoesOn
  <2>3. QED
    BY <2>2, PlayerAssumption DEF Types, TypeOK, PlayerAssumption
<1>2. QED
  BY <1>1, TypesInvariant, AgreedInvariant, BeginningsInvariant, PTL
     DEF SignatureFromItsBeginning

\* A file begins at its beginning, or the one before ended by itself, or a unit
\* was left behind: startingFrameCount outlives the file it was counted in.
THEOREM FilesBeginAtTheirBeginning ==
  ASSUME Timely
  PROVE  Spec => FileFromItsBeginning
<1>1. Types /\ Agreed /\ Beginnings => (CreateUnit("main") => frame = 0 \/ ended \/ met # {})
  <2> SUFFICES ASSUME Types, Agreed, Beginnings, CreateUnit("main")
               PROVE  frame = 0 \/ ended \/ met # {}
    OBVIOUS
  <2>1. at["main"] = "create"
    BY DEF CreateUnit, Goes
  <2>2. ~running /\ ~At({"dispatch", "run", "quit", "quit2"})
    BY <2>1 DEF Agreed, OneCall, At, Callers, Inside
  <2>3. frame > 0 => ended \/ met # {}
    BY <2>2 DEF Beginnings, PlaceIsKnown, LeftBehind
  <2>4. QED
    BY <2>3, PlayerAssumption DEF Types, TypeOK, PlayerAssumption
<1>2. QED
  BY <1>1, TypesInvariant, AgreedInvariant, BeginningsInvariant, PTL
     DEF FileFromItsBeginning

\* The player with its units, watchers and callbacks implements Player: what is
\* heard is a file or tones, with silence before anything else.
THEOREM WavePlayerImplementsPlayer ==
  ASSUME Timely
  PROVE  Spec => PlaysOneThingAtATime
<1>1. Init => Heard!Init
  BY DEF Init, Heard!Init, heard
<1>2. Types /\ Agreed /\ [Next]_vars => [Heard!Next]_heard
  BY HeardStep DEF Agreed, Types
<1>3. QED
  BY <1>1, <1>2, TypesInvariant, AgreedInvariant, PTL
     DEF Spec, PlaysOneThingAtATime, Heard!Spec

=============================================================================
