----------------------------- MODULE WavePlayer -----------------------------
(***************************************************************************)
(* wjPlayer.m: the audio units, who starts and who stops them.             *)
(*                                                                         *)
(* The main thread plays a file, a transmit worker plays tones and may     *)
(* have a signature in Morse after them.  initializePlayer makes an audio  *)
(* unit and leaves a watcher with it, which stops the unit when imDone is  *)
(* set; quitPlayer stops it when imDone is not.  imDone is set by the      *)
(* render callback of every unit there is.  Four threads write `running'   *)
(* and `imDone', and no lock is held.                                      *)
(***************************************************************************)
EXTENDS Naturals

CONSTANTS
  Units,    \* the audio units that may exist at one time (a bound)
  cwMax,    \* elements of the signature (a small one)
  Longest,  \* length of the longest file, in calls of the render callback
  Timely    \* TRUE: calls are short and watchers are not starved, see Clear

ASSUME PlayerAssumption ==
  /\ Units \subseteq Nat \ {0} /\ cwMax \in Nat /\ Timely \in BOOLEAN
  /\ Longest \in Nat \ {0}

nil == 0
None == "none"
Callers == {"main", "worker"}

VARIABLES
  phase,      \* "slot", "after" (second 48) or "last" (second 59)
  running,    \* thePlayer->running
  imDone,     \* thePlayer->imDone
  cwTime,     \* thePlayer->cwTime, a signature is due
  morseNext,  \* gSettings.m_morseNext
  cwC,        \* element of the signature, a static of the callback
  total,      \* totalDataPoints
  frame,      \* startingFrameCount (Longest stands for what is past it)
  unit,       \* what each unit plays: "tones", "file" or None
  outputUnit, \* thePlayer->outputUnit, the unit made last
  watcher,    \* where the watcher left with each unit is
  at,         \* where each caller is
  again,      \* a unit has been disposed of twice (history)
  met,        \* units whose quitPlayer found imDone set already (history)
  ended,      \* a file has ended by itself since the last quitPlayer (history)
  torn        \* a signature was stopped in its middle (history)

flags == <<running, imDone>>
morse == <<cwTime, morseNext, cwC>>
file == <<total, frame>>
sound == <<unit, outputUnit>>
history == <<again, met, ended, torn>>
vars == <<phase, flags, morse, file, sound, watcher, at, history>>

Inside == {"create", "dispatch", "run", "ready", "quit", "quit2"}

TypeOK ==
  /\ phase \in {"slot", "after", "last"}
  /\ running \in BOOLEAN /\ imDone \in BOOLEAN
  /\ cwTime \in BOOLEAN /\ morseNext \in BOOLEAN /\ cwC \in 0 .. cwMax
  /\ total \in 0 .. Longest /\ frame \in 0 .. Longest
  /\ unit \in [Units -> {None, "tones", "file"}]
  /\ outputUnit \in Units \cup {nil}
  /\ watcher \in [Units -> {"off", "poll", "test", "stop"}]
  /\ at \in [Callers -> Inside \cup {"idle", "playing"}]
  /\ met \subseteq Units
  /\ again \in BOOLEAN /\ ended \in BOOLEAN /\ torn \in BOOLEAN

Init ==
  /\ phase = "slot"
  /\ running = FALSE /\ imDone = FALSE
  /\ cwTime = FALSE /\ morseNext = FALSE /\ cwC = 0
  /\ total = 0 /\ frame = 0
  /\ unit = [u \in Units |-> None] /\ outputUnit = nil
  /\ watcher = [u \in Units |-> "off"]
  /\ at = [c \in Callers |-> "idle"]
  /\ again = FALSE /\ met = {} /\ ended = FALSE /\ torn = FALSE

-----------------------------------------------------------------------------
\* AudioOutputUnitStop, AudioUnitUninitialize and AudioComponentInstanceDispose
\* of whatever outputUnit is.  It is not set to nil.
Dispose ==
  /\ unit' = [unit EXCEPT ![outputUnit] = None]
  /\ again' = (again \/ unit[outputUnit] = None)
  /\ UNCHANGED outputUnit

Stops == running' = FALSE /\ torn' = (torn \/ (cwTime /\ cwC > 0))

WatcherDue(u) ==
  watcher[u] \in {"test", "stop"} \/ (watcher[u] = "poll" /\ imDone)

\* The assumption Timely: a call does not begin in the middle of another one,
\* and a player is not started while a watcher has something to do.
Clear == Timely => \A c \in Callers : at[c] \notin Inside
NoneDue == Timely => \A u \in Units : ~WatcherDue(u)

Spare(u) == unit[u] = None /\ u # outputUnit /\ watcher[u] = "off"

\* One more unit can be made (the bound).
Room == \E u \in Units : Spare(u)

Goes(c, here, there) == at[c] = here /\ at' = [at EXCEPT ![c] = there]

-----------------------------------------------------------------------------
(* initializePlayer, called by the two callers.                            *)

\* Mutation: a player that runs is not left alone.
startPlayerAnyway ==
  /\ Clear /\ NoneDue /\ Room
  /\ Goes("main", "idle", "create")
  /\ UNCHANGED <<phase, flags, morse, file, sound, watcher, history>>

\* The button of the main thread; a player that runs is left alone.
startPlayer ==
  /\ Clear /\ NoneDue /\ Room
  /\ ~running /\ Goes("main", "idle", "create")
  /\ UNCHANGED <<phase, flags, morse, file, sound, watcher, history>>

\* The worker, at the top of a minute: generateTonesForMessage, perhaps morse,
\* then initializePlayer, which does nothing when a player runs.
transmit ==
  /\ phase = "slot"
  /\ Clear /\ NoneDue /\ Room
  /\ imDone' = FALSE
  /\ \/ cwTime' = TRUE /\ morseNext' = TRUE
     \/ UNCHANGED <<cwTime, morseNext>>
  /\ Goes("worker", "idle", IF running THEN "playing" ELSE "create")
  /\ UNCHANGED <<phase, running, cwC, file, sound, watcher, history>>

\* readFile leaves startingFrameCount alone.
readFile(c) ==
  /\ total' \in IF c = "main" THEN 1 .. Longest ELSE {total}
  /\ UNCHANGED frame

\* CreateAndConnectOutputUnit, AudioOutputUnitStart: callbacks come from now on.
CreateUnit(c) ==
  /\ Goes(c, "create", "dispatch")
  /\ readFile(c)
  /\ \E u \in Units :
       /\ Spare(u)
       /\ unit' = [unit EXCEPT ![u] = IF c = "main" THEN "file" ELSE "tones"]
       /\ outputUnit' = u
       /\ met' = met \ {u}
  /\ UNCHANGED <<phase, flags, morse, watcher, again, ended, torn>>

\* Mutation: the block that was dispatched is lost.
NoWatcher(c) ==
  /\ Goes(c, "dispatch", "run")
  /\ UNCHANGED <<phase, flags, morse, file, sound, watcher, history>>

DispatchWatcher(c) ==
  /\ Goes(c, "dispatch", "run")
  /\ watcher' = [watcher EXCEPT ![outputUnit] = "poll"]
  /\ UNCHANGED <<phase, flags, morse, file, sound, history>>

SetRunning(c) ==
  /\ Goes(c, "run", "ready")
  /\ running' = TRUE
  /\ UNCHANGED <<phase, imDone, morse, file, sound, watcher, history>>

ClearDone(c) ==
  /\ Goes(c, "ready", IF c = "main" THEN "idle" ELSE "playing")
  /\ imDone' = FALSE
  /\ UNCHANGED <<phase, running, morse, file, sound, watcher, history>>

-----------------------------------------------------------------------------
(* quitPlayer: by the operator at any time, by the worker when onTick2 has *)
(* waited for second 48 and the signature, or was cancelled.               *)

\* The end of quitPlayer.
ForgetFile == total' = 0 /\ frame' = 0 /\ ended' = FALSE

quitPlayer(c) ==
  /\ Clear
  /\ at[c] = IF c = "main" THEN "idle" ELSE "playing"
  /\ \/ running /\ Stops /\ at' = [at EXCEPT ![c] = "quit"]
        /\ UNCHANGED <<file, ended>>
     \/ ~running /\ ForgetFile /\ at' = [at EXCEPT ![c] = "idle"]
        /\ UNCHANGED <<running, torn>>
  /\ UNCHANGED <<phase, imDone, cwTime, cwC, sound, watcher, again, met>>

StopOutput(c) ==
  /\ Goes(c, "quit", "quit2")
  /\ \/ ~imDone /\ Dispose /\ met' = met
     \/ imDone /\ met' = met \cup {outputUnit} /\ UNCHANGED <<sound, again>>
  /\ UNCHANGED <<phase, flags, morse, file, watcher, ended, torn>>

\* Mutation: the place in the file is kept for the next one.
SetDoneKeepsPlace(c) ==
  /\ Goes(c, "quit2", "idle")
  /\ imDone' = TRUE /\ total' = 0 /\ ended' = FALSE
  /\ UNCHANGED <<phase, running, morse, frame, sound, watcher, again, met, torn>>

SetDone(c) ==
  /\ Goes(c, "quit2", "idle")
  /\ imDone' = TRUE /\ ForgetFile
  /\ UNCHANGED <<phase, running, morse, sound, watcher, again, met, torn>>

\* onTick2 of a transmission that is not cancelled.
EndDue == at["worker"] = "playing" /\ phase # "slot" /\ ~(cwTime /\ morseNext)

quitOperator == quitPlayer("main") /\ UNCHANGED morseNext
quitWorker == quitPlayer("worker") /\ morseNext' = FALSE

-----------------------------------------------------------------------------
(* The watcher, a block on a queue of background priority.                 *)

\* Its first poll comes after initializePlayer has returned, when Timely.
Poll(u) ==
  /\ watcher[u] = "poll" /\ imDone
  /\ Timely => \A c \in Callers : at[c] \notin {"run", "ready"}
  /\ watcher' = [watcher EXCEPT ![u] = "test"]
  /\ UNCHANGED <<phase, flags, morse, file, sound, at, history>>

\* Mutation: the watcher does not look whether quitPlayer was there before.
TestAnyway(u) ==
  /\ watcher[u] = "test"
  /\ watcher' = [watcher EXCEPT ![u] = "stop"]
  /\ UNCHANGED <<phase, flags, morse, file, sound, at, history>>

Test(u) ==
  /\ watcher[u] = "test"
  /\ watcher' = [watcher EXCEPT ![u] = IF running THEN "stop" ELSE "off"]
  /\ UNCHANGED <<phase, flags, morse, file, sound, at, history>>

\* Mutation: the unit is not disposed of.
StopNothing(u) ==
  /\ watcher[u] = "stop"
  /\ watcher' = [watcher EXCEPT ![u] = "off"]
  /\ Stops
  /\ UNCHANGED <<phase, imDone, morse, file, sound, at, again, met, ended>>

Stop(u) ==
  /\ watcher[u] = "stop"
  /\ watcher' = [watcher EXCEPT ![u] = "off"]
  /\ Stops /\ Dispose
  /\ UNCHANGED <<phase, imDone, morse, file, at, met, ended>>

-----------------------------------------------------------------------------
(* The render callbacks of a unit.                                         *)

Tones(u) == unit[u] = "tones"

\* WavFileRenderProc.  At the end of the file, or past it at once, or when it
\* finds imDone set, the player is done; in silence it counts on.
WavFileRenderProc(u) ==
  /\ unit[u] = "file"
  /\ imDone' = (imDone \/ frame + 1 >= total)
  /\ frame' = IF frame < Longest THEN frame + 1 ELSE frame
  /\ ended' = (ended \/ (running /\ ~imDone /\ imDone'))
  /\ UNCHANGED <<phase, running, morse, total, sound, watcher, at, again, met, torn>>

\* JTWaveRenderProc, when the player does not run.
TonesEnd(u) ==
  /\ Tones(u) /\ ~running
  /\ imDone' = TRUE
  /\ UNCHANGED <<phase, running, morse, file, sound, watcher, at, history>>

Signing(u) == Tones(u) /\ running /\ phase # "slot" /\ cwTime /\ ~imDone

\* Mutation: one element more than there are.
SendElementTooMany(u) ==
  /\ Signing(u) /\ phase = "after" /\ cwC <= cwMax
  /\ cwC' = cwC + 1
  /\ UNCHANGED <<phase, flags, cwTime, morseNext, file, sound, watcher, at, history>>

SendElement(u) ==
  /\ Signing(u) /\ phase = "after" /\ cwC < cwMax
  /\ cwC' = cwC + 1
  /\ UNCHANGED <<phase, flags, cwTime, morseNext, file, sound, watcher, at, history>>

\* Mutation: cwC is left at the last element.
LastElementStays(u) ==
  /\ Signing(u) /\ phase = "after" /\ cwC = cwMax
  /\ cwTime' = FALSE /\ imDone' = TRUE /\ morseNext' = FALSE
  /\ torn' = FALSE
  /\ UNCHANGED <<phase, running, cwC, file, sound, watcher, at, again, met, ended>>

\* After the last element ...
MorseSent(u) ==
  /\ Signing(u) /\ phase = "after" /\ cwC = cwMax
  /\ cwC' = 0 /\ cwTime' = FALSE /\ imDone' = TRUE /\ morseNext' = FALSE
  /\ torn' = FALSE
  /\ UNCHANGED <<phase, running, file, sound, watcher, at, again, met, ended>>

\* ... or in the last second of the minute.
MorseCut(u) ==
  /\ Signing(u) /\ phase = "last"
  /\ cwC' = 0 /\ cwTime' = FALSE /\ imDone' = TRUE
  /\ torn' = FALSE
  /\ UNCHANGED <<phase, running, morseNext, file, sound, watcher, at, again, met, ended>>

-----------------------------------------------------------------------------
NextPhase == [slot |-> "after", after |-> "last", last |-> "slot"]

\* What is due in this phase is done in it, when Timely.
Tick ==
  /\ Timely => /\ ~EndDue /\ NoneDue /\ Clear
               /\ \A u \in Units : ~(Signing(u) /\ phase = "last")
  /\ phase' = NextPhase[phase]
  /\ UNCHANGED <<flags, morse, file, sound, watcher, at, history>>

InCall(c) ==
  \/ CreateUnit(c) \/ DispatchWatcher(c) \/ SetRunning(c) \/ ClearDone(c)
  \/ StopOutput(c) \/ SetDone(c)

Watch(u) == Poll(u) \/ Test(u) \/ Stop(u)

Next ==
  \/ startPlayer \/ transmit \/ quitOperator \/ quitWorker
  \/ \E c \in Callers : InCall(c)
  \/ \E u \in Units :
       \/ Watch(u)
       \/ WavFileRenderProc(u) \/ TonesEnd(u)
       \/ SendElement(u) \/ MorseSent(u) \/ MorseCut(u)
  \/ Tick

Spec == Init /\ [][Next]_vars

\* The clock, the callers once they are in a call, the watchers and the
\* callbacks go on; a file and a transmission end.
FairSpec ==
  /\ Spec
  /\ \A c \in Callers : WF_vars(InCall(c))
  /\ WF_vars(EndDue /\ quitWorker)
  /\ \A u \in Units :
       WF_vars(Watch(u)) /\ WF_vars(WavFileRenderProc(u)) /\ WF_vars(MorseCut(u))
  /\ WF_vars(Tick)

-----------------------------------------------------------------------------
(* Properties.                                                             *)

\* quitPlayer and the watcher settle between them who disposes of a unit, one
\* by running, the other by imDone: it is never done twice.
DisposedOnce == ~again

\* Nor do both leave it to the other: a unit nobody is going to stop exists
\* only where quitPlayer came after imDone and before the watcher.
NoUnitStaysBehind ==
  \A u \in Units :
    unit[u] # None =>
      \/ running /\ u = outputUnit
      \/ u = outputUnit /\ \E c \in Callers : at[c] \in Inside
      \/ u \in met

\* A transmission that is to be signed, now or since an earlier one was not,
\* starts with the first element, cwC being what the last signature left: unless
\* that was torn off, the player stopped before its end.
SignatureFromItsBeginning ==
  [][transmit /\ cwTime' => cwC = 0 \/ torn]_vars

\* A file is played from its beginning, and not from the place the last one was
\* at when it was stopped: unless that ended by itself and quitPlayer has not
\* been called since, or goes on counting in a unit that was left behind.
FileFromItsBeginning ==
  [][CreateUnit("main") => frame = 0 \/ ended \/ met # {}]_vars

\* What is heard of the unit made last: nothing any more once imDone is set.
heard == IF running /\ ~imDone THEN unit[outputUnit] ELSE "off"

Heard == INSTANCE Player WITH player <- heard

\* Whoever starts and stops the player, and whenever, it implements Player: it
\* plays one thing at a time, and is silent before it plays another.
PlaysOneThingAtATime == Heard!Spec

\* A player does not run for ever, which would keep every later transmission
\* from being heard (initializePlayer does nothing while one runs).
PlayerIsReleased == running ~> ~running

=============================================================================
