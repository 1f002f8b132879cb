--------------------------- MODULE AudioRecorder ---------------------------
(***************************************************************************)
(* wjRecorder.m: the audio queue, its buffers and the sample array d2.     *)
(*                                                                         *)
(* The queue calls MyAQInputCallback with each buffer it has filled; the   *)
(* callback copies the samples to d2 at kin and hands the buffer back.  A  *)
(* watcher polls the clock and sets bzero when a minute begins, upon which *)
(* the callback starts over at the head of d2.  The dispatcher's onTick    *)
(* hands d2 over after second SlotEnd.  The samples of one buffer are one  *)
(* unit of time and one place of d2; a unit is named by when it was heard. *)
(***************************************************************************)
EXTENDS Integers, Sequences

CONSTANTS
  Minute,    \* units in a minute
  SlotEnd,   \* last unit of the recording slot
  Capacity,  \* places of d2 (NTMAX is two minutes)
  Buffers,   \* kNumberRecordBuffers
  Minutes,   \* how long to look at it (a bound)
  Ticks,     \* slots for onTick blocks that record (a bound)
  Timely     \* TRUE: no thread sleeps through a unit of time

ASSUME RecorderAssumption ==
  /\ {Minute, SlotEnd, Capacity, Buffers, Minutes} \subseteq Nat \ {0}
  /\ SlotEnd + 1 < Minute /\ Minute + 2 <= Capacity
  /\ Timely \in BOOLEAN

VARIABLES
  now,        \* units since the recorder was set up
  sec,        \* the unit of the minute the clock shows
  kin,        \* place of the next sample
  bzero,      \* start over with the next buffer
  running,    \* cleared when the application ends
  recording,  \* the callback is to write to the file as well
  free,       \* buffers that wait to be filled
  filled,     \* buffers that wait for the callback, by their samples
  callback,   \* where the callback is: "idle", "reset", "copy" or "memcpy"
  watcher,    \* where the watcher is: "sleep" or "wrap"
  ntr0,       \* the second the watcher saw last
  d2,         \* the samples
  jt9kin,     \* jt9com_.kin, where the newest buffer begins
  foreign,    \* d2 has been read from a file since kin was reset (history)
  since,      \* when each recording that goes on began, None if there is none
  saving,     \* jt9com_.nsave
  recordFile, \* "unset", or a file: "empty", "written" or "closed"
  exited,     \* CheckError has ended the program
  disturbed   \* killRecorder may be left with no file of its own to close (history)

device == <<free, filled, callback>>
files == <<recordFile, exited, disturbed>>
samples == <<d2, jt9kin, foreign>>
period == <<since, saving, files>>
vars == <<now, sec, kin, bzero, running, recording, device, watcher,
          ntr0, samples, period>>

None == -1    \* silence
File == -2    \* a sample of a file
Last == Minute * Minutes

FlagsOK ==
  /\ bzero \in BOOLEAN /\ running \in BOOLEAN /\ recording \in BOOLEAN
  /\ foreign \in BOOLEAN
  /\ saving \in BOOLEAN /\ exited \in BOOLEAN /\ disturbed \in BOOLEAN
  /\ callback \in {"idle", "reset", "copy", "memcpy"}
  /\ watcher \in {"sleep", "wrap"}
  /\ recordFile \in {"unset", "empty", "written", "closed"}

NumbersOK ==
  /\ now \in 0 .. Last /\ since \in [Ticks -> None .. Last]
  /\ sec \in 0 .. Minute - 1 /\ ntr0 \in 0 .. Minute - 1
  /\ kin \in 0 .. Capacity /\ jt9kin \in 0 .. Capacity

QueueOK ==
  /\ free \in 0 .. Buffers
  /\ filled \in Seq(0 .. Last) /\ Len(filled) <= Buffers

SamplesOK == d2 \in [0 .. Capacity - 1 -> {File} \cup None .. Last]

TypeOK == FlagsOK /\ NumbersOK /\ QueueOK /\ SamplesOK

\* init, initializeRecorder and the part of it that starts the watcher.
Init ==
  /\ now = 0 /\ sec \in 0 .. Minute - 1
  /\ kin = 0 /\ bzero = TRUE /\ running = TRUE /\ recording = FALSE
  /\ free = Buffers /\ filled = <<>> /\ callback = "idle"
  /\ watcher = "sleep" /\ ntr0 = 0
  /\ d2 = [i \in 0 .. Capacity - 1 |-> None]
  /\ jt9kin = 0 /\ foreign = FALSE
  /\ since = [r \in Ticks |-> None] /\ saving = FALSE
  /\ recordFile = "unset" /\ exited = FALSE /\ disturbed = FALSE

-----------------------------------------------------------------------------
(* MyAQInputCallback, on the thread of the audio queue.                    *)

\* Mutation: bzero is not looked at.
CallbackNeverResets ==
  /\ filled # <<>> /\ callback = "idle"
  /\ callback' = "copy"
  /\ UNCHANGED <<now, sec, kin, bzero, running, recording, free,
                 filled, watcher, ntr0, samples, period>>

Callback ==
  /\ filled # <<>> /\ callback = "idle"
  /\ \/ bzero /\ kin' = 0 /\ callback' = "reset" /\ foreign' = FALSE
     \/ ~bzero /\ callback' = "copy" /\ UNCHANGED <<kin, foreign>>
  /\ UNCHANGED <<now, sec, bzero, running, recording, free, filled,
                 watcher, ntr0, d2, jt9kin, period>>

\* The watcher may have set bzero again meanwhile.
ClearBzero ==
  /\ callback = "reset"
  /\ callback' = "copy"
  /\ bzero' = FALSE
  /\ UNCHANGED <<now, sec, kin, running, recording, free, filled,
                 watcher, ntr0, samples, period>>

\* One unit is as many packets as places, and the code asks for room for two.
HasRoom == kin + 2 <= Capacity

\* Mutation: the end of the new samples is made known, not their beginning.
PublishEnd ==
  /\ callback = "copy" /\ running /\ HasRoom
  /\ callback' = "memcpy"
  /\ jt9kin' = kin + 1
  /\ UNCHANGED <<now, sec, kin, bzero, running, recording, free, filled,
                 watcher, ntr0, d2, foreign, period>>

\* The others are told where the newest samples begin ...
PublishKin ==
  /\ callback = "copy" /\ running /\ HasRoom
  /\ callback' = "memcpy"
  /\ jt9kin' = kin
  /\ UNCHANGED <<now, sec, kin, bzero, running, recording, free, filled,
                 watcher, ntr0, d2, foreign, period>>

\* Mutation: the buffer goes back both before and after it is copied.
CopyAndEnqueueTwice ==
  /\ callback = "memcpy"
  /\ callback' = "idle"
  /\ d2' = [d2 EXCEPT ![kin] = Head(filled)]
  /\ filled' = Tail(filled) /\ free' = free + 2
  /\ kin' = kin + 1
  /\ UNCHANGED <<now, sec, bzero, running, recording, watcher, ntr0, jt9kin,
                 foreign, period>>

\* ... these are copied, and the buffer goes back to the queue ...
CopySamples ==
  /\ callback = "memcpy"
  /\ callback' = "idle"
  /\ d2' = [d2 EXCEPT ![kin] = Head(filled)]
  /\ filled' = Tail(filled) /\ free' = free + 1
  /\ kin' = kin + 1
  /\ recordFile' = IF running /\ recording /\ saving THEN "written" ELSE recordFile
  /\ UNCHANGED <<now, sec, bzero, running, recording, watcher, ntr0, jt9kin,
                 foreign, since, saving, exited, disturbed>>

\* ... unless the callback returns early: the buffer does not go back.
DropBuffer ==
  /\ callback = "copy" /\ ~(running /\ HasRoom)
  /\ callback' = "idle"
  /\ filled' = Tail(filled)
  /\ UNCHANGED <<now, sec, kin, bzero, running, recording, free,
                 watcher, ntr0, samples, period>>

-----------------------------------------------------------------------------
(* The watcher.                                                            *)

\* Mutation: ntr0 is updated before it is compared.
PollComparesLate ==
  /\ watcher = "sleep" /\ running /\ sec # ntr0
  /\ watcher' = "sleep"
  /\ ntr0' = sec
  /\ UNCHANGED <<now, sec, kin, bzero, running, recording, device, samples, period>>

Poll ==
  /\ watcher = "sleep" /\ running /\ sec # ntr0
  /\ watcher' = IF sec < ntr0 THEN "wrap" ELSE "sleep"
  /\ ntr0' = sec
  /\ UNCHANGED <<now, sec, kin, bzero, running, recording, device,
                 samples, period>>

SetBzero ==
  /\ watcher = "wrap"
  /\ watcher' = "sleep"
  /\ bzero' = TRUE
  /\ UNCHANGED <<now, sec, kin, running, recording, device, ntr0, samples,
                 period>>

-----------------------------------------------------------------------------
(* What the dispatcher and the delegate do with the recorder.  Two monitor *)
(* workers can record at once (see QsoGetsItsTurn of TransmitReceive), and *)
(* one that was cancelled is followed by another.                          *)

GoesOn(r) == since[r] # None
SomeGoesOn == \E r \in Ticks : GoesOn(r)

setM_saveAll ==
  /\ saving' = ~saving
  /\ disturbed' = (disturbed \/ SomeGoesOn)
  /\ UNCHANGED <<now, sec, kin, bzero, running, recording, device, watcher,
                 ntr0, samples, since, recordFile, exited>>

\* Mutation: a file is made for the first recording only.
startRecordingOnce(r) ==
  /\ ~GoesOn(r) /\ sec = 0 /\ running
  /\ since' = [since EXCEPT ![r] = now]
  /\ recordFile' = IF saving /\ recordFile = "unset" THEN "empty" ELSE recordFile
  /\ disturbed' = (disturbed \/ SomeGoesOn)
  /\ UNCHANGED <<now, sec, kin, bzero, running, recording, device, watcher,
                 ntr0, samples, saving, exited>>

\* onTick begins, when saving with startRecording; a file that was left open,
\* or is that of another recording, is forgotten.  Neither bzero nor recording
\* is set.
startRecording(r) ==
  /\ ~GoesOn(r) /\ sec = 0 /\ running
  /\ since' = [since EXCEPT ![r] = now]
  /\ recordFile' = IF saving THEN "empty" ELSE recordFile
  /\ disturbed' = (disturbed \/ SomeGoesOn)
  /\ UNCHANGED <<now, sec, kin, bzero, running, recording, device, watcher,
                 ntr0, samples, saving, exited>>

\* recordFile is never nil again.  Before the first file it is what malloc left
\* there; an error of AudioFileClose ends the program.
killRecorder ==
  /\ recording' = FALSE
  /\ \/ saving /\ recordFile \in {"empty", "written"}
        /\ recordFile' = "closed" /\ exited' = exited
     \/ saving /\ recordFile \in {"unset", "closed"}
        /\ recordFile' = recordFile /\ exited' = TRUE
     \/ (~saving \/ recordFile = "unset")
        /\ UNCHANGED <<recordFile, exited>>

Due(r) == GoesOn(r) /\ sec > SlotEnd

\* The end of onTick: killRecorder and setUpJt9, when the slot is over or as
\* soon as a transmission is asked for.
HandOver(r) ==
  /\ GoesOn(r)
  /\ killRecorder
  /\ since' = [since EXCEPT ![r] = None]
  /\ UNCHANGED <<now, sec, kin, bzero, running, device, watcher, ntr0, samples,
                 saving, disturbed>>

\* A recording that is cancelled just ends: killRecorder is not called.
Cancel(r) ==
  /\ GoesOn(r)
  /\ since' = [since EXCEPT ![r] = None]
  /\ UNCHANGED <<now, sec, kin, bzero, running, recording, device, watcher,
                 ntr0, samples, saving, files>>

\* onTick2 calls killRecorder when own transmissions are decoded (m_tx2QSO).
DecodeOwn ==
  /\ killRecorder
  /\ disturbed' = TRUE
  /\ UNCHANGED <<now, sec, kin, bzero, running, device, watcher, ntr0, samples,
                 since, saving>>

\* setUpJt9 with a file: memset clears half of d2 (it counts in bytes), fread
\* fills 48 seconds, one less than the slot, unless the file cannot be opened.
\* That a recording goes on is not looked at.
decodeFile ==
  /\ running
  /\ foreign' = TRUE
  /\ \E n \in {0, SlotEnd - 1} :
       d2' = [i \in DOMAIN d2 |-> IF i < n THEN File
                                  ELSE IF 2 * i < Capacity THEN None ELSE d2[i]]
  /\ UNCHANGED <<now, sec, kin, bzero, running, recording, device, watcher,
                 ntr0, jt9kin, period>>

\* killRecorder with killDead, which also stops the queue.
applicationWillTerminate ==
  /\ running
  /\ killRecorder
  /\ running' = FALSE /\ disturbed' = TRUE
  /\ UNCHANGED <<now, sec, kin, bzero, device, watcher, ntr0, samples, since,
                 saving>>

-----------------------------------------------------------------------------
\* Polls are 50 ms apart, a unit is half a second.
Pending ==
  \/ filled # <<>> \/ watcher = "wrap"
  \/ running /\ sec # ntr0
  \/ \E r \in Ticks : Due(r)

\* The device (external): what is heard in a unit of time fills a buffer.
Tick ==
  /\ now < Last
  /\ Timely => ~Pending
  /\ now' = now + 1
  /\ sec' = IF sec + 1 < Minute THEN sec + 1 ELSE 0
  /\ IF free > 0 /\ running
       THEN free' = free - 1 /\ filled' = Append(filled, now)
       ELSE free' = free /\ filled' = filled
  /\ UNCHANGED <<kin, bzero, running, recording, callback,
                 watcher, ntr0, samples, period>>

\* The operator's, which need not happen.
Operator == setM_saveAll \/ decodeFile

\* The threads of the recorder and of the dispatcher.
Work ==
  \/ Callback \/ ClearBzero \/ PublishKin \/ CopySamples \/ DropBuffer
  \/ Poll \/ SetBzero
  \/ \E r \in Ticks : startRecording(r) \/ HandOver(r) \/ Cancel(r)
  \/ DecodeOwn

Step == Work \/ Operator \/ applicationWillTerminate \/ Tick

Next == ~exited /\ Step

Spec == Init /\ [][Next]_vars

-----------------------------------------------------------------------------
(* Properties.                                                             *)

\* A period handed over at the end of its slot is the recording of that minute
\* and of nothing else, whichever of watcher and callback comes first then:
\* every place has the unit of its number, or all may be late by one, the
\* buffer that was on its way.  (So may the last one of the slot be.)  Unless
\* the operator had a file decoded during the recording, which is then in it.
PeriodIsOfThisMinute ==
  [][\A r \in Ticks :
       HandOver(r) /\ Due(r) /\ Timely /\ running /\ ~foreign =>
         \/ \A i \in 0 .. SlotEnd - 1 : d2[i] = since[r] + i
         \/ \A i \in 0 .. SlotEnd - 1 : d2[i] = since[r] + i - 1]_vars

\* As long as the application runs and its threads are on time the queue has
\* all of its buffers: none of the early returns of the callback is taken.
NoBufferLost ==
  Timely /\ running => free + Len(filled) = Buffers

\* killRecorder closes the file of the recording that ends and no other, so
\* that CheckError does not end the program: unless a second recording begins
\* beside it (the second killRecorder closes a closed file), the operator changes
\* saving during a recording, decodes own transmissions, or ends the program.
ClosesItsOwnFile == exited => disturbed

\* "write packets to file": a recording handed over while saving, its file
\* open, has been written to that file.
PacketsAreWritten ==
  [][\A r \in Ticks :
       HandOver(r) /\ Due(r) /\ Timely /\ saving /\ ~disturbed
         => recordFile = "written"]_vars

=============================================================================
