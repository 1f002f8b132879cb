------------------------ MODULE AudioRecorderProofs ------------------------
(***************************************************************************)
(* Theorems about the recorder, for every length of the minute, of the     *)
(* slot and of d2, and every number of buffers.                            *)
(***************************************************************************)
EXTENDS AudioRecorder, SequenceTheorems, TLAPS

-----------------------------------------------------------------------------
(* The inductive invariants.                                               *)

\* What the types rest on: the callback is at work on a buffer, has asked for
\* room before it copies, and a buffer is either free or filled.
Types ==
  /\ TypeOK
  /\ callback = "memcpy" => HasRoom
  /\ callback # "idle" => filled # <<>>
  /\ free + Len(filled) <= Buffers

\* No recording begins beside another, and one that has been saved from its
\* beginning on has its file open.
Files ==
  /\ exited => disturbed
  /\ ~disturbed => \A r, q \in Ticks : GoesOn(r) /\ GoesOn(q) => r = q
  /\ ~disturbed /\ SomeGoesOn /\ saving => recordFile \in {"empty", "written"}

\* The minute has turned and bzero has not been set for it yet.
TurnUnseen == sec = 0 /\ (ntr0 # 0 \/ watcher = "wrap")

\* While all threads are on time the queue is never more than a buffer behind,
\* the watcher never more than a unit, and the places in use are those of the
\* minute that goes on (or, until the watcher has been there, of the last one).
OnTime ==
  /\ free + Len(filled) = Buffers
  /\ Len(filled) <= 1
  /\ sec # 0 => ntr0 <= sec
  /\ sec = 0 => ntr0 \in {0, Minute - 1}
  /\ watcher = "wrap" => sec = 0 /\ ntr0 = 0
  /\ callback = "reset" => kin = 0
  /\ ~bzero /\ ~TurnUnseen => kin + Len(filled) <= sec + 1
  /\ ~bzero /\ TurnUnseen => kin + Len(filled) <= Minute + 1
  /\ bzero /\ callback \in {"copy", "memcpy"} => sec = 0 /\ kin <= Minute

Keeping == Timely /\ running => OnTime

\* The buffer that waits was filled last.
NewestLast == filled # <<>> => Head(filled) = now - 1

\* The unit at the head of d2; what follows it was heard one after the other.
Base == now - kin - Len(filled)
Consecutive == ~foreign => \A i \in 0 .. kin - 1 : d2[i] = Base + i

\* The minute that goes on, if all of it has been heard so far, has been
\* recorded from its beginning, or is about to be.
FromTheTurn ==
  /\ callback = "reset" => bzero
  /\ now >= sec =>
       /\ ~bzero => kin + Len(filled) >= sec
       /\ bzero => sec = 0 \/ (sec = 1 /\ filled # <<>>)

Whole == NewestLast /\ Consecutive /\ FromTheTurn

\* A recording began when the minute turned, and ends with its slot.
RecordingGoesOn ==
  Timely => \A r \in Ticks :
              GoesOn(r) => sec <= SlotEnd + 1 /\ now = since[r] + sec

Recording == RecordingGoesOn /\ (Timely /\ running => Whole)

-----------------------------------------------------------------------------
(* The types.                                                              *)

LEMMA LastIsNat == Last \in Nat
BY RecorderAssumption DEF RecorderAssumption, Last

\* What the device and the callback do to the buffers that wait.
LEMMA FilledFacts ==
  ASSUME QueueOK
  PROVE  /\ Len(filled) \in Nat
         /\ filled # <<>> => /\ Len(filled) >= 1
                            /\ Head(filled) \in 0 .. Last
                            /\ Tail(filled) \in Seq(0 .. Last)
                            /\ Len(Tail(filled)) = Len(filled) - 1
         /\ \A t \in 0 .. Last : /\ Append(filled, t) \in Seq(0 .. Last)
                                /\ Append(filled, t) # <<>>
                                /\ Len(Append(filled, t)) = Len(filled) + 1
<1> DEFINE T == 0 .. Last
<1>1. filled \in Seq(T)
  BY DEF QueueOK
<1> HIDE DEF T
<1>2. Len(filled) \in Nat
  BY <1>1, LenProperties
<1>3. ASSUME filled # <<>>
      PROVE /\ Len(filled) >= 1
            /\ Head(filled) \in T
            /\ Tail(filled) \in Seq(T)
            /\ Len(Tail(filled)) = Len(filled) - 1
  <2>1. Len(filled) \in Nat \ {0}
    BY <1>1, <1>3, EmptySeq
  <2>2. /\ Head(filled) \in T
        /\ Tail(filled) \in Seq(T)
        /\ Len(Tail(filled)) = Len(filled) - 1
    BY <1>1, <1>3, HeadTailProperties
  <2>3. QED
    BY <2>1, <2>2
<1>4. ASSUME NEW t \in T
      PROVE /\ Append(filled, t) \in Seq(T)
            /\ Append(filled, t) # <<>>
            /\ Len(Append(filled, t)) = Len(filled) + 1
  BY <1>1, AppendProperties
<1>5. QED
  BY <1>2, <1>3, <1>4 DEF T

LEMMA FlagsStep == FlagsOK /\ [Next]_vars => FlagsOK'
<1> SUFFICES ASSUME FlagsOK, [Next]_vars PROVE FlagsOK'
  OBVIOUS
<1> USE DEF FlagsOK, device, samples, period, files
<1>1. CASE Callback
  BY <1>1, Zenon DEF Callback
<1>2. CASE ClearBzero
  BY <1>2, Zenon DEF ClearBzero
<1>3. CASE PublishKin
  BY <1>3, Zenon DEF PublishKin
<1>4. CASE CopySamples
  BY <1>4, Zenon DEF CopySamples
<1>5. CASE DropBuffer
  BY <1>5, Zenon DEF DropBuffer
<1>6. CASE Poll
  BY <1>6, Zenon DEF Poll
<1>7. CASE SetBzero
  BY <1>7, Zenon DEF SetBzero
<1>8. CASE setM_saveAll
  BY <1>8, Zenon DEF setM_saveAll
<1>9. CASE \E r \in Ticks : startRecording(r)
  BY <1>9, Zenon DEF startRecording
<1>10. CASE \E r \in Ticks : HandOver(r)
  BY <1>10, Zenon DEF HandOver, killRecorder
<1>11. CASE \E r \in Ticks : Cancel(r)
  BY <1>11, Zenon DEF Cancel
<1>12. CASE DecodeOwn
  BY <1>12, Zenon DEF DecodeOwn, killRecorder
<1>13. CASE decodeFile
  BY <1>13, Zenon DEF decodeFile
<1>14. CASE applicationWillTerminate
  BY <1>14, Zenon DEF applicationWillTerminate, killRecorder
<1>15. CASE Tick
  BY <1>15, Zenon DEF Tick
<1>16. CASE UNCHANGED vars
  BY <1>16, Zenon DEF vars
<1>17. QED
  BY <1>1, <1>2, <1>3, <1>4, <1>5, <1>6, <1>7, <1>8,
     <1>9, <1>10, <1>11, <1>12, <1>13, <1>14, <1>15, <1>16
     DEF Next, Step, Work, Operator

LEMMA NumbersStep ==
  ASSUME Types, [Next]_vars PROVE NumbersOK' /\ (callback = "memcpy" => HasRoom)'
<1> USE RecorderAssumption, LastIsNat
       DEF RecorderAssumption, Types, TypeOK, NumbersOK, HasRoom, None, device, samples, period, files
<1>1. CASE Callback
  BY <1>1 DEF Callback
<1>2. CASE ClearBzero
  BY <1>2 DEF ClearBzero
<1>3. CASE PublishKin
  BY <1>3 DEF PublishKin
<1>4. CASE CopySamples
  BY <1>4 DEF CopySamples
<1>5. CASE DropBuffer
  BY <1>5 DEF DropBuffer
<1>6. CASE Poll
  BY <1>6 DEF Poll
<1>7. CASE SetBzero
  BY <1>7 DEF SetBzero
<1>8. CASE setM_saveAll
  BY <1>8 DEF setM_saveAll
<1>9. CASE \E r \in Ticks : startRecording(r)
  BY <1>9 DEF startRecording
<1>10. CASE \E r \in Ticks : HandOver(r)
  BY <1>10 DEF HandOver, killRecorder
<1>11. CASE \E r \in Ticks : Cancel(r)
  BY <1>11 DEF Cancel
<1>12. CASE DecodeOwn
  BY <1>12 DEF DecodeOwn, killRecorder
<1>13. CASE decodeFile
  BY <1>13 DEF decodeFile
<1>14. CASE applicationWillTerminate
  BY <1>14 DEF applicationWillTerminate, killRecorder
<1>15. CASE Tick
  BY <1>15 DEF Tick
<1>16. CASE UNCHANGED vars
  BY <1>16 DEF vars
<1>17. QED
  BY <1>1, <1>2, <1>3, <1>4, <1>5, <1>6, <1>7, <1>8,
     <1>9, <1>10, <1>11, <1>12, <1>13, <1>14, <1>15, <1>16
     DEF Next, Step, Work, Operator

LEMMA QueueStep ==
  ASSUME Types, [Next]_vars PROVE QueueOK' /\ (callback # "idle" => filled # <<>>)'
                                  /\ (free + Len(filled) <= Buffers)'
<1> USE RecorderAssumption, LastIsNat
       DEF RecorderAssumption, Types, TypeOK, NumbersOK, QueueOK, device, samples, period, files
<1>1. CASE Callback
  BY <1>1 DEF Callback
<1>2. CASE ClearBzero
  BY <1>2 DEF ClearBzero
<1>3. CASE PublishKin
  BY <1>3 DEF PublishKin
<1>4. CASE CopySamples
  <2>1. QueueOK /\ filled # <<>> /\ filled' = Tail(filled) /\ free' = free + 1
    BY <1>4 DEF CopySamples
  <2>2. filled' \in Seq(0 .. Last) /\ Len(filled') = Len(filled) - 1
    BY <2>1, FilledFacts, Zenon
  <2>3. QED
    BY <1>4, <2>1, <2>2, SMTT(60) DEF CopySamples
<1>5. CASE DropBuffer
  <2>1. QueueOK /\ filled # <<>> /\ filled' = Tail(filled) /\ free' = free
    BY <1>5 DEF DropBuffer
  <2>2. filled' \in Seq(0 .. Last) /\ Len(filled') = Len(filled) - 1
    BY <2>1, FilledFacts, Zenon
  <2>3. QED
    BY <1>5, <2>1, <2>2, SMTT(60) DEF DropBuffer
<1>6. CASE Poll
  BY <1>6 DEF Poll
<1>7. CASE SetBzero
  BY <1>7 DEF SetBzero
<1>8. CASE setM_saveAll
  BY <1>8 DEF setM_saveAll
<1>9. CASE \E r \in Ticks : startRecording(r)
  BY <1>9 DEF startRecording
<1>10. CASE \E r \in Ticks : HandOver(r)
  BY <1>10 DEF HandOver, killRecorder
<1>11. CASE \E r \in Ticks : Cancel(r)
  BY <1>11 DEF Cancel
<1>12. CASE DecodeOwn
  BY <1>12 DEF DecodeOwn, killRecorder
<1>13. CASE decodeFile
  BY <1>13 DEF decodeFile
<1>14. CASE applicationWillTerminate
  BY <1>14 DEF applicationWillTerminate, killRecorder
<1>15. CASE Tick
  <2>1. QueueOK /\ now \in 0 .. Last /\ callback' = callback
    BY <1>15 DEF Tick
  <2>2. CASE free > 0 /\ running
    <3>1. filled' = Append(filled, now) /\ free' = free - 1
      BY <1>15, <2>2 DEF Tick
    <3>2. /\ filled' \in Seq(0 .. Last) /\ filled' # <<>>
          /\ Len(filled') = Len(filled) + 1
      BY <2>1, <3>1, FilledFacts, Zenon
    <3>3. QED
      BY <2>1, <2>2, <3>1, <3>2, SMTT(60)
  <2>3. CASE ~(free > 0 /\ running)
    BY <1>15, <2>3 DEF Tick
  <2>4. QED
    BY <2>2, <2>3
<1>16. CASE UNCHANGED vars
  BY <1>16 DEF vars
<1>17. QED
  BY <1>1, <1>2, <1>3, <1>4, <1>5, <1>6, <1>7, <1>8,
     <1>9, <1>10, <1>11, <1>12, <1>13, <1>14, <1>15, <1>16
     DEF Next, Step, Work, Operator

LEMMA SamplesStep ==
  ASSUME Types, [Next]_vars PROVE SamplesOK'
<1> USE RecorderAssumption, LastIsNat
       DEF RecorderAssumption, Types, TypeOK, NumbersOK, QueueOK, SamplesOK, HasRoom, None, File, device, samples, period, files
<1>1. CASE Callback
  BY <1>1 DEF Callback
<1>2. CASE ClearBzero
  BY <1>2 DEF ClearBzero
<1>3. CASE PublishKin
  BY <1>3 DEF PublishKin
<1>4. CASE CopySamples
  <2>1. QueueOK /\ filled # <<>> /\ d2' = [d2 EXCEPT ![kin] = Head(filled)]
    BY <1>4 DEF CopySamples
  <2>2. kin \in 0 .. Capacity - 1
    BY <1>4 DEF CopySamples
  <2>3. Head(filled) \in 0 .. Last
    BY <2>1, FilledFacts, Zenon
  <2>4. PICK s \in 0 .. Last : d2' = [d2 EXCEPT ![kin] = s]
    BY <2>1, <2>3, Zenon
  <2>5. QED
    BY <2>2, <2>4
<1>5. CASE DropBuffer
  BY <1>5 DEF DropBuffer
<1>6. CASE Poll
  BY <1>6 DEF Poll
<1>7. CASE SetBzero
  BY <1>7 DEF SetBzero
<1>8. CASE setM_saveAll
  BY <1>8 DEF setM_saveAll
<1>9. CASE \E r \in Ticks : startRecording(r)
  BY <1>9 DEF startRecording
<1>10. CASE \E r \in Ticks : HandOver(r)
  BY <1>10 DEF HandOver, killRecorder
<1>11. CASE \E r \in Ticks : Cancel(r)
  BY <1>11 DEF Cancel
<1>12. CASE DecodeOwn
  BY <1>12 DEF DecodeOwn, killRecorder
<1>13. CASE decodeFile
  BY <1>13 DEF decodeFile
<1>14. CASE applicationWillTerminate
  BY <1>14 DEF applicationWillTerminate, killRecorder
<1>15. CASE Tick
  BY <1>15 DEF Tick
<1>16. CASE UNCHANGED vars
  BY <1>16 DEF vars
<1>17. QED
  BY <1>1, <1>2, <1>3, <1>4, <1>5, <1>6, <1>7, <1>8,
     <1>9, <1>10, <1>11, <1>12, <1>13, <1>14, <1>15, <1>16
     DEF Next, Step, Work, Operator

LEMMA TypesInit == Init => Types
<1> SUFFICES ASSUME Init PROVE Types
  OBVIOUS
<1>1. FlagsOK
  BY DEF Init, FlagsOK
<1>2. NumbersOK /\ QueueOK
  BY RecorderAssumption, LastIsNat
     DEF RecorderAssumption, Init, NumbersOK, QueueOK, None
<1>3. SamplesOK
  BY RecorderAssumption, LastIsNat
     DEF RecorderAssumption, Init, SamplesOK, None, File
<1>4. /\ callback = "memcpy" => HasRoom
      /\ callback # "idle" => filled # <<>>
      /\ free + Len(filled) <= Buffers
  BY RecorderAssumption DEF RecorderAssumption, Init
<1>5. QED
  BY <1>1, <1>2, <1>3, <1>4 DEF Types, TypeOK

LEMMA TypesInvariant == Spec => []Types
<1>1. Types /\ [Next]_vars => Types'
  <2> SUFFICES ASSUME Types, [Next]_vars PROVE Types'
    OBVIOUS
  <2>1. FlagsOK'
    BY FlagsStep DEF Types, TypeOK
  <2>2. QED
    BY <2>1, NumbersStep, QueueStep, SamplesStep DEF Types, TypeOK
<1>2. QED
  BY <1>1, TypesInit, PTL DEF Spec

\* Every variable keeps to its type: no sample goes past the end of d2, and the
\* queue never has more than its kNumberRecordBuffers buffers.
THEOREM RecorderTypeCorrect == Spec => []TypeOK
BY TypesInvariant, PTL DEF Types

-----------------------------------------------------------------------------
(* The file of a recording.                                                *)

LEMMA FilesStep ==
  ASSUME Types, Files, [Next]_vars PROVE Files'
<1> USE DEF Files, GoesOn, SomeGoesOn, Types, TypeOK, FlagsOK, NumbersOK,
            device, samples, period, files
<1>1. CASE Callback
  BY <1>1, Zenon DEF Callback
<1>2. CASE ClearBzero
  BY <1>2, Zenon DEF ClearBzero
<1>3. CASE PublishKin
  BY <1>3, Zenon DEF PublishKin
<1>4. CASE CopySamples
  BY <1>4, Zenon DEF CopySamples
<1>5. CASE DropBuffer
  BY <1>5, Zenon DEF DropBuffer
<1>6. CASE Poll
  BY <1>6, Zenon DEF Poll
<1>7. CASE SetBzero
  BY <1>7, Zenon DEF SetBzero
<1>8. CASE setM_saveAll
  BY <1>8, Zenon DEF setM_saveAll
<1>9. CASE \E r \in Ticks : startRecording(r)
  <2> SUFFICES ASSUME NEW r \in Ticks, startRecording(r) PROVE Files'
    BY <1>9
  <2>1. /\ since' = [since EXCEPT ![r] = now] /\ exited' = exited /\ saving' = saving
        /\ saving => recordFile' = "empty"
        /\ disturbed' = (disturbed \/ SomeGoesOn)
    BY DEF startRecording
  <2>2. ~disturbed' => \A p, q \in Ticks : GoesOn(p)' /\ GoesOn(q)' => p = q
    BY <2>1
  <2>3. QED
    BY <2>1, <2>2
<1>10. CASE \E r \in Ticks : HandOver(r)
  BY <1>10, SMTT(30) DEF HandOver, killRecorder
<1>11. CASE \E r \in Ticks : Cancel(r)
  BY <1>11 DEF Cancel
<1>12. CASE DecodeOwn
  BY <1>12, Zenon DEF DecodeOwn, killRecorder
<1>13. CASE decodeFile
  BY <1>13, Zenon DEF decodeFile
<1>14. CASE applicationWillTerminate
  BY <1>14, Zenon DEF applicationWillTerminate, killRecorder
<1>15. CASE Tick
  BY <1>15, Zenon DEF Tick
<1>16. CASE UNCHANGED vars
  BY <1>16, Zenon DEF vars
<1>17. QED
  BY <1>1, <1>2, <1>3, <1>4, <1>5, <1>6, <1>7, <1>8,
     <1>9, <1>10, <1>11, <1>12, <1>13, <1>14, <1>15, <1>16
     DEF Next, Step, Work, Operator

\* killRecorder closes the file of the recording that ends and no other, and so
\* never ends the program, unless the operator changes saving meanwhile.
THEOREM ClosesOnlyItsOwnFile == Spec => []ClosesItsOwnFile
<1>1. Init => Files
  BY DEF Init, Files, GoesOn, SomeGoesOn
<1>2. Types /\ Files /\ [Next]_vars => Files'
  BY FilesStep
<1>3. Files => ClosesItsOwnFile
  BY DEF Files, ClosesItsOwnFile
<1>4. QED
  BY <1>1, <1>2, <1>3, TypesInvariant, PTL DEF Spec

-----------------------------------------------------------------------------
(* The buffers.                                                            *)

\* The numbers the argument is about, without the sequences.
LEMMA OnTimeFacts ==
  ASSUME Types
  PROVE  /\ Minute \in Nat /\ Minute > 1 /\ Minute + 2 <= Capacity
         /\ Capacity \in Nat /\ Buffers \in Nat /\ Buffers > 0
         /\ sec \in Nat /\ sec < Minute
         /\ ntr0 \in Nat /\ ntr0 < Minute
         /\ kin \in Nat /\ free \in Nat /\ Len(filled) \in Nat
         /\ filled = <<>> => Len(filled) = 0
         /\ filled # <<>> => Len(filled) >= 1
         /\ callback # "idle" => filled # <<>>
<1>1. QueueOK
  BY DEF Types, TypeOK
<1>2. Len(filled) \in Nat /\ (filled # <<>> => Len(filled) >= 1)
  BY <1>1, FilledFacts, Zenon
<1>3. QED
  BY <1>2, RecorderAssumption, SMTT(30)
     DEF RecorderAssumption, Types, TypeOK, NumbersOK, QueueOK

\* A step of a program that runs leaves it in time.
LEMMA OnTimeStep ==
  ASSUME Types, OnTime, Timely, running, [Next]_vars
  PROVE  running' => OnTime'
<1> USE OnTimeFacts DEF OnTime, TurnUnseen, device, samples, period, files
<1>1. CASE Callback
  BY <1>1 DEF Callback
<1>2. CASE ClearBzero
  BY <1>2 DEF ClearBzero
<1>3. CASE PublishKin
  BY <1>3 DEF PublishKin
<1>4. CASE CopySamples
  <2>1. filled # <<>> /\ filled' = Tail(filled)
    BY <1>4 DEF CopySamples
  <2>2. Len(filled') = Len(filled) - 1
    BY <2>1, FilledFacts, Zenon DEF Types, TypeOK
  <2>3. QED
    BY <1>4, <2>2 DEF CopySamples
<1>5. CASE DropBuffer
  <2>1. callback = "copy" /\ kin > Minute
    BY <1>5, SMTT(30) DEF DropBuffer, HasRoom
  <2>2. ~bzero /\ Len(filled) >= 1
    BY <2>1, SMTT(30)
  <2>3. kin + Len(filled) <= Minute + 1
    BY <2>2, SMTT(30)
  <2>4. QED
    BY <2>1, <2>2, <2>3
<1>6. CASE Poll
  BY <1>6 DEF Poll
<1>7. CASE SetBzero
  BY <1>7 DEF SetBzero
<1>8. CASE setM_saveAll
  BY <1>8 DEF setM_saveAll
<1>9. CASE \E r \in Ticks : startRecording(r)
  BY <1>9 DEF startRecording
<1>10. CASE \E r \in Ticks : HandOver(r)
  BY <1>10 DEF HandOver, killRecorder
<1>11. CASE \E r \in Ticks : Cancel(r)
  BY <1>11 DEF Cancel
<1>12. CASE DecodeOwn
  BY <1>12 DEF DecodeOwn, killRecorder
<1>13. CASE decodeFile
  BY <1>13 DEF decodeFile
<1>14. CASE applicationWillTerminate
  BY <1>14 DEF applicationWillTerminate, killRecorder
<1>15. CASE Tick
  <2>1. Len(Append(filled, now)) = Len(filled) + 1
    BY FilledFacts, Zenon DEF Types, TypeOK, NumbersOK
  <2>2. QED
    BY <1>15, <2>1 DEF Tick, Pending
<1>16. CASE UNCHANGED vars
  BY <1>16 DEF vars
<1>17. QED
  BY <1>1, <1>2, <1>3, <1>4, <1>5, <1>6, <1>7, <1>8,
     <1>9, <1>10, <1>11, <1>12, <1>13, <1>14, <1>15, <1>16
     DEF Next, Step, Work, Operator

\* A program that has been stopped does not run again.
LEMMA StaysStopped ==
  ASSUME Types, ~running, [Next]_vars
  PROVE  ~running'
<1>1. CASE Callback
  BY <1>1 DEF Callback
<1>2. CASE ClearBzero
  BY <1>2 DEF ClearBzero
<1>3. CASE PublishKin
  BY <1>3 DEF PublishKin
<1>4. CASE CopySamples
  BY <1>4 DEF CopySamples
<1>5. CASE DropBuffer
  BY <1>5 DEF DropBuffer
<1>6. CASE Poll
  BY <1>6 DEF Poll
<1>7. CASE SetBzero
  BY <1>7 DEF SetBzero
<1>8. CASE setM_saveAll
  BY <1>8 DEF setM_saveAll
<1>9. CASE \E r \in Ticks : startRecording(r)
  BY <1>9 DEF startRecording
<1>10. CASE \E r \in Ticks : HandOver(r)
  BY <1>10 DEF HandOver
<1>11. CASE \E r \in Ticks : Cancel(r)
  BY <1>11 DEF Cancel
<1>12. CASE DecodeOwn
  BY <1>12 DEF DecodeOwn
<1>13. CASE decodeFile
  BY <1>13 DEF decodeFile
<1>14. CASE applicationWillTerminate
  BY <1>14 DEF applicationWillTerminate
<1>15. CASE Tick
  BY <1>15 DEF Tick
<1>16. CASE UNCHANGED vars
  BY <1>16 DEF vars
<1>17. QED
  BY <1>1, <1>2, <1>3, <1>4, <1>5, <1>6, <1>7, <1>8,
     <1>9, <1>10, <1>11, <1>12, <1>13, <1>14, <1>15, <1>16
     DEF Next, Step, Work, Operator

LEMMA KeepingInvariant == Spec => []Keeping
<1>1. Init => Keeping
  <2> SUFFICES ASSUME Init PROVE Keeping
    OBVIOUS
  <2>1. Types
    BY TypesInit
  <2>2. QED
    BY <2>1, OnTimeFacts DEF Init, Keeping, OnTime, TurnUnseen
<1>2. Types /\ Keeping /\ [Next]_vars => Keeping'
  <2> SUFFICES ASSUME Types, Keeping, [Next]_vars PROVE Keeping'
    OBVIOUS
  <2>1. QED
    BY OnTimeStep, StaysStopped, Zenon DEF Keeping
<1>3. QED
  BY <1>1, <1>2, TypesInvariant, PTL DEF Spec

\* While all threads are on time the queue keeps all of its buffers, for every
\* number of them and every d2 with two places more than a minute has units: the
\* callback neither runs out of room nor misses the turn of a minute.
THEOREM NoBufferIsLost == Spec => []NoBufferLost
<1>1. Keeping => NoBufferLost
  BY DEF Keeping, OnTime, NoBufferLost
<1>2. QED
  BY <1>1, KeepingInvariant, PTL

-----------------------------------------------------------------------------
(* The samples of a minute.                                                *)

\* While all is on time the callback finds room for its samples.
LEMMA RoomEnough ==
  ASSUME Types, OnTime, callback # "idle"
  PROVE  callback = "copy" => HasRoom
<1>1. CASE bzero /\ callback = "copy"
  BY <1>1, OnTimeFacts, SMTT(30) DEF OnTime, HasRoom
<1>2. CASE ~bzero /\ callback = "copy"
  <2>1. kin + Len(filled) <= Minute + 1 /\ Len(filled) >= 1
    BY <1>2, OnTimeFacts, SMTT(30) DEF OnTime, TurnUnseen
  <2>2. QED
    BY <2>1, OnTimeFacts, SMTT(30) DEF HasRoom
<1>3. QED
  BY <1>1, <1>2

\* When, in numbers.
LEMMA Times ==
  ASSUME Types
  PROVE  /\ now \in Nat /\ sec \in Nat /\ sec < Minute
         /\ since \in [Ticks -> Int] /\ \A r \in Ticks : since[r] >= -1
         /\ SlotEnd \in Nat /\ SlotEnd > 0 /\ SlotEnd + 1 < Minute /\ Minute \in Nat
<1>1. NumbersOK
  BY Zenon DEF Types, TypeOK
<1>2. QED
  BY <1>1, LastIsNat, RecorderAssumption DEF RecorderAssumption, NumbersOK, None

\* The only buffer that waits is taken.
LEMMA TailOfOne ==
  ASSUME NEW S, NEW s \in Seq(S), Len(s) = 1
  PROVE  Tail(s) = <<>>
<1>1. Tail(s) \in Seq(S) /\ Len(Tail(s)) = Len(s) - 1
  BY HeadTailProperties, EmptySeq
<1>2. Tail(s) # <<>> => Len(Tail(s)) # 0
  BY <1>1, EmptySeq
<1>3. QED
  BY <1>1, <1>2, SMTT(30)

\* The callback copies the one buffer that waits.
LEMMA CopyInTime ==
  ASSUME Types, OnTime, CopySamples
  PROVE  /\ Len(filled) = 1 /\ Len(filled') = 0 /\ filled # <<>> /\ filled' = <<>>
         /\ UNCHANGED <<now, sec, bzero, foreign>> /\ kin' = kin + 1
         /\ callback' = "idle" /\ (bzero => sec = 0)
         /\ \A i \in 0 .. kin : d2'[i] = IF i = kin THEN Head(filled) ELSE d2[i]
<1>1. filled # <<>> /\ filled' = Tail(filled)
  BY OnTimeFacts DEF CopySamples
<1>2. Len(filled) = 1
  <2>1. Len(filled) \in Nat /\ Len(filled) >= 1
    BY <1>1, OnTimeFacts
  <2>2. Len(filled) <= 1
    BY Zenon DEF OnTime
  <2>3. QED
    BY <2>1, <2>2
<1>3. filled' = <<>>
  <2>1. filled \in Seq(0 .. Last)
    BY DEF Types, TypeOK, QueueOK
  <2>2. QED
    BY <1>1, <1>2, <2>1, TailOfOne
<1>4. /\ UNCHANGED <<now, sec, bzero, foreign>> /\ kin' = kin + 1 /\ callback' = "idle"
      /\ d2' = [d2 EXCEPT ![kin] = Head(filled)] /\ callback = "memcpy"
  BY DEF CopySamples
<1>5. kin \in 0 .. Capacity - 1
  BY <1>4, OnTimeFacts, SMTT(30) DEF Types, HasRoom
<1>6. DOMAIN d2 = 0 .. Capacity - 1
  BY DEF Types, TypeOK, SamplesOK
<1>7. \A i \in 0 .. kin : i \in DOMAIN d2
  BY <1>5, <1>6, OnTimeFacts
<1>8. bzero => sec = 0
  BY <1>4, Zenon DEF OnTime
<1>9. QED
  BY <1>1, <1>2, <1>3, <1>4, <1>7, <1>8

\* When all is on time the clock goes on when there is nothing left to do.
LEMMA TickInTime ==
  ASSUME Types, OnTime, Timely, running, Tick
  PROVE  /\ filled = <<>> /\ watcher # "wrap" /\ sec = ntr0 /\ \A r \in Ticks : ~Due(r)
         /\ now' = now + 1 /\ sec' = IF sec + 1 < Minute THEN sec + 1 ELSE 0
         /\ filled' # <<>> /\ Len(filled') = 1 /\ Head(filled') = now
<1>1. /\ ~Pending
      /\ now' = now + 1 /\ sec' = IF sec + 1 < Minute THEN sec + 1 ELSE 0
      /\ free > 0 => filled' = Append(filled, now)
  BY Zenon DEF Tick
<1>2. filled = <<>> /\ watcher # "wrap" /\ sec = ntr0 /\ \A r \in Ticks : ~Due(r)
  BY <1>1, Zenon DEF Pending
<1>3. free > 0
  BY <1>2, OnTimeFacts DEF OnTime
<1>4. filled' = <<now>>
  BY <1>1, <1>2, <1>3
<1>5. QED
  BY <1>1, <1>2, <1>4

LEMMA RecordingStep ==
  ASSUME Types, RecordingGoesOn, [Next]_vars
  PROVE  RecordingGoesOn'
<1> USE Times DEF RecordingGoesOn, GoesOn, None, device, samples, period, files
<1>1. CASE Callback
  BY <1>1 DEF Callback
<1>2. CASE ClearBzero
  BY <1>2 DEF ClearBzero
<1>3. CASE PublishKin
  BY <1>3 DEF PublishKin
<1>4. CASE CopySamples
  BY <1>4 DEF CopySamples
<1>5. CASE DropBuffer
  BY <1>5 DEF DropBuffer
<1>6. CASE Poll
  BY <1>6 DEF Poll
<1>7. CASE SetBzero
  BY <1>7 DEF SetBzero
<1>8. CASE setM_saveAll
  BY <1>8 DEF setM_saveAll
<1>9. CASE \E r \in Ticks : startRecording(r)
  BY <1>9 DEF startRecording
<1>10. CASE \E r \in Ticks : HandOver(r)
  BY <1>10 DEF HandOver
<1>11. CASE \E r \in Ticks : Cancel(r)
  BY <1>11 DEF Cancel
<1>12. CASE DecodeOwn
  BY <1>12 DEF DecodeOwn
<1>13. CASE decodeFile
  BY <1>13 DEF decodeFile
<1>14. CASE applicationWillTerminate
  BY <1>14 DEF applicationWillTerminate, killRecorder
<1>15. CASE Tick
  <2>1. Timely => \A r \in Ticks : ~Due(r)
    BY <1>15, Zenon DEF Tick, Pending
  <2>2. now' = now + 1 /\ sec' = (IF sec + 1 < Minute THEN sec + 1 ELSE 0) /\ since' = since
    BY <1>15, Zenon DEF Tick, period
  <2>3. Timely => \A r \in Ticks : GoesOn(r) => sec <= SlotEnd
    BY <2>1 DEF Due
  <2>4. sec <= SlotEnd => sec + 1 < Minute
    <3>1. sec \in Nat /\ SlotEnd \in Nat /\ Minute \in Nat /\ SlotEnd + 1 < Minute
      BY Times, Zenon
    <3>2. QED
      BY <3>1, SMTT(10)
  <2>5. QED
    BY <2>2, <2>3, <2>4
<1>16. CASE UNCHANGED vars
  BY <1>16 DEF vars
<1>17. QED
  BY <1>1, <1>2, <1>3, <1>4, <1>5, <1>6, <1>7, <1>8,
     <1>9, <1>10, <1>11, <1>12, <1>13, <1>14, <1>15, <1>16
     DEF Next, Step, Work, Operator

LEMMA NewestStep ==
  ASSUME Types, OnTime, Whole, Timely, running, [Next]_vars
  PROVE  NewestLast'
<1> USE OnTimeFacts, Times DEF Whole, NewestLast, device, samples, period, files
<1>1. CASE Callback
  BY <1>1 DEF Callback
<1>2. CASE ClearBzero
  BY <1>2 DEF ClearBzero
<1>3. CASE PublishKin
  BY <1>3 DEF PublishKin
<1>4. CASE CopySamples
  BY <1>4, CopyInTime
<1>5. CASE DropBuffer
  <2>1. HasRoom /\ callback # "idle"
    BY <1>5, RoomEnough DEF DropBuffer
  <2>2. QED
    BY <1>5, <2>1 DEF DropBuffer
<1>6. CASE Poll
  BY <1>6 DEF Poll
<1>7. CASE SetBzero
  BY <1>7 DEF SetBzero
<1>8. CASE setM_saveAll
  BY <1>8 DEF setM_saveAll
<1>9. CASE \E r \in Ticks : startRecording(r)
  BY <1>9 DEF startRecording
<1>10. CASE \E r \in Ticks : HandOver(r)
  BY <1>10 DEF HandOver, killRecorder
<1>11. CASE \E r \in Ticks : Cancel(r)
  BY <1>11 DEF Cancel
<1>12. CASE DecodeOwn
  BY <1>12 DEF DecodeOwn, killRecorder
<1>13. CASE decodeFile
  BY <1>13 DEF decodeFile
<1>14. CASE applicationWillTerminate
  BY <1>14 DEF applicationWillTerminate, killRecorder
<1>15. CASE Tick
  <2>1. filled' # <<>> /\ Len(filled') = 1 /\ Head(filled') = now /\ now' = now + 1
    BY <1>15, TickInTime
  <2>2. QED
    BY <2>1
<1>16. CASE UNCHANGED vars
  BY <1>16 DEF vars
<1>17. QED
  BY <1>1, <1>2, <1>3, <1>4, <1>5, <1>6, <1>7, <1>8,
     <1>9, <1>10, <1>11, <1>12, <1>13, <1>14, <1>15, <1>16
     DEF Next, Step, Work, Operator

LEMMA FromTheTurnStep ==
  ASSUME Types, OnTime, Whole, Timely, running, [Next]_vars
  PROVE  running' => FromTheTurn'
<1> USE OnTimeFacts, Times DEF Whole, OnTime, FromTheTurn, device, samples, period, files
<1>1. CASE Callback
  BY <1>1 DEF Callback
<1>2. CASE ClearBzero
  <2>1. filled # <<>> /\ Len(filled) >= 1 /\ kin = 0 /\ bzero
    BY <1>2 DEF ClearBzero
  <2>2. UNCHANGED <<now, sec, kin, filled>> /\ ~bzero' /\ callback' = "copy"
    BY <1>2 DEF ClearBzero
  <2>3. QED
    BY <2>1, <2>2
<1>3. CASE PublishKin
  BY <1>3 DEF PublishKin
<1>4. CASE CopySamples
  <2>1. /\ Len(filled) = 1 /\ Len(filled') = 0
        /\ UNCHANGED <<now, sec, bzero, foreign>> /\ kin' = kin + 1
        /\ callback' = "idle" /\ (bzero => sec = 0)
    BY <1>4, CopyInTime
  <2>2. QED
    BY <2>1, Times, OnTimeFacts
<1>5. CASE DropBuffer
  <2>1. HasRoom /\ callback # "idle"
    BY <1>5, RoomEnough DEF DropBuffer
  <2>2. QED
    BY <1>5, <2>1 DEF DropBuffer
<1>6. CASE Poll
  BY <1>6 DEF Poll
<1>7. CASE SetBzero
  BY <1>7 DEF SetBzero
<1>8. CASE setM_saveAll
  BY <1>8 DEF setM_saveAll
<1>9. CASE \E r \in Ticks : startRecording(r)
  BY <1>9 DEF startRecording
<1>10. CASE \E r \in Ticks : HandOver(r)
  BY <1>10 DEF HandOver, killRecorder
<1>11. CASE \E r \in Ticks : Cancel(r)
  BY <1>11 DEF Cancel
<1>12. CASE DecodeOwn
  BY <1>12 DEF DecodeOwn, killRecorder
<1>13. CASE decodeFile
  BY <1>13 DEF decodeFile
<1>14. CASE applicationWillTerminate
  BY <1>14 DEF applicationWillTerminate, killRecorder
<1>15. CASE Tick
  <2>1. /\ filled = <<>> /\ Len(filled) = 0 /\ Len(filled') = 1 /\ filled' # <<>>
        /\ now' = now + 1 /\ sec' = (IF sec + 1 < Minute THEN sec + 1 ELSE 0)
    BY <1>15, TickInTime, OnTimeFacts DEF Whole
  <2>2. kin' = kin /\ bzero' = bzero /\ callback' = callback
    BY <1>15 DEF Tick
  <2>3. sec = ntr0 /\ watcher # "wrap"
    BY <1>15, TickInTime DEF Whole
  <2>4. CASE sec + 1 < Minute
    <3>1. sec' = sec + 1 /\ kin + Len(filled') = kin + 1
      BY <2>1, <2>4, Zenon
    <3>2. CASE bzero
      BY <2>1, <2>2, <2>3, <3>1, <3>2, Times, OnTimeFacts
    <3>3. CASE ~bzero
      <4>1. now >= sec => kin >= sec
        BY <3>3, <2>1, Times, OnTimeFacts
      <4>2. now' >= sec' => now >= sec
        BY <3>1, <2>1, Times
      <4>3. now' >= sec' => kin + Len(filled') >= sec'
        BY <4>1, <4>2, <3>1, Times, OnTimeFacts
      <4>4. QED
        BY <2>2, <3>3, <4>3
    <3>4. QED
      BY <3>2, <3>3
  <2>5. CASE ~(sec + 1 < Minute)
    <3>1. sec' = 0 /\ now' >= 0 /\ kin + Len(filled') >= 0
      BY <2>1, <2>5, Times, OnTimeFacts
    <3>2. QED
      BY <2>1, <2>2, <3>1
  <2>6. QED
    BY <2>4, <2>5
<1>16. CASE UNCHANGED vars
  BY <1>16 DEF vars
<1>17. QED
  BY <1>1, <1>2, <1>3, <1>4, <1>5, <1>6, <1>7, <1>8,
     <1>9, <1>10, <1>11, <1>12, <1>13, <1>14, <1>15, <1>16
     DEF Next, Step, Work, Operator

LEMMA ConsecutiveStep ==
  ASSUME Types, OnTime, Whole, Timely, running, [Next]_vars
  PROVE  running' => Consecutive'
<1> USE DEF Whole, Consecutive, Base, device, samples, period, files
<1>1. CASE Callback
  <2>1. UNCHANGED <<now, filled, d2>>
    BY <1>1 DEF Callback
  <2>2. kin' = 0 \/ UNCHANGED <<kin, foreign>>
    BY <1>1 DEF Callback
  <2>3. CASE kin' = 0
    BY <2>3
  <2>4. CASE UNCHANGED <<kin, foreign>>
    BY <2>1, <2>4
  <2>5. QED
    BY <2>2, <2>3, <2>4
<1>2. CASE ClearBzero
  BY <1>2 DEF ClearBzero
<1>3. CASE PublishKin
  BY <1>3 DEF PublishKin
<1>4. CASE CopySamples
  <2>1. /\ Len(filled) = 1 /\ Len(filled') = 0
        /\ UNCHANGED <<now, foreign>> /\ kin' = kin + 1
        /\ \A i \in 0 .. kin : d2'[i] = IF i = kin THEN Head(filled) ELSE d2[i]
    BY <1>4, CopyInTime
  <2>2. Base' = Base
    BY <2>1, Times, OnTimeFacts DEF Base
  <2>3. Head(filled) = Base + kin
    <3>1. filled # <<>> /\ Head(filled) = now - 1
      BY <1>4, CopyInTime DEF NewestLast
    <3>2. Base = now - kin - 1
      BY <2>1 DEF Base
    <3>3. now - 1 = (now - kin - 1) + kin
      BY Times, OnTimeFacts
    <3>4. QED
      BY <3>1, <3>2, <3>3
  <2>4. \A i \in 0 .. kin' - 1 : i \in 0 .. kin /\ (i # kin => i \in 0 .. kin - 1)
    BY <2>1, OnTimeFacts
  <2>5. QED
    BY <2>1, <2>2, <2>3, <2>4 DEF Consecutive
<1>5. CASE DropBuffer
  <2>1. HasRoom /\ callback # "idle"
    BY <1>5, RoomEnough DEF DropBuffer
  <2>2. QED
    BY <1>5, <2>1 DEF DropBuffer
<1>6. CASE Poll
  BY <1>6 DEF Poll
<1>7. CASE SetBzero
  BY <1>7 DEF SetBzero
<1>8. CASE setM_saveAll
  BY <1>8 DEF setM_saveAll
<1>9. CASE \E r \in Ticks : startRecording(r)
  BY <1>9 DEF startRecording
<1>10. CASE \E r \in Ticks : HandOver(r)
  BY <1>10 DEF HandOver, killRecorder
<1>11. CASE \E r \in Ticks : Cancel(r)
  BY <1>11 DEF Cancel
<1>12. CASE DecodeOwn
  BY <1>12 DEF DecodeOwn, killRecorder
<1>13. CASE decodeFile
  BY <1>13 DEF decodeFile
<1>14. CASE applicationWillTerminate
  BY <1>14 DEF applicationWillTerminate, killRecorder
<1>15. CASE Tick
  <2>1. Len(filled') = 1 /\ Len(filled) = 0 /\ now' = now + 1
    BY <1>15, TickInTime, OnTimeFacts DEF Whole
  <2>2. kin' = kin /\ d2' = d2 /\ foreign' = foreign
    BY <1>15 DEF Tick, samples
  <2>3. Base' = Base
    BY <2>1, <2>2, Times, OnTimeFacts DEF Base
  <2>4. QED
    BY <2>2, <2>3 DEF Consecutive
<1>16. CASE UNCHANGED vars
  BY <1>16 DEF vars
<1>17. QED
  BY <1>1, <1>2, <1>3, <1>4, <1>5, <1>6, <1>7, <1>8,
     <1>9, <1>10, <1>11, <1>12, <1>13, <1>14, <1>15, <1>16
     DEF Next, Step, Work, Operator

LEMMA RecordingInvariant == Spec => []Recording
<1>1. Init => Recording
  <2> SUFFICES ASSUME Init PROVE Recording
    OBVIOUS
  <2>1. Types
    BY TypesInit
  <2>2. QED
    BY <2>1, OnTimeFacts DEF Init, Recording, RecordingGoesOn, GoesOn, Whole, NewestLast,
       Consecutive, FromTheTurn
<1>2. Types /\ Keeping /\ Recording /\ [Next]_vars => Recording'
  <2> SUFFICES ASSUME Types, Keeping, Recording, [Next]_vars PROVE Recording'
    OBVIOUS
  <2>1. CASE Timely /\ running
    BY <2>1, NewestStep, FromTheTurnStep, ConsecutiveStep, RecordingStep, Zenon
       DEF Keeping, Recording, Whole
  <2>2. CASE ~(Timely /\ running)
    BY <2>2, StaysStopped, RecordingStep, Zenon DEF Recording
  <2>3. QED
    BY <2>1, <2>2
<1>3. QED
  BY <1>1, <1>2, KeepingInvariant, TypesInvariant, PTL DEF Spec

\* A period handed over at the end of its slot, while all threads are on time, is
\* the recording of that minute, unit by unit, for every length of the minute, of
\* the slot and of d2: unless the operator had a file decoded meanwhile.
THEOREM PeriodsAreOfTheirMinute == Spec => PeriodIsOfThisMinute
<1>1. /\ Types /\ Keeping /\ Recording
      => \A r \in Ticks :
           HandOver(r) /\ Due(r) /\ Timely /\ running /\ ~foreign =>
             \/ \A i \in 0 .. SlotEnd - 1 : d2[i] = since[r] + i
             \/ \A i \in 0 .. SlotEnd - 1 : d2[i] = since[r] + i - 1
  <2> SUFFICES ASSUME Types, OnTime, RecordingGoesOn, Whole, Timely, running, ~foreign,
                      NEW r \in Ticks, Due(r)
               PROVE  \/ \A i \in 0 .. SlotEnd - 1 : d2[i] = since[r] + i
                      \/ \A i \in 0 .. SlotEnd - 1 : d2[i] = since[r] + i - 1
    BY DEF Keeping, Recording
  <2> DEFINE begun == since[r]
  <2>1. sec = SlotEnd + 1 /\ now = begun + sec /\ begun \in Int /\ begun >= 0
    BY Times DEF Due, GoesOn, RecordingGoesOn, None
  <2>2. ~bzero
    BY Times, <2>1 DEF Whole, FromTheTurn
  <2>3. kin + Len(filled) >= sec
    BY Times, <2>1, <2>2 DEF Whole, FromTheTurn
  <2>4. kin + Len(filled) <= sec + 1 /\ Len(filled) <= 1
    BY Times, <2>1, <2>2 DEF OnTime, TurnUnseen
  <2>5. kin >= SlotEnd /\ Base \in {begun, begun - 1}
    <3> DEFINE n == Len(filled)
    <3>1. /\ n \in Nat /\ kin \in Nat /\ begun \in Nat /\ SlotEnd \in Nat
          /\ kin + n >= sec /\ kin + n <= sec + 1 /\ n <= 1
      BY Times, OnTimeFacts, <2>1, <2>3, <2>4
    <3> HIDE DEF n, begun
    <3>2. kin >= SlotEnd /\ now - kin - n \in {begun, begun - 1}
      BY <2>1, <3>1
    <3>3. QED
      BY <3>2 DEF Base, n
  <2>6. ASSUME NEW i \in 0 .. SlotEnd - 1 PROVE d2[i] = Base + i
    <3>1. i \in 0 .. kin - 1
      <4>1. kin \in Nat /\ SlotEnd \in Nat
        BY Times, OnTimeFacts
      <4>2. QED
        BY <2>5, <4>1
    <3>2. \A j \in 0 .. kin - 1 : d2[j] = Base + j
      BY DEF Whole, Consecutive
    <3>3. QED
      BY <3>1, <3>2
  <2> HIDE DEF begun
  <2>7. \/ \A i \in 0 .. SlotEnd - 1 : d2[i] = begun + i
        \/ \A i \in 0 .. SlotEnd - 1 : d2[i] = begun + i - 1
    BY Times, <2>1, <2>5, <2>6
  <2>8. QED
    BY <2>7 DEF begun
<1>2. QED
  BY <1>1, RecordingInvariant, KeepingInvariant, TypesInvariant, PTL DEF Spec, PeriodIsOfThisMinute

=============================================================================
