-------------------------- MODULE WaterfallProofs --------------------------
(***************************************************************************)
(* Theorems about the waterfall: the recorder is what it is without it,    *)
(* and what the waterfall shows has been heard, all of it and in one       *)
(* piece, however the recorder and dataSink2 take their turns.             *)
(***************************************************************************)
EXTENDS Waterfall, AudioRecorderProofs

-----------------------------------------------------------------------------
(* What the others see of the recorder.                                    *)

seen == <<now, sec, kin, bzero, running, device, watcher, ntr0, d2, jt9kin>>

\* The others are told of the buffer that is copied, and of no other.
Told ==
  /\ callback = "memcpy" => jt9kin = kin
  /\ callback # "memcpy" => kin = jt9kin + 1 \/ kin = 0
  /\ callback = "idle" => kin >= jt9kin

\* A place that was heard b units after the unit of its number, or from a file.
InPiece(b, from, to) == \A i \in from .. to - 1 : d2[i] < 0 \/ d2[i] = b + i
OfOneRecording == InPiece(Base, 0, kin)

\* bzero is set when the minute turns, and a recording that is about to end has
\* lasted for a minute: unless it is the first one.
BeginsAnew ==
  /\ bzero => now = 0 \/ sec = 0 \/ (filled # <<>> /\ (now = 1 \/ sec = 1))
  /\ bzero /\ TurnUnseen => now <= 1
  /\ Base >= 0
  /\ now < sec => Base = 0
  /\ callback # "reset" /\ (bzero \/ TurnUnseen)
       => Base = 0 \/ Base <= now - sec - Minute

\* The n places before are of the recording that ended last, of which m units at
\* most have not been heard.
OfTheLast(n, m) ==
  \E b \in Int : /\ b = 0 \/ b <= now - Minute
                 /\ b + n >= now - m
                 /\ InPiece(b, kin, n)
Overtaken == kin < jt9kin => Base > 0 /\ OfTheLast(jt9kin, 2)

Heard == Told /\ OfOneRecording /\ BeginsAnew /\ Overtaken

LEMMA BesideSeen ==
  ASSUME Work \/ Operator
  PROVE  \/ Callback \/ ClearBzero \/ PublishKin \/ CopySamples \/ DropBuffer
         \/ Poll \/ SetBzero \/ decodeFile
         \/ UNCHANGED seen
<1> USE DEF seen, device, samples, period, files
<1>1. CASE setM_saveAll
  BY <1>1 DEF setM_saveAll
<1>2. CASE \E r \in Ticks : startRecording(r)
  BY <1>2 DEF startRecording
<1>3. CASE \E r \in Ticks : HandOver(r)
  BY <1>3 DEF HandOver
<1>4. CASE \E r \in Ticks : Cancel(r)
  BY <1>4 DEF Cancel
<1>5. CASE DecodeOwn
  BY <1>5 DEF DecodeOwn
<1>6. QED
  BY <1>1, <1>2, <1>3, <1>4, <1>5, Zenon DEF Work, Operator

LEMMA StepsSeen ==
  ASSUME [Next]_vars
  PROVE  \/ Callback \/ ClearBzero \/ PublishKin \/ CopySamples \/ DropBuffer
         \/ Poll \/ SetBzero \/ decodeFile \/ applicationWillTerminate \/ Tick
         \/ UNCHANGED seen
<1>1. UNCHANGED vars => UNCHANGED seen
  BY DEF vars, seen, device, samples
<1>2. QED
  BY <1>1, BesideSeen, Zenon DEF Next, Step

\* The numbers.
LEMMA Numbers ==
  ASSUME Types
  PROVE  /\ kin \in Nat /\ jt9kin \in Nat /\ now \in Nat /\ Len(filled) \in Nat
         /\ Minute \in Nat /\ Minute > 1 /\ sec \in Nat /\ sec < Minute /\ Base \in Int
         /\ kin <= Capacity /\ Capacity \in Nat /\ jt9kin <= Capacity
<1>1. jt9kin \in Nat /\ jt9kin <= Capacity /\ kin <= Capacity
  <2>1. NumbersOK
    BY Zenon DEF Types, TypeOK
  <2>2. QED
    BY <2>1, RecorderAssumption DEF NumbersOK, RecorderAssumption
<1>2. QED
  BY <1>1, OnTimeFacts, Times DEF Base

\* While all is on time at most one buffer waits.
LEMMA OneWaits ==
  ASSUME Types, OnTime
  PROVE  /\ filled # <<>> => Len(filled) = 1
         /\ filled = <<>> => Len(filled) = 0 /\ callback = "idle"
         /\ callback = "reset" => kin = 0
         /\ Len(filled) \in {0, 1}
<1>1. /\ Len(filled) \in Nat /\ Len(filled) <= 1
      /\ filled = <<>> => Len(filled) = 0
      /\ filled # <<>> => Len(filled) >= 1
      /\ callback # "idle" => filled # <<>>
      /\ callback = "reset" => kin = 0
  BY OnTimeFacts, Zenon DEF OnTime
<1> DEFINE n == Len(filled)
<1>2. n \in Nat /\ n <= 1 /\ (n >= 1 => n = 1)
  <2>1. n \in Nat /\ n <= 1
    BY <1>1
  <2> HIDE DEF n
  <2>2. QED
    BY <2>1
<1>3. n \in {0, 1}
  <2> HIDE DEF n
  <2>1. QED
    BY <1>2
<1>4. QED
  BY <1>1, <1>2, <1>3, Zenon

\* A file replaces samples by its own or by silence, or leaves them.
LEMMA FileLeaves ==
  ASSUME Types, decodeFile
  PROVE  \A i \in 0 .. Capacity - 1 : d2'[i] \in {File, None, d2[i]}
<1>1. PICK n \in {0, SlotEnd - 1} :
        d2' = [i \in DOMAIN d2 |-> IF i < n THEN File
                                   ELSE IF 2 * i < Capacity THEN None ELSE d2[i]]
  BY DEF decodeFile
<1>2. DOMAIN d2 = 0 .. Capacity - 1
  BY Zenon DEF Types, TypeOK, SamplesOK
<1>3. QED
  BY <1>1, <1>2

LEMMA ToldStep ==
  ASSUME Types, OnTime, Told, Timely, running, [Next]_vars
  PROVE  Told'
<1> USE Numbers, OneWaits DEF Told
<1>1. CASE Callback
  BY <1>1 DEF Callback
<1>2. CASE ClearBzero
  BY <1>2 DEF ClearBzero, samples
<1>3. CASE PublishKin
  BY <1>3 DEF PublishKin
<1>4. CASE CopySamples
  BY <1>4 DEF CopySamples
<1>5. CASE DropBuffer
  BY <1>5, RoomEnough DEF DropBuffer
<1>6. CASE Poll
  BY <1>6 DEF Poll, device, samples
<1>7. CASE SetBzero
  BY <1>7 DEF SetBzero, device, samples
<1>8. CASE decodeFile
  BY <1>8 DEF decodeFile, device
<1>9. CASE applicationWillTerminate
  BY <1>9 DEF applicationWillTerminate, device, samples
<1>10. CASE Tick
  BY <1>10 DEF Tick, samples
<1>11. CASE UNCHANGED seen
  BY <1>11 DEF seen, device
<1>12. QED
  BY <1>1, <1>2, <1>3, <1>4, <1>5, <1>6, <1>7, <1>8, <1>9, <1>10, <1>11, StepsSeen, Zenon

LEMMA OfOneRecordingStep ==
  ASSUME Types, OnTime, NewestLast, OfOneRecording, Timely, running, [Next]_vars
  PROVE  running' => OfOneRecording'
<1> USE DEF OfOneRecording, InPiece
<1>1. CASE Callback
  <2>1. UNCHANGED <<now, filled, d2>> /\ (kin' = 0 \/ kin' = kin)
    BY <1>1 DEF Callback
  <2>2. CASE kin' = 0
    BY <2>2
  <2>3. CASE kin' = kin
    BY <2>1, <2>3 DEF Base
  <2>4. QED
    BY <2>1, <2>2, <2>3
<1>2. CASE ClearBzero
  BY <1>2 DEF ClearBzero, samples, Base
<1>3. CASE PublishKin
  BY <1>3 DEF PublishKin, Base
<1>4. CASE CopySamples
  <2>1. /\ Len(filled) = 1 /\ Len(filled') = 0 /\ now' = now /\ kin' = kin + 1
        /\ Head(filled) = now - 1
        /\ \A i \in 0 .. kin : d2'[i] = IF i = kin THEN Head(filled) ELSE d2[i]
    BY <1>4, CopyInTime DEF NewestLast
  <2>2. Base' = Base
    BY <2>1, Numbers DEF Base
  <2>3. Head(filled) = Base + kin
    BY <2>1, Numbers DEF Base
  <2>4. \A i \in 0 .. kin' - 1 : i \in 0 .. kin /\ (i # kin => i \in 0 .. kin - 1)
    BY <2>1, Numbers
  <2>5. QED
    BY <2>1, <2>2, <2>3, <2>4
<1>5. CASE DropBuffer
  BY <1>5, RoomEnough DEF DropBuffer
<1>6. CASE Poll
  BY <1>6 DEF Poll, device, samples, Base
<1>7. CASE SetBzero
  BY <1>7 DEF SetBzero, device, samples, Base
<1>8. CASE decodeFile
  <2>1. UNCHANGED <<now, kin, filled>>
    BY <1>8 DEF decodeFile, device
  <2>2. \A i \in 0 .. kin - 1 : d2'[i] \in {File, None, d2[i]}
    BY <1>8, FileLeaves, Numbers
  <2>3. QED
    BY <2>1, <2>2 DEF Base, File, None
<1>9. CASE applicationWillTerminate
  BY <1>9 DEF applicationWillTerminate
<1>10. CASE Tick
  <2>1. Len(filled') = 1 /\ Len(filled) = 0 /\ now' = now + 1
    BY <1>10, TickInTime, OneWaits
  <2>2. kin' = kin /\ d2' = d2
    BY <1>10 DEF Tick, samples
  <2>3. Base' = Base
    BY <2>1, <2>2, Numbers DEF Base
  <2>4. QED
    BY <2>2, <2>3
<1>11. CASE UNCHANGED seen
  BY <1>11 DEF seen, device, Base
<1>12. QED
  BY <1>1, <1>2, <1>3, <1>4, <1>5, <1>6, <1>7, <1>8, <1>9, <1>10, <1>11, StepsSeen, Zenon

LEMMA BeginsAnewStep ==
  ASSUME Types, OnTime, NewestLast, FromTheTurn, BeginsAnew, Timely, running, [Next]_vars
  PROVE  running' => BeginsAnew'
<1> USE Numbers, OneWaits DEF BeginsAnew, TurnUnseen
<1>1. CASE Callback
  <2>1. UNCHANGED <<now, sec, bzero, ntr0, watcher, filled>> /\ filled # <<>>
    BY <1>1 DEF Callback
  <2>2. CASE kin' = kin /\ callback' = "copy" /\ callback = "idle"
    BY <2>1, <2>2 DEF Base
  <2>3. CASE bzero /\ kin' = 0 /\ callback' = "reset"
    <3>1. Base' = now - 1 /\ now >= 1
      <4>1. now - 1 >= 0
        BY <2>1, FilledFacts DEF NewestLast, Types, TypeOK, QueueOK
      <4>2. Len(filled) = 1
        BY <2>1
      <4>3. QED
        BY <2>1, <2>3, <4>1, <4>2 DEF Base
    <3>2. now < sec => Base' = 0
      BY <2>1, <2>3, <3>1
    <3>3. QED
      BY <2>1, <2>3, <3>1, <3>2
  <2>4. QED
    BY <1>1, <2>2, <2>3 DEF Callback
<1>2. CASE ClearBzero
  <2>1. /\ UNCHANGED <<now, sec, ntr0, watcher, filled, kin>> /\ ~bzero' /\ filled # <<>>
        /\ bzero /\ kin = 0
    BY <1>2 DEF ClearBzero, FromTheTurn
  <2>2. Base' = Base /\ Base = now - 1
    <3>1. Len(filled) = 1 /\ Len(filled') = Len(filled)
      BY <2>1
    <3>2. QED
      BY <2>1, <3>1 DEF Base
  <2>3. now - 1 >= 0
    BY <2>1, FilledFacts DEF NewestLast, Types, TypeOK, QueueOK
  <2>4. TurnUnseen => Base = 0
    BY <2>1, <2>2, <2>3
  <2>5. QED
    BY <2>1, <2>2, <2>4
<1>3. CASE PublishKin
  BY <1>3 DEF PublishKin, Base
<1>4. CASE CopySamples
  <2>1. /\ Len(filled) = 1 /\ Len(filled') = 0 /\ kin' = kin + 1 /\ (bzero => sec = 0)
        /\ UNCHANGED <<now, sec, bzero>> /\ callback # "reset"
    BY <1>4, CopyInTime DEF CopySamples
  <2>2. UNCHANGED <<ntr0, watcher>>
    BY <1>4 DEF CopySamples
  <2>3. Base' = Base
    BY <2>1, Numbers DEF Base
  <2>4. QED
    BY <2>1, <2>2, <2>3
<1>5. CASE DropBuffer
  BY <1>5, RoomEnough DEF DropBuffer
<1>6. CASE Poll
  <2>1. /\ UNCHANGED <<now, sec, kin, bzero, filled, callback>> /\ sec # ntr0 /\ ntr0' = sec
        /\ watcher' = (IF sec < ntr0 THEN "wrap" ELSE "sleep") /\ ntr0 \in Nat
    BY <1>6, OnTimeFacts DEF Poll, device, samples
  <2>2. TurnUnseen' => TurnUnseen
    BY <2>1
  <2>3. Base' = Base
    BY <2>1 DEF Base
  <2>4. QED
    BY <2>1, <2>2, <2>3
<1>7. CASE SetBzero
  <2>1. /\ UNCHANGED <<now, sec, kin, filled, callback, ntr0>> /\ watcher = "wrap" /\ watcher' = "sleep"
    BY <1>7 DEF SetBzero, device, samples
  <2>2. sec = 0 /\ ntr0 = 0
    BY <2>1, Zenon DEF OnTime
  <2>3. Base' = Base
    BY <2>1 DEF Base
  <2>4. QED
    BY <2>1, <2>2, <2>3
<1>8. CASE decodeFile
  BY <1>8 DEF decodeFile, device, Base
<1>9. CASE applicationWillTerminate
  BY <1>9 DEF applicationWillTerminate
<1>10. CASE Tick
  <2>1. /\ Len(filled') = 1 /\ Len(filled) = 0 /\ filled = <<>> /\ filled' # <<>>
        /\ now' = now + 1 /\ sec' = IF sec + 1 < Minute THEN sec + 1 ELSE 0
    BY <1>10, TickInTime
  <2>2. UNCHANGED <<kin, bzero, callback, ntr0, watcher>>
    BY <1>10 DEF Tick
  <2>3. Base' = Base /\ Base = now - kin
    BY <2>1, <2>2 DEF Base
  <2>4. bzero => now = 0 \/ sec = 0
    BY <2>1
  <2>5. CASE sec + 1 < Minute
    BY <2>1, <2>2, <2>3, <2>4, <2>5
  <2>6. CASE ~(sec + 1 < Minute)
    <3>1. sec = Minute - 1 /\ sec' = 0
      BY <2>1, <2>6
    <3>2. Base = 0 \/ Base <= now - sec
      BY <2>1, <2>3, <2>4, <3>1 DEF FromTheTurn
    <3>3. QED
      BY <2>1, <2>2, <2>3, <2>4, <3>1, <3>2
  <2>7. QED
    BY <2>5, <2>6
<1>11. CASE UNCHANGED seen
  BY <1>11 DEF seen, device, Base
<1>12. QED
  BY <1>1, <1>2, <1>3, <1>4, <1>5, <1>6, <1>7, <1>8, <1>9, <1>10, <1>11, StepsSeen, Zenon

\* A file leaves or hides what a place had.
LEMMA FileHides ==
  ASSUME NEW x, NEW y \in {File, None, x}, NEW z, x < 0 \/ x = z
  PROVE  y < 0 \/ y = z
BY DEF File, None

LEMMA OvertakenStep ==
  ASSUME Types, OnTime, Heard, Timely, running, [Next]_vars
  PROVE  Overtaken'
<1> USE Numbers, OneWaits DEF Heard, Overtaken
<1>1. CASE Callback
  <2>1. UNCHANGED <<now, sec, d2, jt9kin>> /\ filled # <<>> /\ callback = "idle"
    BY <1>1 DEF Callback
  <2>2. kin >= jt9kin
    BY <2>1 DEF Told
  <2>3. CASE kin' = kin
    BY <2>1, <2>2, <2>3
  <2>4. CASE bzero /\ kin' = 0
    <3> SUFFICES ASSUME jt9kin > 0 PROVE Base' > 0 /\ OfTheLast(jt9kin, 2)'
      BY <2>1, <2>4
    <3>1. kin = jt9kin + 1 /\ Len(filled) = 1
      BY <2>1, <2>2 DEF Told
    <3>8. Base' = Base + kin /\ Base >= 0
      <4>1. filled' = filled
        BY <1>1 DEF Callback
      <4>2. QED
        BY <2>1, <2>4, <4>1 DEF Base, BeginsAnew
    <3>2. Base + jt9kin = now - 2
      BY <3>1 DEF Base
    <3>3. Base = 0 \/ Base <= now - Minute
      BY <2>1, <2>4 DEF BeginsAnew
    <3>4. \A i \in 0 .. jt9kin - 1 : d2[i] < 0 \/ d2[i] = Base + i
      BY <3>1 DEF OfOneRecording, InPiece
    <3> DEFINE b == Base
    <3>5. b \in Int /\ b + jt9kin = now - 2 /\ (b = 0 \/ b <= now - Minute)
      BY <3>2, <3>3
    <3> HIDE DEF b
    <3>6. \E c \in Int : /\ c = 0 \/ c <= now' - Minute
                         /\ c + jt9kin' >= now' - 2
                         /\ \A i \in kin' .. jt9kin' - 1 : d2'[i] < 0 \/ d2'[i] = c + i
      <4>1. \A i \in kin' .. jt9kin' - 1 : d2'[i] < 0 \/ d2'[i] = b + i
        BY <2>1, <2>4, <3>4 DEF b
      <4>2. (b = 0 \/ b <= now' - Minute) /\ b + jt9kin' >= now' - 2
        BY <2>1, <3>5
      <4>3. QED
        BY <3>5, <4>1, <4>2
    <3>7. QED
      BY <3>1, <3>6, <3>8 DEF OfTheLast, InPiece
  <2>5. QED
    BY <1>1, <2>3, <2>4 DEF Callback
<1>2. CASE ClearBzero
  BY <1>2 DEF ClearBzero, samples, Base, OfTheLast, InPiece
<1>3. CASE PublishKin
  BY <1>3 DEF PublishKin
<1>4. CASE CopySamples
  BY <1>4 DEF CopySamples, Told
<1>5. CASE DropBuffer
  BY <1>5, RoomEnough DEF DropBuffer
<1>6. CASE Poll
  BY <1>6 DEF Poll, device, samples, Base, OfTheLast, InPiece
<1>7. CASE SetBzero
  BY <1>7 DEF SetBzero, device, samples, Base, OfTheLast, InPiece
<1>8. CASE decodeFile
  <2> SUFFICES ASSUME kin < jt9kin PROVE OfTheLast(jt9kin, 2)'
    BY <1>8 DEF decodeFile, device, Base
  <2>1. UNCHANGED <<now, kin, jt9kin>>
    BY <1>8 DEF decodeFile
  <2>2. \A i \in kin .. jt9kin - 1 : d2'[i] \in {File, None, d2[i]}
    <3>1. \A i \in kin .. jt9kin - 1 : i \in 0 .. Capacity - 1
      BY Numbers, SMTT(30)
    <3>2. QED
      BY <1>8, <3>1, FileLeaves
  <2>3. PICK b \in Int : /\ b = 0 \/ b <= now - Minute
                         /\ b + jt9kin >= now - 2
                         /\ \A i \in kin .. jt9kin - 1 : d2[i] < 0 \/ d2[i] = b + i
    BY DEF OfTheLast, InPiece
  <2>4. \A i \in kin .. jt9kin - 1 : d2'[i] < 0 \/ d2'[i] = b + i
    BY <2>2, <2>3, FileHides
  <2>5. QED
    BY <2>1, <2>3, <2>4 DEF OfTheLast, InPiece
<1>9. CASE applicationWillTerminate
  BY <1>9 DEF applicationWillTerminate, device, samples, Base, OfTheLast, InPiece
<1>10. CASE Tick
  <2>1. callback = "idle" /\ UNCHANGED <<kin, jt9kin>>
    BY <1>10, TickInTime DEF Tick, samples
  <2>2. QED
    BY <2>1 DEF Told
<1>11. CASE UNCHANGED seen
  BY <1>11 DEF seen, device, Base, OfTheLast, InPiece
<1>12. QED
  BY <1>1, <1>2, <1>3, <1>4, <1>5, <1>6, <1>7, <1>8, <1>9, <1>10, <1>11, StepsSeen, Zenon

HeardInTime == Timely /\ running => Heard

LEMMA HeardInvariant == Spec => []HeardInTime
<1>1. Init => HeardInTime
  <2> SUFFICES ASSUME Init PROVE Heard
    BY DEF HeardInTime
  <2>1. Types
    BY TypesInit
  <2>2. Len(filled) = 0 /\ now = 0 /\ kin = 0 /\ jt9kin = 0 /\ bzero /\ watcher = "sleep" /\ ntr0 = 0
        /\ callback = "idle"
    BY <2>1, OnTimeFacts DEF Init
  <2>3. Base = 0
    BY <2>2 DEF Base
  <2>4. QED
    BY <2>2, <2>3 DEF Heard, Told, OfOneRecording, InPiece, BeginsAnew, Overtaken, TurnUnseen
<1>2. Types /\ Keeping /\ Recording /\ HeardInTime /\ [Next]_vars => HeardInTime'
  <2> SUFFICES ASSUME Types, Keeping, Recording, HeardInTime, [Next]_vars
               PROVE  HeardInTime'
    OBVIOUS
  <2>1. CASE Timely /\ running
    BY <2>1, ToldStep, OfOneRecordingStep, BeginsAnewStep, OvertakenStep, Zenon
       DEF Keeping, Recording, Whole, HeardInTime, Heard
  <2>2. CASE ~(Timely /\ running)
    BY <2>2, StaysStopped, Zenon DEF HeardInTime
  <2>3. QED
    BY <2>1, <2>2
<1>3. QED
  BY <1>1, <1>2, RecordingInvariant, KeepingInvariant, TypesInvariant, PTL DEF Spec

-----------------------------------------------------------------------------
(* The waterfall beside the recorder.                                      *)

\* The recorder with a waterfall beside it is the recorder: what has been proved
\* of it holds here as well.
THEOREM WaterfallLeavesTheRecorderAlone == WaterfallSpec => Spec
<1>1. WaterfallInit => Init
  BY DEF WaterfallInit
<1>2. [WaterfallNext]_wfVars => [Next]_vars
  BY Zenon DEF WaterfallNext, Recorder, Terminate, Time, Next, Step, wfVars
<1>3. QED
  BY <1>1, <1>2, PTL DEF WaterfallSpec, Spec

LEMMA WaterfallSteps ==
  ASSUME [WaterfallNext]_wfVars
  PROVE  \/ dataSink2 /\ UNCHANGED vars
         \/ Time
         \/ Terminate
         \/ /\ UNCHANGED sink
            /\ \/ Callback \/ ClearBzero \/ PublishKin \/ CopySamples \/ DropBuffer
               \/ Poll \/ SetBzero \/ decodeFile
               \/ UNCHANGED seen
<1>1. UNCHANGED vars => UNCHANGED seen
  BY DEF vars, seen, device, samples
<1>2. UNCHANGED wfVars => UNCHANGED vars /\ UNCHANGED sink
  BY DEF wfVars
<1>3. QED
  BY <1>1, <1>2, BesideSeen, Zenon DEF WaterfallNext, Recorder

LEMMA SecondIsOfTheMinute ==
  ASSUME Types
  PROVE  second \in Seconds
<1>1. /\ sec \in Nat /\ sec < Minute /\ Minute \in Nat /\ Minute % 2 = 0
  BY Numbers, WaterfallAssumption, Zenon DEF WaterfallAssumption
<1>2. QED
  BY <1>1, SMTT(30) DEF second, Seconds

LEMMA WaterfallTypesStep ==
  ASSUME Types, Types', WaterfallTypeOK, [WaterfallNext]_wfVars
  PROVE  WaterfallTypeOK'
<1> USE Numbers, WaterfallAssumption
    DEF WaterfallAssumption, WaterfallTypeOK, statics, clock, Goes
<1>1. ASSUME dataSink2, UNCHANGED vars
      PROVE  WaterfallTypeOK'
  <2>1. CASE TimerFires
    BY <2>1 DEF TimerFires
  <2>2. CASE NothingYet
    BY <2>2 DEF NothingYet
  <2>3. CASE waterfallFFT2
    BY <2>3 DEF waterfallFFT2
  <2>4. CASE ReadWindow
    BY <2>4, SecondIsOfTheMinute DEF ReadWindow
  <2>5. CASE KeepKin
    BY <2>5 DEF KeepKin
  <2>6. CASE NoLine
    BY <2>6 DEF NoLine
  <2>7. CASE AddSpectrum
    <3>1. /\ UNCHANGED <<aTimer, fftKin, k, k0, clock, delays, stamps>>
          /\ at' = "idle" /\ dataSinkBusy' = FALSE
          /\ iterations' \in 0 .. waterfallAvg - 1
      BY <2>7 DEF AddSpectrum
    <3>2. QED
      BY <3>1
  <2>8. CASE AddLastSpectrum
    <3>1. /\ UNCHANGED <<aTimer, fftKin, k, k0, masterClockSec, delays, stamps>>
          /\ at' = "draw" /\ dataSinkBusy' = FALSE /\ wfNtr0' = masterClockSec
          /\ needUTC' \in BOOLEAN
      BY <2>8, Zenon DEF AddLastSpectrum
    <3>2. iterations' \in 0 .. waterfallAvg - 1
      BY <2>8 DEF AddLastSpectrum
    <3>3. QED
      BY <3>1, <3>2
  <2>9. CASE drawWaterfall
    <3>1. /\ UNCHANGED <<aTimer, fftKin, k, k0, iterations, masterClockSec, wfNtr0, delays>>
          /\ at' = "idle" /\ dataSinkBusy' = FALSE /\ needUTC' = FALSE
      BY <2>9 DEF drawWaterfall
    <3>2. stamps' \in Nat
      BY <2>9 DEF drawWaterfall
    <3>3. QED
      BY <3>1, <3>2
  <2>10. QED
    BY <1>1, <2>1, <2>2, <2>3, <2>4, <2>5, <2>6, <2>7, <2>8, <2>9, Zenon DEF dataSink2
<1>2. CASE Time
  BY <1>2 DEF Time
<1>3. CASE Terminate
  BY <1>3 DEF Terminate
<1>4. CASE UNCHANGED sink
  BY <1>4 DEF sink
<1>5. QED
  BY <1>1, <1>2, <1>3, <1>4, WaterfallSteps, Zenon

LEMMA RecorderInvariants ==
  WaterfallSpec => []Types /\ []Keeping /\ []HeardInTime
BY WaterfallLeavesTheRecorderAlone, TypesInvariant, KeepingInvariant, HeardInvariant, PTL

\* Every variable of the waterfall keeps its type, kin of d2 included.
THEOREM WaterfallTypeCorrect == WaterfallSpec => []WaterfallTypeOK
<1>1. WaterfallInit => WaterfallTypeOK
  <2>1. 0 \in Seconds
    <3>1. Minute \in Nat /\ Minute > 1 /\ Minute % 2 = 0
      BY RecorderAssumption, WaterfallAssumption DEF RecorderAssumption, WaterfallAssumption
    <3>2. QED
      BY <3>1 DEF Seconds
  <2>2. 0 \in 0 .. waterfallAvg - 1 /\ {0, 1} \subseteq 0 .. Capacity
    BY RecorderAssumption, WaterfallAssumption DEF RecorderAssumption, WaterfallAssumption
  <2> SUFFICES ASSUME WaterfallInit PROVE WaterfallTypeOK
    OBVIOUS
  <2>3. dataSinkBusy \in BOOLEAN /\ needUTC \in BOOLEAN
    BY Zenon DEF WaterfallInit
  <2>4. aTimer \in {"none", "runs", "cancelled"} /\ at = "idle" /\ delays = 0 /\ stamps = 0
    BY DEF WaterfallInit
  <2>5. /\ k = 0 /\ fftKin = 0 /\ k0 = 1
        /\ iterations = 0 /\ masterClockSec = 0 /\ wfNtr0 = 0
    BY DEF WaterfallInit
  <2>6. {k, k0, fftKin} \subseteq 0 .. Capacity
    BY <2>2, <2>5
  <2>7. {dataSinkBusy, needUTC} \subseteq BOOLEAN
    BY <2>3, Zenon
  <2>8. QED
    BY <2>1, <2>2, <2>4, <2>5, <2>6, <2>7 DEF WaterfallTypeOK
<1>2. Types /\ Types' /\ WaterfallTypeOK /\ [WaterfallNext]_wfVars => WaterfallTypeOK'
  BY WaterfallTypesStep
<1>3. QED
  BY <1>1, <1>2, RecorderInvariants, PTL DEF WaterfallSpec


-----------------------------------------------------------------------------
(* All that is heard is shown.                                             *)

\* The buffer that waits has not been made known yet.
Unpublished == filled # <<>> /\ callback # "memcpy"

\* What has not been shown of the recording that goes on is n units at most.
Behind(n) == kin <= n \/ (k0 <= kin /\ kin - k0 <= n)

\* A call of dataSink2 is over before the timer fires again, and the timer is
\* cancelled only once.
Calls ==
  /\ at = "idle" => ~dataSinkBusy
  /\ running /\ at # "idle" => aTimer = "runs"
  /\ ~running => aTimer # "runs"
  /\ Timely => delays <= MaxDelays

\* What the calls that last into the next unit may leave behind: dataSink2 meets
\* an old kin only after a delay, what it keeps was known when it looked, and a
\* kin it keeps is ahead of the recorder only when a recording has ended since.
InSight ==
  /\ (at # "idle" \/ jt9kin # k) /\ Unpublished => delays >= 1
  /\ Behind(delays + 2 - Len(filled))
  /\ at \in {"window", "keep"} => Behind(delays + 1 - Len(filled))
  /\ at \in {"idle", "sum", "draw"} =>
       /\ jt9kin = k /\ ~Unpublished => Behind(delays + 1 - Len(filled))
       /\ k > jt9kin => \/ kin + Len(filled) <= delays
                        \/ at = "idle" /\ kin + Len(filled) <= 1

Watched == Timely /\ running /\ aTimer = "runs" => InSight

LEMMA CallsStep ==
  ASSUME WaterfallTypeOK, Calls, [WaterfallNext]_wfVars
  PROVE  Calls'
<1> USE WaterfallAssumption
    DEF WaterfallAssumption, WaterfallTypeOK, Calls, statics, clock, Goes
<1>1. ASSUME dataSink2, UNCHANGED vars
      PROVE  Calls'
  <2>1. UNCHANGED <<running, aTimer, delays>>
    BY <1>1 DEF dataSink2, vars, TimerFires, NothingYet, waterfallFFT2, ReadWindow, KeepKin,
       NoLine, AddSpectrum, AddLastSpectrum, drawWaterfall
  <2>2. at' = "idle" => dataSinkBusy' = FALSE
    BY <1>1 DEF dataSink2, TimerFires, NothingYet, waterfallFFT2, ReadWindow, KeepKin,
       NoLine, AddSpectrum, AddLastSpectrum, drawWaterfall
  <2>3. at = "idle" => aTimer = "runs"
    BY <1>1 DEF dataSink2, TimerFires, NothingYet, waterfallFFT2, ReadWindow, KeepKin,
       NoLine, AddSpectrum, AddLastSpectrum, drawWaterfall
  <2>4. QED
    BY <2>1, <2>2, <2>3
<1>2. CASE Time
  <2>1. UNCHANGED <<aTimer, dataSinkBusy, at, running>> /\ delays' \in {delays, delays + 1}
    BY <1>2 DEF Time, Tick
  <2>2. Timely => delays' <= MaxDelays
    BY <1>2 DEF Time, SinkInTime
  <2>3. QED
    BY <2>1, <2>2
<1>3. CASE Terminate
  <2>1. /\ UNCHANGED <<dataSinkBusy, at, delays>> /\ running' = FALSE
        /\ aTimer' # "runs"
    BY <1>3 DEF Terminate, applicationWillTerminate
  <2>2. QED
    BY <2>1
<1>4. ASSUME UNCHANGED sink,
             \/ Callback \/ ClearBzero \/ PublishKin \/ CopySamples \/ DropBuffer
             \/ Poll \/ SetBzero \/ decodeFile
             \/ UNCHANGED seen
      PROVE  Calls'
  <2>1. running' = running
    BY <1>4 DEF Callback, ClearBzero, PublishKin, CopySamples, DropBuffer, Poll, SetBzero,
       decodeFile, seen
  <2>2. UNCHANGED <<at, dataSinkBusy, aTimer, delays>>
    BY <1>4 DEF sink
  <2>3. QED
    BY <2>1, <2>2
<1>5. QED
  BY <1>1, <1>2, <1>3, <1>4, WaterfallSteps, Zenon

\* The numbers of both.
LEMMA AllNumbers ==
  ASSUME Types, WaterfallTypeOK
  PROVE  /\ kin \in Nat /\ jt9kin \in Nat /\ now \in Nat /\ Len(filled) \in Nat
         /\ k \in Nat /\ k0 \in Nat /\ fftKin \in Nat /\ delays \in Nat
<1>1. WaterfallAssumption /\ RecorderAssumption
  BY WaterfallAssumption, RecorderAssumption
<1>2. k \in Nat /\ k0 \in Nat /\ fftKin \in Nat /\ delays \in Nat
  BY <1>1 DEF WaterfallTypeOK, RecorderAssumption
<1>3. QED
  BY <1>2, Numbers, Zenon

\* A step of dataSink2.
LEMMA SinkInSight ==
  ASSUME Types, WaterfallTypeOK, OnTime, Told, InSight, dataSink2, UNCHANGED vars
  PROVE  InSight'
<1> USE AllNumbers, OneWaits DEF Goes, statics, Behind
<1>1. /\ UNCHANGED <<kin, jt9kin, filled, callback>> /\ (Unpublished' <=> Unpublished)
      /\ Len(filled') = Len(filled)
  BY DEF vars, device, samples, Unpublished
<1>2. /\ callback = "memcpy" => jt9kin = kin
      /\ callback # "memcpy" => kin = jt9kin + 1 \/ kin = 0
      /\ Len(filled) = 1 /\ callback # "memcpy" => Unpublished
      /\ callback = "memcpy" => Len(filled) = 1
  BY DEF Told, Unpublished
<1>3. CASE TimerFires
  BY <1>1, <1>3 DEF TimerFires, InSight
<1>4. CASE NothingYet
  <2>1. /\ at = "fft" /\ at' = "keep" /\ jt9kin = 0 /\ UNCHANGED <<k, k0, delays>>
    BY <1>4 DEF NothingYet
  <2>2. Unpublished => delays >= 1
    BY <2>1 DEF InSight
  <2>3. kin + Len(filled) <= delays + 1
    <3>1. CASE Len(filled) = 0
      BY <1>2, <2>1, <3>1
    <3>2. CASE Len(filled) = 1
      BY <1>2, <2>1, <2>2, <3>2
    <3>3. QED
      BY <3>1, <3>2
  <2>4. QED
    BY <1>1, <2>1, <2>2, <2>3 DEF InSight
<1>5. CASE waterfallFFT2
  <2>1. /\ at = "fft" /\ at' = "window" /\ k0' = jt9kin /\ UNCHANGED <<k, delays>>
    BY <1>5 DEF waterfallFFT2
  <2>2. Unpublished => delays >= 1
    BY <2>1 DEF InSight
  <2>3. kin <= delays + 1 - Len(filled) \/ (jt9kin <= kin /\ kin - jt9kin <= delays + 1 - Len(filled))
    <3>1. CASE Len(filled) = 0
      BY <1>2, <3>1
    <3>2. CASE Len(filled) = 1
      BY <1>2, <2>2, <3>2
    <3>3. QED
      BY <3>1, <3>2
  <2>4. QED
    BY <1>1, <2>1, <2>2, <2>3 DEF InSight
<1>6. CASE ReadWindow
  <2>1. at = "window" /\ at' = "keep" /\ UNCHANGED <<k, k0, delays>>
    BY <1>6 DEF ReadWindow
  <2>2. QED
    BY <1>1, <2>1 DEF InSight
<1>7. CASE KeepKin
  <2>1. at = "keep" /\ at' = "sum" /\ k' = jt9kin /\ UNCHANGED <<k0, delays>>
    BY <1>7 DEF KeepKin
  <2>2. QED
    BY <1>1, <2>1 DEF InSight
<1>8. CASE NoLine \/ AddSpectrum \/ AddLastSpectrum \/ drawWaterfall
  <2>1. /\ at \in {"sum", "draw"} /\ at' \in {"draw", "idle"} /\ UNCHANGED <<k, k0, delays>>
    BY <1>8 DEF NoLine, AddSpectrum, AddLastSpectrum, drawWaterfall
  <2>2. QED
    BY <1>1, <2>1 DEF InSight
<1>9. QED
  BY <1>3, <1>4, <1>5, <1>6, <1>7, <1>8, Zenon DEF dataSink2

\* A unit of time.
LEMMA TimeInSight ==
  ASSUME Types, WaterfallTypeOK, OnTime, Calls, InSight, Timely, running, aTimer = "runs", Time
  PROVE  InSight'
<1> USE AllNumbers, OneWaits DEF Behind
<1>1. /\ filled = <<>> /\ Len(filled) = 0 /\ filled' # <<>> /\ Len(filled') = 1
  BY TickInTime DEF Time
<1>2. UNCHANGED <<kin, jt9kin, callback, at, k, k0>>
  BY DEF Time, Tick, samples, statics
<1>3. callback' = "idle" /\ Unpublished' /\ ~Unpublished
  BY <1>1, <1>2 DEF Unpublished
<1>4. CASE at = "idle"
  <2>1. jt9kin = k /\ delays' = delays
    BY <1>4 DEF Time, SinkInTime, Calls
  <2>2. Behind(delays + 1)
    BY <1>1, <1>3, <1>4, <2>1 DEF InSight
  <2>3. QED
    BY <1>1, <1>2, <1>3, <1>4, <2>1, <2>2 DEF InSight
<1>5. CASE at # "idle"
  <2>1. delays' = delays + 1
    BY <1>5 DEF Time
  <2>2. QED
    BY <1>1, <1>2, <1>3, <1>5, <2>1 DEF InSight
<1>6. QED
  BY <1>4, <1>5

\* A step of the recorder.
LEMMA BesideInSight ==
  ASSUME Types, WaterfallTypeOK, OnTime, Told, InSight, Timely, running, UNCHANGED sink,
         \/ Callback \/ ClearBzero \/ PublishKin \/ CopySamples \/ DropBuffer
         \/ Poll \/ SetBzero \/ decodeFile
         \/ UNCHANGED seen
  PROVE  InSight'
<1> USE AllNumbers, OneWaits DEF Behind
<1>1. UNCHANGED <<at, k, k0, delays>>
  BY DEF sink, statics
<1>2. CASE Callback
  <2>1. /\ UNCHANGED <<jt9kin, filled>> /\ filled # <<>> /\ callback = "idle"
        /\ callback' \in {"reset", "copy"} /\ (kin' = 0 \/ kin' = kin)
    BY <1>2 DEF Callback
  <2>2. Unpublished /\ Unpublished' /\ Len(filled) = 1 /\ Len(filled') = 1
    BY <2>1 DEF Unpublished
  <2>3. CASE kin' = kin
    BY <1>1, <2>1, <2>2, <2>3 DEF InSight
  <2>4. CASE kin' = 0
    BY <1>1, <2>1, <2>2, <2>4 DEF InSight
  <2>5. QED
    BY <2>1, <2>3, <2>4
<1>3. CASE ClearBzero
  BY <1>1, <1>3 DEF ClearBzero, samples, InSight, Unpublished
<1>4. CASE PublishKin
  <2>1. /\ UNCHANGED <<kin, filled>> /\ callback = "copy" /\ callback' = "memcpy" /\ jt9kin' = kin
    BY <1>4 DEF PublishKin
  <2>2. Unpublished /\ ~Unpublished' /\ Len(filled) = 1 /\ Len(filled') = 1
    BY <2>1 DEF Unpublished
  <2>3. kin = jt9kin + 1 \/ kin = 0
    BY <2>1 DEF Told
  <2>4. at \in {"idle", "sum", "draw"} /\ k = kin => Behind(delays)
    BY <2>2, <2>3 DEF InSight
  <2>5. at \in {"idle", "sum", "draw"} /\ k > kin
          => kin + 1 <= delays \/ (at = "idle" /\ kin + 1 <= 1)
    BY <2>2, <2>3 DEF InSight
  <2>6. QED
    BY <1>1, <2>1, <2>2, <2>4, <2>5 DEF InSight
<1>5. CASE CopySamples
  <2>1. /\ Len(filled) = 1 /\ Len(filled') = 0 /\ filled # <<>> /\ filled' = <<>>
        /\ kin' = kin + 1 /\ callback = "memcpy" /\ jt9kin' = jt9kin
    BY <1>5, CopyInTime DEF CopySamples
  <2>2. ~Unpublished /\ ~Unpublished'
    BY <2>1 DEF Unpublished
  <2>3. QED
    BY <1>1, <2>1, <2>2 DEF InSight
<1>6. CASE DropBuffer
  BY <1>6, RoomEnough DEF DropBuffer
<1>7. CASE Poll
  BY <1>1, <1>7 DEF Poll, device, samples, InSight, Unpublished
<1>8. CASE SetBzero
  BY <1>1, <1>8 DEF SetBzero, device, samples, InSight, Unpublished
<1>9. CASE decodeFile
  BY <1>1, <1>9 DEF decodeFile, device, InSight, Unpublished
<1>10. CASE UNCHANGED seen
  BY <1>1, <1>10 DEF seen, device, InSight, Unpublished
<1>11. QED
  BY <1>2, <1>3, <1>4, <1>5, <1>6, <1>7, <1>8, <1>9, <1>10, Zenon

LEMMA WatchedInvariant == WaterfallSpec => [](Calls /\ Watched)
<1>1. WaterfallInit => Calls /\ Watched
  <2> SUFFICES ASSUME WaterfallInit PROVE Calls /\ Watched
    OBVIOUS
  <2>1. Types
    BY TypesInit DEF WaterfallInit
  <2>2. at = "idle" /\ k = 0 /\ delays = 0 /\ jt9kin = 0 /\ kin = 0 /\ filled = <<>> /\ running
    BY DEF WaterfallInit, Init
  <2>3. Calls
    BY <2>2, WaterfallAssumption DEF WaterfallInit, Calls, WaterfallAssumption
  <2>4. InSight
    BY <2>1, <2>2, OnTimeFacts DEF InSight, Unpublished, Behind
  <2>5. QED
    BY <2>3, <2>4 DEF Watched
<1>2. /\ Types /\ WaterfallTypeOK /\ Keeping /\ HeardInTime /\ Calls /\ Watched
      /\ [WaterfallNext]_wfVars
      => (Calls /\ Watched)'
  <2> SUFFICES ASSUME Types, WaterfallTypeOK, Keeping, HeardInTime, Calls, Watched,
                      [WaterfallNext]_wfVars
               PROVE  Calls' /\ Watched'
    OBVIOUS
  <2>1. Calls'
    BY CallsStep
  <2>2. ASSUME Timely, running', aTimer' = "runs"
        PROVE  InSight'
    <3>1. running /\ aTimer = "runs" /\ ~Terminate
      <4>1. dataSink2 /\ UNCHANGED vars => UNCHANGED <<running, aTimer>>
        BY DEF dataSink2, vars, TimerFires, NothingYet, waterfallFFT2, ReadWindow, KeepKin,
           NoLine, AddSpectrum, AddLastSpectrum, drawWaterfall
      <4>2. Time => UNCHANGED <<running, aTimer>>
        BY DEF Time, Tick
      <4>3. Terminate => ~running'
        BY DEF Terminate, applicationWillTerminate
      <4>4. UNCHANGED sink => aTimer' = aTimer
        BY DEF sink
      <4>5. Callback \/ ClearBzero \/ PublishKin \/ CopySamples \/ DropBuffer
            \/ Poll \/ SetBzero \/ decodeFile \/ UNCHANGED seen => running' = running
        BY DEF Callback, ClearBzero, PublishKin, CopySamples, DropBuffer, Poll, SetBzero,
           decodeFile, seen
      <4>6. QED
        BY <2>2, <4>1, <4>2, <4>3, <4>4, <4>5, WaterfallSteps
    <3>2. OnTime /\ Told /\ InSight
      BY <2>2, <3>1 DEF Keeping, HeardInTime, Heard, Watched
    <3>3. QED
      BY <2>2, <3>1, <3>2, SinkInSight, TimeInSight, BesideInSight, WaterfallSteps, Zenon
  <2>3. QED
    BY <2>1, <2>2 DEF Watched
<1>3. QED
  BY <1>1, <1>2, RecorderInvariants, WaterfallTypeCorrect, PTL DEF WaterfallSpec

\* For every length of the minute and of the spectrum, as long as it reaches two
\* units further back than calls of dataSink2 may be late, no buffer is passed
\* over, wherever the recorder is when dataSink2 reads kin.
THEOREM AllSoundIsShown ==
  ASSUME Window >= MaxDelays + 2
  PROVE  WaterfallSpec => []SoundIsShown
<1>1. Types /\ WaterfallTypeOK /\ Calls /\ Watched => SoundIsShown
  <2> SUFFICES ASSUME Types, WaterfallTypeOK, Calls, InSight, Timely
               PROVE  kin - (IF k0 > kin THEN 0 ELSE k0) <= Window
    BY DEF Watched, SoundIsShown
  <2>1. delays <= MaxDelays /\ MaxDelays \in Nat /\ Window \in Nat
    BY WaterfallAssumption DEF Calls, WaterfallAssumption
  <2>2. Behind(delays + 2 - Len(filled))
    BY DEF InSight
  <2>3. QED
    BY <2>1, <2>2, AllNumbers DEF Behind
<1>2. QED
  BY <1>1, RecorderInvariants, WaterfallTypeCorrect, WatchedInvariant, PTL


-----------------------------------------------------------------------------
(* What is shown was heard in one piece.                                   *)

\* The spectrum that is about to be taken is of the recording that goes on, or
\* of the one before, of which little has been overwritten.
Held ==
  at = "window" =>
    /\ k0 = fftKin
    /\ kin < fftKin => /\ Base > 0
                       /\ kin + Len(filled) <= delays
                       /\ OfTheLast(fftKin, delays + 1)

SpanInPiece ==
  /\ \E b \in Int : \A i \in Span(fftKin) : d2[i] < 0 \/ d2[i] = b + i
  /\ callback = "memcpy" => kin \notin Span(fftKin)

\* When the application has ended a call may go on, and so may the callback with
\* the buffer it is at.
AfterTheEnd ==
  /\ callback = "memcpy" => kin = jt9kin
  /\ at = "fft" => \E b \in Int : InPiece(b, 0, jt9kin)
  /\ at = "window" /\ now + MaxDelays - delays >= Minute => SpanInPiece

Pieces == Timely => IF running THEN Held ELSE AfterTheEnd

LEMMA SpanIsBefore ==
  ASSUME NEW n \in Nat
  PROVE  /\ Span(n) \subseteq 0 .. n - 1
         /\ \A i \in Span(n) : i >= n - Window
BY WaterfallAssumption DEF Span, WaterfallAssumption

\* When the first minute is over what is left of the last recording is more than
\* a spectrum reaches back to.
LEMMA EnoughIsLeft ==
  ASSUME Types, WaterfallTypeOK, Calls, OfOneRecording, Told, Held, Timely,
         2 * MaxDelays + Window < Minute, at = "window",
         now + MaxDelays - delays >= Minute
  PROVE  SpanInPiece
<1> USE AllNumbers, Numbers
<1>1. /\ Span(fftKin) \subseteq 0 .. fftKin - 1
      /\ \A i \in Span(fftKin) : i >= fftKin - Window
  BY SpanIsBefore
<1>2. CASE fftKin <= kin
  <2>1. \A i \in Span(fftKin) : i \in 0 .. kin - 1 /\ i < kin
    BY <1>1, <1>2
  <2>2. Base \in Int /\ \A i \in Span(fftKin) : d2[i] < 0 \/ d2[i] = Base + i
    BY <2>1 DEF OfOneRecording, InPiece
  <2>3. kin \notin Span(fftKin)
    BY <2>1
  <2>4. QED
    BY <2>2, <2>3 DEF SpanInPiece
<1>3. CASE kin < fftKin
  <2>1. PICK b \in Int : /\ b = 0 \/ b <= now - Minute
                         /\ b + fftKin >= now - (delays + 1)
                         /\ \A i \in kin .. fftKin - 1 : d2[i] < 0 \/ d2[i] = b + i
    BY <1>3 DEF Held, OfTheLast, InPiece
  <2>2. delays <= MaxDelays /\ MaxDelays \in Nat /\ Window \in Nat
    BY WaterfallAssumption DEF Calls, WaterfallAssumption
  <2>3. fftKin - Window >= MaxDelays
    <3>1. /\ b \in Int /\ fftKin \in Nat /\ now \in Nat /\ delays \in Nat /\ Minute \in Nat
          /\ b = 0 \/ b <= now - Minute
          /\ b + fftKin >= now - (delays + 1)
      BY <2>1, AllNumbers, Numbers, Zenon
    <3>2. CASE b = 0
      BY <2>2, <3>1, <3>2, SMTT(30)
    <3>3. CASE b <= now - Minute
      BY <2>2, <3>1, <3>3, SMTT(30)
    <3>4. QED
      BY <3>1, <3>2, <3>3
  <2>4. kin <= delays /\ (callback = "memcpy" => kin < delays)
    <3>1. kin + Len(filled) <= delays
      BY <1>3 DEF Held
    <3>2. callback = "memcpy" => Len(filled) >= 1
      BY OnTimeFacts
    <3>3. QED
      BY <3>1, <3>2
  <2>5. \A i \in Span(fftKin) : i \in kin .. fftKin - 1 /\ i >= delays
    <3> SUFFICES ASSUME NEW i \in Span(fftKin) PROVE i \in kin .. fftKin - 1 /\ i >= delays
      OBVIOUS
    <3>1. i \in 0 .. fftKin - 1 /\ i >= fftKin - Window
      BY <1>1, Zenon
    <3>2. /\ kin \in Nat /\ fftKin \in Nat /\ delays \in Nat /\ i \in Int
          /\ kin <= delays
      BY <2>4, <3>1, AllNumbers
    <3>3. i >= delays
      BY <2>2, <2>3, <3>1, <3>2
    <3>4. QED
      BY <3>1, <3>2, <3>3
  <2>6. \A i \in Span(fftKin) : d2[i] < 0 \/ d2[i] = b + i
    BY <2>1, <2>5
  <2>7. callback = "memcpy" => kin \notin Span(fftKin)
    BY <2>4, <2>5
  <2>8. QED
    BY <2>6, <2>7 DEF SpanInPiece
<1>4. QED
  BY <1>2, <1>3

LEMMA SinkHolds ==
  ASSUME Types, WaterfallTypeOK, OnTime, Heard, InSight, dataSink2, UNCHANGED vars
  PROVE  Held'
<1> USE AllNumbers, OneWaits DEF Goes, statics
<1>1. CASE waterfallFFT2
  <2>1. /\ at = "fft" /\ at' = "window" /\ k0' = jt9kin /\ fftKin' = jt9kin
        /\ UNCHANGED <<now, kin, d2, filled, delays>>
    BY <1>1 DEF waterfallFFT2, vars, device, samples
  <2>2. ASSUME kin < jt9kin
        PROVE  Base' > 0 /\ kin' + Len(filled') <= delays' /\ OfTheLast(fftKin, delays + 1)'
    <3>1. callback # "memcpy" /\ callback # "idle" /\ kin = 0
      BY <2>2 DEF Heard, Told
    <3>2. Unpublished /\ Len(filled) = 1
      BY <3>1, OnTimeFacts DEF Unpublished
    <3>3. delays >= 1
      BY <2>1, <3>2 DEF InSight
    <3>4. PICK b \in Int : /\ b = 0 \/ b <= now - Minute
                           /\ b + jt9kin >= now - 2
                           /\ \A i \in kin .. jt9kin - 1 : d2[i] < 0 \/ d2[i] = b + i
      BY <2>2 DEF Heard, Overtaken, OfTheLast, InPiece
    <3>5. b + jt9kin >= now - (delays + 1)
      BY <3>3, <3>4
    <3>6. Base' > 0
      BY <2>1, <2>2 DEF Base, Heard, Overtaken
    <3>7. OfTheLast(fftKin, delays + 1)'
      BY <2>1, <3>4, <3>5 DEF OfTheLast, InPiece
    <3>8. QED
      BY <2>1, <3>1, <3>2, <3>3, <3>6, <3>7
  <2>3. QED
    BY <2>1, <2>2 DEF Held
<1>2. CASE ~waterfallFFT2
  <2>1. at' # "window"
    BY <1>2 DEF dataSink2, TimerFires, NothingYet, ReadWindow, KeepKin, NoLine, AddSpectrum,
       AddLastSpectrum, drawWaterfall
  <2>2. QED
    BY <2>1 DEF Held
<1>3. QED
  BY <1>1, <1>2

LEMMA TimeHolds ==
  ASSUME Types, WaterfallTypeOK, OnTime, Held, Timely, running, Time
  PROVE  Held'
<1> USE AllNumbers, Numbers
<1>1. /\ Len(filled) = 0 /\ Len(filled') = 1 /\ now' = now + 1
  BY TickInTime, OneWaits DEF Time
<1>2. UNCHANGED <<kin, d2, at, k0, fftKin>> /\ (at = "window" => delays' = delays + 1)
  BY DEF Time, Tick, samples, statics
<1>3. Base' = Base
  BY <1>1, <1>2 DEF Base
<1>4. ASSUME at = "window", kin < fftKin
      PROVE  OfTheLast(fftKin, delays + 1)'
  <2>1. PICK b \in Int : /\ b = 0 \/ b <= now - Minute
                         /\ b + fftKin >= now - (delays + 1)
                         /\ \A i \in kin .. fftKin - 1 : d2[i] < 0 \/ d2[i] = b + i
    BY <1>4 DEF Held, OfTheLast, InPiece
  <2>2. (b = 0 \/ b <= now' - Minute) /\ b + fftKin >= now' - (delays' + 1)
    <3>1. /\ b \in Int /\ fftKin \in Nat /\ now \in Nat /\ delays \in Nat /\ Minute \in Nat
          /\ b = 0 \/ b <= now - Minute
          /\ b + fftKin >= now - (delays + 1)
          /\ now' = now + 1 /\ delays' = delays + 1
      BY <1>1, <1>2, <1>4, <2>1, AllNumbers, Numbers, Zenon
    <3>2. QED
      BY <3>1, SMTT(30)
  <2>3. QED
    BY <1>2, <2>1, <2>2 DEF OfTheLast, InPiece
<1>5. QED
  BY <1>1, <1>2, <1>3, <1>4 DEF Held

LEMMA BesideHolds ==
  ASSUME Types, WaterfallTypeOK, OnTime, Heard, Calls, InSight, Held, Timely, running,
         MaxDelays < Minute, UNCHANGED sink,
         \/ Callback \/ ClearBzero \/ PublishKin \/ CopySamples \/ DropBuffer
         \/ Poll \/ SetBzero \/ decodeFile
         \/ UNCHANGED seen
  PROVE  Held'
<1> USE AllNumbers, Numbers, OneWaits
<1>1. UNCHANGED <<at, k0, fftKin, delays>>
  BY DEF sink, statics
<1>2. CASE Callback
  <2>1. /\ UNCHANGED <<now, d2, filled>> /\ filled # <<>> /\ callback = "idle"
        /\ (kin' = kin \/ (bzero /\ kin' = 0))
    BY <1>2 DEF Callback
  <2>2. Unpublished /\ Len(filled) = 1
    BY <2>1 DEF Unpublished
  <2>3. CASE kin' = kin
    BY <1>1, <2>1, <2>3 DEF Held, OfTheLast, InPiece, Base
  <2>4. ASSUME bzero, kin' = 0, at = "window", fftKin > 0
        PROVE  Base' > 0 /\ kin' + Len(filled') <= delays' /\ OfTheLast(fftKin, delays + 1)'
    <3>1. delays >= 1 /\ delays <= MaxDelays
      BY <2>2, <2>4 DEF InSight, Calls
    <3>2. Base >= 0 /\ (Base = 0 \/ Base <= now - Minute)
      BY <2>1, <2>4 DEF Heard, BeginsAnew
    <3>3. Base = now - kin - 1
      BY <2>2 DEF Base
    <3>4. kin >= fftKin
      <4> SUFFICES ASSUME kin < fftKin PROVE FALSE
        OBVIOUS
      <4>1. Base > 0 /\ kin + 1 <= delays
        BY <2>2, <2>4 DEF Held
      <4>2. Base \in Int /\ kin \in Nat /\ now \in Nat /\ Minute \in Nat /\ MaxDelays \in Nat
        BY WaterfallAssumption, Numbers, Zenon DEF WaterfallAssumption
      <4>3. Base <= now - Minute
        BY <3>2, <4>1, <4>2
      <4>4. QED
        BY <3>1, <3>3, <4>1, <4>2, <4>3
    <3>5. kin - fftKin <= delays
      BY <2>2, <2>4, <3>4 DEF InSight, Behind, Held
    <3>6. Base' = now - 1
      BY <2>1, <2>2, <2>4 DEF Base
    <3>7. Base' > 0
      BY <2>4, <3>2, <3>3, <3>4, <3>6
    <3> DEFINE b == now - kin - 1
    <3>8. /\ b \in Int /\ (b = 0 \/ b <= now - Minute)
          /\ b + fftKin >= now - (delays + 1)
      <4>1. b = Base /\ b \in Int
        BY <3>3
      <4>2. b + fftKin >= now - (delays + 1)
        BY <3>5
      <4>3. QED
        BY <3>2, <4>1, <4>2, Zenon
    <3>9. \A i \in 0 .. fftKin - 1 : d2[i] < 0 \/ d2[i] = b + i
      <4>1. \A i \in 0 .. kin - 1 : d2[i] < 0 \/ d2[i] = Base + i
        BY Zenon DEF Heard, OfOneRecording, InPiece
      <4>2. \A i \in 0 .. fftKin - 1 : i \in 0 .. kin - 1
        BY <3>4
      <4>3. b = Base
        BY <3>3
      <4>4. QED
        BY <4>1, <4>2, <4>3, Zenon
    <3> HIDE DEF b
    <3>10. OfTheLast(fftKin, delays + 1)'
      BY <1>1, <2>1, <2>4, <3>8, <3>9 DEF OfTheLast, InPiece
    <3>11. QED
      BY <1>1, <2>1, <2>2, <2>4, <3>1, <3>7, <3>10
  <2>5. CASE bzero /\ kin' = 0
    BY <1>1, <2>4, <2>5 DEF Held
  <2>6. QED
    BY <2>1, <2>3, <2>5
<1>3. CASE ClearBzero
  BY <1>1, <1>3 DEF ClearBzero, samples, Held, OfTheLast, InPiece, Base
<1>4. CASE PublishKin
  BY <1>1, <1>4 DEF PublishKin, Held, OfTheLast, InPiece, Base
<1>5. CASE CopySamples
  <2>1. /\ Len(filled) = 1 /\ Len(filled') = 0 /\ kin' = kin + 1 /\ now' = now
        /\ d2' = [d2 EXCEPT ![kin] = Head(filled)]
    BY <1>5, CopyInTime DEF CopySamples
  <2>2. Base' = Base
    BY <2>1 DEF Base
  <2>3. ASSUME at = "window", kin + 1 < fftKin
        PROVE  OfTheLast(fftKin, delays + 1)'
    <3>1. PICK b \in Int : /\ b = 0 \/ b <= now - Minute
                           /\ b + fftKin >= now - (delays + 1)
                           /\ \A i \in kin .. fftKin - 1 : d2[i] < 0 \/ d2[i] = b + i
      BY <2>3 DEF Held, OfTheLast, InPiece
    <3>2. \A i \in kin' .. fftKin - 1 : i \in kin .. fftKin - 1 /\ d2'[i] = d2[i]
      BY <2>1
    <3>3. QED
      BY <1>1, <2>1, <3>1, <3>2 DEF OfTheLast, InPiece
  <2>4. QED
    BY <1>1, <2>1, <2>2, <2>3 DEF Held
<1>6. CASE DropBuffer
  BY <1>6, RoomEnough DEF DropBuffer
<1>7. CASE Poll
  BY <1>1, <1>7 DEF Poll, device, samples, Held, OfTheLast, InPiece, Base
<1>8. CASE SetBzero
  BY <1>1, <1>8 DEF SetBzero, device, samples, Held, OfTheLast, InPiece, Base
<1>9. CASE decodeFile
  <2>1. UNCHANGED <<now, kin, filled>>
    BY <1>9 DEF decodeFile, device
  <2>2. Base' = Base
    BY <2>1 DEF Base
  <2>3. ASSUME at = "window", kin < fftKin
        PROVE  OfTheLast(fftKin, delays + 1)'
    <3>1. PICK b \in Int : /\ b = 0 \/ b <= now - Minute
                           /\ b + fftKin >= now - (delays + 1)
                           /\ \A i \in kin .. fftKin - 1 : d2[i] < 0 \/ d2[i] = b + i
      BY <2>3 DEF Held, OfTheLast, InPiece
    <3>2. \A i \in kin .. fftKin - 1 : i \in 0 .. Capacity - 1
      <4>1. fftKin \in 0 .. Capacity
        BY Zenon DEF WaterfallTypeOK
      <4>2. QED
        BY <4>1
    <3>3. \A i \in kin .. fftKin - 1 : d2'[i] < 0 \/ d2'[i] = b + i
      BY <1>9, <3>1, <3>2, FileLeaves, FileHides
    <3>4. QED
      BY <1>1, <2>1, <3>1, <3>3 DEF OfTheLast, InPiece
  <2>4. QED
    BY <1>1, <2>1, <2>2, <2>3 DEF Held
<1>10. CASE UNCHANGED seen
  BY <1>1, <1>10 DEF seen, device, Held, OfTheLast, InPiece, Base
<1>11. QED
  BY <1>2, <1>3, <1>4, <1>5, <1>6, <1>7, <1>8, <1>9, <1>10, Zenon


LEMMA TheEnd ==
  ASSUME Types, WaterfallTypeOK, Calls, Heard, Held, Timely,
         2 * MaxDelays + Window < Minute, Terminate
  PROVE  AfterTheEnd'
<1> USE AllNumbers, Numbers
<1>1. UNCHANGED <<now, kin, jt9kin, d2, callback, at, fftKin, delays>>
  BY DEF Terminate, applicationWillTerminate, device, samples
<1>2. callback = "memcpy" => kin = jt9kin
  BY DEF Heard, Told
<1>3. \E b \in Int : InPiece(b, 0, jt9kin)
  <2>1. CASE jt9kin <= kin
    <3>1. \A i \in 0 .. kin - 1 : d2[i] < 0 \/ d2[i] = Base + i
      BY Zenon DEF Heard, OfOneRecording, InPiece
    <3>2. \A i \in 0 .. jt9kin - 1 : i \in 0 .. kin - 1
      BY <2>1
    <3>3. InPiece(Base, 0, jt9kin)
      BY <3>1, <3>2, Zenon DEF InPiece
    <3>4. QED
      BY <3>3
  <2>2. CASE kin < jt9kin
    <3>1. kin = 0
      BY <2>2 DEF Heard, Told
    <3>2. QED
      BY <2>2, <3>1 DEF Heard, Overtaken, OfTheLast
  <2>3. QED
    BY <2>1, <2>2
<1>4. at = "window" /\ now + MaxDelays - delays >= Minute => SpanInPiece
  BY EnoughIsLeft DEF Heard
<1>5. QED
  BY <1>1, <1>2, <1>3, <1>4 DEF AfterTheEnd, SpanInPiece, InPiece

\* What goes on then does no harm.
LEMMA AfterTheEndStep ==
  ASSUME Types, WaterfallTypeOK, Calls, AfterTheEnd, ~running, [WaterfallNext]_wfVars
  PROVE  AfterTheEnd'
<1> USE AllNumbers, Numbers
<1>1. ASSUME dataSink2, UNCHANGED vars
      PROVE  AfterTheEnd'
  <2>1. UNCHANGED <<now, kin, jt9kin, d2, callback>>
    BY <1>1 DEF vars, device, samples
  <2>2. CASE waterfallFFT2
    <3>1. at = "fft" /\ at' = "window" /\ fftKin' = jt9kin
      BY <2>2 DEF waterfallFFT2, Goes
    <3>2. PICK b \in Int : \A i \in 0 .. jt9kin - 1 : d2[i] < 0 \/ d2[i] = b + i
      BY <3>1 DEF AfterTheEnd, InPiece
    <3>3. Span(jt9kin) \subseteq 0 .. jt9kin - 1
      BY SpanIsBefore
    <3>4. \A i \in Span(fftKin') : d2'[i] < 0 \/ d2'[i] = b + i
      BY <2>1, <3>1, <3>2, <3>3
    <3>5. callback' = "memcpy" => kin' \notin Span(fftKin')
      BY <2>1, <3>1, <3>3 DEF AfterTheEnd
    <3>6. QED
      BY <2>1, <3>1, <3>4, <3>5 DEF AfterTheEnd, SpanInPiece
  <2>3. CASE TimerFires
    BY <2>3 DEF TimerFires, Calls
  <2>4. CASE ~waterfallFFT2 /\ ~TimerFires
    <3>1. at' # "window" /\ at' # "fft"
      BY <1>1, <2>4 DEF dataSink2, NothingYet, ReadWindow, KeepKin, NoLine, AddSpectrum,
         AddLastSpectrum, drawWaterfall, Goes
    <3>2. QED
      BY <2>1, <3>1 DEF AfterTheEnd
  <2>5. QED
    BY <2>2, <2>3, <2>4
<1>2. CASE Time
  <2>1. /\ UNCHANGED <<kin, jt9kin, d2, callback, at, fftKin>> /\ now' = now + 1
        /\ at = "window" => delays' = delays + 1
    BY <1>2 DEF Time, Tick, samples
  <2>2. at = "window" /\ now' + MaxDelays - delays' >= Minute
          => now + MaxDelays - delays >= Minute
    <3>1. MaxDelays \in Nat /\ now \in Nat /\ delays \in Nat /\ Minute \in Nat
      BY WaterfallAssumption, AllNumbers, Numbers, Zenon DEF WaterfallAssumption
    <3>2. QED
      BY <2>1, <3>1
  <2>3. QED
    BY <2>1, <2>2 DEF AfterTheEnd, SpanInPiece, InPiece
<1>3. CASE Terminate
  BY <1>3 DEF Terminate, applicationWillTerminate
<1>4. ASSUME UNCHANGED sink,
             \/ Callback \/ ClearBzero \/ PublishKin \/ CopySamples \/ DropBuffer
             \/ Poll \/ SetBzero \/ decodeFile
             \/ UNCHANGED seen
      PROVE  AfterTheEnd'
  <2>1. UNCHANGED <<at, fftKin, delays>>
    BY <1>4 DEF sink
  <2>2. CASE CopySamples
    <3>1. /\ UNCHANGED <<now, jt9kin>> /\ callback = "memcpy" /\ callback' = "idle"
          /\ d2' = [d2 EXCEPT ![kin] = Head(filled)]
      BY <2>2 DEF CopySamples
    <3>2. \A i \in Int : i # kin => d2'[i] = d2[i]
      BY <3>1
    <3>3. kin = jt9kin
      BY <3>1 DEF AfterTheEnd
    <3>4. ASSUME at = "fft"
          PROVE  \E b \in Int : InPiece(b, 0, jt9kin)'
      <4>1. PICK b \in Int : \A i \in 0 .. jt9kin - 1 : d2[i] < 0 \/ d2[i] = b + i
        BY <3>4 DEF AfterTheEnd, InPiece
      <4>2. \A i \in 0 .. jt9kin - 1 : d2'[i] = d2[i]
        BY <3>2, <3>3
      <4>3. QED
        BY <3>1, <4>1, <4>2 DEF InPiece
    <3>5. ASSUME at = "window", now + MaxDelays - delays >= Minute
          PROVE  SpanInPiece'
      <4>1. PICK b \in Int : \A i \in Span(fftKin) : d2[i] < 0 \/ d2[i] = b + i
        BY <3>5 DEF AfterTheEnd, SpanInPiece
      <4>2. kin \notin Span(fftKin) /\ Span(fftKin) \subseteq 0 .. fftKin - 1
        BY <3>1, <3>5, SpanIsBefore DEF AfterTheEnd, SpanInPiece
      <4>3. \A i \in Span(fftKin) : d2'[i] = d2[i]
        BY <3>2, <4>2
      <4>4. QED
        BY <2>1, <3>1, <4>1, <4>3 DEF SpanInPiece
    <3>6. QED
      BY <2>1, <3>1, <3>4, <3>5 DEF AfterTheEnd
  <2>3. CASE ~CopySamples
    <3>1. UNCHANGED <<now, jt9kin, d2>>
      BY <1>4, <2>3 DEF Callback, ClearBzero, PublishKin, DropBuffer, Poll, SetBzero,
         decodeFile, seen, samples
    <3>2. callback' = "memcpy" => callback = "memcpy" /\ kin' = kin
      BY <1>4, <2>3 DEF Callback, ClearBzero, PublishKin, DropBuffer, Poll, SetBzero,
         decodeFile, seen, device
    <3>3. QED
      BY <2>1, <3>1, <3>2 DEF AfterTheEnd, SpanInPiece, InPiece
  <2>4. QED
    BY <2>2, <2>3
<1>5. ASSUME UNCHANGED wfVars
      PROVE  AfterTheEnd'
  BY <1>5 DEF wfVars, vars, sink, device, samples, AfterTheEnd, SpanInPiece, InPiece
<1>6. QED
  BY <1>1, <1>2, <1>3, <1>4, <1>5, WaterfallSteps, Zenon

LEMMA PiecesInvariant ==
  ASSUME 2 * MaxDelays + Window < Minute
  PROVE  WaterfallSpec => []Pieces
<1>1. WaterfallInit => Pieces
  BY DEF WaterfallInit, Init, Pieces, Held
<1>2. /\ Types /\ WaterfallTypeOK /\ Keeping /\ HeardInTime /\ Calls /\ Watched /\ Pieces
      /\ [WaterfallNext]_wfVars
      => Pieces'
  <2> SUFFICES ASSUME Types, WaterfallTypeOK, Keeping, HeardInTime, Calls, Watched, Pieces,
                      [WaterfallNext]_wfVars, Timely
               PROVE  IF running' THEN Held' ELSE AfterTheEnd'
    BY DEF Pieces
  <2>1. CASE ~running
    <3>1. ~running'
      BY <2>1, WaterfallSteps DEF dataSink2, vars, Time, Tick, Terminate,
         applicationWillTerminate, Callback, ClearBzero, PublishKin, CopySamples, DropBuffer,
         Poll, SetBzero, decodeFile, seen
    <3>2. AfterTheEnd'
      BY <2>1, AfterTheEndStep DEF Pieces
    <3>3. QED
      BY <3>1, <3>2
  <2>2. CASE running
    <3>1. OnTime /\ Heard /\ Told /\ Held
      BY <2>2, Zenon DEF Keeping, HeardInTime, Heard, Pieces
    <3>2. CASE Terminate
      <4>1. ~running'
        BY <3>2 DEF Terminate, applicationWillTerminate
      <4>2. AfterTheEnd'
        BY <3>1, <3>2, TheEnd
      <4>3. QED
        BY <4>1, <4>2
    <3>3. CASE ~Terminate
      <4>1. running' = running
        BY <3>3, WaterfallSteps DEF vars, Time, Tick, Callback, ClearBzero,
           PublishKin, CopySamples, DropBuffer, Poll, SetBzero, decodeFile, seen
      <4>2. CASE aTimer = "runs"
        <5>1. InSight
          BY <2>2, <4>2 DEF Watched
        <5>2. MaxDelays < Minute
          BY WaterfallAssumption, RecorderAssumption
             DEF WaterfallAssumption, RecorderAssumption
        <5>3. Held'
          BY <2>2, <3>1, <3>3, <5>1, <5>2, SinkHolds, TimeHolds, BesideHolds, WaterfallSteps,
             Zenon
        <5>4. QED
          BY <2>2, <4>1, <5>3
      <4>3. CASE aTimer # "runs"
        <5>1. at = "idle"
          BY <2>2, <4>3 DEF Calls
        <5>2. at' = "idle"
          BY <3>3, <4>3, <5>1, WaterfallSteps DEF dataSink2, TimerFires, NothingYet,
             waterfallFFT2, ReadWindow, KeepKin, NoLine, AddSpectrum, AddLastSpectrum,
             drawWaterfall, Goes, Time, sink
        <5>3. QED
          BY <2>2, <4>1, <5>2 DEF Held
      <4>4. QED
        BY <4>2, <4>3
    <3>4. QED
      BY <3>2, <3>3
  <2>3. QED
    BY <2>1, <2>2
<1>3. QED
  BY <1>1, <1>2, RecorderInvariants, WaterfallTypeCorrect, WatchedInvariant, PTL
     DEF WaterfallSpec

\* For every length of the minute that leaves room for a spectrum and for what is
\* recorded during late calls: what was heard of a spectrum was heard in one
\* piece, also with files decoded beside the waterfall, and after the end.
THEOREM SpectraAreOfOneRecording ==
  ASSUME 2 * MaxDelays + Window < Minute
  PROVE  WaterfallSpec => SpectrumIsOfOneRecording
<1>1. /\ Types /\ WaterfallTypeOK /\ HeardInTime /\ Calls /\ Pieces
      => (ReadWindow /\ Timely /\ now >= Minute =>
            \A i, j \in Span(fftKin) :
              d2[i] >= 0 /\ d2[j] >= 0 => d2[i] - d2[j] = i - j)
  <2> SUFFICES ASSUME Types, WaterfallTypeOK, HeardInTime, Calls, Pieces,
                      at = "window", Timely, now >= Minute,
                      NEW i \in Span(fftKin), NEW j \in Span(fftKin), d2[i] >= 0, d2[j] >= 0
               PROVE  d2[i] - d2[j] = i - j
    BY Zenon DEF ReadWindow, Goes
  <2>1. now + MaxDelays - delays >= Minute
    <3>1. /\ MaxDelays \in Nat /\ now \in Nat /\ delays \in Nat /\ Minute \in Nat
          /\ delays <= MaxDelays
      BY WaterfallAssumption, AllNumbers, Numbers, Zenon DEF WaterfallAssumption, Calls
    <3>2. QED
      BY <3>1
  <2>2. SpanInPiece
    <3>1. CASE running
      BY <2>1, <3>1, EnoughIsLeft DEF HeardInTime, Heard, Pieces
    <3>2. CASE ~running
      BY <2>1, <3>2 DEF Pieces, AfterTheEnd
    <3>3. QED
      BY <3>1, <3>2
  <2>3. PICK b \in Int : \A n \in Span(fftKin) : d2[n] < 0 \/ d2[n] = b + n
    BY <2>2 DEF SpanInPiece
  <2>4. i \in Int /\ j \in Int
    BY SpanIsBefore, AllNumbers
  <2>5. d2[i] \in Int /\ d2[j] \in Int
    <3>1. fftKin \in 0 .. Capacity /\ Capacity \in Nat
      BY Numbers, Zenon DEF WaterfallTypeOK
    <3>2. i \in 0 .. Capacity - 1 /\ j \in 0 .. Capacity - 1
      BY <3>1, SpanIsBefore
    <3>3. \A n \in 0 .. Capacity - 1 : d2[n] \in {File} \cup None .. Last
      BY Zenon DEF Types, TypeOK, SamplesOK
    <3>4. \A x \in {File} \cup None .. Last : x \in Int
      BY LastIsNat DEF File, None
    <3>5. QED
      BY <3>2, <3>3, <3>4
  <2>6. d2[i] = b + i /\ d2[j] = b + j
    BY <2>3, <2>5
  <2>7. QED
    BY <2>4, <2>5, <2>6
<1>2. QED
  BY <1>1, RecorderInvariants, WaterfallTypeCorrect, WatchedInvariant, PiecesInvariant, PTL
     DEF SpectrumIsOfOneRecording


=============================================================================
