------------------------------ MODULE Waterfall ------------------------------
(***************************************************************************)
(* wideGraph.m: the waterfall, which reads what the recorder writes.       *)
(*                                                                         *)
(* Every 100 ms a timer block looks at jt9com_.kin.  When it has moved,    *)
(* dataSink2 takes the spectrum of the samples before it, adds the spectra *)
(* up, draws a line for every few of them, and writes the time next to the *)
(* first line of a minute.  The callback of the recorder goes on           *)
(* meanwhile: kin and d2 may change between any two steps of dataSink2.    *)
(***************************************************************************)
EXTENDS AudioRecorder

CONSTANTS
  waterfallAvg,  \* gSettings.m_waterfallAvg
  Window,        \* places the MAXFFT3 samples before kin lie in
  Acts,          \* the operator saves and decodes files beside the waterfall
                 \* (a bound)
  MaxDelays      \* calls of dataSink2 that last into the next unit (a bound)

ASSUME WaterfallAssumption ==
  /\ {waterfallAvg, Window} \subseteq Nat \ {0}
  /\ Minute % 2 = 0 /\ Acts \in BOOLEAN /\ MaxDelays \in Nat

VARIABLES
  aTimer,       \* the timer, made when the window is first drawn
  dataSinkBusy, \* gSettings.m_dataSinkBusy
  at,           \* where dataSink2 is
  k,            \* the kin dataSink2 saw last, a static
  fftKin,       \* the kin of waterfallFFT2, a local
  k0,           \* the kin waterfallFFT2 worked on last, a static
  iterations,   \* _nWaterfallIterations
  masterClockSec,
  wfNtr0,       \* gSettings.m_ntr0
  needUTC,      \* gSettings.m_needUTC
  delays,       \* calls that have lasted into the next unit (history)
  stamps        \* times of day written in this minute (history)

statics == <<k, k0, iterations>>
clock == <<masterClockSec, wfNtr0, needUTC>>
sink == <<aTimer, dataSinkBusy, at, fftKin, statics, clock, delays, stamps>>
wfVars == <<vars, sink>>

second == sec \div 2
Seconds == 0 .. Minute \div 2 - 1

WaterfallTypeOK ==
  /\ aTimer \in {"none", "runs", "cancelled"}
  /\ {dataSinkBusy, needUTC} \subseteq BOOLEAN /\ delays \in Nat
  /\ at \in {"idle", "fft", "window", "keep", "sum", "draw"}
  /\ {k, k0, fftKin} \subseteq 0 .. Capacity
  /\ iterations \in 0 .. waterfallAvg - 1
  /\ {masterClockSec, wfNtr0} \subseteq Seconds
  /\ stamps \in Nat

WaterfallInit ==
  /\ Init
  /\ aTimer \in {"none", "runs"}
  /\ dataSinkBusy = FALSE /\ at = "idle"
  /\ k = 0 /\ fftKin = 0 /\ k0 = 1 /\ iterations = 0
  /\ masterClockSec = 0 /\ wfNtr0 = 0 /\ needUTC = FALSE
  /\ delays = 0 /\ stamps = 0

-----------------------------------------------------------------------------
(* dataSink2, on the serial queue of the timer.                            *)

Goes(here, there) == at = here /\ at' = there

\* The timer block.  The queue is serial, no other call is in progress.
TimerFires ==
  /\ aTimer = "runs" /\ ~dataSinkBusy
  /\ jt9kin # k
  /\ Goes("idle", "fft") /\ dataSinkBusy' = TRUE
  /\ UNCHANGED <<aTimer, fftKin, statics, clock, delays, stamps>>

\* waterfallFFT2 reads kin; right after a reset it returns at once ...
NothingYet ==
  /\ Goes("fft", "keep")
  /\ jt9kin = 0
  /\ UNCHANGED <<aTimer, dataSinkBusy, fftKin, statics, clock, delays, stamps>>

\* ... and otherwise is about to read the samples before it.
waterfallFFT2 ==
  /\ Goes("fft", "window")
  /\ jt9kin > 0
  /\ fftKin' = jt9kin /\ k0' = jt9kin
  /\ UNCHANGED <<aTimer, dataSinkBusy, k, iterations, clock, delays, stamps>>

\* The places waterfallFFT2 reads, the guard j >= 0 included.
Span(n) == {i \in n - Window .. n - 1 : i >= 0}

ReadWindow ==
  /\ Goes("window", "keep")
  /\ masterClockSec' = second
  /\ UNCHANGED <<aTimer, dataSinkBusy, fftKin, statics, wfNtr0, needUTC, delays,
                 stamps>>

\* kin is read again, and may have moved.
KeepKin ==
  /\ Goes("keep", "sum")
  /\ k' = jt9kin
  /\ UNCHANGED <<aTimer, dataSinkBusy, fftKin, k0, iterations, clock, delays,
                 stamps>>

\* Mutation: dataSinkBusy is left behind.
NoLineBusy ==
  /\ Goes("sum", "idle")
  /\ jt9kin = 0
  /\ UNCHANGED <<aTimer, dataSinkBusy, fftKin, statics, clock, delays, stamps>>

NoLine ==
  /\ Goes("sum", "idle")
  /\ jt9kin = 0
  /\ dataSinkBusy' = FALSE
  /\ UNCHANGED <<aTimer, fftKin, statics, clock, delays, stamps>>

AddSpectrum ==
  /\ Goes("sum", "idle")
  /\ jt9kin > 0 /\ iterations + 1 < waterfallAvg
  /\ iterations' = iterations + 1
  /\ dataSinkBusy' = FALSE
  /\ UNCHANGED <<aTimer, fftKin, k, k0, clock, delays, stamps>>

\* The line is due; a new minute has begun when the seconds have gone back.
NewMinute == masterClockSec = 0 \/ masterClockSec < wfNtr0

\* Mutation: the second of the last line is not kept.
AddLastForgets ==
  /\ Goes("sum", "draw")
  /\ jt9kin > 0 /\ iterations + 1 >= waterfallAvg
  /\ iterations' = 0
  /\ needUTC' = (needUTC \/ NewMinute)
  /\ dataSinkBusy' = FALSE
  /\ UNCHANGED <<aTimer, fftKin, k, k0, masterClockSec, wfNtr0, delays, stamps>>

\* Mutation: the iterations are not counted from zero again.
AddLastCountsOn ==
  /\ Goes("sum", "draw")
  /\ jt9kin > 0 /\ iterations + 1 >= waterfallAvg
  /\ iterations' = iterations + 1
  /\ needUTC' = (needUTC \/ NewMinute) /\ wfNtr0' = masterClockSec
  /\ dataSinkBusy' = FALSE
  /\ UNCHANGED <<aTimer, fftKin, k, k0, masterClockSec, delays, stamps>>

AddLastSpectrum ==
  /\ Goes("sum", "draw")
  /\ jt9kin > 0 /\ iterations + 1 >= waterfallAvg
  /\ iterations' = 0
  /\ needUTC' = (needUTC \/ NewMinute) /\ wfNtr0' = masterClockSec
  /\ dataSinkBusy' = FALSE
  /\ UNCHANGED <<aTimer, fftKin, k, k0, masterClockSec, delays, stamps>>

\* drawWaterfall and paintTwoDWave.
drawWaterfall ==
  /\ Goes("draw", "idle")
  /\ needUTC' = FALSE /\ stamps' = stamps + (IF needUTC THEN 1 ELSE 0)
  /\ dataSinkBusy' = FALSE
  /\ UNCHANGED <<aTimer, fftKin, statics, masterClockSec, wfNtr0, delays>>

dataSink2 ==
  \/ TimerFires \/ NothingYet \/ waterfallFFT2 \/ ReadWindow \/ KeepKin
  \/ NoLine \/ AddSpectrum \/ AddLastSpectrum \/ drawWaterfall

-----------------------------------------------------------------------------
(* The recorder, as it is, with the waterfall beside it.                   *)

\* A call of dataSink2 lasts for less than a unit of time, and the timer fires
\* within one.
SinkInTime ==
  IF at = "idle" THEN aTimer = "runs" /\ ~dataSinkBusy => jt9kin = k
                 ELSE delays < MaxDelays

Time ==
  /\ Tick
  /\ Timely => SinkInTime
  /\ delays' = delays + (IF at = "idle" THEN 0 ELSE 1)
  /\ stamps' = IF sec' = 0 THEN 0 ELSE stamps
  /\ UNCHANGED <<aTimer, dataSinkBusy, at, fftKin, statics, clock>>

\* The timer is cancelled; a block that runs goes on.
Terminate ==
  /\ applicationWillTerminate
  /\ aTimer' = IF aTimer = "runs" THEN "cancelled" ELSE aTimer
  /\ UNCHANGED <<dataSinkBusy, at, fftKin, statics, clock, delays, stamps>>

\* The callback and its partners do not look at the waterfall.
Recorder ==
  /\ Work \/ ((aTimer = "none" \/ Acts) /\ Operator)
  /\ UNCHANGED sink

WaterfallNext ==
  /\ ~exited
  /\ \/ Recorder \/ Terminate \/ Time
     \/ dataSink2 /\ UNCHANGED vars

WaterfallSpec == WaterfallInit /\ [][WaterfallNext]_wfVars

-----------------------------------------------------------------------------
(* Properties.                                                             *)

\* A minute the recorder has heard from its beginning to its end has one time
\* of day written to the waterfall, whatever second the lines fall on; the
\* minute it was set up in, one at most.
OneStampPerMinute ==
  [][Time /\ Timely /\ running /\ aTimer = "runs" /\ sec' = 0
       => IF now' >= 2 * Minute THEN stamps = 1 ELSE stamps <= 1]_wfVars

\* No buffer is passed over: what is not shown yet of the recording that goes
\* on is so little that the next spectrum reaches back to it, although dataSink2
\* reads kin four times while it moves.
SoundIsShown ==
  Timely /\ running /\ aTimer = "runs"
    => kin - (IF k0 > kin THEN 0 ELSE k0) <= Window

\* What was heard of a spectrum was heard in one piece: nothing of the minute
\* before, and nothing of a buffer that is being copied.  (In the first minute,
\* which may be a few units long, the next one can overtake the spectrum.)
SpectrumIsOfOneRecording ==
  [][ReadWindow /\ Timely /\ now >= Minute =>
       \A i, j \in Span(fftKin) :
         d2[i] >= 0 /\ d2[j] >= 0 => d2[i] - d2[j] = i - j]_wfVars

=============================================================================
