# A formal model of the WSJT-X port in Objective-C

The program in `src/` is a Macintosh application for JT9 and JT65, weak-signal
radio modes in which stations transmit and receive in turn, one minute each. It
records until second 48 of a minute, hands the samples to the decoder `jt9` (a
process of its own) through shared memory, reads the decoded lines from a pipe,
and can answer a station with a sequence of four lines. A rig is keyed through
hamlib, the audio of a transmission is synthesised in a render callback, and a
transmission may be signed in Morse.

About 7000 lines at the top of `src/` are the program's own, in Objective-C and
Objective-C++ (`.m`, `.mm`). Everything below is about these. Almost all of the C
in the repository is `fftw-3.3.3/`, a vendored library: its 1500 files are
generated transforms without control to model, and no definition here stands for
a line of them. `jt9.m` is Fortran kept in comments, `recorder.c` a sample nobody
calls, `md4.cpp` and `md5.cpp` are third-party code, `rigControl.m` repeats
`rigClass.mm`.

## 1. Inventory

| component | state | operations | interacts with |
|---|---|---|---|
| queue dispatcher (`queueDispatcher.m`) | flags of `gSettings` (`m_monitoring`, `m_transmitting`, `m_killAll`, `m_qsoInProgress`, `m_sent73`, `m_sendCall`, `m_morseNext`), two buttons, the indicator, a `recording` flag per worker | `dispatchMonitorQueue`, `dispatchTransmitQueue`, the worker blocks, `onTick`, `onTick2`, `killAllViaTransmitQueue`, `setUpJt9` | all the others; runs on the main thread and on two concurrent GCD queues |
| decoder link (`WSJTXAppDelegate.m`, `setUpJt9`, `ipcommMac.mm`) | segment, `.lock` file, `_jt9Task`, `_args`, pipe, `_lineIn`, `_inputLines`, `outputView` | attach, start, hand over a period, read a chunk, notice that jt9 is gone | jt9, the file system |
| contact (`qsoManager.m`, `sequencer.m`, `qsoTextView.m`, `outputTextView.m`) | `_qsoLines`, `sequenceCount`, `sequenceMax`, `theMessage`, `m_hisCall` | click on a station, click on a line, answer heard, message on the air, end of a transmission | dispatcher (worker thread) and decoder lines (main thread) |
| player (`wjPlayer.m`) | `running`, `imDone`, `cwTime`, `cwC`, the audio unit | `initializePlayer`, `quitPlayer`, `morse`, two render callbacks, a watcher block | Core Audio threads, the dispatcher |
| recorder (`wjRecorder.m`) | `kin`, `bzero`, `running`, `recording`, `recordFile`, three buffers | queue callback, watcher, `startRecording`, `killRecorder` | Core Audio, the dispatcher |
| rig (`rigClass*.mm`) | PTT line, `m_test` | `clickPttOn`, `clickPttOff`, `testPTT` | hamlib |
| call list (`qsoManager.m`, `WSJTXAppDelegate.m`) | list in memory and a file | `informLog`, `initAllFiles` | the file system |
| waterfall (`wideGraph.m`, `graphLegend.m`) | `k`, `k0`, `iterations`, `m_ntr0`, `m_needUTC`, `m_dataSinkBusy`, spectra, images | `dataSink2`, `waterfallFFT2`, drawing | a timer block on a serial queue of its own; reads `kin` and `d2` while the recorder writes them |
| clock, indicator, alerts, log | colour of the indicator | drawing | |

What is hard:

* the workers share only flags, which they poll between sleeps of 50 or 100 ms:
  every flag may change between the poll and what is done about it;
* the decoder answers when it likes: before or after the next minute has begun,
  after a kill, in pieces of a line, or never;
* the link uses a file as a two-way handshake with a process that may die;
* two threads move the sequence of the exchange on;
* push-to-talk is closed in one block and opened in another;
* three threads share `kin`, `bzero` and the samples without a lock.

What makes each component correct: a keyed rig is unkeyed in time whatever is
cancelled (dispatcher, rig); a kill stops everything; a worker records once a
minute and goes on doing so; the indicator is right; every recorded period is
decoded whole and reported once, in order, with its own lines (link); the lines
of a contact go out one after the other up to the 73 (contact); no sample goes
outside of the buffers, and a file is written and closed once (recorder); no
player stays behind or is disposed of twice, and one thing is heard at a time, from
its beginning (player); every station worked is in the list once, in memory and in
the file (call list); all that is recorded is shown, and every minute has one time
of day (waterfall).

## 2. Modules

### TransmitReceive

The dispatcher with what it sees of the rig, the player and the decoder. Nothing
is locked, so the grain is the statement. A thread's place is the line of
`queueDispatcher.m` it executes next (`68` is the toggle of `m_monitoring`, `254`
the look at `m_killAll`), 0 is none, and one action is one statement. A test is one
with the single assignment it guards, but not with a call it guards; the test of
line 72 is one with the dispatch, since the block dispatched makes the same test
again before anything else. A poll is the pass through its loop that ends it.
A kill, a press or an answer can therefore fall between any two lines of a worker:
between the look at `m_killAll` and the line that clears it (254 and 69, 122 and
164), or between the line that enables the monitor button and the toggle (250 or
158, and 68).

| state | code |
|---|---|
| `sec` | the second of the minute every poll asks the clock for |
| `g` | the flags of `gSettings`, the two buttons and the indicator |
| `mem` | `mem_jt9 # NULL` |
| `mon`, `rec`, `ticks` | the place of a monitor worker, its `__block` variable `recording`, its `onTick` blocks running |
| `at` | the place of the main thread, of each worker's `onTick` past its loop, and of each transmit worker, which goes on in its `onTick2` |
| `keyedBy` | who closed the PTT line last (a history of `clickPttOn`, `clickPttOff`, `testPTT`; `m_test` is TRUE when somebody did) |
| `player`, `cwTime` | what `wjPlayer` is running, and whether the signature is due |

| actions | code |
|---|---|
| `record48SecondsAndDecode`, `transmitMessage`, `killAllViaTransmitQueue`, `testPTT`, `sendCallAfterNextTransmission`, `chooseThisThingToSay`, `startPlayer`, `quitPlayer` | the methods of those names, on the main thread: each begins when the one before is over; `KillTheRest`, `checkFor73` and `dispatchTransmitQueue(Operator)` are how they go on |
| `HearLine`, `AnswerLine` | a line with both call signs in `printHeardSignals`, at any time |
| `dispatchMonitorQueue(th)`, `dispatchTransmitQueue(th)`, `setUpJt9(th)` | the statements of these methods, on the thread that called them |
| `RecordWait`, `StopMonitoring`, `EndRecordWait`, `StartRecording`, `DispatchOnTick`, `onTick` | block of `dispatchMonitorQueue` and its `onTick` |
| `TransmitWait`, `EndTransmitWait`, `generateTonesForMessage`, `Sign`, `clickPttOn`, `Play`, `EndOfSlot`, `StopPlayer`, `clickPttOff`, `onTick2` | block of `dispatchTransmitQueue` and its `onTick2` |
| `MorseSent`, `MorseCut`, `FileEnds`, `Tick` | render callbacks and the clock |

The text of a message is abstracted to whether it is a 73. The transmit button's
enabled state is kept since the code keeps it; the operator uses only enabled
buttons, while workers and answers call the methods directly.

In this module `Timely` says that a poll that finds something to do in a second
is made in that second, with the statements that follow it: polls are 50 or 100 ms
apart, and a second is ten of them. All runs have it; the invariants proved do not
need it and hold for workers that sleep through any number of seconds.

### TransmitReceiveKill

What the kill and the monitor button can be relied on for, with one history:
`late`, the last kill met a worker that was past its look at `m_killAll` and not
yet back from the dispatch method it calls. Such a kill is undone by the worker,
or leaves `m_killAll` set while it monitors or transmits; `KillIsRespected` says
that this is the only way. `MonitorButtonMeansIdle` is about a press that comes when
every handler is over (`Settled`). Before that the button may be enabled with a
flag still set: `onTick2` enables it at 250 and clears `m_transmitting` at 251, and
a press between 158 or 250 and 68 makes one of two toggles, so that monitoring is
off when both are done, the button disabled and nothing running, until a kill. The
hazards say so; no property can exclude it.

### DecoderLink, DecodeReports

`DecoderLink` is the handshake of `.lock`, the shared memory and the pipe.
jt9 waits for `.lock` to go, decodes, prints lines and `<DecodeFinished>`, waits
for `.lock` to come back; this is external, inferred from how the source serves
it and from the Fortran in `jt9.m`.

| state | code |
|---|---|
| `mem_jt9`, `args`, `task`, `lineIn`, `inputLines` | `mem_jt9`, `_args`, `_jt9Task`, `_lineIn`, `_inputLines` |
| `shm`, `copying`, `lock` | content of the segment, a worker between `memcpy` and `unlink`, the file `.lock` |
| `pipe`, `armed` | unread output of jt9, a pending `readInBackgroundAndNotify` |
| `view` | the reports in `outputView` since it was last cleared |
| `jt9` | the process: waits, decodes, done or off |

A line and the mark are two tokens each, so that a chunk can end within them; a
token carries the number of the period it was decoded from. A report is what one
`printHeardSignals` shows.

`DecodeReports` is what this is for: periods are handed over, and every one is
reported on, once and in order, in the end. `KeepsPromise` is that specification
with `reported` replaced by the number of the last report in the view.
`DecoderLinkProofs` holds the theorems.

Assumed: the directory of `.lock` can be written to; `shmctl` on a segment just
attached succeeds (`shmget` may fail: `mem_jt9' \in BOOLEAN`); a decode takes
longer than a `memcpy`.

### QsoExchange

Extends `TransmitReceive` with the state of the contact: `built` (the lines are
made), `count` (`sequenceCount`), `message` (the line in `theMessage`), and with
what the properties need: `sent` (the last line on the air), `fresh` (a period
recorded in this minute is with the decoder) and `crossed` (a transmission asked for
was taken back, or two threads were in the dispatch methods at once). Each action is
one of `TransmitReceive` and what the same statement does to the exchange; for
example `EndTransmission(t)` is `onTick2(t)`, with `toggleXmitSequence` at line 252. An answer comes
when a period that went past second 0 is with the decoder (`fresh`), a timely
decoder; heard while no QSO is in progress it begins one, and the line it finds in
the message need not go out any more. `QsoExchangeProofs`
holds the theorems, `ContactImplementsWorkers` among them: the contact is a
behaviour of the workers, so that what is proved of these holds for it.

### AudioRecorder

The audio queue, its buffers and `d2`, from the set up of the recorder to the end
of the application. One unit of time is one buffer, half a second of samples, and
one place of `d2`; a unit is named by when it was heard, so that a period can be
compared with the time at which its recording began.

| state | code |
|---|---|
| `kin`, `bzero`, `running`, `recording`, `recordFile` | the variables of those names; `recordFile` is unset (what `malloc` left), a file that is empty or written, or one that is closed and not nil |
| `sec` | the unit of the minute the clock shows |
| `free`, `filled`, `callback` | buffers in the queue, buffers for the callback, and where the callback is: it resets `kin` and `bzero` in two steps, with the watcher in between, and makes `kin` known before it copies the samples |
| `d2`, `jt9kin`, `foreign` | `jt9com_.d2` and `jt9com_.kin`; whether a file has been read into `d2` since the last reset |
| `watcher`, `ntr0` | the watcher block, before and after its look at the clock |
| `since`, `saving` | when each `onTick` in progress began, and `jt9com_.nsave` |
| `exited` | `CheckError` has called `exit` |
| `disturbed` | a history: a second recording began beside one, or the operator did something, after which `killRecorder` may meet a file it did not open |

| actions | code |
|---|---|
| `Callback`, `ClearBzero`, `PublishKin`, `CopySamples`, `DropBuffer` | `MyAQInputCallback`, with its two early returns |
| `Poll`, `SetBzero` | the watcher of `initializeRecorder` |
| `startRecording`, `HandOver`, `Cancel`, `DecodeOwn` | `onTick` and `onTick2` as far as they touch the recorder; a recording is handed over before its end when a transmission is asked for |
| `decodeFile` | `setUpJt9` of the delegate: a file is read into `d2`, whether or not a recording goes on |
| `setM_saveAll`, `applicationWillTerminate` | the delegate |
| `Tick` | the device (external): a unit of sound fills a buffer |

`Ticks` are slots for `onTick` blocks that record: as `TransmitReceive` shows, two
monitor workers can record the same minute, and one that was cancelled is followed
by another. With saving on, each of the two calls `startRecording` and
`killRecorder`, and the second `killRecorder` closes a file that is closed, upon
which `CheckError` ends the program: `ClosesItsOwnFile` says that this, and three
acts of the operator, are the only ways. The device hands on full buffers only.
`Timely` says that no thread sleeps through half a second. `AudioRecorderProofs` holds the
theorems.

### Waterfall

Extends `AudioRecorder` with the reader of what it writes. `TimerFires` is the
timer block, every 100 ms; the other actions are the steps of `dataSink2` and
`waterfallFFT2` between two reads of `kin`, which moves meanwhile, and may be reset.

| state | code |
|---|---|
| `aTimer`, `dataSinkBusy` | the timer of `drawRect:` and `m_dataSinkBusy` |
| `at`, `fftKin` | where `dataSink2` is, and the `kin` its spectrum is taken at |
| `k`, `k0`, `iterations` | the statics of `dataSink2` and `waterfallFFT2`, the spectra summed up for the next line |
| `masterClockSec`, `wfNtr0`, `needUTC` | the second of the last spectrum, that of the last line, and that a time of day is due |
| `delays`, `stamps` | histories: calls that took longer than a unit; times of day drawn in this minute |

A spectrum is the places its samples lie in (`Span`); its numbers, and the pixels
made of them, are left out. `SinkInTime` says that the timer fires within a unit
and that a call of `dataSink2` is over by the end of it, with at most `MaxDelays`
exceptions. `WaterfallProofs` holds the theorems, `WaterfallLeavesTheRecorderAlone`
among them: with the waterfall beside it the recorder is the recorder.

### WavePlayer

Who starts and who stops the audio units. Since four threads write `running` and
`imDone` without a lock, one action is one statement wherever these are shared,
except that a callback is one step.

| state | code |
|---|---|
| `total`, `frame` | `totalDataPoints`, `startingFrameCount` |
| `running`, `imDone`, `cwTime`, `outputUnit` | the fields of `_thePlayer`; `morseNext` is `m_morseNext`, `cwC` the static of `JTWaveRenderProc` |
| `unit` | what each audio unit there is plays |
| `watcher` | the block `initializePlayer` leaves with each unit: polling, before `if(running)`, before the stop, or over |
| `at` | where the main thread and a transmit worker are in `initializePlayer` or `quitPlayer` |
| `phase` | the slot, the twelve seconds after it, the last second |
| `again`, `met`, `ended`, `torn` | histories: a unit disposed of twice; units left alone by a `quitPlayer` that found `imDone`; a file that ended by itself; a signature stopped in its middle |

| actions | code |
|---|---|
| `startPlayer`, `transmit`, `CreateUnit` (with `readFile`), `DispatchWatcher`, `SetRunning`, `ClearDone` | `initializePlayer` and its two callers |
| `quitOperator`, `quitWorker`, `StopOutput`, `SetDone` | `quitPlayer` and its two callers |
| `Poll`, `Test`, `Stop` | the watcher block |
| `WavFileRenderProc`, `TonesEnd`, `SendElement`, `MorseSent`, `MorseCut` | the two render callbacks |

`Player` is what the rest may take the player for: silent, or playing a file or
tones, and silent in between. `heard` is the refinement mapping: what the unit made
last plays while `running` is TRUE and `imDone` is not. `FileFromItsBeginning` is
about `startingFrameCount`, which only the end of `quitPlayer` resets: a file that
ended by itself leaves its place behind (`ended`), and the file played next begins
there, or is over at once. `SignatureFromItsBeginning` is the same for `cwC`, which
nothing resets but the end of a signature: one that was stopped in its middle
(`torn`) is gone on with when the next is due.

`Timely` means here that `initializePlayer` and `quitPlayer` take no time in
which another thread enters them, that a player is not started while a watcher
has something to do, and that the watcher polls for the first time after
`initializePlayer` has returned. Without it `DisposedOnce` and
`NoUnitStaysBehind` fail: `quitPlayer` called while a start or another
`quitPlayer` is in progress, or a watcher of background priority that is passed
over for so long that it meets the next player, disposes of a unit twice or of
none. What can go wrong even then is what `met` stands for: the operator, or the
worker at the end of a signature, calls `quitPlayer` in the 10 ms between the end
of a unit and its watcher. Then neither of the two stops the unit; it stays, and
the callback of a file left behind goes on setting `imDone`, which ends later
transmissions early. `WavePlayerProofs` holds the theorems.

The `player` of `TransmitReceive` is this one seen from a distance: off when
`running` is FALSE or `imDone` is TRUE, otherwise what `unit[outputUnit]` plays.

### Session

What outlives the application: its directory, the call list and the shared
memory segment, over launches, proper ends and crashes. `WriteCall` and `KnowCall`
are the two halves of `logQso`, the file and the list in memory, with a crash
possible between them. The segment is found again since its key is the same in
every session: `ftok` is given a name that is no file. `first` marks the session
that makes the directory: `initAllFiles` looks for the call list before that, so
that this session has no file to log to. `SessionProofs` holds the theorems.

### Model-checking modules

`MCTransmitReceive` adds the symmetry of the workers (safety only) and bounds what
begins on the main thread: `MaxEvents` presses of the three buttons and answers,
`MaxAsides` other acts. A dispatch that finds no slot free ends the instance
(`OutOfSlots`). `MCTransmitReceiveLive` bounds the events by `MaxEvents` (`Hears`:
lines with both call signs among them), `MCQsoExchange` by `MaxClicks` and
`MaxButtons`; both give a new worker the lowest free slot, which replaces symmetry
where liveness is checked, and have slots enough: a worker held up for want of one
would be a deadlock. `MCQsoExchange` leaves a contact where it is once it is
`crossed`. `TransmitReceiveProofs`, `TransmitReceiveKillProofs` and
`QsoExchangeProofs` hold the theorems. The other modules have few enough constants to be named by a
configuration directly.

## 3. Runs

| run | question | instance |
|---|---|---|
| `workers_safety` | Is the rig owned, does a kill that meets no worker past its look last, is the monitor button of settled workers enabled only when idle, the recording handshake kept, the indicator true and a transmission over before the next minute, in every interleaving of statements? | two monitor slots, one transmit slot, a minute of 3 seconds, two events and one other act, a file player, own transmissions decoded |
| `workers_live` | Do transmissions end, does a kill quiesce, does monitoring go on recording? | two events of any kind but a heard line, four and two slots, fair workers; the play and stop buttons are among the events |
| `reply_is_answered` | Does a QSO in progress get its turn, as the comment in `printHeardSignals` says? | violated |
| `wait_while_morse_goes` | Does `onTick2` wait only while Morse goes? | violated |
| `decoder_link_safety` | Can a period be reported twice or out of order, whatever dies, splits or comes late? | three periods, two restarts, one file |
| `decoder_link_service` | Does the link keep the promise of `DecodeReports`? | three periods of up to two signals, nothing late |
| `lock_recreated` | Does `.lock` always come back, as the comments say? | violated |
| `exchange_with_a_station` | Do lines go out in order, up to the 73, and does the contact end? | two clicks, two presses, answers at will, four monitor and two transmit slots |
| `recorder_and_waterfall` | Is what is handed over the recording of its minute, does the queue keep its buffers, is only a file of its own closed, and does the waterfall show all of it, in one piece, with one time of day a minute? | three buffers, a minute of 8 units, two minutes, every unit of a minute to start in, a window of 3, lines of 3 spectra |
| `packets_to_file` | Are the packets of a saved recording written, as the callback says? | violated |
| `player_threads` | Is a unit disposed of once, does none stay behind, do signatures and files begin at their beginning, is one thing heard at a time, is the player free again? | three units, a signature of two elements, files of up to two callbacks |
| `sessions` | Does the call list lose a call or hold one twice, whatever crashes? | three launches, two calls |

Bounds and why they are enough. A minute needs a second for its start, one
inside the slot and one after it; with 4 (or 3) and `SlotEnd` 1 every poll can
fall on either side of both limits. Two monitor workers are the smallest number
that overlap, and the wrong behaviours found need two; that two transmit workers
overlap is in the other runs of the dispatcher. Two events are enough to begin
something and to kill, withdraw or ask for it again while any statement of it is
about to be executed. The slots are a bound on how
many live at the same time; the theorems have no such bound. Three periods make
a report that is late by more than one; one file and two restarts are enough for
each of the paths that mix them. Deadlock is not checked for `DecoderLink`, whose
periods run out; its liveness is what `KeepsPromise` is for. Nor is it for
`AudioRecorder`, `Waterfall` and `Session`, whose minutes and sessions run out.

In `recorder_and_waterfall` two minutes are a first recording and one that finds
`d2`, the file and the waterfall of another; `d2` (`Capacity`) has room for two
minutes, as in the code. The `Window` of a spectrum is `MAXFFT3`, 16384 samples or
2.7 units, rounded up. `Acts = FALSE` keeps the operator from saving and from
decoding a file while the timer runs, which multiplies the states and is free
before and after. `MaxDelays` is 1: one call of `dataSink2` may take longer
than half a second. With 2 `SoundIsShown` fails, since two such calls in a row
leave more samples unread than the window of one spectrum; nothing in the
code prevents that.

Three units are the one that plays, the one that was before it and one that was
left behind; a file of up to two callbacks can be stopped in its middle.
`DoneWithinTheMinute` and `TransmissionEnds` do not speak of a worker that waits
for a signature nobody plays: with the play and stop buttons in both runs such a
worker does wait, the rig keyed, until the operator kills, and
`wait_while_morse_goes` shows it. `TransmissionEnds` says that this wait
(`WaitsInVain`) is the only way for a keyed transmission not to end. A heard line is
left out of `workers_live`; what two workers then do to each other is shown by
`reply_is_answered`.

Fairness. `dispatch_async` runs every block and `usleep` returns, so a worker
with something to do goes on (weak fairness of each worker); the clock goes on;
the audio unit calls back, so a signature is cut in the last second and a file
ends (`MorseSent` is not assumed: it depends on the length of the call sign). In
`WavePlayer` calls that have begun and watchers go on as well, and the worker
ends its transmission after the slot, once no signature is due. The
run loop delivers notifications and jt9 makes progress. Nothing is assumed of the
operator, of the stations or, in the safety runs, of the decoder.

`Prompt` (run `decoder_link_service`) is the normal service: a period comes when
the link has nothing left to do for the last one, and the operator does not press
a button while the notification of a jt9 that ended is pending. The minute leaves
12 seconds for a decode and 48 more for a slow one.

In `exchange_with_a_station` `fresh` is the same assumption for answers. A click
during a transmission, or while an answer may come, can make the sequence pass
over the line clicked; `sent` is then set so that this is the operator's. A
transmission that is taken back, by its button or by a kill, can leave two workers
asking for and withdrawing the next ones, and so can two threads in the dispatch
methods at once, each of which toggles the flags the other has just set; `crossed`
is the history of both, and excepts them from `NoLineSkipped` and `QsoEnds`. It also
stands for a withdrawal nobody meant: record, kill and record again within second
0, and two workers record the same minute; with a QSO in progress the first one's
`onTick` asks for the transmission and the second one's withdraws it, and the next
answer moves the sequence past a line that never went out. All of these are
consequences of what `reply_is_answered` shows. `EndsWith73` holds with or without,
and its theorem does not speak of `crossed`.

The fairness of `NextSecond` is strong: an answer interrupts the clock, which is
`Timely`, and there are finitely many answers in a second.

### What the violated properties show

* `QsoGetsItsTurn`: a reply printed during a recording requests a transmission;
  the `onTick` that ends because of it calls `dispatchTransmitQueue` a second
  time, which withdraws the request and starts a second monitor worker. From then
  on two `onTick` blocks request and withdraw in turn.
* `WaitsWhileMorseGoes`: with the player stopped by the operator, or busy with a
  file, the wait for the signature is a wait for nothing, with the rig keyed.
* `LockRecreated`: a second `setUpJt9` removes `.lock` before jt9 has seen it
  come back; jt9 and the application wait for each other.
* `PacketsAreWritten`: the line of `startRecording` that would set `recording` is
  a comment; the file of a saved recording is made and closed, and stays empty.

## 4. Proofs

`TransmitReceiveProofs` proves, for any sets of workers, any minute and any
values of the switches that satisfy the three assumptions of `TransmitReceive`:

| theorem | establishes |
|---|---|
| `TypeCorrect` | `Spec => []TypeOK` |
| `RigOwned` | `Spec => []RigHasAnOwner` |
| `RecordingHandshake` | `Spec => []OneRecordingPerMonitor` |
| `LightShowsTheTruth` | `Spec => []LightIsTrue` |
| `TransmissionsEndInTime` | `Spec => DoneWithinTheMinute`, if `Timely` |

A thread's place says which statement it may execute, so the proofs are about
places. `Steps` names the steps, one group for each method and block; `Elsewhere`
says that nobody but the thread itself moves it, except that `StartTransmitter`
takes a free slot. `TypeOK` is inductive with `NoneLost` (an `onTick` past its loop
is counted in `ticks`). `RigHasAnOwner`: only `clickPttOn` sets `keyedBy` to a worker,
a worker leaves `OnAirLines` by `clickPttOff` alone, and there the line is opened,
whoever keyed it last. `OneRecordingPerMonitor` relates three variables of a worker:
a slot without an `onTick` may be waiting, one with an `onTick` may not claim
`recording`. `LightIsTrue` holds because the last `onTick` or `onTick2` to go sets
the light itself, and does so before it goes (`RedStays`, `YellowStays`).
`DoneWithinTheMinute` needs no invariant but the types: when polls are in time the
clock passes the last second only if no worker has anything left to do in it and
no cut is due, and that leaves the wait for a signature nobody plays. The last part,
`StepFlow`, describes every step as a move of one thread from line to line and
what it makes of the three flags and the monitor button (`Become`); the two
proofs that follow go on from it.

`TransmitReceiveKillProofs` proves, under the same assumptions,

| theorem | establishes |
|---|---|
| `KillLasts` | `KillSpec => []KillIsRespected` |
| `ButtonMeansIdle` | `KillSpec => []MonitorButtonMeansIdle` |

The invariant is `KillInv`. While a kill lasts nobody is past its look at
`m_killAll` (`NobodyPast`), since whoever looks now finds it set; so nobody but the
main thread can clear it, and what the kill has done so far stays done
(`KillHolds`, line by line of `killAllViaTransmitQueue`). `ButtonOwed` is for the
button: it is enabled while a flag is set only if some thread is still going to
disable it or to clear the flag (`Owes`), and when all are `Settled` there is no such
thread. A thread owes it over up to six statements, during which any other may
toggle `m_monitoring` or enable the button, but only after it came to owe the same.
The assumption `late` is needed: TLC finds both properties violated without it,
by a kill that meets an `onTick` between its look at 122 and the button at 181.

`SessionProofs` proves, for any set of calls and any number of sessions, from
`SessionAssumption` (no call is `nil`):

| theorem | establishes |
|---|---|
| `CallsRemembered` | `Spec => []NothingForgotten` |
| `CallsOnce` | `Spec => []NoCallTwice` |
| `SessionTypeCorrect` | `Spec => []TypeOK` |

Neither of the first two is inductive: `NoCallTwice` speaks of the file, `logQso` looks at
the memory. `ListInv` relates the two: while the application is up the memory has
all of the file, between the two writes it lacks the call of the contact alone,
and what was announced is in the file, for a session that did not make the
directory has a file. `AppendNew` says what appending a new call does to a list
without repetitions.

`QsoExchangeProofs` proves, for any workers, any minute and any acts of the
operator, from the assumptions of `TransmitReceive`:

| theorem | establishes |
|---|---|
| `ContactImplementsWorkers` | `ExchangeSpec => Spec` |
| `ContactTypeCorrect` | `ExchangeSpec => []ExchangeTypeOK` |
| `ContactEndsWith73` | `ExchangeSpec => EndsWith73` |
| `LinesGoOutInOrder` | `ExchangeSpec => NoLineSkipped`, if `Timely` |

The first takes every theorem of `TransmitReceiveProofs` over to a contact.
`EndsWith73` is about a step; what makes it inductive is `Carried`: while
something is on the air and `m_sent73` is set, the line that was keyed last is
the 73. `m_sent73` is set when the line is keyed and read when its slot is over;
the line in `theMessage` may be another one by then.

`NoLineSkipped` is about the two threads that move the sequence. `Passing` says why
they never both do it for one line, as long as nothing is withdrawn: there is one
transmit worker while a transmission is asked for, and none otherwise
(`OneAtATime`); no answer is heard while it is on the air, since it is keyed in
second 0 and every recording of that minute gives way to it before second 1
(`HeardBetween`, where `Timely` is used); and the line in the message has been on
the air whenever it is to be moved on, by the end of a transmission or by an
answer during a QSO nothing is asked for in (`NextInLine`). `InStep` keeps
`sequenceCount` and the line in the message together.

`DecoderLinkProofs` proves, for any number of periods, lines, files and launches:

| theorem | establishes | assumed |
|---|---|---|
| `LinkTypeCorrect` | `Spec => []TypeOK` | |
| `PeriodsAreReportedOnce` | `Spec => []NoPeriodReportedTwice` | |
| `PeriodsAreDecodedWhole` | `Spec => []DecodesWholePeriods` | `Prompt`, no crashes, no files |
| `ReportsHaveTheirOwnLines` | `Spec => []LinesBelongToTheirPeriod` | these, and lines read whole |
| `LinkImplementsReports` | `Spec => Reports!Init /\ [][Reports!Next]_(Reports!vars)` | these, and lines read whole |

The first two hold wherever a chunk ends, whenever jt9 dies and however late it is.
`PeriodsAreReportedOnce` rests on `Unreported`, five statements about everything
between the recorder and the view: nothing is of a period not yet handed over
(`OfThePast`), the two halves of a mark are of one period (`MarksAreWhole`), marks
on the pipe are in order among themselves and come after what is shown
(`MarksInOrder`, `MarksAfterView`), and what jt9 decodes, or will find when
`.lock` goes, has no mark anywhere (`JobIsNew`). Each is needed by the next
stage of the way: a report is new because its mark was, a mark because the job
was, a job because the segment was filled after `.lock` came back. The
other three add `Attended` (what jt9 is doing follows from `.lock`, the segment
and the notification pending), `Cycle` (one period is under way at a time, and
all before it have been reported) and `Clean` (the lines read and not yet shown,
and those on the pipe before the next mark, are of that period). No assumption
can be dropped: with a late decoder, a crash or a file TLC finds a period that is
not decoded whole, with chunks that end within a line a report that shows half a
line of the period before. `KeepsPromise` is
`LinkImplementsReports` with fairness, and that half stays with TLC.

`AudioRecorderProofs` proves, for any minute, slot, size of `d2` and number of
buffers that satisfy `RecorderAssumption`:

| theorem | establishes |
|---|---|
| `RecorderTypeCorrect` | `Spec => []TypeOK`: no sample goes past the end of `d2` |
| `ClosesOnlyItsOwnFile` | `Spec => []ClosesItsOwnFile` |
| `NoBufferIsLost` | `Spec => []NoBufferLost` |
| `PeriodsAreOfTheirMinute` | `Spec => PeriodIsOfThisMinute` |

`Types` adds to `TypeOK` that the callback has asked for room when it copies; the
bound of `d2` holds only because `kin` is not moved between the two but by a reset.
`Files`: a recording that was to be saved from its beginning on has a file open.
`NoBufferLost` speaks of `Timely` threads. `OnTime` says how far `kin` can be
ahead of the clock: never by more than what waits in `filled`, except between the
turn of the minute and the next poll of the watcher (`TurnUnseen`) and the next
callback (`bzero`), where it is still the `kin` of the last minute. That
one minute and two units fit into `d2` is all that is needed of `Capacity`.
`PeriodIsOfThisMinute` adds what is in the places to how many there are: they
follow one after the other from `Base` on (`Consecutive`), the buffer that waits
was filled last (`NewestLast`), and since the minute turned `Base` is its
beginning or the unit before it (`FromTheTurn`), one unit being the watcher's
delay. `RecordingGoesOn` ties the recording to this: it began when the minute
turned, and the clock cannot pass its slot without its `onTick`.

`WaterfallProofs` proves, for the same constants, any window of a spectrum, any
number of spectra to a line and any number of late calls:

| theorem | establishes | assumed |
|---|---|---|
| `WaterfallLeavesTheRecorderAlone` | `WaterfallSpec => Spec` | |
| `WaterfallTypeCorrect` | `WaterfallSpec => []WaterfallTypeOK` | |
| `AllSoundIsShown` | `WaterfallSpec => []SoundIsShown` | `Window >= MaxDelays + 2` |
| `SpectraAreOfOneRecording` | `WaterfallSpec => SpectrumIsOfOneRecording` | `2 * MaxDelays + Window < Minute` |

The first takes the theorems about the recorder over, and its invariants, which the
others go on from. The code meets both assumptions: its window is three units
long and its minute 120, with one call of `dataSink2` that lasts into the next
unit; the first cannot be weaker, TLC finds a buffer passed over with a window
of 3 and two late calls. `Heard` says what a reader of `kin` and `d2` can rely on
between any two steps of the callback: which buffer the `kin` made known is of
(`Told`), that the places before `kin` are of one recording (`OfOneRecording`),
that a reset comes after a whole minute, but for the first (`BeginsAnew`), and
what is left of the minute before where the new one has not come yet
(`Overtaken`). `SoundIsShown` needs in addition `InSight`: how far `k`, `fftKin` and
`k0` can be behind the recorder at each of the four places where `dataSink2` reads
`kin`, counted in late calls (`Behind`). `SpectrumIsOfOneRecording` needs `Held`:
while a call is about to read a spectrum its places are of the recording that
goes on, or of the last one, with room left for what the late calls allow to
be overwritten; `AfterTheEnd` says the same when the application has ended and the
callback finishes its buffer. Files decoded meanwhile do no harm: they take samples
away but put none of another recording there.

`WavePlayerProofs` proves, for any set of units and any length of a signature:

| theorem | establishes | assumed |
|---|---|---|
| `PlayerTypeCorrect` | `Spec => []TypeOK` | |
| `UnitsAreDisposedOnce` | `Spec => []DisposedOnce` | `Timely` |
| `UnitsAreNotLeft` | `Spec => []NoUnitStaysBehind` | `Timely` |
| `WavePlayerImplementsPlayer` | `Spec => PlaysOneThingAtATime` | `Timely` |
| `SignaturesBeginAtTheirBeginning` | `Spec => SignatureFromItsBeginning` | `Timely` |
| `FilesBeginAtTheirBeginning` | `Spec => FileFromItsBeginning` | `Timely` |

The code has no lock, so the invariant is about where everybody is. `OneCall`:
one caller is inside `initializePlayer` or `quitPlayer`, and its place
determines `running`. `OneWatcher`: only the unit made last is watched, and its
watcher goes on to the stop because `imDone` is set. `OneDisposer`: whoever is
about to dispose of a unit finds it there, and a unit nobody will dispose of is
one in `met`. They are proved together: that the watcher is alone needs the
places of the callers, and that a caller finds its unit needs the watcher.
`Beginnings` is about the two counters that outlive their player: a signature
that has begun is heard until its player is done and the minute over, or was torn
off (`SignatureGoesOn`); a place in a file is not 0 only while the file plays or is
being stopped, or when it ended by itself or was left behind (`PlaceIsKnown`, with
`FileIsOver` and `TonesArePlayed` for who set `imDone`). It needs the three
above: that nobody else stops the player is theirs.

Only model-checked: `OneStampPerMinute`, which is true of lines of three spectra and
of few others (with lines of one spectrum two fall on second 0, with long lines
none in a minute), so that a theorem would have to count the spectra between any
two lines; and the liveness properties
(`TransmissionEnds`, `KillQuiesces`, `MonitoringRecords`, `QsoEnds`,
`PlayerIsReleased`, the fairness of `KeepsPromise`): liveness under fairness is out
of the prover's reach.

## 5. Not modelled, and the plan

Left out for good: drawing (`graphLegend.m` and the pixels of the waterfall), the
numbers of a spectrum (floating point), tone generation (not in the repository),
the vendored fftw (called for one transform, without state of its own), the
console pipe, hamlib's results, the loop of `attach` that tries addresses. The
length of a text is not part of a model, so the buffers of fixed length that
hold one (`wjPlayer.m`, `graphLegend.m`) are listed as hazards only.

What could come next:

1. a click on a line split into its steps, against `toggleXmitSequence` on a
   worker: this needs a model of what `NSMutableArray` does under two threads;
2. `player` of `TransmitReceive` as a refinement of `WavePlayer`;
3. `OneStampPerMinute` as a theorem, for the lengths of a line it is true of.

The hazards of these parts are listed with their lines in `PROJECT.json`.
