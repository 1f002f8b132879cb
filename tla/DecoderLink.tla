---------------------------- MODULE DecoderLink ----------------------------
(***************************************************************************)
(* The link between the application and the decoder jt9, a process of its  *)
(* own.  setUpJt9 (queueDispatcher.m, on a worker; WSJTXAppDelegate.m for  *)
(* a file, on the main thread) copies a period into the shared memory and  *)
(* removes the file .lock; jt9 waits for that, decodes, prints a line for  *)
(* every signal and then <DecodeFinished> to its standard output, and      *)
(* waits for .lock to come back.  The application reads the pipe in chunks *)
(* (dataReady, appendData), creates .lock and shows the lines when it      *)
(* meets the mark, and starts jt9 again when it finds it gone.             *)
(*                                                                         *)
(* jt9 is not in the repository.  Its four actions are what the protocol   *)
(* in the source, and the Fortran kept as comments in jt9.m, ask of it.    *)
(***************************************************************************)
EXTENDS Integers, Sequences

CONSTANTS
  MaxLines,  \* most signals in a period (a bound)
  Periods,   \* periods recorded (a bound)
  Launches,  \* how often jt9 can be started again (a bound)
  Files,     \* decodes of a file the operator asks for (a bound)
  Crashes,   \* TRUE: jt9 may die
  Splits,    \* TRUE: a chunk read from the pipe may end anywhere
  Prompt     \* TRUE: a period is dealt with before the next is over

ASSUME BoundAssumption == {MaxLines, Periods, Launches, Files} \subseteq Nat
ASSUME SwitchAssumption == {Crashes, Splits, Prompt} \subseteq BOOLEAN

VARIABLES
  mem_jt9,     \* mem_jt9 # NULL
  shm,         \* the period in the shared memory, 0 for none or a file
  copying,     \* a worker is inside setUpJt9, between memcpy and unlink
  handed,      \* number of the last period handed over
  lock,        \* the file .lock exists
  args,        \* _args: what jt9 is started with
  task,        \* _jt9Task # nil
  jt9,         \* the process
  pipe,        \* what it has printed and nobody has read
  armed,       \* a readInBackgroundAndNotify is pending
  lineIn,      \* _lineIn
  inputLines,  \* _inputLines
  view,        \* the reports in outputView since it was last cleared
  launches,    \* what is left of Launches
  files        \* what is left of Files

process == <<args, task, jt9, pipe, armed, view, launches>>
text    == <<lineIn, inputLines>>
vars    == <<mem_jt9, shm, copying, handed, lock, process, text, files>>

\* A printed line, and the mark, are two tokens each; the second one has the
\* end of the line.  A token names the period it was decoded from.
Line(p) == << [kind |-> "head", of |-> p], [kind |-> "tail", of |-> p] >>
Mark(p) == << [kind |-> "<Decode", of |-> p], [kind |-> "Finished>", of |-> p] >>

Tokens ==
  [kind : {"head", "tail", "<Decode", "Finished>"}, of : 0 .. Periods]
EndsLine(token) == token.kind \in {"tail", "Finished>"}

TypeOK ==
  /\ mem_jt9 \in BOOLEAN /\ copying \in BOOLEAN /\ lock \in BOOLEAN
  /\ task \in BOOLEAN /\ armed \in BOOLEAN
  /\ shm \in 0 .. Periods /\ handed \in 0 .. Periods
  /\ args \in {"shared", "file"}
  /\ jt9 \in [state : {"off", "waits", "decodes", "done"},
              mode : {"shared", "file"}, job : 0 .. Periods, left : 0 .. MaxLines]
  /\ pipe \in Seq(Tokens)
  /\ lineIn \in Seq(Tokens)
  /\ inputLines \in Seq(Seq(Tokens))
  /\ view \in Seq([of : 0 .. Periods, lines : Seq(Seq(Tokens))])
  /\ launches \in 0 .. Launches /\ files \in 0 .. Files

Off == [state |-> "off", mode |-> "shared", job |-> 0, left |-> 0]

-----------------------------------------------------------------------------
(* Starting jt9, and attaching the shared memory.                          *)

\* The process started by startJt9Task; in file mode it needs no .lock.
NewProcess(a) ==
  IF a = "file" THEN {[state |-> "decodes", mode |-> "file", job |-> 0,
                       left |-> n] : n \in 0 .. MaxLines}
                ELSE {[Off EXCEPT !.state = "waits"]}

\* Mutation: jt9 prints to the pipe that is there.
LaunchOnOldPipe(a) ==
  /\ launches > 0 /\ launches' = launches - 1
  /\ task' = TRUE
  /\ jt9' \in NewProcess(a)
  /\ pipe' = pipe /\ armed' = TRUE

\* A new pipe replaces the old one with all that was left in it.
Launch(a) ==
  /\ launches > 0 /\ launches' = launches - 1
  /\ task' = TRUE
  /\ jt9' \in NewProcess(a)
  /\ pipe' = <<>> /\ armed' = TRUE

\* Nothing happens when the task is still there.
startJt9Task(a) ==
  /\ args' = a
  /\ IF task THEN UNCHANGED <<task, jt9, pipe, armed, launches>> ELSE Launch(a)
  /\ view' = IF task THEN view ELSE <<>>

\* a: the arguments jt9 would be started with; shmget may fail.
Attach(a) ==
  \/ mem_jt9 /\ mem_jt9' = TRUE /\ a = args
  \/ ~mem_jt9 /\ mem_jt9' \in BOOLEAN /\ a = "shared"

setUpAndAttachSharedMemory ==
  /\ \E a \in {args, "shared"} : Attach(a) /\ startJt9Task(a)
  /\ lock' = IF mem_jt9 THEN lock ELSE TRUE

\* Mutation: init does not call setUpAndAttachSharedMemory.
InitUnattached ==
  /\ mem_jt9 = FALSE /\ shm = 0 /\ copying = FALSE /\ handed = 0
  /\ lock = FALSE
  /\ args = "nil" /\ task = FALSE
  /\ jt9 = Off
  /\ pipe = <<>> /\ armed = FALSE
  /\ lineIn = <<>> /\ inputLines = <<>> /\ view = <<>>
  /\ launches = Launches /\ files = Files

\* WSJTXAppDelegate's init attaches, starts jt9 and then sets mem_jt9 to NULL.
Init ==
  /\ mem_jt9 = FALSE /\ shm = 0 /\ copying = FALSE /\ handed = 0
  /\ lock = TRUE
  /\ args = "shared" /\ task = TRUE
  /\ jt9 \in NewProcess("shared")
  /\ pipe = <<>> /\ armed = TRUE
  /\ lineIn = <<>> /\ inputLines = <<>> /\ view = <<>>
  /\ launches = Launches /\ files = Files

\* record48SecondsAndDecode, transmitMessage: what they do to the link.
Press ==
  /\ Prompt => ~(task /\ jt9.state = "off")
  /\ setUpAndAttachSharedMemory
  /\ UNCHANGED <<shm, copying, handed, text, files>>

-----------------------------------------------------------------------------
(* Handing a period over.                                                  *)

\* Something is left to do about the last period.
Busy ==
  \/ armed /\ pipe # <<>>
  \/ jt9.state = "decodes"
  \/ jt9.state = "waits" /\ ~lock
  \/ jt9.state = "done" /\ lock

\* Mutation: unlink before memcpy.
UnlinkFirst ==
  /\ mem_jt9 /\ ~copying /\ handed < Periods
  /\ Prompt => ~Busy
  /\ handed' = handed + 1
  /\ shm' = handed + 1
  /\ copying' = TRUE
  /\ lock' = FALSE
  /\ UNCHANGED <<mem_jt9, process, text, files>>

\* setUpJt9 on a worker at the end of a recording: the copy...
CopyPeriod ==
  /\ mem_jt9 /\ ~copying /\ handed < Periods
  /\ Prompt => ~Busy
  /\ handed' = handed + 1
  /\ shm' = handed + 1
  /\ copying' = TRUE
  /\ UNCHANGED <<mem_jt9, lock, process, text, files>>

\* ... and the unlink.
ReleasePeriod ==
  /\ copying
  /\ copying' = FALSE
  /\ lock' = FALSE
  /\ UNCHANGED <<mem_jt9, shm, handed, process, text, files>>

\* setUpJt9 without its memory interrupts jt9.
InterruptDecoder ==
  /\ ~mem_jt9 /\ jt9.state # "off"
  /\ jt9' = Off
  /\ UNCHANGED <<mem_jt9, shm, copying, handed, lock, args, task, pipe, armed,
                 view, text, launches, files>>

\* putDecodeTextIntoFileandUseSharedMemory, unless the file cannot be read:
\* the memory holds a file.
DecodeFileShared ==
  /\ files > 0 /\ files' = files - 1
  /\ \E a \in {args, "shared"} : Attach(a) /\ startJt9Task(a)
  /\ \/ mem_jt9' /\ shm' = 0 /\ lock' = FALSE
     \/ mem_jt9 /\ shm' = shm /\ lock' = lock
     \/ ~mem_jt9 /\ shm' = shm /\ lock' = TRUE
  /\ UNCHANGED <<copying, handed, text>>

\* getDecodeTextFromFile leaves the arguments for a file behind.
getDecodeTextFromFile ==
  /\ files > 0 /\ files' = files - 1
  /\ startJt9Task("file")
  /\ UNCHANGED <<mem_jt9, shm, copying, handed, lock, text>>

-----------------------------------------------------------------------------
(* jt9 (external).                                                         *)

BeginDecode ==
  /\ jt9.state = "waits" /\ ~lock
  /\ \E n \in 0 .. MaxLines :
       jt9' = [jt9 EXCEPT !.state = "decodes", !.job = shm, !.left = n]
  /\ UNCHANGED <<mem_jt9, shm, copying, handed, lock, args, task, pipe, armed,
                 view, text, launches, files>>

PrintSignal ==
  /\ jt9.state = "decodes" /\ jt9.left > 0
  /\ jt9' = [jt9 EXCEPT !.left = @ - 1]
  /\ pipe' = pipe \o Line(jt9.job)
  /\ UNCHANGED <<mem_jt9, shm, copying, handed, lock, args, task, armed, view,
                 text, launches, files>>

\* Decoding takes longer than a copy of the memory.
PrintMark ==
  /\ jt9.state = "decodes" /\ jt9.left = 0 /\ ~copying
  /\ jt9' = IF jt9.mode = "file" THEN Off ELSE [jt9 EXCEPT !.state = "done"]
  /\ pipe' = pipe \o Mark(jt9.job)
  /\ UNCHANGED <<mem_jt9, shm, copying, handed, lock, args, task, armed, view,
                 text, launches, files>>

SeeLock ==
  /\ jt9.state = "done" /\ lock
  /\ jt9' = [Off EXCEPT !.state = "waits"]
  /\ UNCHANGED <<mem_jt9, shm, copying, handed, lock, args, task, pipe, armed,
                 view, text, launches, files>>

Crash ==
  /\ Crashes /\ jt9.state # "off"
  /\ jt9' = Off
  /\ UNCHANGED <<mem_jt9, shm, copying, handed, lock, args, task, pipe, armed,
                 view, text, launches, files>>

-----------------------------------------------------------------------------
(* The notifications, on the main thread.                                  *)

taskTerminated ==
  /\ task /\ jt9.state = "off"
  /\ task' = FALSE
  /\ UNCHANGED <<mem_jt9, shm, copying, handed, lock, args, jt9, pipe, armed,
                 view, text, launches, files>>

\* A chunk: all that is there up to some point.
Chunks ==
  {SubSeq(pipe, 1, n) : n \in {k \in 1 .. Len(pipe) : Splits \/ EndsLine(pipe[k])}}

\* Where [s rangeOfString:@"<DecodeFinished>"] finds the mark.
MarksIn(chunk) ==
  {i \in 1 .. Len(chunk) - 1 : chunk[i].kind = "<Decode"
                               /\ chunk[i + 1].kind = "Finished>"}

\* printHeardSignals: a report is shown.  A line that calls for an answer ends
\* in transmitMessage, which starts a jt9 that is gone and empties the view in
\* the middle of the report.
printHeardSignals(chunk, i) ==
  \/ /\ view' = Append(view, [of |-> chunk[i].of, lines |-> inputLines])
     /\ pipe' = SubSeq(pipe, Len(chunk) + 1, Len(pipe))
     /\ armed' = task
     /\ UNCHANGED <<mem_jt9, args, task, jt9, launches>>
  \/ /\ ~task
     /\ \E a \in {args, "shared"} : Attach(a) /\ args' = a /\ Launch(a)
     /\ \E n \in 1 .. Len(inputLines) :
          view' = << [of |-> chunk[i].of,
                      lines |-> SubSeq(inputLines, n, Len(inputLines))] >>

\* Mutation: _inputLines is not emptied.
KeepLines(chunk) ==
  /\ lock' = TRUE
  /\ \E i \in MarksIn(chunk) : printHeardSignals(chunk, i)
  /\ UNCHANGED text

\* Mutation: .lock is not created.
ForgetLock(chunk) ==
  /\ lock' = lock
  /\ \E i \in MarksIn(chunk) : printHeardSignals(chunk, i)
  /\ inputLines' = <<>> /\ lineIn' = lineIn

\* appendData with the mark: .lock comes back and the lines read before are
\* shown; the rest of this chunk is dropped.
ShowReport(chunk) ==
  /\ lock' = TRUE
  /\ \E i \in MarksIn(chunk) : printHeardSignals(chunk, i)
  /\ inputLines' = <<>> /\ lineIn' = lineIn

\* appendData without the mark: a chunk with an end of line completes a line.
CollectText(chunk) ==
  LET joined == lineIn \o chunk
      ends   == \E i \in 1 .. Len(chunk) : EndsLine(chunk[i])
  IN  /\ IF ends THEN inputLines' = Append(inputLines, joined) /\ lineIn' = <<>>
                 ELSE inputLines' = inputLines /\ lineIn' = joined
      /\ pipe' = SubSeq(pipe, Len(chunk) + 1, Len(pipe))
      /\ armed' = task
      /\ UNCHANGED <<mem_jt9, lock, args, task, jt9, view, launches>>

dataReady ==
  /\ armed
  /\ \E chunk \in Chunks :
       \/ MarksIn(chunk) # {} /\ ShowReport(chunk)
       \/ MarksIn(chunk) = {} /\ CollectText(chunk)
  /\ UNCHANGED <<shm, copying, handed, files>>

-----------------------------------------------------------------------------
Worker == CopyPeriod \/ ReleasePeriod \/ InterruptDecoder

Operator == Press \/ DecodeFileShared \/ getDecodeTextFromFile

Decoder == BeginDecode \/ PrintSignal \/ PrintMark \/ SeeLock

Next ==
  Operator \/ Worker \/ Decoder \/ Crash \/ taskTerminated \/ dataReady

Spec == Init /\ [][Next]_vars

\* The run loop delivers notifications, a worker inside setUpJt9 goes on, and
\* jt9 makes progress; nothing is assumed of the operator.
Fairness ==
  WF_vars(ReleasePeriod) /\ WF_vars(Decoder) /\ WF_vars(dataReady)

FairSpec == Spec /\ Fairness

-----------------------------------------------------------------------------
(* Properties.                                                             *)

\* The reports in the view are of periods in the order of their recording and
\* no period is reported on twice, whatever splits, dies or comes late
\* (reports on files, of period 0, apart).
NoPeriodReportedTwice ==
  \A i, j \in 1 .. Len(view) :
    i < j /\ view[i].of > 0 /\ view[j].of > 0 => view[i].of < view[j].of

\* A decoder in the middle of a period has that period, all of it, in the
\* shared memory for as long as it works on it.
DecodesWholePeriods ==
  jt9.state = "decodes" => ~copying /\ jt9.job = shm

\* The lines shown in a report were decoded from the period reported on.
LinesBelongToTheirPeriod ==
  \A i \in 1 .. Len(view) : \A k \in 1 .. Len(view[i].lines) :
    LET line == view[i].lines[k]
    IN  \A n \in 1 .. Len(line) : line[n].of = view[i].of

\* "lock file recreated by intercepting <DecodeFinished> in the stdio pipe in
\* main": a .lock that is missing is created again.
LockRecreated == ~lock ~> lock

\* The link keeps the promise of DecodeReports.
Reports ==
  INSTANCE DecodeReports
    WITH reported <- IF view = <<>> THEN 0 ELSE view[Len(view)].of

KeepsPromise == Reports!Spec

=============================================================================
