------------------------- MODULE DecoderLinkProofs -------------------------
(***************************************************************************)
(* Theorems about the link to the decoder, for every number of periods,    *)
(* lines and launches.  Types and the order of the reports hold whatever   *)
(* chunks the pipe is read in and whenever jt9 dies; the others are about  *)
(* a decoder in time that does not die.                                    *)
(***************************************************************************)
EXTENDS DecoderLink, SequenceTheorems, TLAPS

Kinds == {"head", "tail", "<Decode", "Finished>"}
Texts == Seq(Seq(Tokens))
Reported == [of : 0 .. Periods, lines : Texts]
Processes == [state : {"off", "waits", "decodes", "done"},
              mode : {"shared", "file"}, job : 0 .. Periods, left : 0 .. MaxLines]

-----------------------------------------------------------------------------
(* The inductive invariant.                                                *)

\* Period p was recorded before period q, or one of them is a file.
Older(p, q) == p > 0 /\ q > 0 => p < q

\* A token that ends a report.
Ends(k) == pipe[k].kind = "Finished>"

\* The view, and the marks on the pipe, are of periods before p.
ViewOlder(p) == \A i \in 1 .. Len(view) : Older(view[i].of, p)
PipeOlder(p) == \A k \in 1 .. Len(pipe) : Ends(k) => Older(pipe[k].of, p)
AllOlder(p)  == ViewOlder(p) /\ PipeOlder(p)

\* Nothing is of a period that has not been handed over.
OfThePast ==
  /\ \A i \in 1 .. Len(view) : view[i].of <= handed
  /\ \A k \in 1 .. Len(pipe) : pipe[k].of <= handed
  /\ shm \in {0, handed}
  /\ jt9.job <= handed

\* A mark is printed whole, from one period.
MarksAreWhole ==
  \A k \in 1 .. Len(pipe) :
    pipe[k].kind = "<Decode" => k < Len(pipe) /\ pipe[k + 1].of = pipe[k].of

\* The marks on the pipe are in the order of the periods, after those shown.
MarksInOrder ==
  \A k, l \in 1 .. Len(pipe) :
    k < l /\ Ends(k) /\ Ends(l) => Older(pipe[k].of, pipe[l].of)
MarksAfterView ==
  \A k \in 1 .. Len(pipe) : Ends(k) => ViewOlder(pipe[k].of)

\* What jt9 decodes, or may begin to decode, has not been reported on and is
\* not about to be.
JobIsNew ==
  /\ jt9.state = "decodes" => AllOlder(jt9.job)
  /\ copying => AllOlder(shm)
  /\ jt9.state = "waits" /\ ~lock => AllOlder(shm)
  /\ ~lock => ViewOlder(shm)

Unreported ==
  OfThePast /\ MarksAreWhole /\ MarksInOrder /\ MarksAfterView /\ JobIsNew
  /\ NoPeriodReportedTwice

-----------------------------------------------------------------------------
(* What the operators return.                                              *)

LEMMA Bounds == Periods \in Nat /\ MaxLines \in Nat /\ Launches \in Nat /\ Files \in Nat
BY BoundAssumption

LEMMA ProcessMade ==
  ASSUME NEW a, NEW q \in NewProcess(a)
  PROVE  /\ q \in Processes /\ q.job = 0
         /\ q.state \in {"waits", "decodes"}
         /\ q.state = "waits" => q.mode = "shared"
BY Bounds DEF NewProcess, Off, Processes

LEMMA ProcessChanged ==
  ASSUME NEW q \in Processes, NEW p \in 0 .. Periods, NEW n \in 0 .. MaxLines
  PROVE  /\ Off \in Processes /\ [Off EXCEPT !.state = "waits"] \in Processes
         /\ [q EXCEPT !.left = n] \in Processes /\ [q EXCEPT !.state = "done"] \in Processes
         /\ [q EXCEPT !.state = "decodes", !.job = p, !.left = n]
              = [state |-> "decodes", mode |-> q.mode, job |-> p, left |-> n]
<1>1. Off \in Processes /\ [Off EXCEPT !.state = "waits"] \in Processes
  BY Bounds DEF Off, Processes
<1>2. [q EXCEPT !.left = n] \in Processes /\ [q EXCEPT !.state = "done"] \in Processes
  BY DEF Processes
<1>3. [q EXCEPT !.state = "decodes", !.job = p, !.left = n]
        = [state |-> "decodes", mode |-> q.mode, job |-> p, left |-> n]
  <2> DEFINE r == [q EXCEPT !.state = "decodes", !.job = p, !.left = n]
  <2>1. r \in Processes
    BY DEF Processes
  <2>2. r.state = "decodes" /\ r.mode = q.mode /\ r.job = p /\ r.left = n
    BY DEF Processes
  <2> HIDE DEF r
  <2>3. r = [state |-> "decodes", mode |-> q.mode, job |-> p, left |-> n]
    BY <2>1, <2>2 DEF Processes
  <2> QED
    BY <2>3 DEF r
<1> QED
  BY <1>1, <1>2, <1>3

\* Printing adds two tokens of the period, and one that ends a report only
\* with the mark.
LEMMA PrintedLine ==
  ASSUME NEW s \in Seq(Tokens), NEW p \in 0 .. Periods
  PROVE  /\ s \o Line(p) \in Seq(Tokens) /\ Len(s \o Line(p)) = Len(s) + 2
         /\ \A k \in 1 .. Len(s) : (s \o Line(p))[k] = s[k]
         /\ (s \o Line(p))[Len(s) + 1] = [kind |-> "head", of |-> p]
         /\ (s \o Line(p))[Len(s) + 2] = [kind |-> "tail", of |-> p]
<1> DEFINE L == Line(p)
<1>1. /\ L \in Seq(Tokens) /\ Len(L) = 2
      /\ L[1] = [kind |-> "head", of |-> p] /\ L[2] = [kind |-> "tail", of |-> p]
  BY DEF Line, Tokens
<1> HIDE DEF L
<1>2. Len(s) \in Nat
  BY LenProperties
<1>3. /\ s \o L \in Seq(Tokens) /\ Len(s \o L) = Len(s) + Len(L)
      /\ \A i \in 1 .. Len(s) + Len(L) : (s \o L)[i] = IF i <= Len(s) THEN s[i] ELSE L[i - Len(s)]
  BY <1>1, ConcatProperties
<1>4. /\ \A k \in 1 .. Len(s) : (s \o L)[k] = s[k]
      /\ (s \o L)[Len(s) + 1] = L[1] /\ (s \o L)[Len(s) + 2] = L[2]
  BY <1>1, <1>2, <1>3
<1> QED
  BY <1>1, <1>3, <1>4 DEF L

LEMMA PrintedMark ==
  ASSUME NEW s \in Seq(Tokens), NEW p \in 0 .. Periods
  PROVE  /\ s \o Mark(p) \in Seq(Tokens) /\ Len(s \o Mark(p)) = Len(s) + 2
         /\ \A k \in 1 .. Len(s) : (s \o Mark(p))[k] = s[k]
         /\ (s \o Mark(p))[Len(s) + 1] = [kind |-> "<Decode", of |-> p]
         /\ (s \o Mark(p))[Len(s) + 2] = [kind |-> "Finished>", of |-> p]
<1> DEFINE M == Mark(p)
<1>1. /\ M \in Seq(Tokens) /\ Len(M) = 2
      /\ M[1] = [kind |-> "<Decode", of |-> p] /\ M[2] = [kind |-> "Finished>", of |-> p]
  BY DEF Mark, Tokens
<1> HIDE DEF M
<1>2. Len(s) \in Nat
  BY LenProperties
<1>3. /\ s \o M \in Seq(Tokens) /\ Len(s \o M) = Len(s) + Len(M)
      /\ \A i \in 1 .. Len(s) + Len(M) : (s \o M)[i] = IF i <= Len(s) THEN s[i] ELSE M[i - Len(s)]
  BY <1>1, ConcatProperties
<1>4. /\ \A k \in 1 .. Len(s) : (s \o M)[k] = s[k]
      /\ (s \o M)[Len(s) + 1] = M[1] /\ (s \o M)[Len(s) + 2] = M[2]
  BY <1>1, <1>2, <1>3
<1> QED
  BY <1>1, <1>3, <1>4 DEF M

\* A chunk is a beginning of the pipe, and what is left is the rest of it.
LEMMA Read ==
  ASSUME pipe \in Seq(Tokens), NEW chunk \in Chunks
  PROVE  /\ chunk \in Seq(Tokens) /\ Len(chunk) \in 1 .. Len(pipe) /\ Len(pipe) \in Nat
         /\ \A i \in 1 .. Len(chunk) : chunk[i] = pipe[i]
         /\ LET rest == SubSeq(pipe, Len(chunk) + 1, Len(pipe))
            IN  /\ rest \in Seq(Tokens) /\ Len(rest) = Len(pipe) - Len(chunk)
                /\ \A k \in 1 .. Len(rest) : rest[k] = pipe[k + Len(chunk)]
<1>1. PICK n \in 1 .. Len(pipe) : chunk = SubSeq(pipe, 1, n)
  BY DEF Chunks
<1>2. Len(pipe) \in Nat /\ \A i \in 1 .. Len(pipe) : pipe[i] \in Tokens
  BY LenProperties, ElementOfSeq
<1>3. n \in Int /\ \A i \in 1 .. n : pipe[i] \in Tokens
  BY <1>2
<1>4. chunk \in Seq(Tokens) /\ Len(chunk) = n /\ \A i \in 1 .. n : chunk[i] = pipe[i]
  <2>1. /\ SubSeq(pipe, 1, n) \in Seq(Tokens)
        /\ Len(SubSeq(pipe, 1, n)) = IF 1 <= n THEN n - 1 + 1 ELSE 0
        /\ \A i \in 1 .. n - 1 + 1 : SubSeq(pipe, 1, n)[i] = pipe[1 + i - 1]
    BY <1>3, SubSeqProperties
  <2>2. n - 1 + 1 = n /\ 1 <= n /\ \A i \in 1 .. n : 1 + i - 1 = i
    BY <1>2
  <2> QED
    BY <1>1, <2>1, <2>2
<1> DEFINE rest == SubSeq(pipe, n + 1, Len(pipe))
<1>5. /\ rest \in Seq(Tokens) /\ Len(rest) = Len(pipe) - n
      /\ \A k \in 1 .. Len(rest) : rest[k] = pipe[k + n]
  <2>1. /\ n + 1 \in Int /\ Len(pipe) \in Int
        /\ \A i \in n + 1 .. Len(pipe) : pipe[i] \in Tokens
    BY <1>2
  <2>2. /\ rest \in Seq(Tokens)
        /\ Len(rest) = IF n + 1 <= Len(pipe) THEN Len(pipe) - (n + 1) + 1 ELSE 0
        /\ \A k \in 1 .. Len(pipe) - (n + 1) + 1 : rest[k] = pipe[n + 1 + k - 1]
    BY <2>1, SubSeqProperties
  <2> HIDE DEF rest
  <2>3. Len(rest) = Len(pipe) - n
    BY <1>2, <2>2
  <2>4. \A k \in 1 .. Len(pipe) - n : rest[k] = pipe[k + n]
    <3>1. \A k \in 1 .. Len(pipe) - n : k \in 1 .. Len(pipe) - (n + 1) + 1 /\ n + 1 + k - 1 = k + n
      BY <1>2
    <3> QED
      BY <2>2, <3>1
  <2> QED
    BY <2>2, <2>3, <2>4
<1> QED
  BY <1>2, <1>4, <1>5

-----------------------------------------------------------------------------
(* The types.                                                              *)

LEMMA AttachType ==
  ASSUME TypeOK, NEW a, Attach(a)
  PROVE  mem_jt9' \in BOOLEAN /\ a \in {"shared", "file"}
BY DEF TypeOK, Attach

LEMMA LaunchType ==
  ASSUME TypeOK, NEW a, Launch(a)
  PROVE  /\ task' \in BOOLEAN /\ armed' \in BOOLEAN /\ launches' \in 0 .. Launches
         /\ jt9' \in Processes /\ pipe' \in Seq(Tokens)
<1>1. jt9' \in Processes
  BY ProcessMade DEF Launch
<1>2. launches' \in 0 .. Launches
  BY Bounds DEF Launch, TypeOK
<1> QED
  BY <1>1, <1>2 DEF Launch

LEMMA StartType ==
  ASSUME TypeOK, NEW a \in {"shared", "file"}, startJt9Task(a)
  PROVE  /\ args' \in {"shared", "file"}
         /\ task' \in BOOLEAN /\ armed' \in BOOLEAN /\ launches' \in 0 .. Launches
         /\ jt9' \in Processes /\ pipe' \in Seq(Tokens) /\ view' \in Seq(Reported)
<1>1. args' \in {"shared", "file"} /\ view' \in Seq(Reported)
  BY DEF startJt9Task, TypeOK, Reported, Texts
<1>2. CASE task
  BY <1>1, <1>2 DEF startJt9Task, TypeOK, Processes
<1>3. CASE ~task
  BY <1>1, <1>3, LaunchType DEF startJt9Task
<1> QED
  BY <1>2, <1>3

LEMMA DataReadyType ==
  ASSUME TypeOK, dataReady
  PROVE  TypeOK'
<1> DEFINE Kept == UNCHANGED <<shm, copying, handed, files>>
<1>1. PICK chunk \in Chunks : \/ MarksIn(chunk) # {} /\ ShowReport(chunk)
                              \/ MarksIn(chunk) = {} /\ CollectText(chunk)
  BY DEF dataReady
<1> DEFINE rest == SubSeq(pipe, Len(chunk) + 1, Len(pipe))
<1>2. /\ chunk \in Seq(Tokens) /\ rest \in Seq(Tokens)
      /\ Len(chunk) \in Nat
      /\ \A i \in 1 .. Len(chunk) : chunk[i] \in Tokens
  BY Read, LenProperties, ElementOfSeq DEF TypeOK
<1> HIDE DEF rest
<1>3. CASE ShowReport(chunk)
  <2>1. PICK i \in MarksIn(chunk) : printHeardSignals(chunk, i)
    BY <1>3 DEF ShowReport
  <2>2. chunk[i].of \in 0 .. Periods
    <3>1. i \in 1 .. Len(chunk)
      BY <1>2 DEF MarksIn
    <3> QED
      BY <1>2, <3>1 DEF Tokens
  <2>3. \A lines \in Texts : [of |-> chunk[i].of, lines |-> lines] \in Reported
    BY <2>2 DEF Reported
  <2>4. /\ mem_jt9' \in BOOLEAN /\ args' \in {"shared", "file"}
        /\ task' \in BOOLEAN /\ armed' \in BOOLEAN /\ launches' \in 0 .. Launches
        /\ jt9' \in Processes /\ pipe' \in Seq(Tokens) /\ view' \in Seq(Reported)
    <3>1. CASE /\ view' = Append(view, [of |-> chunk[i].of, lines |-> inputLines])
               /\ pipe' = rest
               /\ armed' = task
               /\ UNCHANGED <<mem_jt9, args, task, jt9, launches>>
      <4>1. view' \in Seq(Reported)
        BY <2>3, <3>1, AppendProperties DEF TypeOK, Reported, Texts
      <4> QED
        BY <1>2, <3>1, <4>1 DEF TypeOK, Processes
    <3>2. CASE \E a \in {args, "shared"} :
                 /\ Attach(a) /\ args' = a /\ Launch(a)
                 /\ \E n \in 1 .. Len(inputLines) :
                      view' = << [of |-> chunk[i].of,
                                  lines |-> SubSeq(inputLines, n, Len(inputLines))] >>
      <4>1. PICK a \in {args, "shared"} : Attach(a) /\ args' = a /\ Launch(a)
        BY <3>2
      <4>2. PICK n \in 1 .. Len(inputLines) :
              view' = << [of |-> chunk[i].of,
                          lines |-> SubSeq(inputLines, n, Len(inputLines))] >>
        BY <3>2
      <4>3. SubSeq(inputLines, n, Len(inputLines)) \in Texts
        <5>1. Len(inputLines) \in Nat /\ \A k \in 1 .. Len(inputLines) : inputLines[k] \in Seq(Tokens)
          BY LenProperties, ElementOfSeq DEF TypeOK
        <5>2. n \in Int /\ \A k \in n .. Len(inputLines) : inputLines[k] \in Seq(Tokens)
          BY <5>1
        <5> QED
          BY <5>1, <5>2, SubSeqProperties DEF Texts
      <4>4. view' \in Seq(Reported)
        <5>1. [of |-> chunk[i].of, lines |-> SubSeq(inputLines, n, Len(inputLines))] \in Reported
          BY <2>3, <4>3
        <5> QED
          BY <4>2, <5>1
      <4> QED
        BY <4>1, <4>4, AttachType, LaunchType
    <3> QED
      BY <2>1, <3>1, <3>2 DEF printHeardSignals, rest
  <2>5. lock' \in BOOLEAN /\ lineIn' \in Seq(Tokens) /\ inputLines' \in Texts
    BY <1>3 DEF ShowReport, TypeOK, Texts
  <2> QED
    BY <2>4, <2>5 DEF dataReady, TypeOK, Processes, Reported, Texts
<1>4. CASE CollectText(chunk)
  <2>1. lineIn \o chunk \in Seq(Tokens)
    BY <1>2, ConcatProperties DEF TypeOK
  <2>2. Append(inputLines, lineIn \o chunk) \in Texts
    BY <2>1, AppendProperties DEF TypeOK, Texts
  <2>3. lineIn' \in Seq(Tokens) /\ inputLines' \in Texts
    <3> DEFINE ends == \E i \in 1 .. Len(chunk) : EndsLine(chunk[i])
    <3>1. IF ends THEN inputLines' = Append(inputLines, lineIn \o chunk) /\ lineIn' = <<>>
                  ELSE inputLines' = inputLines /\ lineIn' = lineIn \o chunk
      BY <1>4 DEF CollectText
    <3>2. <<>> \in Seq(Tokens) /\ inputLines \in Texts
      BY DEF TypeOK, Texts
    <3> HIDE DEF ends
    <3> QED
      BY <2>1, <2>2, <3>1, <3>2, Zenon
  <2>4. pipe' = rest /\ armed' = task /\ UNCHANGED <<mem_jt9, lock, args, task, jt9, view, launches>>
    BY <1>4 DEF CollectText, rest
  <2> QED
    BY <1>2, <2>3, <2>4 DEF dataReady, TypeOK, Processes, Reported, Texts
<1> QED
  BY <1>1, <1>3, <1>4

LEMMA TypesStep ==
  ASSUME TypeOK, [Next]_vars PROVE TypeOK'
<1> USE DEF Processes, Reported, Texts
<1>1. CASE Press
  BY <1>1, AttachType, StartType DEF Press, setUpAndAttachSharedMemory, TypeOK, text
<1>2. CASE DecodeFileShared
  <2>1. PICK a : Attach(a) /\ startJt9Task(a)
    BY <1>2 DEF DecodeFileShared
  <2>2. shm' \in 0 .. Periods /\ lock' \in BOOLEAN /\ files' \in 0 .. Files
    <3>1. \/ shm' = 0 /\ lock' = FALSE
          \/ shm' = shm /\ lock' = lock
          \/ shm' = shm /\ lock' = TRUE
      BY <1>2, Zenon DEF DecodeFileShared
    <3>2. lock' \in BOOLEAN
      BY <3>1, Zenon DEF TypeOK
    <3>3. files' \in 0 .. Files
      BY <1>2, Bounds DEF DecodeFileShared, TypeOK
    <3> QED
      BY <3>1, <3>2, <3>3, Bounds DEF TypeOK
  <2> QED
    BY <1>2, <2>1, <2>2, AttachType, StartType DEF DecodeFileShared, TypeOK, text
<1>3. CASE getDecodeTextFromFile
  <2>1. files' \in 0 .. Files
    BY <1>3, Bounds DEF getDecodeTextFromFile, TypeOK
  <2> QED
    BY <1>3, <2>1, StartType DEF getDecodeTextFromFile, TypeOK, text
<1>4. CASE CopyPeriod
  BY <1>4, Bounds DEF CopyPeriod, TypeOK, process, text
<1>5. CASE ReleasePeriod
  BY <1>5 DEF ReleasePeriod, TypeOK, process, text
<1>6. CASE InterruptDecoder
  BY <1>6, Bounds DEF InterruptDecoder, TypeOK, Off, text
<1>7. CASE BeginDecode
  BY <1>7, Bounds DEF BeginDecode, TypeOK, text
<1>8. CASE PrintSignal
  <2>1. pipe' \in Seq(Tokens)
    BY <1>8, PrintedLine DEF PrintSignal, TypeOK
  <2>2. jt9' \in Processes
    <3>1. jt9 \in Processes /\ jt9.left - 1 \in 0 .. MaxLines
      BY <1>8, Bounds DEF PrintSignal, TypeOK
    <3>2. 0 \in 0 .. Periods
      BY Bounds
    <3> HIDE DEF Processes
    <3> QED
      BY <1>8, <3>1, <3>2, ProcessChanged, Zenon DEF PrintSignal
  <2> QED
    BY <1>8, <2>1, <2>2 DEF PrintSignal, TypeOK, text
<1>9. CASE PrintMark
  <2>1. pipe' \in Seq(Tokens)
    BY <1>9, PrintedMark DEF PrintMark, TypeOK
  <2>2. jt9' \in Processes
    <3>1. jt9 \in Processes /\ 0 \in 0 .. MaxLines /\ 0 \in 0 .. Periods
      BY Bounds DEF TypeOK
    <3> HIDE DEF Processes
    <3> QED
      BY <1>9, <3>1, ProcessChanged, Zenon DEF PrintMark
  <2> QED
    BY <1>9, <2>1, <2>2 DEF PrintMark, TypeOK, text
<1>10. CASE SeeLock
  <2>1. jt9' \in Processes
    <3>1. jt9 \in Processes /\ 0 \in 0 .. MaxLines /\ 0 \in 0 .. Periods
      BY Bounds DEF TypeOK
    <3> HIDE DEF Processes
    <3> QED
      BY <1>10, <3>1, ProcessChanged, Zenon DEF SeeLock
  <2> QED
    BY <1>10, <2>1 DEF SeeLock, TypeOK, text
<1>11. CASE Crash
  BY <1>11, Bounds DEF Crash, TypeOK, Off, text
<1>12. CASE taskTerminated
  BY <1>12 DEF taskTerminated, TypeOK, text
<1>13. CASE dataReady
  BY <1>13, DataReadyType
<1>14. CASE UNCHANGED vars
  BY <1>14 DEF vars, TypeOK, process, text
<1> QED
  BY <1>1, <1>2, <1>3, <1>4, <1>5, <1>6, <1>7, <1>8, <1>9, <1>10, <1>11, <1>12, <1>13, <1>14
     DEF Next, Operator, Worker, Decoder

LEMMA InitTypes == Init => TypeOK
<1> SUFFICES ASSUME Init PROVE TypeOK
  OBVIOUS
<1>1. jt9 \in Processes
  BY ProcessMade DEF Init
<1>2. /\ pipe \in Seq(Tokens) /\ lineIn \in Seq(Tokens)
      /\ inputLines \in Seq(Seq(Tokens)) /\ view \in Seq(Reported)
  BY EmptySeq DEF Init
<1>3. /\ mem_jt9 \in BOOLEAN /\ copying \in BOOLEAN /\ lock \in BOOLEAN
      /\ task \in BOOLEAN /\ armed \in BOOLEAN
      /\ shm \in 0 .. Periods /\ handed \in 0 .. Periods
      /\ args \in {"shared", "file"}
      /\ launches \in 0 .. Launches /\ files \in 0 .. Files
  <2>1. /\ mem_jt9 \in BOOLEAN /\ copying \in BOOLEAN /\ lock \in BOOLEAN
        /\ task \in BOOLEAN /\ armed \in BOOLEAN
    BY Zenon DEF Init
  <2>2. shm = 0 /\ handed = 0 /\ args = "shared" /\ launches = Launches /\ files = Files
    BY Zenon DEF Init
  <2> QED
    BY <2>1, <2>2, Bounds
<1> QED
  BY <1>1, <1>2, <1>3 DEF TypeOK, Processes, Reported, Texts

\* Every variable of the link keeps its type: the numbers of the periods and
\* of the launches stay within their bounds, and the tokens on the pipe, in
\* _lineIn and in _inputLines are tokens jt9 prints.
THEOREM LinkTypeCorrect == Spec => []TypeOK
BY InitTypes, TypesStep, PTL DEF Spec

-----------------------------------------------------------------------------
(* The invariant is inductive.                                             *)

\* The view and the pipe as they were: what is new is that the memory may hold
\* something else, or that jt9 or .lock has changed.
LEMMA Undisturbed ==
  ASSUME Unreported, view' = view, pipe' = pipe
  PROVE  /\ MarksAreWhole' /\ MarksInOrder' /\ MarksAfterView' /\ NoPeriodReportedTwice'
         /\ jt9' = jt9 \/ jt9'.state \notin {"waits", "decodes"} =>
              (jt9'.state = "decodes" => AllOlder(jt9.job)')
BY DEF Unreported, MarksAreWhole, MarksInOrder, MarksAfterView, NoPeriodReportedTwice, JobIsNew,
       AllOlder, ViewOlder, PipeOlder, Ends

\* A new jt9 comes with an empty view and an empty pipe.
LEMMA Restarted ==
  ASSUME NEW a, startJt9Task(a)
  PROVE  \/ UNCHANGED <<view, pipe, jt9>>
         \/ view' = <<>> /\ pipe' = <<>> /\ jt9'.job = 0
<1>1. CASE task
  BY <1>1 DEF startJt9Task
<1>2. CASE ~task
  BY <1>2, ProcessMade DEF startJt9Task, Launch
<1> QED
  BY <1>1, <1>2

LEMMA Numbers ==
  ASSUME TypeOK, Unreported
  PROVE  /\ handed \in Nat /\ shm \in Nat /\ Len(pipe) \in Nat /\ Len(view) \in Nat
         /\ \A i \in 1 .. Len(view) : view[i].of \in Nat /\ view[i].of <= handed
         /\ \A k \in 1 .. Len(pipe) : pipe[k].of \in Nat /\ pipe[k].of <= handed
         /\ jt9.job \in Nat /\ jt9.job <= handed
<1>1. Len(pipe) \in Nat /\ Len(view) \in Nat
  BY LenProperties DEF TypeOK
<1>2. \A i \in 1 .. Len(view) : view[i] \in [of : 0 .. Periods, lines : Seq(Seq(Tokens))]
  BY ElementOfSeq DEF TypeOK
<1>3. \A k \in 1 .. Len(pipe) : pipe[k] \in Tokens
  BY ElementOfSeq DEF TypeOK
<1>4. handed \in 0 .. Periods /\ shm \in 0 .. Periods /\ jt9.job \in 0 .. Periods
  BY DEF TypeOK
<1>5. OfThePast
  BY DEF Unreported
<1> QED
  BY <1>1, <1>2, <1>3, <1>4, <1>5, Bounds DEF Tokens, OfThePast

LEMMA StartStep ==
  ASSUME TypeOK, Unreported, NEW a, startJt9Task(a), UNCHANGED <<handed, copying>>,
         shm' = 0 \/ shm' = shm, shm' # 0 /\ lock => lock'
  PROVE  Unreported'
<1>1. /\ shm \in Nat /\ handed \in Nat /\ shm' \in {0, handed}
  BY Bounds DEF TypeOK, Unreported, OfThePast
<1>2. CASE UNCHANGED <<view, pipe, jt9>>
  <2>1. OfThePast'
    BY <1>1, <1>2 DEF Unreported, OfThePast
  <2>2. JobIsNew'
    BY <1>1, <1>2 DEF Unreported, JobIsNew, AllOlder, ViewOlder, PipeOlder, Ends, Older
  <2> QED
    BY <1>2, <2>1, <2>2, Undisturbed DEF Unreported
<1>3. CASE view' = <<>> /\ pipe' = <<>> /\ jt9'.job = 0
  <2>1. Len(view') = 0 /\ Len(pipe') = 0
    BY <1>3
  <2> QED
    BY <1>1, <1>3, <2>1
       DEF Unreported, OfThePast, MarksAreWhole, MarksInOrder, MarksAfterView, JobIsNew,
           NoPeriodReportedTwice, AllOlder, ViewOlder, PipeOlder
<1> QED
  BY <1>2, <1>3, Restarted

LEMMA CopyStep ==
  ASSUME TypeOK, Unreported, CopyPeriod
  PROVE  Unreported'
<1>1. /\ shm' = handed + 1 /\ handed' = handed + 1
      /\ UNCHANGED <<lock, view, pipe, jt9>>
  BY DEF CopyPeriod, process
<1>2. /\ handed \in Nat /\ shm \in Nat
      /\ \A i \in 1 .. Len(view) : view[i].of \in Nat /\ view[i].of <= handed
      /\ \A k \in 1 .. Len(pipe) : pipe[k].of \in Nat /\ pipe[k].of <= handed
      /\ jt9.job \in Nat /\ jt9.job <= handed
  BY Numbers
<1>3. OfThePast'
  BY <1>1, <1>2 DEF OfThePast
<1>4. \A p \in Nat : p <= handed => Older(p, shm')
  BY <1>1, <1>2 DEF Older
<1>5. AllOlder(shm)'
  BY <1>1, <1>2, <1>4 DEF AllOlder, ViewOlder, PipeOlder
<1>6. (jt9.state = "decodes" => AllOlder(jt9.job))'
  BY <1>1 DEF Unreported, JobIsNew, AllOlder, ViewOlder, PipeOlder, Ends
<1>7. JobIsNew'
  BY <1>5, <1>6 DEF JobIsNew, AllOlder
<1> QED
  BY <1>1, <1>3, <1>7, Undisturbed DEF Unreported

\* Two tokens of the period jt9 decodes are added to the pipe.
LEMMA PrintStep ==
  ASSUME TypeOK, Unreported, PrintSignal \/ PrintMark
  PROVE  Unreported'
<1> DEFINE p == jt9.job
           n == Len(pipe)
<1>1. /\ jt9.state = "decodes" /\ jt9'.job \in {0, p}
      /\ UNCHANGED <<view, shm, handed, copying, lock>>
      /\ PrintMark => jt9'.state # "decodes" /\ jt9'.state # "waits" /\ ~copying
      /\ PrintSignal => jt9'.state = "decodes" /\ jt9'.job = p
  BY DEF PrintSignal, PrintMark, TypeOK, Off
<1>2. /\ p \in Nat /\ p <= handed /\ handed \in Nat /\ n \in Nat
      /\ \A k \in 1 .. n : pipe[k].of \in Nat
  BY Numbers
<1>3. /\ Len(pipe') = n + 2
      /\ \A k \in 1 .. n : pipe'[k] = pipe[k]
      /\ pipe'[n + 1].of = p /\ pipe'[n + 2].of = p
      /\ pipe'[n + 1].kind # "Finished>" /\ pipe'[n + 2].kind # "<Decode"
      /\ jt9'.state = "decodes" => pipe'[n + 1].kind # "<Decode" /\ pipe'[n + 2].kind # "Finished>"
  <2>1. p \in 0 .. Periods /\ pipe \in Seq(Tokens)
    BY DEF TypeOK
  <2>2. CASE PrintSignal
    <3>1. pipe' = pipe \o Line(p)
      BY <2>2, Zenon DEF PrintSignal
    <3>2. /\ Len(pipe \o Line(p)) = n + 2
          /\ \A k \in 1 .. n : (pipe \o Line(p))[k] = pipe[k]
          /\ (pipe \o Line(p))[n + 1] = [kind |-> "head", of |-> p]
          /\ (pipe \o Line(p))[n + 2] = [kind |-> "tail", of |-> p]
      BY <2>1, PrintedLine, Zenon
    <3>3. /\ Len(pipe') = n + 2
          /\ \A k \in 1 .. n : pipe'[k] = pipe[k]
          /\ pipe'[n + 1] = [kind |-> "head", of |-> p]
          /\ pipe'[n + 2] = [kind |-> "tail", of |-> p]
      BY <3>1, <3>2, Zenon
    <3> QED
      BY <1>1, <2>2, <3>3
  <2>3. CASE PrintMark
    <3>1. pipe' = pipe \o Mark(p)
      BY <2>3, Zenon DEF PrintMark
    <3>2. /\ Len(pipe \o Mark(p)) = n + 2
          /\ \A k \in 1 .. n : (pipe \o Mark(p))[k] = pipe[k]
          /\ (pipe \o Mark(p))[n + 1] = [kind |-> "<Decode", of |-> p]
          /\ (pipe \o Mark(p))[n + 2] = [kind |-> "Finished>", of |-> p]
      BY <2>1, PrintedMark, Zenon
    <3>3. /\ Len(pipe') = n + 2
          /\ \A k \in 1 .. n : pipe'[k] = pipe[k]
          /\ pipe'[n + 1] = [kind |-> "<Decode", of |-> p]
          /\ pipe'[n + 2] = [kind |-> "Finished>", of |-> p]
      BY <3>1, <3>2, Zenon
    <3> QED
      BY <1>1, <2>3, <3>3
  <2> QED
    BY <2>2, <2>3
<1> HIDE DEF p, n
<1>4. \A k \in 1 .. n + 2 : k \in 1 .. n \/ k = n + 1 \/ k = n + 2
  BY <1>2
<1>5. AllOlder(p)
  BY <1>1 DEF Unreported, JobIsNew, p
<1>6. OfThePast'
  <2>1. \A k \in 1 .. Len(pipe') : pipe'[k].of <= handed
    BY <1>2, <1>3, <1>4, Numbers DEF n
  <2>2. jt9'.job <= handed
    BY <1>1, <1>2
  <2> QED
    BY <1>1, <2>1, <2>2 DEF Unreported, OfThePast
<1>7. MarksAreWhole'
  <2> SUFFICES ASSUME NEW k \in 1 .. Len(pipe'), pipe'[k].kind = "<Decode"
               PROVE  k < Len(pipe') /\ pipe'[k + 1].of = pipe'[k].of
    BY DEF MarksAreWhole
  <2>1. CASE k \in 1 .. n
    <3>1. k < n /\ pipe[k + 1].of = pipe[k].of
      BY <1>3, <2>1 DEF Unreported, MarksAreWhole, n
    <3>2. k + 1 \in 1 .. n /\ k < n + 2
      BY <1>2, <2>1, <3>1
    <3> QED
      BY <1>3, <2>1, <3>1, <3>2
  <2>2. CASE k = n + 1
    BY <1>2, <1>3, <2>2
  <2>3. CASE k = n + 2
    BY <1>3, <2>3
  <2> QED
    BY <1>3, <1>4, <2>1, <2>2, <2>3
<1>8. MarksInOrder'
  <2> SUFFICES ASSUME NEW k \in 1 .. Len(pipe'), NEW l \in 1 .. Len(pipe'), k < l,
                      Ends(k)', Ends(l)'
               PROVE  Older(pipe'[k].of, pipe'[l].of)
    BY DEF MarksInOrder
  <2>1. k \in 1 .. n /\ (l \in 1 .. n \/ l = n + 2)
    BY <1>2, <1>3, <1>4 DEF Ends
  <2>2. pipe'[k] = pipe[k] /\ Ends(k)
    BY <1>3, <2>1 DEF Ends
  <2>3. CASE l \in 1 .. n
    BY <1>3, <2>1, <2>2, <2>3 DEF Unreported, MarksInOrder, Ends, n
  <2>4. CASE l = n + 2
    BY <1>3, <1>5, <2>1, <2>2, <2>4 DEF AllOlder, PipeOlder, n
  <2> QED
    BY <2>1, <2>3, <2>4
<1>9. MarksAfterView'
  BY <1>1, <1>3, <1>4, <1>5 DEF Unreported, MarksAfterView, AllOlder, ViewOlder, Ends, n
<1>10. NoPeriodReportedTwice'
  BY <1>1 DEF Unreported, NoPeriodReportedTwice
<1>11. JobIsNew'
  <2>1. CASE PrintSignal
    <3>1. \A k \in 1 .. Len(pipe') : Ends(k)' => k \in 1 .. n /\ Ends(k)
      BY <1>1, <1>3, <1>4, <2>1 DEF Ends
    <3>2. \A q : PipeOlder(q) => \A k \in 1 .. Len(pipe') : Ends(k)' => Older(pipe'[k].of, q)
      BY <1>3, <3>1 DEF PipeOlder, n
    <3>3. (AllOlder(jt9.job))'
      BY <1>1, <1>5, <2>1, <3>2 DEF AllOlder, ViewOlder, PipeOlder
    <3>4. copying' => (AllOlder(shm))'
      BY <1>1, <3>2 DEF Unreported, JobIsNew, AllOlder, ViewOlder, PipeOlder
    <3> QED
      BY <1>1, <2>1, <3>3, <3>4 DEF Unreported, JobIsNew, ViewOlder
  <2>2. CASE PrintMark
    BY <1>1, <2>2 DEF Unreported, JobIsNew, ViewOlder
  <2> QED
    BY <2>1, <2>2
<1> QED
  BY <1>6, <1>7, <1>8, <1>9, <1>10, <1>11 DEF Unreported

\* A chunk is read: what is left of the pipe is its end.
LEMMA ReadStep ==
  ASSUME TypeOK, Unreported, dataReady
  PROVE  Unreported'
<1>1. PICK chunk \in Chunks : \/ MarksIn(chunk) # {} /\ ShowReport(chunk)
                              \/ MarksIn(chunk) = {} /\ CollectText(chunk)
  BY DEF dataReady
<1> DEFINE n == Len(chunk)
           rest == SubSeq(pipe, n + 1, Len(pipe))
<1>2. UNCHANGED <<shm, copying, handed>>
  BY DEF dataReady
<1>3. /\ n \in 1 .. Len(pipe) /\ Len(pipe) \in Nat
      /\ \A i \in 1 .. n : chunk[i] = pipe[i]
      /\ Len(rest) = Len(pipe) - n
      /\ \A k \in 1 .. Len(rest) : rest[k] = pipe[k + n]
  BY Read DEF TypeOK
<1>4. \A k \in 1 .. Len(rest) : k + n \in 1 .. Len(pipe) /\ k + n > n
  BY <1>3
<1> HIDE DEF n, rest
\* What holds of the rest because it holds of the pipe.
<1>5. ASSUME pipe' = rest
      PROVE  /\ \A k \in 1 .. Len(pipe') : /\ k + n \in 1 .. Len(pipe) /\ pipe'[k] = pipe[k + n]
                                           /\ Ends(k)' => Ends(k + n)
             /\ Len(pipe') = Len(pipe) - n
             /\ \A k \in 1 .. Len(pipe') : pipe'[k].of <= handed
             /\ MarksAreWhole' /\ MarksInOrder'
             /\ \A q : PipeOlder(q) => \A k \in 1 .. Len(pipe') : Ends(k)' => Older(pipe'[k].of, q)
  <2>1. \A k \in 1 .. Len(pipe') : /\ k + n \in 1 .. Len(pipe) /\ pipe'[k] = pipe[k + n]
                                   /\ Ends(k)' => Ends(k + n)
    BY <1>3, <1>4, <1>5 DEF Ends
  <2>2. Len(pipe') = Len(pipe) - n
    BY <1>3, <1>5
  <2>3. \A k \in 1 .. Len(pipe') : pipe'[k].of <= handed
    BY <2>1 DEF Unreported, OfThePast
  <2>4. MarksAreWhole'
    <3> SUFFICES ASSUME NEW k \in 1 .. Len(pipe'), pipe'[k].kind = "<Decode"
                 PROVE  k < Len(pipe') /\ pipe'[k + 1].of = pipe'[k].of
      BY DEF MarksAreWhole
    <3>1. k + n < Len(pipe) /\ pipe[k + n + 1].of = pipe[k + n].of
      BY <2>1 DEF Unreported, MarksAreWhole
    <3>2. k + 1 \in 1 .. Len(pipe') /\ k + 1 + n = k + n + 1
      BY <1>3, <2>2, <3>1
    <3>3. pipe'[k + 1] = pipe[k + n + 1]
      BY <2>1, <3>2
    <3> QED
      BY <1>3, <2>1, <2>2, <3>1, <3>3
  <2>5. MarksInOrder'
    <3> SUFFICES ASSUME NEW k \in 1 .. Len(pipe'), NEW l \in 1 .. Len(pipe'), k < l,
                        Ends(k)', Ends(l)'
                 PROVE  Older(pipe'[k].of, pipe'[l].of)
      BY DEF MarksInOrder
    <3>1. k + n < l + n
      BY <1>3
    <3> QED
      BY <2>1, <3>1 DEF Unreported, MarksInOrder
  <2>6. \A q : PipeOlder(q) => \A k \in 1 .. Len(pipe') : Ends(k)' => Older(pipe'[k].of, q)
    BY <2>1 DEF PipeOlder
  <2> QED
    BY <2>1, <2>2, <2>3, <2>4, <2>5, <2>6
<1>6. CASE CollectText(chunk)
  <2>1. pipe' = rest /\ UNCHANGED <<lock, jt9, view>>
    BY <1>6 DEF CollectText, rest, n
  <2>2. OfThePast'
    BY <1>2, <1>5, <2>1 DEF Unreported, OfThePast
  <2>3. MarksAfterView'
    BY <1>5, <2>1 DEF Unreported, MarksAfterView, ViewOlder
  <2>4. JobIsNew'
    BY <1>2, <1>5, <2>1 DEF Unreported, JobIsNew, AllOlder, ViewOlder, PipeOlder
  <2>5. NoPeriodReportedTwice'
    BY <2>1 DEF Unreported, NoPeriodReportedTwice
  <2> QED
    BY <1>5, <2>1, <2>2, <2>3, <2>4, <2>5 DEF Unreported
<1>7. CASE ShowReport(chunk)
  <2>1. lock' = TRUE
    BY <1>7 DEF ShowReport
  <2>2. PICK i \in MarksIn(chunk) : printHeardSignals(chunk, i)
    BY <1>7 DEF ShowReport
  <2> DEFINE p == chunk[i].of
  \* The report is of the period of the mark that ends at i + 1.
  <2>3. /\ i \in 1 .. Len(pipe) /\ i + 1 \in 1 .. Len(pipe) /\ i + 1 <= n
        /\ p = pipe[i].of /\ p = pipe[i + 1].of /\ Ends(i + 1)
    <3>1. i \in 1 .. n - 1 /\ chunk[i].kind = "<Decode" /\ chunk[i + 1].kind = "Finished>"
      BY DEF MarksIn, n
    <3>2. i \in 1 .. n /\ i + 1 \in 1 .. n
      BY <1>3, <3>1
    <3>3. chunk[i] = pipe[i] /\ chunk[i + 1] = pipe[i + 1]
      BY <1>3, <3>2
    <3> QED
      BY <1>3, <3>1, <3>2, <3>3 DEF Unreported, MarksAreWhole, Ends
  <2>4. p \in Nat /\ p <= handed /\ handed \in Nat
    BY <2>3, Numbers
  <2> HIDE DEF p
  <2>5. CASE /\ view' = Append(view, [of |-> p, lines |-> inputLines])
             /\ pipe' = rest /\ UNCHANGED jt9
    <3> DEFINE m == Len(view)
    <3>1. /\ Len(view') = m + 1 /\ m \in Nat
          /\ \A j \in 1 .. m : view'[j] = view[j]
          /\ view'[m + 1].of = p
      <4> DEFINE report == [of |-> p, lines |-> inputLines]
      <4>1. report \in [of : 0 .. Periods, lines : Seq(Seq(Tokens))] /\ report.of = p
        BY <2>4, Bounds DEF TypeOK
      <4> HIDE DEF report
      <4>2. view' = Append(view, report)
        BY <2>5 DEF report
      <4>3. /\ Len(Append(view, report)) = m + 1
            /\ \A j \in 1 .. m : Append(view, report)[j] = view[j]
            /\ Append(view, report)[m + 1] = report
        BY <4>1, AppendProperties DEF TypeOK
      <4> QED
        BY <4>1, <4>2, <4>3, Numbers
    <3> HIDE DEF m
    <3>2. \A j \in 1 .. Len(view') : j \in 1 .. m \/ j = m + 1
      BY <3>1
    \* Everything the view is compared with is after p as well.
    <3>3. ASSUME NEW q, ViewOlder(q), Older(p, q)
          PROVE  \A j \in 1 .. Len(view') : Older(view'[j].of, q)
      BY <3>1, <3>2, <3>3 DEF ViewOlder, m
    <3>4. OfThePast'
      BY <1>2, <1>5, <2>4, <2>5, <3>1, <3>2 DEF Unreported, OfThePast, m
    <3>5. MarksAfterView'
      <4> SUFFICES ASSUME NEW k \in 1 .. Len(pipe'), Ends(k)'
                   PROVE  \A j \in 1 .. Len(view') : Older(view'[j].of, pipe'[k].of)
        BY DEF MarksAfterView, ViewOlder
      <4>1. /\ k + n \in 1 .. Len(pipe) /\ pipe'[k] = pipe[k + n] /\ Ends(k + n)
            /\ i + 1 < k + n
        BY <1>3, <1>5, <2>3, <2>5
      <4>2. ViewOlder(pipe[k + n].of) /\ Older(p, pipe[k + n].of)
        BY <2>3, <4>1 DEF Unreported, MarksAfterView, MarksInOrder
      <4> QED
        BY <3>3, <4>1, <4>2
    <3>6. JobIsNew'
      <4>1. ASSUME NEW q, AllOlder(q)
            PROVE  /\ \A j \in 1 .. Len(view') : Older(view'[j].of, q)
                   /\ \A k \in 1 .. Len(pipe') : Ends(k)' => Older(pipe'[k].of, q)
        <5>1. Older(p, q)
          BY <2>3, <4>1 DEF AllOlder, PipeOlder
        <5> QED
          BY <1>5, <2>5, <3>3, <4>1, <5>1 DEF AllOlder
      <4>2. jt9'.state = "decodes" => (AllOlder(jt9.job))'
        BY <2>5, <4>1 DEF Unreported, JobIsNew, AllOlder, ViewOlder, PipeOlder
      <4>3. copying' => (AllOlder(shm))'
        BY <1>2, <4>1 DEF Unreported, JobIsNew, AllOlder, ViewOlder, PipeOlder
      <4> QED
        BY <2>1, <4>2, <4>3 DEF JobIsNew
    <3>7. NoPeriodReportedTwice'
      <4> SUFFICES ASSUME NEW j \in 1 .. Len(view'), NEW k \in 1 .. Len(view'),
                          j < k
                   PROVE  Older(view'[j].of, view'[k].of)
        BY DEF NoPeriodReportedTwice, Older
      <4>1. ViewOlder(p)
        BY <2>3 DEF Unreported, MarksAfterView
      <4>2. j \in 1 .. m
        BY <3>1, <3>2
      <4>3. CASE k = m + 1
        BY <3>1, <4>1, <4>2, <4>3 DEF ViewOlder, m
      <4>4. CASE k \in 1 .. m
        BY <3>1, <4>2, <4>4 DEF Unreported, NoPeriodReportedTwice, Older, m
      <4> QED
        BY <3>2, <4>3, <4>4
    <3> QED
      BY <1>5, <2>5, <3>4, <3>5, <3>6, <3>7 DEF Unreported
  <2>6. ASSUME NEW a, Launch(a), NEW lines, view' = << [of |-> p, lines |-> lines] >>
        PROVE  Unreported'
    <3>1. Len(view') = 1 /\ view'[1].of = p
      BY <2>6
    <3>2. \A j \in 1 .. Len(view') : view'[j].of = p
      BY <3>1
    <3>3. pipe' = <<>> /\ Len(pipe') = 0 /\ jt9'.job = 0
      BY <2>6, ProcessMade DEF Launch
    <3>4. OfThePast'
      BY <1>2, <2>4, <3>2, <3>3 DEF Unreported, OfThePast
    <3>5. MarksAreWhole' /\ MarksInOrder' /\ MarksAfterView' /\ NoPeriodReportedTwice'
      BY <3>1, <3>3 DEF MarksAreWhole, MarksInOrder, MarksAfterView, NoPeriodReportedTwice
    <3>6. (AllOlder(jt9.job))'
      BY <3>3 DEF AllOlder, ViewOlder, PipeOlder, Older
    <3>7. copying' => (AllOlder(shm))'
      <4>1. copying => Older(p, shm)
        BY <2>3 DEF Unreported, JobIsNew, AllOlder, PipeOlder
      <4> QED
        BY <1>2, <3>2, <3>3, <4>1 DEF AllOlder, ViewOlder, PipeOlder
    <3> QED
      BY <2>1, <3>4, <3>5, <3>6, <3>7 DEF Unreported, JobIsNew
  <2> QED
    BY <2>2, <2>5, <2>6 DEF printHeardSignals, p, rest, n
<1> QED
  BY <1>1, <1>6, <1>7

LEMMA UnreportedStep ==
  ASSUME TypeOK, Unreported, [Next]_vars PROVE Unreported'
<1>1. CASE Press
  BY <1>1, StartStep DEF Press, setUpAndAttachSharedMemory
<1>2. CASE DecodeFileShared
  <2>1. PICK a : startJt9Task(a)
    BY <1>2, Zenon DEF DecodeFileShared
  <2>2. \/ shm' = 0
        \/ shm' = shm /\ lock' = lock
        \/ shm' = shm /\ lock' = TRUE
    BY <1>2, Zenon DEF DecodeFileShared
  <2>3. ASSUME shm' # 0, lock PROVE lock'
    <3>1. CASE lock' = lock
      BY <2>3, <3>1, Zenon
    <3>2. CASE lock' = TRUE
      BY <3>2, Zenon
    <3> QED
      BY <2>2, <2>3, <3>1, <3>2, Zenon
  <2>4. shm' = 0 \/ shm' = shm
    BY <2>2, Zenon
  <2>5. UNCHANGED <<handed, copying>>
    BY <1>2 DEF DecodeFileShared
  <2> QED
    BY <2>1, <2>3, <2>4, <2>5, StartStep, Zenon
<1>3. CASE getDecodeTextFromFile
  BY <1>3, StartStep DEF getDecodeTextFromFile
<1>4. CASE CopyPeriod
  BY <1>4, CopyStep
<1>5. CASE ReleasePeriod
  <2>1. /\ copying /\ ~copying' /\ ~lock'
        /\ UNCHANGED <<view, pipe, jt9, shm, handed>>
    BY <1>5 DEF ReleasePeriod, process
  <2>2. JobIsNew'
    BY <2>1 DEF Unreported, JobIsNew, AllOlder, ViewOlder, PipeOlder, Ends
  <2> QED
    BY <2>1, <2>2, Undisturbed DEF Unreported, OfThePast
<1>6. ASSUME UNCHANGED <<view, pipe, shm, handed, copying, lock>>,
             jt9'.state \in {"off", "waits"}, jt9'.job = 0, jt9'.state = "waits" => lock
      PROVE  Unreported'
  <2>1. JobIsNew'
    BY <1>6 DEF Unreported, JobIsNew, AllOlder, ViewOlder, PipeOlder, Ends
  <2>2. OfThePast'
    BY <1>6, Numbers DEF Unreported, OfThePast
  <2> QED
    BY <1>6, <2>1, <2>2, Undisturbed DEF Unreported
<1>7. CASE InterruptDecoder
  BY <1>6, <1>7 DEF InterruptDecoder, Off
<1>8. CASE BeginDecode
  <2>1. /\ jt9.state = "waits" /\ ~lock /\ jt9'.job = shm
        /\ UNCHANGED <<view, pipe, shm, handed, copying, lock>>
    <3>1. PICK m \in 0 .. MaxLines :
            jt9' = [jt9 EXCEPT !.state = "decodes", !.job = shm, !.left = m]
      BY <1>8, Zenon DEF BeginDecode
    <3>2. jt9 \in Processes /\ shm \in 0 .. Periods
      BY DEF TypeOK, Processes
    <3>3. jt9' = [state |-> "decodes", mode |-> jt9.mode, job |-> shm, left |-> m]
      BY <3>1, <3>2, ProcessChanged, Zenon
    <3> QED
      BY <1>8, <3>3 DEF BeginDecode
  <2>2. AllOlder(shm)
    BY <2>1 DEF Unreported, JobIsNew
  <2>3. JobIsNew'
    BY <2>1, <2>2 DEF Unreported, JobIsNew, AllOlder, ViewOlder, PipeOlder, Ends
  <2>4. OfThePast'
    BY <2>1, Numbers DEF Unreported, OfThePast
  <2> QED
    BY <2>1, <2>3, <2>4, Undisturbed DEF Unreported
<1>9. CASE PrintSignal \/ PrintMark
  BY <1>9, PrintStep
<1>10. CASE SeeLock
  BY <1>6, <1>10 DEF SeeLock, Off
<1>11. CASE Crash
  BY <1>6, <1>11 DEF Crash, Off
<1>12. CASE UNCHANGED <<view, pipe, jt9, shm, handed, copying, lock>>
  <2>1. JobIsNew' /\ OfThePast'
    BY <1>12 DEF Unreported, OfThePast, JobIsNew, AllOlder, ViewOlder, PipeOlder, Ends
  <2> QED
    BY <1>12, <2>1, Undisturbed DEF Unreported
<1>13. CASE taskTerminated
  BY <1>12, <1>13 DEF taskTerminated
<1>14. CASE dataReady
  BY <1>14, ReadStep
<1>15. CASE UNCHANGED vars
  BY <1>12, <1>15 DEF vars, process
<1> QED
  BY <1>1, <1>2, <1>3, <1>4, <1>5, <1>7, <1>8, <1>9, <1>10, <1>11, <1>13, <1>14, <1>15
     DEF Next, Operator, Worker, Decoder

LEMMA InitUnreported == Init => Unreported
<1> SUFFICES ASSUME Init PROVE Unreported
  OBVIOUS
<1>1. /\ Len(view) = 0 /\ Len(pipe) = 0 /\ jt9.job = 0
      /\ shm = 0 /\ handed = 0 /\ ~copying /\ lock
  BY ProcessMade DEF Init
<1> QED
  BY <1>1 DEF Unreported, OfThePast, MarksAreWhole, MarksInOrder, MarksAfterView, JobIsNew,
              NoPeriodReportedTwice, AllOlder, ViewOlder, PipeOlder

\* The reports in the view are of periods in the order of their recording, and
\* none is reported on twice, wherever the chunks end, whenever jt9 dies and is
\* started again, and however late it answers.
THEOREM PeriodsAreReportedOnce == Spec => []NoPeriodReportedTwice
<1>1. Init => TypeOK /\ Unreported
  BY InitTypes, InitUnreported
<1>2. TypeOK /\ Unreported /\ [Next]_vars => (TypeOK /\ Unreported)'
  BY TypesStep, UnreportedStep
<1>3. TypeOK /\ Unreported => NoPeriodReportedTwice
  BY DEF Unreported
<1> QED
  BY <1>1, <1>2, <1>3, PTL DEF Spec

-----------------------------------------------------------------------------
(* A decoder that answers within its minute.                               *)

\* The application attaches the memory before it hands a period over, and does
\* so while jt9 is idle: it waits with .lock there, or has just finished.
Attended ==
  /\ files = 0 /\ args = "shared" /\ jt9.mode = "shared"
  /\ task \/ jt9.state = "off"
  /\ mem_jt9 => jt9.state # "off"
  /\ copying => mem_jt9 /\ jt9.state # "decodes" /\ (jt9.state = "waits" => lock)
  /\ DecodesWholePeriods

\* jt9 and its memory as they were; .lock may have come back.
LEMMA LeftAlone ==
  ASSUME Attended, UNCHANGED <<files, args, jt9, task, mem_jt9, copying, shm>>,
         lock' = lock \/ lock' = TRUE
  PROVE  Attended'
BY DEF Attended, DecodesWholePeriods

\* A start finds jt9 there, or gone together with the memory.
LEMMA Relaunched ==
  ASSUME Attended, NEW a, Attach(a), args' = a, Launch(a), ~task,
         ~mem_jt9 => lock' = TRUE, UNCHANGED <<files, copying, shm>>
  PROVE  Attended'
<1>1. a = "shared" /\ ~mem_jt9 /\ ~copying
  BY DEF Attended, Attach
<1>2. jt9'.state = "waits" /\ jt9'.mode = "shared"
  BY <1>1, Zenon DEF Launch, NewProcess, Off
<1> QED
  BY <1>1, <1>2 DEF Launch, Attended, DecodesWholePeriods

LEMMA AttendedStep ==
  ASSUME Prompt, ~Crashes, TypeOK, Attended, [Next]_vars
  PROVE  Attended'
<1>1. CASE Press
  <2>1. PICK a : Attach(a) /\ startJt9Task(a)
    BY <1>1 DEF Press, setUpAndAttachSharedMemory
  <2>2. lock' = IF mem_jt9 THEN lock ELSE TRUE
    BY <1>1 DEF Press, setUpAndAttachSharedMemory
  <2>3. UNCHANGED <<files, copying, shm>> /\ args' = a /\ a = "shared"
    BY <1>1, <2>1 DEF Press, startJt9Task, Attach, Attended
  <2>4. CASE task
    <3>1. jt9' = jt9 /\ task' = task /\ jt9.state # "off"
      BY <1>1, <2>1, <2>4 DEF Press, startJt9Task
    <3> QED
      BY <2>1, <2>2, <2>3, <2>4, <3>1 DEF Attach, Attended, DecodesWholePeriods
  <2>5. CASE ~task
    BY <2>1, <2>2, <2>3, <2>5, Relaunched DEF startJt9Task
  <2> QED
    BY <2>4, <2>5
<1>2. ~DecodeFileShared /\ ~getDecodeTextFromFile
  BY DEF DecodeFileShared, getDecodeTextFromFile, Attended
<1>3. CASE CopyPeriod
  BY <1>3 DEF CopyPeriod, Busy, Attended, DecodesWholePeriods, process
<1>4. CASE ReleasePeriod
  BY <1>4 DEF ReleasePeriod, Attended, DecodesWholePeriods, process
<1>5. CASE InterruptDecoder
  BY <1>5 DEF InterruptDecoder, Attended, DecodesWholePeriods, Off
<1>6. CASE BeginDecode
  <2>1. PICK m \in 0 .. MaxLines :
          jt9' = [jt9 EXCEPT !.state = "decodes", !.job = shm, !.left = m]
    BY <1>6, Zenon DEF BeginDecode
  <2>2. jt9 \in Processes /\ shm \in 0 .. Periods
    BY DEF TypeOK, Processes
  <2>3. jt9' = [state |-> "decodes", mode |-> jt9.mode, job |-> shm, left |-> m]
    BY <2>1, <2>2, ProcessChanged, Zenon
  <2> QED
    BY <1>6, <2>3 DEF BeginDecode, Attended, DecodesWholePeriods
<1>7. CASE PrintSignal
  <2>1. jt9'.state = jt9.state /\ jt9'.mode = jt9.mode /\ jt9'.job = jt9.job
    BY <1>7 DEF PrintSignal, TypeOK
  <2> QED
    BY <1>7, <2>1 DEF PrintSignal, Attended, DecodesWholePeriods
<1>8. CASE PrintMark
  <2>1. jt9'.state = "done" /\ jt9'.mode = "shared"
    BY <1>8 DEF PrintMark, TypeOK, Attended
  <2> QED
    BY <1>8, <2>1 DEF PrintMark, Attended, DecodesWholePeriods
<1>9. CASE SeeLock
  BY <1>9 DEF SeeLock, Off, Attended, DecodesWholePeriods
<1>10. ~Crash
  BY DEF Crash
<1>11. CASE taskTerminated
  BY <1>11 DEF taskTerminated, Attended, DecodesWholePeriods
<1>12. CASE dataReady
  <2>1. PICK chunk \in Chunks : \/ MarksIn(chunk) # {} /\ ShowReport(chunk)
                                \/ MarksIn(chunk) = {} /\ CollectText(chunk)
    BY <1>12 DEF dataReady
  <2>2. UNCHANGED <<files, copying, shm>>
    BY <1>12 DEF dataReady
  <2>3. CASE CollectText(chunk)
    BY <2>2, <2>3, LeftAlone DEF CollectText
  <2>4. CASE ShowReport(chunk)
    <3>1. lock' = TRUE
      BY <2>4 DEF ShowReport
    <3>2. PICK i \in MarksIn(chunk) : printHeardSignals(chunk, i)
      BY <2>4 DEF ShowReport
    <3>3. CASE UNCHANGED <<mem_jt9, args, task, jt9, launches>>
      BY <2>2, <3>1, <3>3, LeftAlone
    <3>4. CASE ~task /\ \E a \in {args, "shared"} : Attach(a) /\ args' = a /\ Launch(a)
      BY <2>2, <3>1, <3>4, Relaunched
    <3> QED
      BY <3>2, <3>3, <3>4 DEF printHeardSignals
  <2> QED
    BY <2>1, <2>3, <2>4
<1>13. CASE UNCHANGED vars
  BY <1>13, LeftAlone DEF vars, process
<1> QED
  BY <1>1, <1>2, <1>3, <1>4, <1>5, <1>6, <1>7, <1>8, <1>9, <1>10, <1>11, <1>12, <1>13
     DEF Next, Operator, Worker, Decoder

\* While jt9 lives and is done before the next period is over, and no file is
\* decoded, it never works on a period that is being copied or has been
\* replaced in the shared memory, whatever chunks the pipe is read in and
\* although the memory may be attached late.
THEOREM PeriodsAreDecodedWhole ==
  ASSUME Prompt, ~Crashes, Files = 0
  PROVE  Spec => []DecodesWholePeriods
<1>1. Init => TypeOK /\ Attended
  <2> SUFFICES ASSUME Init PROVE Attended
    BY InitTypes
  <2>1. jt9.state = "waits" /\ jt9.mode = "shared"
    BY Zenon DEF Init, NewProcess, Off
  <2> QED
    BY <2>1 DEF Init, Attended, DecodesWholePeriods
<1>2. TypeOK /\ Attended /\ [Next]_vars => (TypeOK /\ Attended)'
  BY TypesStep, AttendedStep
<1>3. Attended => DecodesWholePeriods
  BY DEF Attended
<1> QED
  BY <1>1, <1>2, <1>3, PTL DEF Spec

-----------------------------------------------------------------------------
(* The order of the periods: with chunks that end at the end of a line, the *)
(* link goes round and round one cycle, with one period at a time.         *)

LastReported == IF view = <<>> THEN 0 ELSE view[Len(view)].of

\* A period has been handed over and not yet been reported on.
Due == copying \/ ~lock

NoMark == \A k \in 1 .. Len(pipe) : ~Ends(k)

\* The mark of the period handed over is what the pipe ends with.
MarkWaits ==
  LET n == Len(pipe)
  IN  /\ n >= 2
      /\ pipe[n - 1].kind = "<Decode" /\ pipe[n - 1].of = handed
      /\ Ends(n)
      /\ \A k \in 1 .. n - 1 : ~Ends(k)

Printed == jt9.state = "done" /\ ~lock

Cycle ==
  /\ task => armed
  /\ mem_jt9 => task
  /\ ~mem_jt9 => handed = 0 /\ ~Due /\ jt9.state \in {"off", "waits"}
  /\ copying => jt9.state = "waits" /\ lock
  /\ jt9.state = "decodes" => ~lock /\ jt9.job = handed
  /\ Due => shm = handed /\ handed > 0
  /\ LastReported = IF Due THEN handed - 1 ELSE handed
  /\ Printed => MarkWaits
  /\ ~Printed => NoMark

LEMMA PipeKept ==
  ASSUME UNCHANGED <<pipe, handed>>
  PROVE  NoMark' = NoMark /\ MarkWaits' = MarkWaits
BY DEF NoMark, MarkWaits, Ends

LEMMA ViewKept ==
  ASSUME UNCHANGED view PROVE LastReported' = LastReported
BY DEF LastReported

\* While jt9 has a period to print nothing else has been printed.
LEMMA CyclePrints ==
  ASSUME TypeOK, Unreported, Attended, Cycle, PrintSignal \/ PrintMark
  PROVE  Cycle'
<1> DEFINE n == Len(pipe)
           p == jt9.job
<1>1. /\ jt9.state = "decodes" /\ ~lock /\ ~copying /\ p = handed /\ NoMark
      /\ mem_jt9 /\ task /\ armed
      /\ UNCHANGED <<mem_jt9, shm, copying, handed, lock, task, armed, view>>
  BY DEF PrintSignal, PrintMark, Cycle, Due, Printed, Attended, DecodesWholePeriods
<1>2. n \in Nat /\ p \in 0 .. Periods /\ pipe \in Seq(Tokens)
  BY Numbers DEF TypeOK
<1>3. LastReported' = LastReported
  BY <1>1, ViewKept
<1>4. CASE PrintSignal
  <2>1. jt9'.state = "decodes" /\ jt9'.job = p
    BY <1>4 DEF PrintSignal, TypeOK
  <2>2. pipe' = pipe \o Line(p)
    BY <1>4, Zenon DEF PrintSignal
  <2>3. /\ Len(pipe') = n + 2
        /\ \A k \in 1 .. n : pipe'[k] = pipe[k]
        /\ pipe'[n + 1] = [kind |-> "head", of |-> p]
        /\ pipe'[n + 2] = [kind |-> "tail", of |-> p]
    BY <1>2, <2>2, PrintedLine, Zenon
  <2>4. NoMark'
    <3> SUFFICES ASSUME NEW k \in 1 .. Len(pipe') PROVE pipe'[k].kind # "Finished>"
      BY DEF NoMark, Ends
    <3>1. k \in 1 .. n \/ k = n + 1 \/ k = n + 2
      BY <1>2, <2>3
    <3> QED
      BY <1>1, <2>3, <3>1 DEF NoMark, Ends
  <2> QED
    BY <1>1, <1>3, <2>1, <2>4 DEF Cycle, Due, Printed
<1>5. CASE PrintMark
  <2>1. jt9'.state = "done"
    BY <1>5 DEF PrintMark, TypeOK, Attended
  <2>2. pipe' = pipe \o Mark(p)
    BY <1>5, Zenon DEF PrintMark
  <2>3. /\ Len(pipe') = n + 2
        /\ \A k \in 1 .. n : pipe'[k] = pipe[k]
        /\ pipe'[n + 1] = [kind |-> "<Decode", of |-> p]
        /\ pipe'[n + 2] = [kind |-> "Finished>", of |-> p]
    BY <1>2, <2>2, PrintedMark, Zenon
  <2>4. \A k \in 1 .. n + 1 : pipe'[k].kind # "Finished>"
    <3> SUFFICES ASSUME NEW k \in 1 .. n + 1 PROVE pipe'[k].kind # "Finished>"
      OBVIOUS
    <3>1. k \in 1 .. n \/ k = n + 1
      BY <1>2
    <3> QED
      BY <1>1, <2>3, <3>1 DEF NoMark, Ends
  <2>5. Len(pipe') - 1 = n + 1 /\ Len(pipe') >= 2
    BY <1>2, <2>3
  <2>6. /\ pipe'[Len(pipe') - 1].kind = "<Decode" /\ pipe'[Len(pipe') - 1].of = handed'
        /\ pipe'[Len(pipe')].kind = "Finished>"
        /\ \A k \in 1 .. Len(pipe') - 1 : pipe'[k].kind # "Finished>"
    BY <1>1, <2>3, <2>4, <2>5
  <2>7. MarkWaits'
    BY <2>5, <2>6 DEF MarkWaits, Ends
  <2> QED
    BY <1>1, <1>3, <2>1, <2>7 DEF Cycle, Due, Printed
<1> QED
  BY <1>4, <1>5

\* A chunk without the mark leaves the mark, all of it, for a later one.
LEMMA CycleCollects ==
  ASSUME ~Splits, TypeOK, Unreported, Cycle, UNCHANGED <<shm, copying, handed>>,
         NEW chunk \in Chunks, MarksIn(chunk) = {}, CollectText(chunk)
  PROVE  Cycle'
<1> DEFINE n == Len(chunk)
           m == Len(pipe)
           rest == SubSeq(pipe, n + 1, m)
<1>1. /\ n \in 1 .. m /\ m \in Nat
      /\ \A i \in 1 .. n : chunk[i] = pipe[i]
      /\ Len(rest) = m - n
      /\ \A k \in 1 .. Len(rest) : rest[k] = pipe[k + n]
  BY Read DEF TypeOK
<1>2. pipe' = rest
  BY DEF CollectText
<1>3. /\ UNCHANGED <<lock, mem_jt9, task, jt9, view>> /\ armed' = task
  BY DEF CollectText
<1>4. EndsLine(pipe[n])
  <2>1. PICK k \in 1 .. Len(pipe) : chunk = SubSeq(pipe, 1, k) /\ EndsLine(pipe[k])
    BY DEF Chunks
  <2>2. Len(SubSeq(pipe, 1, k)) = k
    BY <1>1, <2>1, SubSeqProperties DEF TypeOK
  <2> QED
    BY <2>1, <2>2
<1> HIDE DEF n, m, rest
<1>5. Len(pipe') = m - n /\ \A k \in 1 .. m - n : pipe'[k] = pipe[k + n]
  BY <1>1, <1>2
<1>6. \A k \in 1 .. m - n : k + n \in 1 .. m
  BY <1>1
<1>7. ASSUME NoMark PROVE NoMark'
  BY <1>5, <1>6, <1>7 DEF NoMark, Ends, m
<1>8. ASSUME MarkWaits PROVE MarkWaits'
  <2>1. /\ m >= 2 /\ pipe[m - 1].kind = "<Decode" /\ pipe[m - 1].of = handed
        /\ pipe[m].kind = "Finished>"
        /\ \A k \in 1 .. m - 1 : pipe[k].kind # "Finished>"
    BY <1>8 DEF MarkWaits, Ends, m
  <2>2. n # m - 1
    BY <1>4, <2>1 DEF EndsLine
  <2>3. n # m
    <3> SUFFICES ASSUME n = m PROVE FALSE
      OBVIOUS
    <3>1. m - 1 \in 1 .. n /\ m - 1 + 1 \in 1 .. n /\ m - 1 \in 1 .. n - 1 /\ m - 1 + 1 = m
      BY <1>1, <2>1
    <3>2. chunk[m - 1] = pipe[m - 1] /\ chunk[m] = pipe[m]
      BY <1>1, <3>1
    <3>3. m - 1 \in MarksIn(chunk)
      BY <2>1, <3>1, <3>2 DEF MarksIn, n
    <3> QED
      BY <3>3
  <2>4. m - n \in Nat /\ m - n >= 2 /\ m - n - 1 + n = m - 1 /\ m - n + n = m
        /\ m - n - 1 \in 1 .. m - n /\ m - n \in 1 .. m - n
    BY <1>1, <2>1, <2>2, <2>3
  <2>5. pipe'[m - n - 1] = pipe[m - 1] /\ pipe'[m - n] = pipe[m]
    BY <1>5, <2>4
  <2>6. \A k \in 1 .. m - n - 1 : pipe'[k].kind # "Finished>"
    <3> SUFFICES ASSUME NEW k \in 1 .. m - n - 1 PROVE pipe'[k].kind # "Finished>"
      OBVIOUS
    <3>1. k \in 1 .. m - n /\ k + n \in 1 .. m - 1
      BY <1>1, <2>4
    <3> QED
      BY <1>5, <2>1, <3>1
  <2> QED
    BY <1>5, <2>1, <2>4, <2>5, <2>6 DEF MarkWaits, Ends
<1> QED
  BY <1>3, <1>7, <1>8, ViewKept DEF Cycle, Due, Printed

\* The chunk with the mark is the last one of the period, and the report it
\* makes is the one that is due.
LEMMA CycleReports ==
  ASSUME TypeOK, Unreported, Attended, Cycle, UNCHANGED <<shm, copying, handed>>,
         NEW chunk \in Chunks, MarksIn(chunk) # {}, ShowReport(chunk)
  PROVE  /\ Cycle'
         /\ LastReported < handed /\ LastReported' = LastReported + 1
         /\ view' = Append(view, [of |-> handed, lines |-> inputLines])
         /\ Len(pipe') = 0
<1> DEFINE n == Len(chunk)
           m == Len(pipe)
<1>1. /\ n \in 1 .. m /\ m \in Nat
      /\ \A i \in 1 .. n : chunk[i] = pipe[i]
      /\ Len(SubSeq(pipe, n + 1, m)) = m - n
  BY Read DEF TypeOK
<1>2. PICK i \in MarksIn(chunk) : printHeardSignals(chunk, i)
  BY DEF ShowReport
<1>3. lock' = TRUE
  BY DEF ShowReport
<1>4. /\ i \in 1 .. n /\ i + 1 \in 1 .. n /\ i + 1 \in 1 .. m
      /\ pipe[i + 1].kind = "Finished>" /\ chunk[i].of = pipe[i].of
  <2>1. i \in 1 .. n - 1 /\ chunk[i + 1].kind = "Finished>"
    BY DEF MarksIn
  <2>2. i \in 1 .. n /\ i + 1 \in 1 .. n /\ i + 1 \in 1 .. m
    BY <1>1, <2>1
  <2> QED
    BY <1>1, <2>1, <2>2
<1>5. MarkWaits /\ Printed
  BY <1>4 DEF Cycle, NoMark, Ends
<1>6. i = m - 1 /\ n = m /\ chunk[i].of = handed
  <2>1. m >= 2 /\ pipe[m - 1].of = handed /\ \A k \in 1 .. m - 1 : pipe[k].kind # "Finished>"
    BY <1>5 DEF MarkWaits, Ends
  <2>2. ~(i + 1 \in 1 .. m - 1)
    BY <1>4, <2>1
  <2> QED
    BY <1>1, <1>4, <2>1, <2>2
<1>7. Due /\ ~copying /\ jt9.state = "done" /\ mem_jt9 /\ task
  BY <1>5 DEF Printed, Due, Cycle
<1>8. /\ view' = Append(view, [of |-> handed, lines |-> inputLines])
      /\ pipe' = SubSeq(pipe, n + 1, m) /\ armed' = task
      /\ UNCHANGED <<mem_jt9, args, task, jt9, launches>>
  BY <1>2, <1>6, <1>7 DEF printHeardSignals
<1>9. LastReported' = handed
  <2> DEFINE report == [of |-> handed, lines |-> inputLines]
  <2>1. report \in Reported /\ report.of = handed /\ view \in Seq(Reported)
    BY DEF TypeOK, Reported, Texts
  <2> HIDE DEF report
  <2>2. view' = Append(view, report)
    BY <1>8 DEF report
  <2>3. Len(view') = Len(view) + 1 /\ view'[Len(view) + 1] = report /\ view' # <<>>
    BY <2>1, <2>2, AppendProperties
  <2> QED
    BY <2>1, <2>3 DEF LastReported
<1>10. Len(pipe') = 0
  BY <1>1, <1>6, <1>8
<1>11. handed \in Nat /\ LastReported = handed - 1
  BY <1>7, Bounds DEF Cycle, TypeOK
<1>12. LastReported < handed /\ LastReported' = LastReported + 1
  BY <1>9, <1>11
<1>13. Cycle'
  BY <1>3, <1>7, <1>8, <1>9, <1>10 DEF Cycle, Due, Printed, NoMark
<1> QED
  BY <1>8, <1>10, <1>12, <1>13

\* What a step is to DecodeReports: a period recorded, or reported, or neither.
Recorded == handed' = handed + 1 /\ LastReported' = LastReported
ReportedOne ==
  LastReported < handed /\ LastReported' = LastReported + 1 /\ handed' = handed
Neither == handed' = handed /\ LastReported' = LastReported

LEMMA CycleStep ==
  ASSUME Prompt, ~Crashes, ~Splits, TypeOK, Unreported, Attended, Cycle, [Next]_vars
  PROVE  Cycle' /\ (Recorded \/ ReportedOne \/ Neither)
<1>1. CASE Press
  <2>1. PICK a : Attach(a) /\ startJt9Task(a)
    BY <1>1 DEF Press, setUpAndAttachSharedMemory
  <2>2. lock' = IF mem_jt9 THEN lock ELSE TRUE
    BY <1>1 DEF Press, setUpAndAttachSharedMemory
  <2>3. UNCHANGED <<shm, copying, handed>> /\ lock' = lock /\ a = "shared"
    BY <1>1, <2>1, <2>2 DEF Press, Cycle, Due, Attach, Attended, TypeOK
  <2>4. CASE task
    <3>1. UNCHANGED <<task, jt9, pipe, armed, view>> /\ jt9.state # "off"
      BY <1>1, <2>1, <2>4 DEF Press, startJt9Task
    <3> QED
      BY <2>1, <2>3, <2>4, <3>1, PipeKept, ViewKept
         DEF Attach, Cycle, Due, Printed, Neither
  <2>5. CASE ~task
    <3>1. ~mem_jt9 /\ handed = 0 /\ ~Due /\ LastReported = 0
      BY <2>5 DEF Cycle
    <3>2. view' = <<>> /\ Launch(a)
      BY <2>1, <2>5 DEF startJt9Task
    <3>3. pipe' = <<>> /\ armed' /\ task'
      BY <3>2 DEF Launch
    <3>4. jt9'.state = "waits"
      BY <2>3, <3>2, Zenon DEF Launch, NewProcess, Off
    <3>5. NoMark' /\ LastReported' = 0
      <4>1. Len(pipe') = 0
        BY <3>3
      <4> QED
        BY <3>2, <4>1 DEF NoMark, LastReported
    <3> QED
      BY <2>3, <3>1, <3>3, <3>4, <3>5 DEF Cycle, Due, Printed, Neither
  <2> QED
    BY <2>4, <2>5
<1>2. ~DecodeFileShared /\ ~getDecodeTextFromFile
  BY DEF DecodeFileShared, getDecodeTextFromFile, Attended
<1>3. CASE CopyPeriod
  <2>1. /\ mem_jt9 /\ ~copying /\ ~Busy
        /\ handed' = handed + 1 /\ shm' = handed + 1 /\ copying'
        /\ UNCHANGED <<mem_jt9, lock, task, jt9, armed, pipe, view>>
    BY <1>3 DEF CopyPeriod, process
  <2>2. ~Printed
    <3> SUFFICES ASSUME Printed PROVE FALSE
      OBVIOUS
    <3>1. Len(pipe) >= 2 /\ armed
      BY <2>1 DEF Cycle, MarkWaits
    <3>2. pipe # <<>>
      BY <3>1
    <3> QED
      BY <2>1, <3>1, <3>2 DEF Busy
  <2>3. jt9.state = "waits" /\ lock
    <3>1. jt9.state \in {"waits", "done"}
      BY <2>1 DEF TypeOK, Attended, Busy
    <3> QED
      BY <2>1, <2>2, <3>1 DEF Busy, Printed
  <2>4. NoMark /\ NoMark'
    BY <2>1, <2>2 DEF Cycle, NoMark, Ends
  <2>5. LastReported = handed /\ LastReported' = LastReported /\ handed \in Nat
    BY <2>1, <2>3, ViewKept, Bounds DEF Cycle, Due, TypeOK
  <2> QED
    BY <2>1, <2>3, <2>4, <2>5 DEF Cycle, Due, Printed, Recorded
<1>4. CASE ReleasePeriod
  <2>1. /\ copying /\ ~copying' /\ ~lock'
        /\ UNCHANGED <<mem_jt9, shm, handed, task, jt9, armed, pipe, view>>
    BY <1>4 DEF ReleasePeriod, process
  <2> QED
    BY <2>1, PipeKept, ViewKept DEF Cycle, Due, Printed, Neither
\* jt9 alone moves.
<1>5. ASSUME UNCHANGED <<mem_jt9, shm, copying, handed, lock, task, armed, pipe, view>>,
             Printed' <=> Printed, ~copying,
             ~mem_jt9 => jt9'.state \in {"off", "waits"},
             jt9'.state = "decodes" => ~lock /\ jt9'.job = handed
      PROVE  Cycle' /\ Neither
  BY <1>5, PipeKept, ViewKept DEF Cycle, Due, Neither
<1>6. CASE InterruptDecoder
  BY <1>5, <1>6 DEF InterruptDecoder, Cycle, Due, Off, Printed
<1>7. CASE BeginDecode
  <2>1. PICK m \in 0 .. MaxLines :
          jt9' = [jt9 EXCEPT !.state = "decodes", !.job = shm, !.left = m]
    BY <1>7, Zenon DEF BeginDecode
  <2>2. jt9 \in Processes /\ shm \in 0 .. Periods
    BY DEF TypeOK, Processes
  <2>3. jt9' = [state |-> "decodes", mode |-> jt9.mode, job |-> shm, left |-> m]
    BY <2>1, <2>2, ProcessChanged, Zenon
  <2>4. jt9'.state = "decodes" /\ jt9'.job = shm
    BY <2>3
  <2>5. /\ jt9.state = "waits" /\ ~lock
        /\ UNCHANGED <<mem_jt9, shm, copying, handed, lock, task, armed, pipe, view>>
    BY <1>7 DEF BeginDecode
  <2>6. mem_jt9 /\ ~copying /\ shm = handed
    BY <2>5 DEF Cycle, Due
  <2> QED
    BY <1>5, <2>4, <2>5, <2>6 DEF Printed
<1>8. CASE PrintSignal \/ PrintMark
  <2>1. UNCHANGED <<view, handed>>
    BY <1>8 DEF PrintSignal, PrintMark
  <2> QED
    BY <1>8, <2>1, CyclePrints, ViewKept DEF Neither
<1>9. CASE SeeLock
  BY <1>5, <1>9 DEF SeeLock, Cycle, Due, Off, Printed
<1>10. ~Crash
  BY DEF Crash
<1>11. CASE taskTerminated
  <2>1. /\ task' = FALSE /\ jt9.state = "off"
        /\ UNCHANGED <<mem_jt9, shm, copying, handed, lock, jt9, armed, pipe, view>>
    BY <1>11 DEF taskTerminated
  <2> QED
    BY <2>1, PipeKept, ViewKept DEF Cycle, Due, Printed, Attended, Neither
<1>12. CASE dataReady
  <2>1. PICK chunk \in Chunks : \/ MarksIn(chunk) # {} /\ ShowReport(chunk)
                                \/ MarksIn(chunk) = {} /\ CollectText(chunk)
    BY <1>12 DEF dataReady
  <2>2. UNCHANGED <<shm, copying, handed>>
    BY <1>12 DEF dataReady
  <2>3. CASE MarksIn(chunk) # {} /\ ShowReport(chunk)
    BY <2>2, <2>3, CycleReports DEF ReportedOne
  <2>4. CASE MarksIn(chunk) = {} /\ CollectText(chunk)
    <3>1. view' = view
      BY <2>4 DEF CollectText
    <3> QED
      BY <2>2, <2>4, <3>1, CycleCollects, ViewKept DEF Neither
  <2> QED
    BY <2>1, <2>3, <2>4
<1>13. CASE UNCHANGED vars
  <2>1. UNCHANGED <<mem_jt9, shm, copying, handed, lock, task, armed, pipe, view, jt9>>
    BY <1>13 DEF vars, process
  <2> QED
    BY <2>1, PipeKept, ViewKept DEF Cycle, Due, Printed, Neither
<1> QED
  BY <1>1, <1>2, <1>3, <1>4, <1>6, <1>7, <1>8, <1>9, <1>10, <1>11, <1>12, <1>13
     DEF Next, Operator, Worker, Decoder

LEMMA InitCycle ==
  ASSUME Files = 0, Init PROVE Attended /\ Cycle
<1>1. jt9.state = "waits" /\ jt9.mode = "shared"
  BY Zenon DEF Init, NewProcess, Off
<1>2. Attended
  BY <1>1 DEF Init, Attended, DecodesWholePeriods
<1>3. LastReported = 0 /\ NoMark
  <2>1. view = <<>> /\ Len(pipe) = 0
    BY DEF Init
  <2> QED
    BY <2>1 DEF LastReported, NoMark
<1>4. Cycle
  BY <1>1, <1>3 DEF Init, Cycle, Due, Printed
<1> QED
  BY <1>2, <1>4

\* With a decoder in time that does not die, lines that come whole and no files,
\* every report is on the next period handed over: none is left out, and none
\* comes before it was recorded.  (What KeepsPromise says without the fairness.)
THEOREM LinkImplementsReports ==
  ASSUME Prompt, ~Crashes, ~Splits, Files = 0
  PROVE  Spec => Reports!Init /\ [][Reports!Next]_(Reports!vars)
<1> DEFINE Inv == TypeOK /\ Unreported /\ Attended /\ Cycle
<1>1. Init => Inv /\ Reports!Init
  BY InitCycle, InitTypes, InitUnreported DEF Init, Reports!Init
<1>2. Inv /\ [Next]_vars => Inv' /\ [Reports!Next]_(Reports!vars)
  <2> SUFFICES ASSUME Inv, [Next]_vars PROVE Inv' /\ [Reports!Next]_(Reports!vars)
    OBVIOUS
  <2>1. Inv'
    BY TypesStep, UnreportedStep, AttendedStep, CycleStep
  <2>2. Recorded \/ ReportedOne \/ Neither
    BY CycleStep
  <2>3. [Reports!Next]_(Reports!vars)
    BY <2>2 DEF Recorded, ReportedOne, Neither, LastReported, Reports!Next,
                Reports!Record, Reports!Report, Reports!vars
  <2> QED
    BY <2>1, <2>3
<1> QED
  BY <1>1, <1>2, PTL DEF Spec

-----------------------------------------------------------------------------
(* The lines of a report.                                                  *)

OfPeriod(line, p) == \A n \in 1 .. Len(line) : line[n].of = p

Belongs(report) ==
  \A k \in 1 .. Len(report.lines) : OfPeriod(report.lines[k], report.of)

\* Nothing is left over from one period to the next: text that has been printed
\* or read and not yet been shown is of the period that is due.
Clean ==
  /\ lineIn = <<>>
  /\ jt9.state \in {"off", "waits"} \/ ~Due => Len(pipe) = 0 /\ Len(inputLines) = 0
  /\ OfPeriod(pipe, handed)
  /\ \A k \in 1 .. Len(inputLines) : OfPeriod(inputLines[k], handed)
  /\ \A i \in 1 .. Len(view) : Belongs(view[i])

LEMMA CleanKept ==
  ASSUME Clean, UNCHANGED <<lineIn, inputLines, pipe, handed, view>>,
         jt9'.state \in {"off", "waits"} \/ ~Due'
           => jt9.state \in {"off", "waits"} \/ ~Due
  PROVE  Clean'
BY DEF Clean, OfPeriod, Belongs

LEMMA CleanPrints ==
  ASSUME TypeOK, Unreported, Attended, Cycle, Clean, PrintSignal \/ PrintMark
  PROVE  Clean'
<1> DEFINE n == Len(pipe)
           p == jt9.job
<1>1. /\ ~lock /\ p = handed
      /\ UNCHANGED <<lineIn, inputLines, copying, handed, lock, view>>
  BY DEF PrintSignal, PrintMark, Cycle, text
<1>2. n \in Nat /\ p \in 0 .. Periods /\ pipe \in Seq(Tokens)
  BY Numbers DEF TypeOK
<1>3. jt9'.state \in {"decodes", "done"}
  BY DEF PrintSignal, PrintMark, TypeOK, Attended
<1>4. /\ Len(pipe') = n + 2
      /\ \A k \in 1 .. n : pipe'[k] = pipe[k]
      /\ pipe'[n + 1].of = p /\ pipe'[n + 2].of = p
  <2>1. CASE PrintSignal
    <3>1. pipe' = pipe \o Line(p)
      BY <2>1, Zenon DEF PrintSignal
    <3>2. /\ Len(pipe') = n + 2
          /\ \A k \in 1 .. n : pipe'[k] = pipe[k]
          /\ pipe'[n + 1] = [kind |-> "head", of |-> p]
          /\ pipe'[n + 2] = [kind |-> "tail", of |-> p]
      BY <1>2, <3>1, PrintedLine, Zenon
    <3> QED
      BY <3>2
  <2>2. CASE PrintMark
    <3>1. pipe' = pipe \o Mark(p)
      BY <2>2, Zenon DEF PrintMark
    <3>2. /\ Len(pipe') = n + 2
          /\ \A k \in 1 .. n : pipe'[k] = pipe[k]
          /\ pipe'[n + 1] = [kind |-> "<Decode", of |-> p]
          /\ pipe'[n + 2] = [kind |-> "Finished>", of |-> p]
      BY <1>2, <3>1, PrintedMark, Zenon
    <3> QED
      BY <3>2
  <2> QED
    BY <2>1, <2>2
<1>5. OfPeriod(pipe, handed)'
  <2> SUFFICES ASSUME NEW k \in 1 .. Len(pipe') PROVE pipe'[k].of = handed
    BY <1>1 DEF OfPeriod
  <2>1. k \in 1 .. n \/ k = n + 1 \/ k = n + 2
    BY <1>2, <1>4
  <2> QED
    BY <1>1, <1>4, <2>1 DEF Clean, OfPeriod
<1> QED
  BY <1>1, <1>3, <1>5 DEF Clean, Due, OfPeriod, Belongs

\* A chunk without a mark completes a line: it ends where a line ends.
LEMMA CleanCollects ==
  ASSUME ~Splits, TypeOK, Unreported, Clean, UNCHANGED <<copying, handed>>,
         NEW chunk \in Chunks, CollectText(chunk)
  PROVE  Clean'
<1> DEFINE n == Len(chunk)
           m == Len(pipe)
           rest == SubSeq(pipe, n + 1, m)
<1>1. /\ n \in 1 .. m /\ m \in Nat
      /\ \A i \in 1 .. n : chunk[i] = pipe[i]
      /\ Len(rest) = m - n
      /\ \A k \in 1 .. Len(rest) : rest[k] = pipe[k + n]
  BY Read DEF TypeOK
<1>2. PICK e \in 1 .. m : chunk = SubSeq(pipe, 1, e) /\ EndsLine(pipe[e])
  BY DEF Chunks
<1>3. chunk \in Seq(Tokens) /\ n = e
  <2>1. Len(SubSeq(pipe, 1, e)) = e /\ SubSeq(pipe, 1, e) \in Seq(Tokens)
    BY <1>1, <1>2, SubSeqProperties DEF TypeOK
  <2> QED
    BY <1>2, <2>1
<1>4. \E i \in 1 .. n : EndsLine(chunk[i])
  BY <1>1, <1>2, <1>3
<1>5. lineIn \o chunk = chunk
  BY <1>3, ConcatEmptySeq DEF Clean
<1>6. /\ inputLines' = Append(inputLines, chunk) /\ lineIn' = <<>>
      /\ pipe' = rest /\ UNCHANGED <<lock, jt9, view>>
  BY <1>4, <1>5 DEF CollectText
<1> HIDE DEF n, m, rest
<1>7. ~(jt9.state \in {"off", "waits"} \/ ~Due)
  BY <1>1 DEF Clean, m
<1>8. OfPeriod(chunk, handed)
  <2>1. \A i \in 1 .. n : i \in 1 .. m
    BY <1>1
  <2> QED
    BY <1>1, <2>1 DEF Clean, OfPeriod, n, m
<1>9. OfPeriod(pipe, handed)'
  <2>1. \A k \in 1 .. m - n : k + n \in 1 .. m
    BY <1>1
  <2> QED
    BY <1>1, <1>6, <2>1 DEF Clean, OfPeriod, m
<1>10. (\A k \in 1 .. Len(inputLines) : OfPeriod(inputLines[k], handed))'
  <2> SUFFICES ASSUME NEW k \in 1 .. Len(inputLines')
               PROVE  OfPeriod(inputLines'[k], handed)
    BY DEF OfPeriod
  <2>1. /\ Len(inputLines') = Len(inputLines) + 1 /\ Len(inputLines) \in Nat
        /\ \A j \in 1 .. Len(inputLines) : inputLines'[j] = inputLines[j]
        /\ inputLines'[Len(inputLines) + 1] = chunk
    BY <1>3, <1>6, AppendProperties, LenProperties DEF TypeOK
  <2>2. k \in 1 .. Len(inputLines) \/ k = Len(inputLines) + 1
    BY <2>1
  <2> QED
    BY <1>8, <2>1, <2>2 DEF Clean
<1>11. (\A i \in 1 .. Len(view) : Belongs(view[i]))'
  <2> SUFFICES ASSUME NEW i \in 1 .. Len(view') PROVE Belongs(view'[i])
    BY DEF Belongs, OfPeriod
  <2> QED
    BY <1>6 DEF Clean
<1>12. ~(jt9.state \in {"off", "waits"} \/ ~Due)'
  BY <1>6, <1>7 DEF Due
<1> QED
  BY <1>6, <1>9, <1>10, <1>11, <1>12 DEF Clean

\* The report has the lines of its period, and takes all that was read with it.
LEMMA CleanReports ==
  ASSUME TypeOK, Clean, UNCHANGED <<handed>>,
         view' = Append(view, [of |-> handed, lines |-> inputLines]),
         Len(pipe') = 0, inputLines' = <<>>, lineIn' = lineIn
  PROVE  Clean'
<1> DEFINE report == [of |-> handed, lines |-> inputLines]
<1>1. report \in Reported /\ view \in Seq(Reported)
      /\ report.of = handed /\ report.lines = inputLines
  BY DEF TypeOK, Reported, Texts
<1> HIDE DEF report
<1>2. view' = Append(view, report)
  BY DEF report
<1>3. /\ Len(view') = Len(view) + 1 /\ Len(view) \in Nat
      /\ \A j \in 1 .. Len(view) : view'[j] = view[j]
      /\ view'[Len(view) + 1] = report
  BY <1>1, <1>2, AppendProperties, LenProperties
<1>4. Belongs(report)
  BY <1>1 DEF Clean, Belongs
<1>5. (\A i \in 1 .. Len(view) : Belongs(view[i]))'
  <2> SUFFICES ASSUME NEW i \in 1 .. Len(view') PROVE Belongs(view'[i])
    BY DEF Belongs, OfPeriod
  <2>1. i \in 1 .. Len(view) \/ i = Len(view) + 1
    BY <1>3
  <2> QED
    BY <1>3, <1>4, <2>1 DEF Clean
<1>6. Len(inputLines') = 0
  OBVIOUS
<1> QED
  BY <1>5, <1>6 DEF Clean, OfPeriod

LEMMA CleanStep ==
  ASSUME Prompt, ~Crashes, ~Splits, TypeOK, Unreported, Attended, Cycle, Clean,
         [Next]_vars
  PROVE  Clean'
<1>1. CASE Press
  <2>1. PICK a : Attach(a) /\ startJt9Task(a)
    BY <1>1 DEF Press, setUpAndAttachSharedMemory
  <2>2. UNCHANGED <<copying, handed, lineIn, inputLines>>
    BY <1>1 DEF Press, text
  <2>3. CASE task
    <3>1. UNCHANGED <<jt9, pipe, view>>
      BY <2>1, <2>3 DEF startJt9Task
    <3>2. lock' = lock
      BY <1>1 DEF Press, setUpAndAttachSharedMemory, Cycle, Due, TypeOK
    <3> QED
      BY <2>2, <3>1, <3>2, CleanKept DEF Due
  <2>4. CASE ~task
    <3>1. Len(inputLines) = 0
      BY <2>4 DEF Cycle, Clean
    <3>2. view' = <<>> /\ pipe' = <<>>
      BY <2>1, <2>4 DEF startJt9Task, Launch
    <3>3. Len(view') = 0 /\ Len(pipe') = 0
      BY <3>2
    <3> QED
      BY <2>2, <3>1, <3>3 DEF Clean, OfPeriod, Belongs
  <2> QED
    BY <2>3, <2>4
<1>2. ~DecodeFileShared /\ ~getDecodeTextFromFile
  BY DEF DecodeFileShared, getDecodeTextFromFile, Attended
<1>3. CASE CopyPeriod
  <2>1. UNCHANGED <<lineIn, inputLines, pipe, view, jt9, lock>> /\ mem_jt9 /\ ~copying
    BY <1>3 DEF CopyPeriod, process, text
  <2>2. jt9.state = "waits" \/ ~Due
    <3> SUFFICES ASSUME jt9.state # "waits", ~lock PROVE FALSE
      BY <2>1 DEF Due
    <3>1. jt9.state = "done"
      BY <1>3, <2>1 DEF CopyPeriod, Busy, TypeOK, Attended
    <3>2. Len(pipe) >= 2 /\ armed
      BY <2>1, <3>1 DEF Cycle, Printed, MarkWaits
    <3>3. pipe # <<>>
      BY <3>2
    <3> QED
      BY <1>3, <3>2, <3>3 DEF CopyPeriod, Busy
  <2>3. Len(pipe) = 0 /\ Len(inputLines) = 0
    BY <2>2 DEF Clean
  <2> QED
    BY <2>1, <2>3 DEF Clean, OfPeriod, Belongs
<1>4. CASE ReleasePeriod
  BY <1>4, CleanKept DEF ReleasePeriod, process, text, Due
<1>5. CASE InterruptDecoder
  BY <1>5, CleanKept DEF InterruptDecoder, text, Cycle, Due
<1>6. CASE BeginDecode
  BY <1>6, CleanKept DEF BeginDecode, text
<1>7. CASE PrintSignal \/ PrintMark
  BY <1>7, CleanPrints
<1>8. CASE SeeLock
  BY <1>8, CleanKept DEF SeeLock, text, Cycle, Due
<1>9. ~Crash
  BY DEF Crash
<1>10. CASE taskTerminated
  BY <1>10, CleanKept DEF taskTerminated, text, Due
<1>11. CASE dataReady
  <2>1. PICK chunk \in Chunks : \/ MarksIn(chunk) # {} /\ ShowReport(chunk)
                                \/ MarksIn(chunk) = {} /\ CollectText(chunk)
    BY <1>11 DEF dataReady
  <2>2. UNCHANGED <<shm, copying, handed>>
    BY <1>11 DEF dataReady
  <2>3. CASE MarksIn(chunk) # {} /\ ShowReport(chunk)
    <3>1. /\ view' = Append(view, [of |-> handed, lines |-> inputLines])
          /\ Len(pipe') = 0
      BY <2>2, <2>3, CycleReports
    <3>2. inputLines' = <<>> /\ lineIn' = lineIn
      BY <2>3 DEF ShowReport
    <3> QED
      BY <2>2, <3>1, <3>2, CleanReports
  <2>4. CASE MarksIn(chunk) = {} /\ CollectText(chunk)
    BY <2>2, <2>4, CleanCollects
  <2> QED
    BY <2>1, <2>3, <2>4
<1>12. CASE UNCHANGED vars
  BY <1>12, CleanKept DEF vars, process, text, Due
<1> QED
  BY <1>1, <1>2, <1>3, <1>4, <1>5, <1>6, <1>7, <1>8, <1>9, <1>10, <1>11, <1>12
     DEF Next, Operator, Worker, Decoder

\* The lines shown in a report were decoded from the period reported on
\* (LinesBelongToTheirPeriod), with a decoder in time that does not die, lines
\* that come whole and no files.
THEOREM ReportsHaveTheirOwnLines ==
  ASSUME Prompt, ~Crashes, ~Splits, Files = 0
  PROVE  Spec => []LinesBelongToTheirPeriod
<1> DEFINE Inv == TypeOK /\ Unreported /\ Attended /\ Cycle /\ Clean
<1>1. Init => Inv
  <2> SUFFICES ASSUME Init PROVE Inv
    OBVIOUS
  <2>1. Len(inputLines) = 0 /\ Len(pipe) = 0 /\ Len(view) = 0
    BY DEF Init
  <2>2. Clean
    BY <2>1 DEF Init, Clean, OfPeriod
  <2> QED
    BY <2>2, InitCycle, InitTypes, InitUnreported
<1>2. Inv /\ [Next]_vars => Inv'
  BY TypesStep, UnreportedStep, AttendedStep, CycleStep, CleanStep
<1>3. Inv => LinesBelongToTheirPeriod
  BY DEF Clean, Belongs, OfPeriod, LinesBelongToTheirPeriod
<1> QED
  BY <1>1, <1>2, <1>3, PTL DEF Spec

=============================================================================
