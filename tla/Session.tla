------------------------------ MODULE Session ------------------------------
(***************************************************************************)
(* What outlives the application: its directory, the list of the stations  *)
(* worked (wsjtx_callList.log) and the shared memory segment.              *)
(*                                                                         *)
(* A session is from launch to applicationWillTerminate or to a crash.     *)
(* The key of the segment is the same in all of them: ftok is given a name *)
(* that is no file, memoryKeyString without its directory.                 *)
(***************************************************************************)
EXTENDS Naturals, Sequences, SequencesExt

CONSTANTS
  Calls,    \* call signs
  nil,      \* no call sign
  Sessions  \* how many launches (a bound)

ASSUME SessionAssumption == nil \notin Calls /\ Sessions \in Nat

VARIABLES
  directory,     \* the directory is there
  callListFile,  \* the file is there
  callList,      \* the calls in it
  segment,       \* the segment is there
  jt9,           \* some process jt9 is attached to it
  app,           \* "down", "up", or "logging": between file and memory
  attached,      \* attachments of the application
  mem_jt9,       \* mem_jt9 # NULL
  heardStations, \* the calls the application knows of
  m_hisCall,     \* the station of the contact
  sessions,      \* launches so far
  first,         \* this session has made the directory (history)
  announced      \* calls "logging QSO with" in other sessions (history)

disk == <<directory, callListFile, callList>>
memory == <<segment, jt9, attached, mem_jt9>>
calls == <<heardStations, m_hisCall>>
history == <<sessions, first, announced>>
vars == <<disk, memory, app, calls, history>>

TypeOK ==
  /\ directory \in BOOLEAN /\ callListFile \in BOOLEAN /\ first \in BOOLEAN
  /\ segment \in BOOLEAN /\ jt9 \in BOOLEAN /\ mem_jt9 \in BOOLEAN
  /\ callList \in Seq(Calls)
  /\ attached \in 0 .. 2
  /\ app \in {"down", "up", "logging"}
  /\ heardStations \subseteq Calls /\ m_hisCall \in Calls \cup {nil}
  /\ sessions \in 0 .. Sessions /\ announced \subseteq Calls

\* Before the first launch on a machine.
Init ==
  /\ directory = FALSE /\ callListFile = FALSE /\ callList = <<>>
  /\ segment = FALSE /\ jt9 = FALSE /\ attached = 0 /\ mem_jt9 = FALSE
  /\ app = "down" /\ heardStations = {} /\ m_hisCall = nil
  /\ sessions = 0 /\ first = FALSE /\ announced = {}

-----------------------------------------------------------------------------
\* Mutation: the list is read, but not kept.
ForgetList ==
  /\ callListFile' = (callListFile \/ directory)
  /\ directory' = TRUE
  /\ heardStations' = {}
  /\ UNCHANGED callList

\* The file is made when it is missing, and only then the directory.
initAllFiles ==
  /\ callListFile' = (callListFile \/ directory)
  /\ directory' = TRUE
  /\ heardStations' = ToSet(callList)
  /\ UNCHANGED callList

\* create may fail; jt9 is started when it is not running.
createAndAttach ==
  \/ segment' = TRUE /\ attached' = attached + 1 /\ jt9' \in {jt9, TRUE}
  \/ UNCHANGED <<segment, attached, jt9>>

\* init: mem_jt9 is set to NULL after it was attached.
launch ==
  /\ app = "down" /\ sessions < Sessions
  /\ app' = "up" /\ sessions' = sessions + 1 /\ first' = ~directory
  /\ initAllFiles
  /\ createAndAttach
  /\ mem_jt9' = FALSE /\ m_hisCall' = nil
  /\ UNCHANGED announced

\* Mutation: mem_jt9 is not kept.
AttachAgain ==
  /\ app = "up" /\ ~mem_jt9
  /\ createAndAttach
  /\ UNCHANGED <<mem_jt9, disk, app, calls, history>>

\* The buttons that record, transmit or decode a file.
setUpAndAttachSharedMemory ==
  /\ app = "up" /\ ~mem_jt9
  /\ createAndAttach
  /\ mem_jt9' = (attached' > attached)
  /\ UNCHANGED <<disk, app, calls, history>>

\* A click on a station.
startQSOWithThisGuy ==
  /\ app = "up"
  /\ m_hisCall' \in Calls
  /\ UNCHANGED <<disk, memory, app, heardStations, history>>

\* Mutation: no look at the list.
LogAnyway ==
  /\ app = "up" /\ m_hisCall # nil
  /\ callList' = IF callListFile THEN Append(callList, m_hisCall) ELSE callList
  /\ app' = "logging"
  /\ UNCHANGED <<directory, callListFile, memory, calls, history>>

\* logQso: a handle for a file that is not there is nil, and writes nothing ...
WriteCall ==
  /\ app = "up" /\ m_hisCall \notin {nil} \cup heardStations
  /\ callList' = IF callListFile THEN Append(callList, m_hisCall) ELSE callList
  /\ app' = "logging"
  /\ UNCHANGED <<directory, callListFile, memory, calls, history>>

\* ... but the call is known and announced all the same.
KnowCall ==
  /\ app = "logging"
  /\ heardStations' = heardStations \cup {m_hisCall}
  /\ announced' = IF first THEN announced ELSE announced \cup {m_hisCall}
  /\ app' = "up"
  /\ UNCHANGED <<disk, memory, m_hisCall, sessions, first>>

Down == app' = "down" /\ attached' = 0 /\ mem_jt9' = FALSE

\* A proper end: detach takes one attachment away and removes the segment when no other is
\* left; those the application still has go with the process.
applicationWillTerminate ==
  /\ app = "up"
  /\ Down
  /\ segment' = (segment /\ (attached = 2 \/ jt9))
  /\ UNCHANGED <<disk, jt9, calls, history>>

Crash ==
  /\ app # "down"
  /\ Down
  /\ UNCHANGED <<disk, segment, jt9, calls, history>>

Jt9Exits ==
  /\ jt9 /\ jt9' = FALSE
  /\ UNCHANGED <<disk, segment, attached, mem_jt9, app, calls, history>>

Next ==
  \/ launch \/ setUpAndAttachSharedMemory
  \/ startQSOWithThisGuy \/ WriteCall \/ KnowCall
  \/ applicationWillTerminate \/ Crash \/ Jt9Exits

Spec == Init /\ [][Next]_vars

-----------------------------------------------------------------------------
(* Properties.                                                             *)

\* A call that was announced as logged is known for ever, whatever crashed
\* since; except for what was logged in the session that made the directory,
\* for which there was no file.
NothingForgotten == app # "down" => announced \subseteq heardStations

\* No crash between the file and the memory makes logQso write a call again.
NoCallTwice == IsInjective(callList)

=============================================================================
