--------------------------- MODULE SessionProofs ---------------------------
(***************************************************************************)
(* The call list loses nothing and holds nothing twice, for any calls and  *)
(* any number of sessions.                                                 *)
(***************************************************************************)
EXTENDS Session, TLAPS

\* A call is appended to the file ahead of the memory; a session that did not
\* make the directory has a file to append it to.
ListInv ==
  /\ callList \in Seq(Calls)
  /\ IsInjective(callList)
  /\ announced \subseteq ToSet(callList)
  /\ app = "up" => ToSet(callList) \subseteq heardStations
  /\ app = "logging" => ToSet(callList) \subseteq heardStations \cup {m_hisCall}
  /\ app = "logging" /\ ~first => m_hisCall \in ToSet(callList)
  /\ app = "logging" => m_hisCall \in Calls
  /\ app # "down" /\ ~first => callListFile
  /\ app # "down" => announced \subseteq heardStations
  /\ m_hisCall \in Calls \cup {nil}

\* What Append does to the elements of a list without repetitions.
LEMMA AppendNew ==
  ASSUME NEW list \in Seq(Calls), NEW c \in Calls, c \notin ToSet(list),
         IsInjective(list)
  PROVE  /\ Append(list, c) \in Seq(Calls)
         /\ IsInjective(Append(list, c))
         /\ ToSet(Append(list, c)) = ToSet(list) \cup {c}
<1> DEFINE longer == Append(list, c)
<1>1. /\ longer \in Seq(Calls)
      /\ DOMAIN longer = 1 .. Len(list) + 1
      /\ longer[Len(list) + 1] = c
      /\ DOMAIN list = 1 .. Len(list) /\ Len(list) \in Nat
      /\ \A i \in 1 .. Len(list) : longer[i] = list[i]
  OBVIOUS
<1> HIDE DEF longer
<1>2. \A i \in 1 .. Len(list) : list[i] # c
  BY <1>1 DEF ToSet
<1>3. IsInjective(longer)
  <2> SUFFICES ASSUME NEW a \in DOMAIN longer, NEW b \in DOMAIN longer,
                      longer[a] = longer[b]
               PROVE  a = b
    BY DEF IsInjective
  <2>1. CASE a \in 1 .. Len(list) /\ b \in 1 .. Len(list)
    BY <1>1, <2>1 DEF IsInjective
  <2>2. CASE a = Len(list) + 1 \/ b = Len(list) + 1
    BY <1>1, <1>2, <2>2
  <2> QED BY <1>1, <2>1, <2>2
<1>4. ToSet(longer) = ToSet(list) \cup {c}
  <2>1. ASSUME NEW x \in ToSet(longer) PROVE x \in ToSet(list) \cup {c}
    <3>1. PICK i \in DOMAIN longer : x = longer[i]
      BY DEF ToSet
    <3>2. CASE i \in 1 .. Len(list)
      BY <1>1, <3>1, <3>2 DEF ToSet
    <3>3. CASE i = Len(list) + 1
      BY <1>1, <3>1, <3>3
    <3> QED BY <1>1, <3>2, <3>3
  <2>2. ToSet(list) \subseteq ToSet(longer)
    BY <1>1 DEF ToSet
  <2>3. c \in ToSet(longer)
    BY <1>1 DEF ToSet
  <2> QED BY <2>1, <2>2, <2>3
<1> QED BY <1>1, <1>3, <1>4 DEF longer

\* The invariant holds before the first launch.
LEMMA ListInit == Init => ListInv
<1>1. ToSet(<<>>) = {} /\ IsInjective(<<>>)
  BY DEF ToSet, IsInjective
<1> QED BY <1>1 DEF Init, ListInv

\* Every step keeps it.
LEMMA ListStep == ListInv /\ [Next]_vars => ListInv'
<1> SUFFICES ASSUME ListInv, [Next]_vars PROVE ListInv'
  OBVIOUS
<1> USE DEF disk, calls, history
<1>1. CASE launch
  BY <1>1 DEF ListInv, launch, initAllFiles
<1>2. CASE setUpAndAttachSharedMemory
  BY <1>2 DEF ListInv, setUpAndAttachSharedMemory
<1>3. CASE startQSOWithThisGuy
  BY <1>3 DEF ListInv, startQSOWithThisGuy
<1>4. CASE WriteCall
  <2>1. m_hisCall \in Calls /\ m_hisCall \notin ToSet(callList)
    BY <1>4 DEF ListInv, WriteCall
  <2>2. CASE callListFile
    <3>1. callList' = Append(callList, m_hisCall)
      BY <1>4, <2>2 DEF WriteCall
    <3>2. /\ callList' \in Seq(Calls) /\ IsInjective(callList')
          /\ ToSet(callList') = ToSet(callList) \cup {m_hisCall}
      BY <2>1, <3>1, AppendNew DEF ListInv
    <3> QED BY <1>4, <2>1, <2>2, <3>2 DEF ListInv, WriteCall
  <2>3. CASE ~callListFile
    BY <1>4, <2>1, <2>3 DEF ListInv, WriteCall
  <2> QED BY <2>2, <2>3
<1>5. CASE KnowCall
  BY <1>5 DEF ListInv, KnowCall
<1>6. CASE applicationWillTerminate
  BY <1>6 DEF ListInv, applicationWillTerminate, Down
<1>7. CASE Crash
  BY <1>7 DEF ListInv, Crash, Down
<1>8. CASE Jt9Exits
  BY <1>8 DEF ListInv, Jt9Exits
<1>9. CASE UNCHANGED vars
  BY <1>9 DEF ListInv, vars
<1> QED
  BY <1>1, <1>2, <1>3, <1>4, <1>5, <1>6, <1>7, <1>8, <1>9 DEF Next

\* logQso across launches and crashes: what was announced as logged, the
\* session that made the directory apart, is known to every later session.
THEOREM CallsRemembered == Spec => []NothingForgotten
<1>1. ListInv => NothingForgotten
  BY DEF ListInv, NothingForgotten
<1> QED BY <1>1, ListInit, ListStep, PTL DEF Spec

\* logQso across launches and crashes: the file has every call once.
THEOREM CallsOnce == Spec => []NoCallTwice
<1>1. ListInv => NoCallTwice
  BY DEF ListInv, NoCallTwice
<1> QED BY <1>1, ListInit, ListStep, PTL DEF Spec

-----------------------------------------------------------------------------
(* The types, and who is attached to the segment.                          *)

\* The one attachment of a session that mem_jt9 does not stand for is the one
\* init made and forgot.
Attachments ==
  /\ attached \in 0 .. 2
  /\ ~mem_jt9 => attached <= 1
  /\ app = "down" => attached = 0 /\ ~mem_jt9

Flags ==
  /\ directory \in BOOLEAN /\ callListFile \in BOOLEAN /\ first \in BOOLEAN
  /\ segment \in BOOLEAN /\ jt9 \in BOOLEAN /\ mem_jt9 \in BOOLEAN
  /\ app \in {"down", "up", "logging"}

Names ==
  /\ heardStations \subseteq Calls /\ announced \subseteq Calls
  /\ sessions \in 0 .. Sessions

LEMMA AttachmentsStep == Attachments /\ [Next]_vars => Attachments'
<1> SUFFICES ASSUME Attachments, [Next]_vars PROVE Attachments'
  OBVIOUS
<1> USE DEF Attachments, disk, memory, calls, history
<1>1. CASE launch
  <2>1. app = "down" /\ app' = "up" /\ attached' \in {attached, attached + 1}
    BY <1>1, Zenon DEF launch, createAndAttach
  <2>2. QED
    BY <2>1
<1>2. CASE setUpAndAttachSharedMemory
  <2>1. app # "down" /\ app' = app /\ ~mem_jt9 /\ (mem_jt9' <=> attached' > attached)
    BY <1>2, Zenon DEF setUpAndAttachSharedMemory
  <2>2. attached' \in {attached, attached + 1}
    BY <1>2, Zenon DEF setUpAndAttachSharedMemory, createAndAttach
  <2>3. QED
    BY <2>1, <2>2
<1>3. CASE startQSOWithThisGuy \/ WriteCall \/ KnowCall \/ Jt9Exits \/ UNCHANGED vars
  BY <1>3 DEF startQSOWithThisGuy, WriteCall, KnowCall, Jt9Exits, vars
<1>4. CASE applicationWillTerminate \/ Crash
  BY <1>4 DEF applicationWillTerminate, Crash, Down
<1>5. QED
  BY <1>1, <1>2, <1>3, <1>4 DEF Next

LEMMA FlagsStep == Flags /\ [Next]_vars => Flags'
<1> SUFFICES ASSUME Flags, [Next]_vars PROVE Flags'
  OBVIOUS
<1> USE DEF Flags, disk, memory, calls, history
<1>1. CASE launch
  BY <1>1, Zenon DEF launch, initAllFiles, createAndAttach
<1>2. CASE setUpAndAttachSharedMemory
  <2>1. (attached' > attached) \in BOOLEAN
    OBVIOUS
  <2>2. QED
    BY <1>2, <2>1, Zenon DEF setUpAndAttachSharedMemory, createAndAttach
<1>3. CASE startQSOWithThisGuy \/ WriteCall \/ KnowCall \/ Jt9Exits \/ UNCHANGED vars
  BY <1>3, Zenon DEF startQSOWithThisGuy, WriteCall, KnowCall, Jt9Exits, vars
<1>4. CASE applicationWillTerminate \/ Crash
  BY <1>4, Zenon DEF applicationWillTerminate, Crash, Down
<1>5. QED
  BY <1>1, <1>2, <1>3, <1>4 DEF Next

LEMMA NamesStep == ListInv /\ Names /\ [Next]_vars => Names'
<1> SUFFICES ASSUME ListInv, Names, [Next]_vars PROVE Names'
  OBVIOUS
<1> USE SessionAssumption DEF Names, disk, memory, calls, history, SessionAssumption
<1>1. CASE launch
  <2>1. ToSet(callList) \subseteq Calls
    BY DEF ListInv, ToSet
  <2>2. QED
    BY <1>1, <2>1 DEF launch, initAllFiles
<1>2. CASE setUpAndAttachSharedMemory \/ startQSOWithThisGuy \/ WriteCall \/ Jt9Exits
  BY <1>2 DEF setUpAndAttachSharedMemory, startQSOWithThisGuy, WriteCall, Jt9Exits
<1>3. CASE KnowCall
  BY <1>3 DEF KnowCall, ListInv
<1>4. CASE applicationWillTerminate \/ Crash \/ UNCHANGED vars
  BY <1>4 DEF applicationWillTerminate, Crash, vars
<1>5. QED
  BY <1>1, <1>2, <1>3, <1>4 DEF Next

\* Every variable keeps to its type: the application never holds more than two
\* attachments to the segment, for any number of sessions.
THEOREM SessionTypeCorrect == Spec => []TypeOK
<1>1. Init => Attachments /\ Flags /\ Names
  <2> SUFFICES ASSUME Init PROVE Attachments /\ Flags /\ Names
    OBVIOUS
  <2>1. Attachments /\ Names
    BY SessionAssumption DEF SessionAssumption, Init, Attachments, Names
  <2>2. Flags
    BY Zenon DEF Init, Flags
  <2>3. QED
    BY <2>1, <2>2
<1>2. ListInv /\ Attachments /\ Flags /\ Names => TypeOK
  BY Zenon DEF ListInv, Attachments, Flags, Names, TypeOK
<1>3. QED
  BY <1>1, <1>2, ListInit, ListStep, AttachmentsStep, FlagsStep, NamesStep, PTL DEF Spec

=============================================================================
