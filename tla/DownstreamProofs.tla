--------------------------- MODULE DownstreamProofs ---------------------------
(***************************************************************************)
(* Proofs about Downstream, for any sets of keys, artifacts, series and    *)
(* workers and any number of starts.  The invariant is built in layers,    *)
(* each inductive with the help of those below it.                         *)
(***************************************************************************)
EXTENDS Downstream, TLAPS

\* A thread that works has a key.
BusyHasKey == \A t \in Threads : pc[t] # "idle" => key[t] \in Keys

Typed == TypeOK /\ BusyHasKey

\* A return leads to one of five steps, none of them idle.
LEMMA ReturnSteps ==
  ASSUME NEW t, NEW result, GoReturn(t, result)
  PROVE  \E step \in {"complete", "lookup", "fail", "error", "pend"} : Goto(t, step)
BY DEF GoReturn, Return

\* Moving to a working step keeps the part of Typed that is about the threads.
LEMMA GotoTyped ==
  ASSUME Typed, NEW t \in Threads, pc[t] # "idle", key' = key,
         NEW step \in Steps, Goto(t, step)
  PROVE  pc' \in [Threads -> Steps] /\ BusyHasKey'
BY DEF Typed, TypeOK, BusyHasKey, Goto

LEMMA ReturnTyped ==
  ASSUME Typed, NEW t \in Threads, pc[t] # "idle", key' = key, NEW result, GoReturn(t, result)
  PROVE  pc' \in [Threads -> Steps] /\ BusyHasKey'
BY ReturnSteps, GotoTyped DEF Steps

\* A journal write of a recognised state keeps the journals' type.
LEMMA SetJournalTyped ==
  ASSUME Typed, NEW t \in Threads, NEW state \in JournalStates, SetJournal(t, state)
  PROVE  journal' \in [Keys -> JournalStates]
BY DEF Typed, TypeOK, SetJournal

LEMMA RecordTyped ==
  ASSUME Typed, NEW t \in Threads, NEW state \in JournalStates, Record(t, state)
  PROVE  /\ journal' \in [Keys -> JournalStates]
         /\ manifest' \in [Keys -> [Artifacts -> Contents \cup {NoFile}]]
BY SetJournalTyped DEF Record, Typed, TypeOK

\* Every step of a thread keeps the types of the variables.
LEMMA TypedStep ==
  ASSUME Typed, NEW t \in Threads, Step(t)
  PROVE  Typed'
<1> USE DEF Typed, files, durable, runtime, locals
<1>1. CASE Lookup(t)
  BY <1>1 DEF Lookup, AfterLookup, Goto, TypeOK, BusyHasKey, Steps
<1>2. CASE CreateJournal(t)
  <2>1. pc' \in [Threads -> Steps] /\ BusyHasKey'
    BY <1>2, GotoTyped DEF CreateJournal, Steps
  <2>2. journal' \in [Keys -> JournalStates]
    BY <1>2, SetJournalTyped DEF CreateJournal, JournalStates, TypeOK
  <2> QED
    BY <1>2, <2>1, <2>2 DEF CreateJournal, TypeOK
<1>3. CASE FillJournal(t)
  <2>1. pc' \in [Threads -> Steps] /\ BusyHasKey'
    BY <1>3, GotoTyped DEF FillJournal, Steps
  <2>2. journal' \in [Keys -> JournalStates]
    BY <1>3, SetJournalTyped DEF FillJournal, JournalStates, TypeOK
  <2>3. todo' \in [Threads -> SUBSET (Artifacts \cup Series)]
    BY <1>3 DEF FillJournal, TypeOK
  <2> QED
    BY <1>3, <2>1, <2>2, <2>3 DEF FillJournal, TypeOK
<1>4. ASSUME NEW a \in Artifacts, Fetch(t, a) PROVE Typed'
  BY <1>4 DEF Fetch, TypeOK, BusyHasKey
<1>5. ASSUME NEW a \in Artifacts, FetchFails(t, a) PROVE Typed'
  <2>1. pc' \in [Threads -> Steps] /\ BusyHasKey'
    BY <1>5, GotoTyped DEF FetchFails, Steps
  <2>2. staged' \in [Keys -> [Artifacts -> Contents \cup {NoFile, EmptyFolder}]]
    <3>1. CASE staged' = staged
      BY <3>1 DEF TypeOK
    <3>2. ASSUME NEW left \in Contents \cup {EmptyFolder},
                 staged' = [staged EXCEPT ![key[t]][a] = left]
          PROVE  staged' \in [Keys -> [Artifacts -> Contents \cup {NoFile, EmptyFolder}]]
      BY <3>2 DEF TypeOK
    <3> QED
      BY <1>5, <3>1, <3>2 DEF FetchFails
  <2> QED
    BY <1>5, <2>1, <2>2 DEF FetchFails, TypeOK
<1>6. CASE Abort(t)
  BY <1>6 DEF Abort, SetJournal, Goto, TypeOK, BusyHasKey, Steps, JournalStates
<1>7. CASE WriteDispatching(t)
  <2>1. pc' \in [Threads -> Steps] /\ BusyHasKey'
    BY <1>7, GotoTyped DEF WriteDispatching, Steps
  <2>2. journal' \in [Keys -> JournalStates]
    BY <1>7, SetJournalTyped DEF WriteDispatching, JournalStates, TypeOK
  <2>3. /\ manifest' \in [Keys -> [Artifacts -> Contents \cup {NoFile}]]
        /\ caller' \in [Threads -> {"execute", "reconcile"}]
    BY <1>7 DEF WriteDispatching, TypeOK
  <2> QED
    BY <1>7, <2>1, <2>2, <2>3 DEF WriteDispatching, TypeOK
<1>8. CASE ReadJournal(t)
  <2>1. pc' \in [Threads -> Steps] /\ BusyHasKey'
    BY <1>8, GotoTyped, ReturnTyped DEF ReadJournal, Steps
  <2>2. /\ todo' \in [Threads -> SUBSET (Artifacts \cup Series)]
        /\ digests' \in [Threads -> [Artifacts -> Contents \cup {NoFile}]]
    BY <1>8 DEF ReadJournal, TypeOK, BusyHasKey
  <2> QED
    BY <1>8, <2>1, <2>2 DEF ReadJournal, TypeOK
<1>9. CASE Discard(t)
  BY <1>9 DEF Discard, Goto, TypeOK, BusyHasKey, Steps
<1>10. CASE Unlink(t)
  <2>1. pc' \in [Threads -> Steps] /\ BusyHasKey'
    BY <1>10, ReturnTyped DEF Unlink
  <2>2. journal' \in [Keys -> JournalStates]
    BY <1>10, SetJournalTyped DEF Unlink, JournalStates, TypeOK
  <2> QED
    BY <1>10, <2>1, <2>2 DEF Unlink, TypeOK
<1>11. ASSUME NEW a \in Artifacts, SkipMoved(t, a) PROVE Typed'
  BY <1>11 DEF SkipMoved, TypeOK, BusyHasKey
<1>12. ASSUME NEW a \in Artifacts, MoveArtifact(t, a) PROVE Typed'
  <2>1. pc' \in [Threads -> Steps] /\ BusyHasKey'
    BY <1>12, GotoTyped DEF MoveArtifact, Steps
  <2>2. /\ library' \in [Keys -> [Artifacts -> Contents \cup {NoFile}]]
        /\ staged' \in [Keys -> [Artifacts -> Contents \cup {NoFile, EmptyFolder}]]
        /\ todo' \in [Threads -> SUBSET (Artifacts \cup Series)]
    BY <1>12 DEF MoveArtifact, Movable, TypeOK, BusyHasKey
  <2> QED
    BY <1>12, <2>1, <2>2 DEF MoveArtifact, TypeOK
<1>13. ASSUME NEW a \in Artifacts, MoveFails(t, a) PROVE Typed'
  <2>1. pc' \in [Threads -> Steps] /\ BusyHasKey'
    BY <1>13, ReturnTyped DEF MoveFails
  <2>2. library' \in [Keys -> [Artifacts -> Contents \cup {NoFile}]]
    <3>1. CASE library' = library
      BY <3>1 DEF TypeOK
    <3>2. ASSUME NEW c \in Contents, library' = [library EXCEPT ![key[t]][a] = c]
          PROVE  library' \in [Keys -> [Artifacts -> Contents \cup {NoFile}]]
      BY <3>2 DEF TypeOK
    <3> QED
      BY <1>13, <3>1, <3>2 DEF MoveFails
  <2> QED
    BY <1>13, <2>1, <2>2 DEF MoveFails, TypeOK
<1>14. CASE NoteMove(t)
  <2>1. pc' \in [Threads -> Steps] /\ BusyHasKey'
    BY <1>14, GotoTyped, ReturnTyped DEF NoteMove, Unrecorded, Steps
  <2>2. /\ journal' \in [Keys -> JournalStates]
        /\ manifest' \in [Keys -> [Artifacts -> Contents \cup {NoFile}]]
    BY <1>14, RecordTyped DEF NoteMove, Unrecorded, JournalStates, TypeOK
  <2> QED
    BY <1>14, <2>1, <2>2 DEF NoteMove, TypeOK
<1>15. CASE WriteRescanning(t)
  <2>1. pc' \in [Threads -> Steps] /\ BusyHasKey'
    BY <1>15, GotoTyped, ReturnTyped DEF WriteRescanning, Steps
  <2>2. /\ journal' \in [Keys -> JournalStates]
        /\ manifest' \in [Keys -> [Artifacts -> Contents \cup {NoFile}]]
    BY <1>15, RecordTyped DEF WriteRescanning, JournalStates, TypeOK
  <2>3. todo' \in [Threads -> SUBSET (Artifacts \cup Series)]
    BY <1>15 DEF WriteRescanning, TypeOK
  <2> QED
    BY <1>15, <2>1, <2>2, <2>3 DEF WriteRescanning, TypeOK
<1>16. ASSUME NEW s \in Series, Rescan(t, s) PROVE Typed'
  <2>1. pc' \in [Threads -> Steps] /\ BusyHasKey'
    BY <1>16, ReturnTyped DEF Rescan, TypeOK, BusyHasKey
  <2>2. rescans' \in [Keys -> [Series -> Nat]]
    BY <1>16 DEF Rescan, TypeOK, BusyHasKey
  <2>3. todo' \in [Threads -> SUBSET (Artifacts \cup Series)]
    BY <1>16 DEF Rescan, TypeOK
  <2> QED
    BY <1>16, <2>1, <2>2, <2>3 DEF Rescan, TypeOK
<1>17. CASE RescanFails(t)
  BY <1>17, ReturnTyped DEF RescanFails, TypeOK
<1>18. CASE WriteCompleted(t)
  <2>1. pc' \in [Threads -> Steps] /\ BusyHasKey'
    BY <1>18, ReturnTyped DEF WriteCompleted, Unrecorded
  <2>2. /\ journal' \in [Keys -> JournalStates]
        /\ manifest' \in [Keys -> [Artifacts -> Contents \cup {NoFile}]]
    BY <1>18, RecordTyped DEF WriteCompleted, Unrecorded, JournalStates, TypeOK
  <2> QED
    BY <1>18, <2>1, <2>2 DEF WriteCompleted, TypeOK
<1>19. CASE Finish(t)
  BY <1>19 DEF Finish, Leave, ClosedLedger, Outcome, Goto, TypeOK, BusyHasKey, LedgerStates,
               Steps, NoFiles
<1>20. CASE Pend(t)
  BY <1>20 DEF Pend, Leave, Goto, TypeOK, BusyHasKey, Steps, NoFiles
<1>21. CASE LedgerFails(t)
  BY <1>21 DEF LedgerFails, Leave, Goto, TypeOK, BusyHasKey, Modes, Steps, NoFiles
<1>22. CASE Forbidden(t)
  BY <1>22 DEF Forbidden, Leave, Goto, TypeOK, BusyHasKey, Steps, NoFiles
<1>23. CASE JournalAway(t)
  BY <1>23, GotoTyped, ReturnTyped DEF JournalAway, Steps, TypeOK
<1> QED
  BY <1>1, <1>2, <1>3, <1>4, <1>5, <1>6, <1>7, <1>8, <1>9, <1>10, <1>11, <1>12, <1>13,
     <1>14, <1>15, <1>16, <1>17, <1>18, <1>19, <1>20, <1>21, <1>22, <1>23 DEF Step

LEMMA TypedNext == Typed /\ [Next]_vars => Typed'
<1> SUFFICES ASSUME Typed, [Next]_vars PROVE Typed'
  OBVIOUS
<1> USE DEF Typed, BusyHasKey, TypeOK, LedgerStates, JournalStates, Modes, Steps, NoFiles,
            Goto, files, durable, runtime, locals
<1>1. CASE Start
  BY <1>1, KeysAssumption DEF Start
<1>2. CASE EndRecovery
  BY <1>2 DEF EndRecovery
<1>3. CASE Crash
  BY <1>3 DEF Crash
<1>4. ASSUME NEW k \in Keys, Recover(k) PROVE Typed'
  BY <1>4 DEF Recover, Remaining, Threads
<1>5. ASSUME NEW t \in Threads, NEW k \in Keys, Reserve(t, k) PROVE Typed'
  BY <1>5 DEF Reserve
<1>6. ASSUME NEW t \in Threads, NEW k \in Keys, OperatorReconcile(t, k) PROVE Typed'
  BY <1>6 DEF OperatorReconcile
<1>7. ASSUME NEW t \in Threads, Step(t) PROVE Typed'
  BY <1>7, TypedStep
<1>8. CASE UNCHANGED vars
  BY <1>8 DEF vars
<1> QED
  BY <1>1, <1>2, <1>3, <1>4, <1>5, <1>6, <1>7, <1>8 DEF Next

\* Every variable keeps its type in every behaviour of the coordinator, the adapter
\* and the runtime, and a working thread always has a key.
THEOREM TypeCorrectness == Spec => [](TypeOK /\ BusyHasKey)
<1>1. Init => Typed
  BY DEF Init, Typed, TypeOK, BusyHasKey, LedgerStates, JournalStates, Modes, Steps, NoFiles
<1> QED
  BY <1>1, TypedNext, PTL DEF Spec, Typed

-----------------------------------------------------------------------------
(* The inductive invariant                                                 *)

\* A thread holds the open reservation of its key alone; the start-up thread works
\* only during recovery, on a key taken from its list, and the pool only afterwards.
Control ==
  /\ \A t \in Threads : pc[t] # "idle" => ledger[key[t]] = "reserved"
  /\ OneThreadPerKey
  /\ pc[Main] # "idle" => mode = "recovering" /\ key[Main] \notin backlog
  /\ \A w \in Workers : pc[w] # "idle" => mode = "ready"
  /\ \A k \in backlog : ledger[k] = "reserved"
  /\ mode = "recovering" \/ backlog = {}

\* The journal states before anything is published.
Before == {"absent", "torn", "preparing", "failed", "error"}

Published(k) == \A a \in Artifacts : library[k][a] = manifest[k][a] /\ IsFile(manifest[k][a])

\* What the durable state of a key says of its effects.
KeyOK(k) ==
  /\ ledger[k] = "none" => journal[k] = "absent"
  /\ ledger[k] = "failed" => journal[k] \in Before
  /\ ledger[k] = "error" => journal[k] # "completed"
  /\ ledger[k] = "completed" => journal[k] = "completed"
  /\ journal[k] \in Before =>
       library[k] = NoFiles /\ \A s \in Series : rescans[k][s] = 0
  /\ journal[k] \in {"dispatching", "moving"} =>
       /\ \A s \in Series : rescans[k][s] = 0
       /\ \A a \in Artifacts :
            /\ IsFile(manifest[k][a])
            /\ \/ staged[k][a] = manifest[k][a]
               \/ library[k][a] = manifest[k][a] /\ ~IsFile(staged[k][a])
  /\ journal[k] = "rescanning" => Published(k) /\ \A s \in Series : rescans[k][s] <= 1
  /\ journal[k] = "completed" => Published(k) /\ \A s \in Series : rescans[k][s] = 1

\* What a working thread knows of its key at each of its steps.
ThreadOK(t, k) ==
  /\ pc[t] \in {"lookup", "create"} => journal[k] = "absent"
  /\ pc[t] = "fill" => journal[k] = "torn"
  /\ pc[t] \in {"fetch", "abort", "discard", "unlink"} => journal[k] = "preparing"
  /\ pc[t] = "read" /\ caller[t] = "execute" => journal[k] = "dispatching"
  /\ pc[t] = "fetch" => \A a \in Artifacts \ todo[t] :
                          staged[k][a] = digests[t][a] /\ IsFile(digests[t][a])
  /\ pc[t] \in {"move", "note"} =>
       /\ journal[k] \in {"dispatching", "moving"}
       /\ digests[t] = manifest[k]
       /\ \A a \in Artifacts \ todo[t] : library[k][a] = manifest[k][a]
  /\ pc[t] = "rescan" =>
       /\ journal[k] = "rescanning"
       /\ digests[t] = manifest[k]
       /\ \A s \in Series : rescans[k][s] = IF s \in todo[t] THEN 0 ELSE 1
  /\ pc[t] = "complete" => journal[k] = "completed"
  /\ pc[t] = "fail" => journal[k] \in Before
  /\ pc[t] = "error" => journal[k] # "completed"

IInv ==
  /\ Typed
  /\ Control
  /\ \A k \in Keys : KeyOK(k)
  /\ \A t \in Threads : pc[t] # "idle" => ThreadOK(t, key[t])

-----------------------------------------------------------------------------
(* What a step leaves alone                                                *)

KeysAlone(k) ==
  /\ ledger'[k] = ledger[k] /\ journal'[k] = journal[k] /\ manifest'[k] = manifest[k]
  /\ staged'[k] = staged[k] /\ library'[k] = library[k] /\ rescans'[k] = rescans[k]

ThreadsAlone(u) ==
  /\ pc'[u] = pc[u] /\ key'[u] = key[u] /\ caller'[u] = caller[u]
  /\ todo'[u] = todo[u] /\ digests'[u] = digests[u]

\* A step of a thread changes nothing of another thread or another key; it keeps its
\* key and the ledger until it leaves; only the start-up thread may give up.
Frame(t) ==
  /\ pc[t] # "idle"
  /\ \A u \in Threads : u # t => ThreadsAlone(u)
  /\ \A k \in Keys : k # key[t] => KeysAlone(k)
  /\ pc'[t] # "idle" => key'[t] = key[t] /\ ledger' = ledger
  /\ \/ mode' = mode /\ backlog' = backlog
     \/ t = Main /\ mode' = "blocked" /\ backlog' = {} /\ pc'[t] = "idle" /\ ledger' = ledger

LEMMA StepFrame ==
  ASSUME Typed, NEW t \in Threads, Step(t)
  PROVE  Frame(t)
<1> USE DEF Typed, Frame, KeysAlone, ThreadsAlone, files, durable, runtime, locals, Goto,
            SetJournal, TypeOK
<1>1. CASE Lookup(t)
  BY <1>1 DEF Lookup
<1>2. CASE CreateJournal(t)
  BY <1>2 DEF CreateJournal
<1>3. CASE FillJournal(t)
  BY <1>3 DEF FillJournal
<1>4. ASSUME NEW a \in Artifacts, Fetch(t, a) PROVE Frame(t)
  BY <1>4 DEF Fetch
<1>5. ASSUME NEW a \in Artifacts, FetchFails(t, a) PROVE Frame(t)
  BY <1>5 DEF FetchFails
<1>6. CASE Abort(t)
  BY <1>6 DEF Abort
<1>7. CASE WriteDispatching(t)
  BY <1>7 DEF WriteDispatching
<1>8. CASE ReadJournal(t)
  BY <1>8 DEF ReadJournal, GoReturn
<1>9. CASE Discard(t)
  BY <1>9 DEF Discard
<1>10. CASE Unlink(t)
  BY <1>10 DEF Unlink, GoReturn
<1>11. ASSUME NEW a \in Artifacts, SkipMoved(t, a) PROVE Frame(t)
  BY <1>11 DEF SkipMoved
<1>12. ASSUME NEW a \in Artifacts, MoveArtifact(t, a) PROVE Frame(t)
  BY <1>12 DEF MoveArtifact
<1>13. ASSUME NEW a \in Artifacts, MoveFails(t, a) PROVE Frame(t)
  BY <1>13 DEF MoveFails, GoReturn
<1>14. CASE NoteMove(t)
  BY <1>14 DEF NoteMove, GoReturn, Record, Unrecorded
<1>15. CASE WriteRescanning(t)
  BY <1>15 DEF WriteRescanning, GoReturn, Record
<1>16. ASSUME NEW s \in Series, Rescan(t, s) PROVE Frame(t)
  BY <1>16 DEF Rescan, GoReturn
<1>17. CASE RescanFails(t)
  BY <1>17 DEF RescanFails, GoReturn
<1>18. CASE WriteCompleted(t)
  BY <1>18 DEF WriteCompleted, GoReturn, Record, Unrecorded
<1>19. CASE Finish(t)
  BY <1>19 DEF Finish, Leave, ClosedLedger
<1>20. CASE Pend(t)
  BY <1>20 DEF Pend, Leave
<1>21. CASE LedgerFails(t)
  BY <1>21 DEF LedgerFails, Leave
<1>22. CASE Forbidden(t)
  BY <1>22 DEF Forbidden, Leave
<1>23. CASE JournalAway(t)
  BY <1>23 DEF JournalAway, GoReturn
<1> QED
  BY <1>1, <1>2, <1>3, <1>4, <1>5, <1>6, <1>7, <1>8, <1>9, <1>10, <1>11, <1>12, <1>13,
     <1>14, <1>15, <1>16, <1>17, <1>18, <1>19, <1>20, <1>21, <1>22, <1>23 DEF Step

LEMMA ControlStep ==
  ASSUME Typed, Control, Operators = {}, NEW t \in Threads, Step(t)
  PROVE  Control'
<1>1. Frame(t) /\ Typed'
  BY StepFrame, TypedStep
<1>2. key[t] \in Keys /\ ledger[key[t]] = "reserved"
  BY <1>1 DEF Control, Typed, BusyHasKey, Frame
<1>3. \A u \in Threads : u # t /\ pc[u] # "idle" => key[u] \in Keys /\ key[u] # key[t]
  BY <1>1 DEF Control, OneThreadPerKey, Typed, BusyHasKey, Frame
<1>4. \A u \in Threads : pc'[u] # "idle" => ledger'[key'[u]] = "reserved"
  BY <1>1, <1>2, <1>3 DEF Control, Frame, ThreadsAlone, KeysAlone
<1>5. OneThreadPerKey'
  BY <1>1, <1>3 DEF Control, OneThreadPerKey, Frame, ThreadsAlone
<1>6. pc'[Main] # "idle" => mode' = "recovering" /\ key'[Main] \notin backlog'
  BY <1>1, ThreadsAssumption DEF Control, Frame, ThreadsAlone, Threads
<1>7. \A w \in Workers : pc'[w] # "idle" => mode' = "ready"
  BY <1>1, ThreadsAssumption DEF Control, Frame, ThreadsAlone, Threads
<1>8. \A k \in backlog' : ledger'[k] = "reserved"
  BY <1>1, ThreadsAssumption DEF Control, Frame, KeysAlone, Threads, Typed, TypeOK
<1>9. mode' = "recovering" \/ backlog' = {}
  BY <1>1 DEF Control, Frame
<1> QED
  BY <1>4, <1>5, <1>6, <1>7, <1>8, <1>9 DEF Control

-----------------------------------------------------------------------------
(* What a thread does to its own key                                       *)

LEMMA OwnKeyStep ==
  ASSUME Typed, NEW t \in Threads, NEW k \in Keys, k = key[t], Step(t),
         ledger[k] = "reserved", KeyOK(k), ThreadOK(t, k)
  PROVE  KeyOK(k)' /\ (pc'[t] # "idle" => ThreadOK(t, k)')
<1> USE FilesAssumption DEF Typed, TypeOK, KeyOK, ThreadOK, Before, Published, IsFile, files,
            durable, runtime, locals, Goto, SetJournal
<1> DEFINE Goal == KeyOK(k)' /\ (pc'[t] # "idle" => ThreadOK(t, k)')
<1>1. ASSUME Lookup(t) PROVE Goal
  BY <1>1 DEF Lookup, AfterLookup
<1>2. ASSUME CreateJournal(t) PROVE Goal
  BY <1>2 DEF CreateJournal
<1>3. ASSUME FillJournal(t) PROVE Goal
  BY <1>3 DEF FillJournal
<1>4. ASSUME NEW a \in Artifacts, Fetch(t, a) PROVE Goal
  BY <1>4 DEF Fetch
<1>5. ASSUME NEW a \in Artifacts, FetchFails(t, a) PROVE Goal
  BY <1>5 DEF FetchFails
<1>6. ASSUME Abort(t) PROVE Goal
  BY <1>6 DEF Abort
<1>7. ASSUME WriteDispatching(t) PROVE Goal
  <2>1. /\ journal[k] = "preparing" /\ todo[t] = {}
        /\ ledger'[k] = "reserved" /\ rescans'[k] = rescans[k]
        /\ staged'[k] = staged[k] /\ library'[k] = library[k]
    BY <1>7 DEF WriteDispatching
  <2>2. CASE journal' = journal
    BY <1>7, <2>1, <2>2 DEF WriteDispatching
  <2>3. CASE journal' = [journal EXCEPT ![key[t]] = "dispatching"]
    <3>1. journal'[k] = "dispatching" /\ manifest'[k] = digests[t] /\ pc'[t] = "read"
      BY <1>7, <2>1, <2>3 DEF WriteDispatching
    <3>2. \A a \in Artifacts : /\ staged[k][a] = digests[t][a] /\ digests[t][a] \in Contents
                               /\ library[k][a] = NoFile
      BY <1>7, <2>1 DEF WriteDispatching, NoFiles
    <3>3. \A a \in Artifacts : /\ staged'[k][a] = manifest'[k][a]
                               /\ manifest'[k][a] \in Contents /\ library'[k][a] = NoFile
      BY <2>1, <3>1, <3>2
    <3>4. \A s \in Series : rescans'[k][s] = 0
      BY <2>1
    <3>5. KeyOK(k)'
      BY <2>1, <3>1, <3>3, <3>4
    <3>6. ThreadOK(t, k)'
      BY <3>1
    <3> QED
      BY <3>5, <3>6
  <2> QED
    BY <1>7, <2>2, <2>3 DEF WriteDispatching
<1>8. ASSUME ReadJournal(t) PROVE Goal
  BY <1>8 DEF ReadJournal, AfterRead, Failures, GoReturn, Return, Judged
<1>9. ASSUME Discard(t) PROVE Goal
  BY <1>9 DEF Discard
<1>10. ASSUME Unlink(t) PROVE Goal
  BY <1>10 DEF Unlink, GoReturn, Return, Judged
<1>11. ASSUME NEW a \in Artifacts, SkipMoved(t, a) PROVE Goal
  BY <1>11 DEF SkipMoved, AlreadyMoved
<1>12. ASSUME NEW a \in Artifacts, MoveArtifact(t, a) PROVE Goal
  BY <1>12 DEF MoveArtifact, Movable
<1>13. ASSUME NEW a \in Artifacts, MoveFails(t, a) PROVE Goal
  <2>1. /\ journal[k] \in {"dispatching", "moving"} /\ digests[t] = manifest[k]
        /\ journal' = journal /\ manifest' = manifest /\ staged' = staged
        /\ ledger' = ledger /\ rescans' = rescans /\ pc'[t] \in {"pend", "error"}
    BY <1>13 DEF MoveFails, GoReturn, Return, Judged
  <2>2. ThreadOK(t, k)'
    BY <2>1
  <2>3. CASE library' = library
    BY <2>1, <2>2, <2>3
  <2>4. ASSUME Movable(t, a), NEW c \in Contents, library' = [library EXCEPT ![key[t]][a] = c]
        PROVE  Goal
    <3>1. staged[k][a] = manifest[k][a]
      BY <2>1, <2>4 DEF Movable
    <3>2. \A b \in Artifacts : b # a => library'[k][b] = library[k][b]
      BY <2>4
    <3> QED
      BY <2>1, <2>2, <3>1, <3>2
  <2> QED
    BY <1>13, <2>3, <2>4 DEF MoveFails
<1>14. ASSUME NoteMove(t) PROVE Goal
  BY <1>14 DEF NoteMove, Record, Unrecorded, GoReturn, Return, Judged
<1>15. ASSUME WriteRescanning(t) PROVE Goal
  BY <1>15 DEF WriteRescanning, Record, GoReturn, Return, Judged
<1>16. ASSUME NEW s \in Series, Rescan(t, s) PROVE Goal
  BY <1>16 DEF Rescan, GoReturn, Return, Judged
<1>17. ASSUME RescanFails(t) PROVE Goal
  BY <1>17 DEF RescanFails, GoReturn, Return, Judged
<1>18. ASSUME WriteCompleted(t) PROVE Goal
  BY <1>18 DEF WriteCompleted, Record, Unrecorded, GoReturn, Return, Judged
<1>19. ASSUME Finish(t) PROVE Goal
  BY <1>19 DEF Finish, Leave, ClosedLedger, Outcome
<1>20. ASSUME Pend(t) PROVE Goal
  BY <1>20 DEF Pend, Leave
<1>21. ASSUME LedgerFails(t) PROVE Goal
  BY <1>21 DEF LedgerFails, Leave
<1>22. ASSUME Forbidden(t) PROVE Goal
  BY <1>22 DEF Forbidden, Leave
<1>23. ASSUME JournalAway(t) PROVE Goal
  BY <1>23 DEF JournalAway, GoReturn, Return, Judged
<1> QED
  BY <1>1, <1>2, <1>3, <1>4, <1>5, <1>6, <1>7, <1>8, <1>9, <1>10, <1>11, <1>12, <1>13,
     <1>14, <1>15, <1>16, <1>17, <1>18, <1>19, <1>20, <1>21, <1>22, <1>23 DEF Step

LEMMA IInvStep ==
  ASSUME IInv, Operators = {}, NEW t \in Threads, Step(t)
  PROVE  IInv'
<1>1. Frame(t) /\ Typed' /\ Control'
  BY StepFrame, TypedStep, ControlStep DEF IInv
<1> DEFINE own == key[t]
<1>2. own \in Keys /\ ledger[own] = "reserved" /\ KeyOK(own) /\ ThreadOK(t, own)
  BY <1>1 DEF IInv, Control, Typed, BusyHasKey, Frame
<1>3. \A k \in Keys : k = own => KeyOK(k)' /\ (pc'[t] # "idle" => ThreadOK(t, k)')
  BY <1>2, OwnKeyStep DEF IInv
<1>4. ASSUME NEW k \in Keys, k # own PROVE KeyOK(k)'
  <2>1. KeysAlone(k) /\ KeyOK(k)
    BY <1>1, <1>4 DEF Frame, IInv
  <2> QED
    BY <2>1 DEF KeysAlone, KeyOK, Published
<1>5. ASSUME NEW u \in Threads, u # t, pc'[u] # "idle" PROVE ThreadOK(u, key[u])' 
  <2>1. ThreadsAlone(u) /\ key[u] \in Keys /\ key[u] # own
    BY <1>1, <1>5 DEF Frame, ThreadsAlone, IInv, Control, OneThreadPerKey, Typed, BusyHasKey
  <2>2. KeysAlone(key[u]) /\ ThreadOK(u, key[u])
    BY <1>1, <1>5, <2>1 DEF Frame, ThreadsAlone, IInv
  <2> QED
    BY <2>1, <2>2 DEF KeysAlone, ThreadsAlone, ThreadOK
<1>6. ASSUME pc'[t] # "idle" PROVE ThreadOK(t, key[t])'
  <2>1. key'[t] = own
    BY <1>1, <1>6 DEF Frame
  <2> QED
    BY <1>2, <1>3, <1>6, <2>1 DEF ThreadOK
<1> QED
  BY <1>1, <1>2, <1>3, <1>4, <1>5, <1>6 DEF IInv

LEMMA IInvInit == Init => IInv
<1> SUFFICES ASSUME Init PROVE IInv
  OBVIOUS
<1>1. Typed
  BY DEF Init, Typed, TypeOK, BusyHasKey, LedgerStates, JournalStates, Modes, Steps, NoFiles
<1>2. Control
  BY DEF Init, Control, OneThreadPerKey, Threads
<1> QED
  BY <1>1, <1>2 DEF Init, IInv, KeyOK, Before, NoFiles

LEMMA IInvNext == Operators = {} /\ IInv /\ [Next]_vars => IInv'
<1> SUFFICES ASSUME Operators = {}, IInv, [Next]_vars PROVE IInv'
  OBVIOUS
<1>1. Typed'
  BY TypedNext DEF IInv
<1> USE DEF files, durable, runtime, locals, Goto
<1>2. CASE Start
  <2>1. Control'
    BY <1>2, ThreadsAssumption DEF Start, IInv, Control, OneThreadPerKey, Typed, TypeOK, Threads
  <2> QED
    BY <1>1, <1>2, <2>1 DEF Start, IInv, KeyOK, ThreadOK, Published
<1>3. CASE EndRecovery
  <2>1. Control'
    BY <1>3, ThreadsAssumption DEF EndRecovery, IInv, Control, OneThreadPerKey, Threads
  <2> QED
    BY <1>1, <1>3, <2>1 DEF EndRecovery, IInv, KeyOK, ThreadOK, Published
<1>4. CASE Crash
  <2>1. Control'
    BY <1>4 DEF Crash, Control, OneThreadPerKey, Threads
  <2> QED
    BY <1>1, <1>4, <2>1 DEF Crash, IInv, KeyOK, Published
<1>5. ASSUME NEW k \in Keys, Recover(k) PROVE IInv'
  <2>1. /\ ledger[k] = "reserved" /\ \A t \in Threads : pc[t] = "idle"
        /\ Main \in Threads /\ mode = "recovering"
    BY <1>5 DEF Recover, IInv, Control, Threads
  <2>2. Control'
    BY <1>5, <2>1, ThreadsAssumption
       DEF Recover, Remaining, IInv, Control, OneThreadPerKey, Threads, Typed, TypeOK
  <2>3. \A t \in Threads : pc'[t] # "idle" => ThreadOK(t, key[t])'
    BY <1>5, <2>1 DEF Recover, IInv, Typed, TypeOK, ThreadOK
  <2> QED
    BY <1>1, <1>5, <2>2, <2>3 DEF Recover, IInv, KeyOK, Published
<1>6. ASSUME NEW t \in Threads, NEW k \in Keys, Reserve(t, k) PROVE IInv'
  <2>1. /\ t \in Workers /\ mode = "ready" /\ pc[t] = "idle" /\ ledger[k] = "none"
        /\ journal[k] = "absent" /\ backlog = {} /\ pc[Main] = "idle"
    BY <1>6 DEF Reserve, MayExecute, Reservable, IInv, Control, KeyOK
  <2>2. \A u \in Threads : pc[u] # "idle" => u # t /\ key[u] \in Keys /\ key[u] # k
    BY <2>1 DEF IInv, Control, Typed, BusyHasKey
  <2>3. Control'
    BY <1>6, <2>1, <2>2, ThreadsAssumption
       DEF Reserve, IInv, Control, OneThreadPerKey, Typed, TypeOK, Threads
  <2>4. \A u \in Threads : pc'[u] # "idle" => ThreadOK(u, key[u])'
    BY <1>6, <2>1, <2>2 DEF Reserve, IInv, Typed, TypeOK, ThreadOK
  <2>5. \A l \in Keys : KeyOK(l)'
    BY <1>6, <2>1 DEF Reserve, IInv, Typed, TypeOK, KeyOK, Published
  <2> QED
    BY <1>1, <2>3, <2>4, <2>5 DEF IInv
<1>7. ASSUME NEW t \in Threads, NEW k \in Keys, OperatorReconcile(t, k) PROVE IInv'
  BY <1>7 DEF OperatorReconcile
<1>8. ASSUME NEW t \in Threads, Step(t) PROVE IInv'
  BY <1>8, IInvStep
<1>9. CASE UNCHANGED vars
  BY <1>1, <1>9 DEF vars, IInv, Control, OneThreadPerKey, KeyOK, ThreadOK, Published
<1> QED
  BY <1>2, <1>3, <1>4, <1>5, <1>6, <1>7, <1>8, <1>9 DEF Next

LEMMA Invariance == ASSUME Operators = {} PROVE Spec => []IInv
BY IInvInit, IInvNext, PTL DEF Spec

-----------------------------------------------------------------------------
(* The theorems.  Without operator requests (as in the runtime):           *)

\* Sonarr is told of each series of an execution at most once, through any number of
\* kills, restarts and recoveries.
THEOREM OnceOnlyRescan == ASSUME Operators = {} PROVE Spec => []RescanAtMostOnce
<1>1. IInv => RescanAtMostOnce
  <2> SUFFICES ASSUME IInv, NEW k \in Keys, NEW s \in Series PROVE rescans[k][s] <= 1
    BY DEF RescanAtMostOnce
  <2>1. journal[k] \in Before \cup {"dispatching", "moving", "rescanning", "completed"}
    BY DEF IInv, Typed, TypeOK, JournalStates, Before
  <2>2. rescans[k][s] = 0 \/ rescans[k][s] = 1 \/ rescans[k][s] <= 1
    BY <2>1 DEF IInv, KeyOK
  <2> QED
    BY <2>2
<1> QED
  BY <1>1, Invariance, PTL

\* An attempt closed as failed for a reason the adapter gave left nothing in the library and
\* told Sonarr nothing; one closed by an exception is none the journal has as completed; one
\* closed as completed published every file and told Sonarr of every series.
THEOREM OutcomesAreTrue == ASSUME Operators = {} PROVE Spec => []OutcomeMatchesEffect
<1>1. IInv => OutcomeMatchesEffect
  <2> SUFFICES ASSUME IInv, NEW k \in Keys
               PROVE  /\ ledger[k] = "failed" =>
                           /\ library[k] = NoFiles
                           /\ \A s \in Series : rescans[k][s] = 0
                      /\ ledger[k] = "error" => journal[k] # "completed"
                      /\ ledger[k] = "completed" =>
                           /\ journal[k] = "completed"
                           /\ \A a \in Artifacts :
                                library[k][a] = manifest[k][a] /\ IsFile(library[k][a])
                           /\ \A s \in Series : rescans[k][s] >= 1
    BY DEF OutcomeMatchesEffect
  <2>1. CASE ledger[k] = "failed"
    BY <2>1 DEF IInv, KeyOK
  <2>2. CASE ledger[k] = "completed"
    BY <2>2 DEF IInv, KeyOK, Published
  <2>3. CASE ledger[k] = "error"
    BY <2>3 DEF IInv, KeyOK
  <2> QED
    BY <2>1, <2>2, <2>3
<1> QED
  BY <1>1, Invariance, PTL

\* Between dispatch and the rescan each file is in staging until its move is over, and from
\* then on in the library alone.
THEOREM NothingIsLost == ASSUME Operators = {} PROVE Spec => []DispatchedNeverLost
<1>1. IInv => DispatchedNeverLost
  BY FilesAssumption DEF IInv, KeyOK, IsFile, DispatchedNeverLost
<1> QED
  BY <1>1, Invariance, PTL

\* Whatever is in the library is listed in a journal past preparation, with its bytes or with
\* those its source still has.
THEOREM PublicationIsJournaled == ASSUME Operators = {} PROVE Spec => []PublishedIsJournaled
<1>1. IInv => PublishedIsJournaled
  <2> SUFFICES ASSUME IInv, NEW k \in Keys, NEW a \in Artifacts, IsFile(library[k][a])
               PROVE  /\ journal[k] \in {"dispatching", "moving", "rescanning", "completed"}
                      /\ manifest[k][a] \in {library[k][a], staged[k][a]}
    BY DEF PublishedIsJournaled
  <2>1. journal[k] \notin Before
    BY FilesAssumption DEF IInv, KeyOK, NoFiles, IsFile
  <2>2. journal[k] \in {"dispatching", "moving", "rescanning", "completed"}
    BY <2>1 DEF IInv, Typed, TypeOK, JournalStates, Before
  <2> QED
    BY <2>2, FilesAssumption DEF IInv, KeyOK, Published, IsFile
<1> QED
  BY <1>1, Invariance, PTL

\* Two threads never work on the same key: the ledger's transaction and the order of
\* recovery before downloads are lock enough.
THEOREM KeysAreExclusive == ASSUME Operators = {} PROVE Spec => []OneThreadPerKey
<1>1. IInv => OneThreadPerKey
  BY DEF IInv, Control
<1> QED
  BY <1>1, Invariance, PTL

-----------------------------------------------------------------------------
(* Decisions stand, with operators and without                             *)

\* An abandoned rescan at which every thread that is there will only look or go away.
Frozen(k) ==
  /\ Abandoned(k)
  /\ \A t \in Threads : pc[t] # "idle" /\ key[t] = k =>
       (pc[t] = "read" /\ caller[t] = "reconcile") \/ pc[t] = "pend"

\* A thread that finds the rescan begun learns an unknown outcome and pends.
LEMMA FrozenAtOwnKey ==
  ASSUME Typed, NEW t \in Threads, Step(t), Frozen(key[t])
  PROVE  /\ ledger' = ledger /\ journal' = journal
         /\ pc'[t] \in {"idle", "pend"}
<1>1. /\ Frame(t) /\ journal[key[t]] = "rescanning"
      /\ (pc[t] = "read" /\ caller[t] = "reconcile") \/ pc[t] = "pend"
  BY StepFrame DEF Frozen, Abandoned, Frame
<1>2. CASE ReadJournal(t)
  <2>1. Goto(t, "pend")
    BY <1>1, <1>2 DEF ReadJournal, AfterRead, GoReturn, Return, Judged
  <2> QED
    BY <1>2, <2>1 DEF ReadJournal, Goto, Typed, TypeOK, durable
<1>3. CASE Pend(t) \/ LedgerFails(t)
  BY <1>3 DEF Pend, LedgerFails, Leave, Goto, Typed, TypeOK, durable
<1>4. CASE JournalAway(t)
  <2>1. Goto(t, "pend")
    BY <1>1, <1>4 DEF JournalAway, GoReturn, Return, Judged
  <2> QED
    BY <1>4, <2>1 DEF JournalAway, Goto, Typed, TypeOK, durable
<1>5. ReadJournal(t) \/ JournalAway(t) \/ Pend(t) \/ LedgerFails(t)
  BY <1>1 DEF Step, Lookup, CreateJournal, FillJournal, Fetch, FetchFails, Abort,
              WriteDispatching, Discard, Unlink, SkipMoved, MoveArtifact, MoveFails, NoteMove,
              WriteRescanning, Rescan, RescanFails, WriteCompleted, Finish, Forbidden
<1> QED
  BY <1>2, <1>3, <1>4, <1>5

\* No step of anyone thaws it.
LEMMA FrozenStays ==
  ASSUME Typed, NEW k \in Keys, Frozen(k), [Next]_vars
  PROVE  Frozen(k)'
<1> USE DEF Frozen, Abandoned, files, durable, runtime, locals
<1>1. CASE Start \/ EndRecovery \/ UNCHANGED vars
  BY <1>1 DEF Start, EndRecovery, vars
<1>2. CASE Crash
  BY <1>2 DEF Crash
<1>3. ASSUME NEW j \in Keys, Recover(j) PROVE Frozen(k)'
  BY <1>3 DEF Recover, Goto, Typed, TypeOK, Threads
<1>4. ASSUME NEW t \in Threads, NEW j \in Keys, Reserve(t, j) PROVE Frozen(k)'
  <2>1. j # k
    BY <1>4 DEF Reserve, Reservable
  <2> QED
    BY <1>4, <2>1 DEF Reserve, Goto, Typed, TypeOK
<1>5. ASSUME NEW t \in Threads, NEW j \in Keys, OperatorReconcile(t, j) PROVE Frozen(k)'
  BY <1>5 DEF OperatorReconcile, Goto, Typed, TypeOK
<1>6. ASSUME NEW t \in Threads, Step(t) PROVE Frozen(k)'
  <2>1. Frame(t)
    BY <1>6, StepFrame
  <2>2. CASE key[t] = k
    BY <1>6, <2>1, <2>2, FrozenAtOwnKey DEF Frame, ThreadsAlone
  <2>3. CASE key[t] # k
    BY <2>1, <2>3 DEF Frame, ThreadsAlone, KeysAlone
  <2> QED
    BY <2>2, <2>3
<1> QED
  BY <1>1, <1>2, <1>3, <1>4, <1>5, <1>6 DEF Next

\* The ledger closes an attempt once and forgets none, whoever takes the step.
LEMMA OutcomeStep ==
  ASSUME Typed, NEW k \in Keys, [Next]_vars
  PROVE  /\ ledger[k] \in {"completed"} \cup Failures => ledger'[k] = ledger[k]
         /\ ledger[k] = "reserved" => ledger'[k] # "none"
<1> USE DEF files, durable, runtime, locals
<1>1. ASSUME NEW t \in Threads, NEW j \in Keys, Reserve(t, j)
      PROVE  ledger[k] # "none" => ledger'[k] = ledger[k]
  BY <1>1 DEF Reserve, Reservable, Typed, TypeOK
<1>2. ASSUME NEW t \in Threads, Finish(t)
      PROVE  /\ ledger[k] \in {"completed"} \cup Failures => ledger'[k] = ledger[k]
             /\ ledger[k] = "reserved" => ledger'[k] # "none"
  BY <1>2 DEF Finish, ClosedLedger, Outcome, Failures, Typed, TypeOK
<1>3. ASSUME NEW t \in Threads, Step(t), ~Finish(t) PROVE ledger' = ledger
  BY <1>3 DEF Step, JournalAway, Lookup, CreateJournal, FillJournal, Fetch, FetchFails, Abort,
              WriteDispatching, ReadJournal, Discard, Unlink, SkipMoved, MoveArtifact, MoveFails,
              NoteMove, WriteRescanning, Rescan, RescanFails, WriteCompleted, Pend, LedgerFails,
              Forbidden
<1> QED
  BY <1>1, <1>2, <1>3
     DEF Next, vars, Start, EndRecovery, Crash, Recover, OperatorReconcile, Failures

\* What is decided stays decided, for any operators: their requests may race with the pool
\* for a key, but an abandoned rescan is never resumed, started over or closed, and no
\* recorded outcome is changed or forgotten.
THEOREM DecisionsAreFinal == Spec => DecisionsStand
<1>1. ASSUME NEW k \in Keys
      PROVE  Spec => [](Abandoned(k) /\ ~Busy(k) => []Abandoned(k))
  <2>1. Abandoned(k) /\ ~Busy(k) => Frozen(k)
    BY DEF Frozen, Busy
  <2>2. Typed /\ Frozen(k) /\ [Next]_vars => Frozen(k)'
    BY FrozenStays
  <2>3. Frozen(k) => Abandoned(k)
    BY DEF Frozen
  <2>4. Spec => []Typed
    BY TypeCorrectness DEF Typed
  <2> QED
    BY <2>1, <2>2, <2>3, <2>4, PTL DEF Spec
<1>2. Typed /\ [Next]_vars
      => [\A k \in Keys :
            /\ ledger[k] \in {"completed"} \cup Failures => ledger'[k] = ledger[k]
            /\ ledger[k] = "reserved" => ledger'[k] # "none"]_vars
  BY OutcomeStep
<1>3. Spec => OutcomeIsFinal
  BY <1>2, TypeCorrectness, PTL DEF Spec, OutcomeIsFinal, Typed
<1>4. Spec => UnknownIsFrozen
  BY <1>1 DEF UnknownIsFrozen
<1> QED
  BY <1>3, <1>4 DEF DecisionsStand

-----------------------------------------------------------------------------
(* The detailed steps implement the once-only contract                     *)

\* A step that keeps the ledger and the announcements is a step of the contract.
ContractStep == [Contract!Next]_<<ledger, Announced>>

LEMMA AnnouncedAlone ==
  ASSUME \A k \in Keys : journal'[k] \in {"rescanning", "completed"}
                            <=> journal[k] \in {"rescanning", "completed"}
  PROVE  Announced' = Announced
BY DEF Announced

LEMMA ContractThreadStep ==
  ASSUME IInv, NEW t \in Threads, Step(t)
  PROVE  ContractStep
<1> DEFINE k == key[t]
<1>1. k \in Keys /\ ledger[k] = "reserved" /\ KeyOK(k) /\ ThreadOK(t, k) /\ Frame(t)
  BY StepFrame DEF Frame, IInv, Control, Typed, BusyHasKey
<1> USE DEF ContractStep, Goto, SetJournal, files, durable, runtime, locals
<1>2. ASSUME ledger' = ledger, journal' = journal PROVE ContractStep
  BY <1>2, AnnouncedAlone
<1>3. ASSUME ledger' = ledger, NEW state \in {"torn", "preparing", "failed", "error",
                                          "dispatching", "absent"},
             journal' = [journal EXCEPT ![k] = state],
             journal[k] \notin {"rescanning", "completed"}
      PROVE  ContractStep
  BY <1>3, AnnouncedAlone DEF IInv, Typed, TypeOK
<1>4. CASE CreateJournal(t)
  BY <1>1, <1>2, <1>3, <1>4 DEF CreateJournal, ThreadOK
<1>5. CASE FillJournal(t)
  BY <1>1, <1>2, <1>3, <1>5 DEF FillJournal, ThreadOK
<1>6. CASE Abort(t)
  BY <1>1, <1>2, <1>3, <1>6 DEF Abort, ThreadOK
<1>7. CASE WriteDispatching(t)
  BY <1>1, <1>2, <1>3, <1>7 DEF WriteDispatching, ThreadOK
<1>8. CASE Unlink(t)
  BY <1>1, <1>2, <1>3, <1>8 DEF Unlink, ThreadOK
<1>9. CASE NoteMove(t)
  <2>1. CASE journal' = journal
    BY <1>2, <1>9, <2>1 DEF NoteMove
  <2>2. CASE journal' = [journal EXCEPT ![k] = "moving"]
    <3>1. journal[k] \in {"dispatching", "moving"} /\ ledger' = ledger
      BY <1>1, <1>9 DEF NoteMove, ThreadOK
    <3> QED
      BY <3>1, <2>2, AnnouncedAlone DEF IInv, Typed, TypeOK
  <2> QED
    BY <1>9, <2>1, <2>2 DEF NoteMove, Record, Unrecorded
<1>10. CASE WriteRescanning(t)
  <2>1. CASE journal' = journal
    BY <1>2, <1>10, <2>1 DEF WriteRescanning
  <2>2. CASE journal' = [journal EXCEPT ![k] = "rescanning"]
    <3>1. journal[k] \in {"dispatching", "moving"} /\ ledger' = ledger
      BY <1>1, <1>10 DEF WriteRescanning, ThreadOK
    <3>2. k \notin Announced /\ Announced' = Announced \cup {k}
      BY <1>1, <2>2, <3>1 DEF Announced, IInv, Typed, TypeOK
    <3>3. Contract!Announce(k)
      BY <1>1, <3>1, <3>2 DEF Contract!Announce
    <3> QED
      BY <1>1, <3>3 DEF Contract!Next
  <2> QED
    BY <1>10, <2>1, <2>2 DEF WriteRescanning, Record
<1>11. CASE WriteCompleted(t)
  <2>1. journal[k] = "rescanning" /\ ledger' = ledger
    BY <1>1, <1>11 DEF WriteCompleted, ThreadOK
  <2>2. CASE journal' = journal
    BY <1>2, <2>1, <2>2
  <2>3. CASE journal' = [journal EXCEPT ![k] = "completed"]
    BY <1>1, <2>1, <2>3, AnnouncedAlone DEF IInv, Typed, TypeOK
  <2> QED
    BY <1>11, <2>2, <2>3 DEF WriteCompleted, Record, Unrecorded
<1>12. CASE Finish(t)
  <2>1. Announced' = Announced
    BY <1>12, AnnouncedAlone DEF Finish
  <2>2. CASE pc[t] = "complete"
    <3>1. k \in Announced
      BY <1>1, <2>2 DEF ThreadOK, Announced
    <3>2. ledger' = [ledger EXCEPT ![k] = "completed"]
      BY <1>1, <1>12, <2>2 DEF Finish, ClosedLedger, Outcome
    <3> QED
      BY <1>1, <2>1, <3>1, <3>2 DEF Contract!Next, Contract!Complete
  <2>3. CASE pc[t] = "fail"
    <3>1. k \notin Announced
      BY <1>1, <2>3 DEF ThreadOK, Announced, Before
    <3>2. ledger' = [ledger EXCEPT ![k] = "failed"]
      BY <1>1, <1>12, <2>3 DEF Finish, ClosedLedger, Outcome
    <3> QED
      BY <1>1, <2>1, <3>1, <3>2 DEF Contract!Next, Contract!Fail
  <2>4. CASE pc[t] = "error"
    <3>1. ledger' = [ledger EXCEPT ![k] = "error"]
      BY <1>1, <1>12, <2>4 DEF Finish, ClosedLedger, Outcome
    <3> QED
      BY <1>1, <2>1, <3>1 DEF Contract!Next, Contract!Break
  <2> QED
    BY <1>12, <2>2, <2>3, <2>4 DEF Finish
<1>13. CASE ledger' = ledger /\ journal' = journal
  BY <1>2, <1>13
<1>14. \/ ledger' = ledger /\ journal' = journal
       \/ CreateJournal(t) \/ FillJournal(t) \/ Abort(t) \/ WriteDispatching(t) \/ Unlink(t)
       \/ NoteMove(t) \/ WriteRescanning(t) \/ WriteCompleted(t) \/ Finish(t)
  BY DEF Step, JournalAway, Lookup, Fetch, FetchFails, ReadJournal, Discard, SkipMoved, MoveArtifact,
         MoveFails, Rescan, RescanFails, Pend, LedgerFails, Forbidden
<1> QED
  BY <1>4, <1>5, <1>6, <1>7, <1>8, <1>9, <1>10, <1>11, <1>12, <1>13, <1>14

LEMMA ContractNext == IInv /\ [Next]_vars => ContractStep
<1> SUFFICES ASSUME IInv, [Next]_vars PROVE ContractStep
  OBVIOUS
<1> USE DEF ContractStep, files, durable, runtime, locals
<1>1. ASSUME ledger' = ledger, journal' = journal PROVE ContractStep
  BY <1>1, AnnouncedAlone
<1>2. ASSUME NEW t \in Threads, NEW k \in Keys, Reserve(t, k) PROVE ContractStep
  <2>1. Announced' = Announced
    BY <1>2, AnnouncedAlone DEF Reserve
  <2> QED
    BY <1>2, <2>1 DEF Reserve, Reservable, Contract!Next, Contract!Open
<1>3. ASSUME NEW t \in Threads, Step(t) PROVE ContractStep
  BY <1>3, ContractThreadStep
<1> QED
  BY <1>1, <1>2, <1>3
     DEF Next, vars, Start, EndRecovery, Crash, Recover, OperatorReconcile

\* The coordinator, the adapter and the recovery together implement the abstract
\* contract: open once, announce once while open, complete only after, fail for a classified
\* reason only without an announcement; an exception may close it before or after.
THEOREM Refinement == ASSUME Operators = {} PROVE Spec => ImplementsContract
<1>1. Init => Contract!Init
  BY DEF Init, Contract!Init, Announced
<1>2. IInv /\ [Next]_vars => [Contract!Next]_<<ledger, Announced>>
  BY ContractNext DEF ContractStep
<1> QED
  BY <1>1, <1>2, Invariance, PTL DEF Spec, ImplementsContract, Contract!Spec
=============================================================================
