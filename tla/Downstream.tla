------------------------------ MODULE Downstream ------------------------------
(***************************************************************************)
(* The once-only downstream execution of V4: ExecutionCoordinator          *)
(* (src/v4/execution.py), the attempt ledger of the application store, the *)
(* journal of ProductionDownstreamAdapter (src/v4/production_adapter.py)   *)
(* and the start-up recovery of the runtime (src/v4/runtime.py).           *)
(*                                                                         *)
(* An execution key is reserved in the ledger, its artifacts are downloaded *)
(* to a staging folder, moved to the library and announced to Sonarr by    *)
(* one rescan command per series.  The runtime may be killed between any   *)
(* two of these steps.  The ledger, the journal file of each key, the      *)
(* staged and the published files survive; the threads do not.             *)
(*                                                                         *)
(* Every step of a thread is one effect on durable state (one transaction, *)
(* one file operation or one request), so that a crash or another thread   *)
(* may come between any two of them.                                       *)
(***************************************************************************)
EXTENDS Naturals

CONSTANTS
  Keys,             (* execution keys                                       *)
  Artifacts,        (* the files one execution publishes                    *)
  Series,           (* the Sonarr series one execution rescans              *)
  Contents,         (* what a download may contain (its size and digest)    *)
  NoFile,           (* there is no file, and no folder, at a path           *)
  EmptyFolder,      (* the staging folder exists and its file has left it   *)
  Workers,          (* threads of the download pool                         *)
  Main,             (* the thread that starts the runtime                   *)
  Operators,        (* threads that serve requests to the operator control; *)
                    (* empty where it is not injected, as in the runtime    *)
  NoKey,            (* the key of an idle thread                            *)
  Permits,          (* sets of keys an authorization of effects may bind    *)
  MaxStarts         (* bound on how often the runtime is started            *)

ASSUME ThreadsAssumption ==
  /\ Main \notin Workers
  /\ Main \notin Operators
  /\ Workers \cap Operators = {}

ASSUME FilesAssumption ==
  /\ NoFile \notin Contents
  /\ EmptyFolder \notin Contents
  /\ NoFile # EmptyFolder

ASSUME KeysAssumption ==
  /\ NoKey \notin Keys
  /\ Permits \subseteq SUBSET Keys

ASSUME BoundAssumption == MaxStarts \in Nat

Threads == Workers \cup Operators \cup {Main}

VARIABLES
  ledger,    (* status of the attempt of each key                          *)
  journal,   (* state recorded in the journal file of each key             *)
  manifest,  (* digest of each artifact recorded in that file              *)
  staged,    (* what the staging folder of each artifact holds             *)
  library,   (* what the destination of each artifact holds                *)
  rescans,   (* how many rescan commands were sent to Sonarr               *)
  mode,      (* the life cycle of the runtime                              *)
  backlog,   (* reservations that start-up recovery has still to visit     *)
  starts,    (* how often the runtime was started                          *)
  permitted, (* the keys the authorization of this start binds             *)
  pc,        (* where each thread is                                       *)
  key,       (* the key it works on                                        *)
  caller,    (* who called adapter.reconcile: adapter.execute or the       *)
             (* coordinator's reconcile                                    *)
  todo,      (* the artifacts or series its loop has still to visit        *)
  digests    (* the artifact digests it holds                              *)

files   == <<journal, manifest, staged, library>>
durable == <<ledger, journal, manifest, staged, library, rescans>>
runtime == <<mode, backlog, starts, permitted>>
locals  == <<caller, todo, digests>>
vars    == <<ledger, journal, manifest, staged, library, rescans,
             mode, backlog, starts, permitted, pc, key, caller, todo, digests>>

\* "error" is an attempt, or a journal, that failed with the category adapter_error: for an
\* exception nobody classified.  "failed" stands for the other categories.
LedgerStates  == {"none", "reserved", "completed", "failed", "error"}
\* "torn" is a journal whose exclusive creation was cut short: it cannot be parsed.
JournalStates == {"absent", "torn", "preparing", "dispatching", "moving",
                  "rescanning", "completed", "failed", "error"}
Failures == {"failed", "error"}
Modes == {"down", "recovering", "ready", "blocked"}
Steps == {"idle", "lookup", "create", "fill", "fetch", "abort", "read",
          "discard", "unlink", "move", "note", "rescan", "complete", "fail", "error", "pend"}

NoFiles == [a \in Artifacts |-> NoFile]

TypeOK ==
  /\ ledger   \in [Keys -> LedgerStates]
  /\ journal  \in [Keys -> JournalStates]
  /\ manifest \in [Keys -> [Artifacts -> Contents \cup {NoFile}]]
  /\ staged   \in [Keys -> [Artifacts -> Contents \cup {NoFile, EmptyFolder}]]
  /\ library  \in [Keys -> [Artifacts -> Contents \cup {NoFile}]]
  /\ rescans  \in [Keys -> [Series -> Nat]]
  /\ mode     \in Modes
  /\ backlog  \subseteq Keys
  /\ starts   \in Nat
  /\ permitted \subseteq Keys
  /\ pc       \in [Threads -> Steps]
  /\ key      \in [Threads -> Keys \cup {NoKey}]
  /\ caller   \in [Threads -> {"execute", "reconcile"}]
  /\ todo     \in [Threads -> SUBSET (Artifacts \cup Series)]
  /\ digests  \in [Threads -> [Artifacts -> Contents \cup {NoFile}]]

Init ==
  /\ ledger   = [k \in Keys |-> "none"]
  /\ journal  = [k \in Keys |-> "absent"]
  /\ manifest = [k \in Keys |-> NoFiles]
  /\ staged   = [k \in Keys |-> NoFiles]
  /\ library  = [k \in Keys |-> NoFiles]
  /\ rescans  = [k \in Keys |-> [s \in Series |-> 0]]
  /\ mode     = "down"
  /\ backlog  = {}
  /\ starts   = 0
  /\ permitted = {}
  /\ pc       = [t \in Threads |-> "idle"]
  /\ key      = [t \in Threads |-> NoKey]
  /\ caller   = [t \in Threads |-> "execute"]
  /\ todo     = [t \in Threads |-> {}]
  /\ digests  = [t \in Threads |-> NoFiles]

Goto(t, step) == pc' = [pc EXCEPT ![t] = step]

SetJournal(t, state) == journal' = [journal EXCEPT ![key[t]] = state]

Busy(k) == \E t \in Threads : pc[t] # "idle" /\ key[t] = k

-----------------------------------------------------------------------------
(* The runtime: start, recovery, readiness, crash                          *)

\* A start is given an authorization and lists the open reservations before anything
\* else runs.
Start ==
  /\ mode = "down"
  /\ starts < MaxStarts
  /\ mode' = "recovering"
  /\ backlog' = {k \in Keys : ledger[k] = "reserved"}
  /\ starts' = starts + 1
  /\ permitted' \in Permits
  /\ UNCHANGED <<durable, pc, key, locals>>

\* Mutation: recovery insists on a reservation until it is closed.
InsistentRemaining(k) == IF ledger[k] = "reserved" THEN backlog ELSE backlog \ {k}

\* Recovery visits each reservation of its list once.
Remaining(k) == backlog \ {k}

\* The start-up thread takes the next reservation of its list to reconcile.
Recover(k) ==
  /\ mode = "recovering"
  /\ pc[Main] = "idle"
  /\ k \in backlog
  /\ backlog' = Remaining(k)
  /\ Goto(Main, "read")
  /\ key' = [key EXCEPT ![Main] = k]
  /\ caller' = [caller EXCEPT ![Main] = "reconcile"]
  /\ UNCHANGED <<durable, mode, starts, permitted, todo, digests>>

\* With every reservation visited, the downloads start only if none is left open.
EndRecovery ==
  /\ mode = "recovering"
  /\ pc[Main] = "idle"
  /\ backlog = {}
  /\ mode' = IF \E k \in Keys : ledger[k] = "reserved" THEN "blocked" ELSE "ready"
  /\ UNCHANGED <<durable, backlog, starts, permitted, pc, key, locals>>

\* The process dies: its threads are gone, the database and the files remain.
Crash ==
  /\ mode # "down"
  /\ mode' = "down"
  /\ backlog' = {}
  /\ pc' = [t \in Threads |-> "idle"]
  /\ key' = [t \in Threads |-> NoKey]
  /\ caller' = [t \in Threads |-> "execute"]
  /\ todo' = [t \in Threads |-> {}]
  /\ digests' = [t \in Threads |-> NoFiles]
  /\ permitted' = {}
  /\ UNCHANGED <<durable, starts>>

-----------------------------------------------------------------------------
(* The coordinator                                                         *)

\* Who may ask for a new execution: a pool worker once the runtime is ready, or an
\* operator's request whenever the service answers.
MayExecute(t) ==
  \/ t \in Workers /\ mode = "ready"
  \/ t \in Operators /\ mode \in {"ready", "blocked"}

\* A key that has an attempt, of any outcome, is never taken again.
Reservable(k) == ledger[k] = "none"

\* One transaction reserves a permitted key that has no attempt of any outcome.
Reserve(t, k) ==
  /\ MayExecute(t)
  /\ k \in permitted
  /\ pc[t] = "idle"
  /\ Reservable(k)
  /\ ledger' = [ledger EXCEPT ![k] = "reserved"]
  /\ Goto(t, "lookup")
  /\ key' = [key EXCEPT ![t] = k]
  /\ UNCHANGED <<files, rescans, runtime, locals>>

\* An operator's request reconciles any open reservation; nothing asks whether a
\* thread is still executing it.
OperatorReconcile(t, k) ==
  /\ t \in Operators
  /\ mode \in {"ready", "blocked"}
  /\ pc[t] = "idle"
  /\ ledger[k] = "reserved"
  /\ Goto(t, "read")
  /\ key' = [key EXCEPT ![t] = k]
  /\ caller' = [caller EXCEPT ![t] = "reconcile"]
  /\ UNCHANGED <<durable, runtime, todo, digests>>

\* Mutations: an unknown outcome closes the attempt as failed, or is asked for again at
\* once.
UnknownFailsReturn(who, result) ==
  CASE result = "completed"                   -> "complete"
    [] result = "absent" /\ who = "reconcile" -> "lookup"
    [] OTHER                                  -> "fail"
UnknownRetriesReturn(who, result) ==
  CASE result = "completed"                   -> "complete"
    [] result = "absent" /\ who = "reconcile" -> "lookup"
    [] result = "failed" /\ who = "reconcile" -> "fail"
    [] OTHER                                  -> "read"

\* What the caller of adapter.reconcile does with its result.  An exception of reconcile
\* ("raised") is an unknown outcome to the coordinator, but execute lets it pass, and the
\* dispatch closes the attempt with it, whatever was published by then.
Return(who, result) ==
  CASE result = "completed"                        -> "complete"
    [] result = "absent" /\ who = "reconcile"      -> "lookup"
    [] result = "failed" /\ who = "reconcile"      -> "fail"
    [] result = "error" /\ who = "reconcile"       -> "error"
    [] result = "raised" /\ who = "execute"        -> "error"
    [] OTHER                                       -> "pend"

\* The receipt of a key the authorization does not bind is rejected.
Judged(k, result) == IF result = "completed" /\ k \notin permitted THEN "unknown" ELSE result

GoReturn(t, result) == Goto(t, Return(caller[t], Judged(key[t], result)))

\* The thread leaves the coordinator; its local state is of no more use.
Leave(t) ==
  /\ Goto(t, "idle")
  /\ key' = [key EXCEPT ![t] = NoKey]
  /\ caller' = [caller EXCEPT ![t] = "execute"]
  /\ todo' = [todo EXCEPT ![t] = {}]
  /\ digests' = [digests EXCEPT ![t] = NoFiles]

Outcome(step) ==
  CASE step = "complete" -> "completed" [] step = "fail" -> "failed" [] OTHER -> "error"

\* Mutation: the last writer wins.
LastWriterLedger(k, outcome) == [ledger EXCEPT ![k] = outcome]

\* The ledger takes an outcome only while the reservation is open.
ClosedLedger(k, outcome) ==
  IF ledger[k] = "reserved" THEN [ledger EXCEPT ![k] = outcome] ELSE ledger

Finish(t) ==
  /\ pc[t] \in {"complete", "fail", "error"}
  /\ ledger' = ClosedLedger(key[t], Outcome(pc[t]))
  /\ Leave(t)
  /\ UNCHANGED <<files, rescans, runtime>>

\* An unknown outcome is only noted: the reservation stays open.
Pend(t) ==
  /\ pc[t] = "pend"
  /\ Leave(t)
  /\ UNCHANGED <<durable, runtime>>

\* The ledger transaction fails (the database is locked): the exception reaches the
\* pool, which drops it, or the start-up, which gives up on the downloads.
LedgerFails(t) ==
  /\ pc[t] \in {"complete", "fail", "error", "pend"}
  /\ Leave(t)
  /\ IF t = Main THEN mode' = "blocked" /\ backlog' = {} ELSE UNCHANGED <<mode, backlog>>
  /\ UNCHANGED <<durable, starts, permitted>>

\* A dispatch that the authorization does not bind is refused; nothing is recorded.
Forbidden(t) ==
  /\ pc[t] = "lookup"
  /\ key[t] \notin permitted
  /\ Leave(t)
  /\ UNCHANGED <<durable, runtime>>

-----------------------------------------------------------------------------
(* adapter.execute                                                         *)

\* A journal of any other state than these two is an unknown outcome.
AfterLookup(state) ==
  CASE state = "absent"    -> "create"
    [] state = "completed" -> "complete"
    [] OTHER               -> "pend"

\* The journal cannot be looked for (the file system of the journals is away).
JournalAway(t) ==
  /\ \/ pc[t] = "lookup" /\ key[t] \in permitted /\ Goto(t, "error")
     \/ pc[t] = "read" /\ GoReturn(t, "raised")
  /\ UNCHANGED <<durable, runtime, key, locals>>

Lookup(t) ==
  /\ pc[t] = "lookup"
  /\ key[t] \in permitted
  /\ Goto(t, AfterLookup(journal[key[t]]))
  /\ UNCHANGED <<durable, runtime, key, locals>>

\* The journal's folder is made, outside of the handler that classifies failures of the
\* write; then the journal is opened exclusively, and is empty until its record is written.
CreateJournal(t) ==
  /\ pc[t] = "create"
  /\ \/ journal[key[t]] = "absent" /\ SetJournal(t, "torn") /\ Goto(t, "fill")
     \/ journal[key[t]] # "absent" /\ UNCHANGED journal /\ Goto(t, "pend")
     \/ UNCHANGED journal /\ (Goto(t, "fail") \/ Goto(t, "error"))
  /\ UNCHANGED <<ledger, manifest, staged, library, rescans, runtime, key, locals>>

FillJournal(t) ==
  /\ pc[t] = "fill"
  /\ \/ /\ SetJournal(t, "preparing")
        /\ Goto(t, "fetch")
        /\ todo' = [todo EXCEPT ![t] = Artifacts]
     \/ /\ Goto(t, "fail")
        /\ UNCHANGED <<journal, todo>>
  /\ UNCHANGED <<ledger, manifest, staged, library, rescans, runtime, key, caller, digests>>

\* An artifact is downloaded into a folder that must not exist yet, for a destination
\* that must not exist yet, and its digest is taken.
Fetch(t, a) ==
  LET k == key[t] IN
  /\ pc[t] = "fetch"
  /\ a \in todo[t]
  /\ staged[k][a] = NoFile
  /\ library[k][a] = NoFile
  /\ \E c \in Contents :
       /\ staged' = [staged EXCEPT ![k][a] = c]
       /\ digests' = [digests EXCEPT ![t][a] = c]
  /\ todo' = [todo EXCEPT ![t] = @ \ {a}]
  /\ UNCHANGED <<ledger, journal, manifest, library, rescans, runtime, pc, key, caller>>

\* The folder is taken, the download or one of its checks fails, or the destination
\* exists: what was downloaded of it, if anything, stays behind.
FetchFails(t, a) ==
  LET k == key[t] IN
  /\ pc[t] = "fetch"
  /\ a \in todo[t]
  /\ \/ /\ staged[k][a] = NoFile
        /\ \E left \in Contents \cup {EmptyFolder} : staged' = [staged EXCEPT ![k][a] = left]
     \/ UNCHANGED staged
  /\ Goto(t, "abort")
  /\ UNCHANGED <<ledger, journal, manifest, library, rescans, runtime, key, locals>>

\* Any failure before dispatch is final: the journal says so, when it can be written.
Abort(t) ==
  /\ pc[t] = "abort"
  /\ \/ SetJournal(t, "failed") /\ Goto(t, "fail")
     \/ SetJournal(t, "error") /\ Goto(t, "error")
     \/ UNCHANGED journal /\ (Goto(t, "fail") \/ Goto(t, "error"))
  /\ UNCHANGED <<ledger, manifest, staged, library, rescans, runtime, key, locals>>

\* The manifest of everything to publish is journaled before any file is moved.
WriteDispatching(t) ==
  /\ pc[t] = "fetch"
  /\ todo[t] = {}
  /\ \/ /\ SetJournal(t, "dispatching")
        /\ manifest' = [manifest EXCEPT ![key[t]] = digests[t]]
        /\ caller' = [caller EXCEPT ![t] = "execute"]
        /\ Goto(t, "read")
     \/ /\ Goto(t, "fail") \/ Goto(t, "error")
        /\ UNCHANGED <<journal, manifest, caller>>
  /\ UNCHANGED <<ledger, staged, library, rescans, runtime, key, todo, digests>>

-----------------------------------------------------------------------------
(* adapter.reconcile                                                       *)

\* Mutations: reconcile resumes a rescan as it resumes a move, or starts over when only
\* some of the files were moved.
ResumeRescanAfterRead(state) ==
  CASE state \in {"dispatching", "moving", "rescanning"} -> "publish"
    [] state = "preparing"                               -> "discard"
    [] state \in {"absent", "completed"} \cup Failures   -> state
    [] OTHER                                             -> "unknown"
StartOverAfterRead(state) ==
  CASE state = "dispatching"             -> "publish"
    [] state \in {"preparing", "moving"} -> "discard"
    [] state \in {"absent", "completed"} \cup Failures -> state
    [] OTHER                             -> "unknown"

\* What the journal state lets reconcile do: publish, discard the preparation, or
\* answer at once.
AfterRead(state) ==
  CASE state \in {"dispatching", "moving"} -> "publish"
    [] state = "preparing"                 -> "discard"
    [] state \in {"absent", "completed"} \cup Failures -> state
    [] OTHER                               -> "unknown"

ReadJournal(t) ==
  LET k == key[t]  next == AfterRead(journal[k]) IN
  /\ pc[t] = "read"
  /\ CASE next = "publish" ->
            /\ Goto(t, "move")
            /\ todo' = [todo EXCEPT ![t] = Artifacts]
            /\ digests' = [digests EXCEPT ![t] = manifest[k]]
       [] next = "discard" -> Goto(t, "discard") /\ UNCHANGED <<todo, digests>>
       [] OTHER            -> GoReturn(t, next) /\ UNCHANGED <<todo, digests>>
  /\ UNCHANGED <<durable, runtime, key, caller>>

\* The staging tree is removed, errors ignored: folders may be left behind.
Discard(t) ==
  /\ pc[t] = "discard"
  /\ \E left \in SUBSET Artifacts :
       staged' = [staged EXCEPT ![key[t]] =
                    [a \in Artifacts |-> IF a \in left THEN @[a] ELSE NoFile]]
  /\ Goto(t, "unlink")
  /\ UNCHANGED <<ledger, journal, manifest, library, rescans, runtime, key, locals>>

\* The journal is removed whatever it says by now; a missing one is an error.
Unlink(t) ==
  /\ pc[t] = "unlink"
  /\ \/ /\ journal[key[t]] # "absent"
        /\ SetJournal(t, "absent")
        /\ GoReturn(t, "absent")
     \/ /\ GoReturn(t, "unknown")
        /\ UNCHANGED journal
  /\ UNCHANGED <<ledger, manifest, staged, library, rescans, runtime, key, locals>>

IsFile(content) == content \in Contents

\* The destination already holds the journaled bytes and the source is gone.
AlreadyMoved(t, a) ==
  /\ library[key[t]][a] = digests[t][a]
  /\ ~IsFile(staged[key[t]][a])

\* The source holds the journaled bytes and the destination is free.
Movable(t, a) ==
  /\ staged[key[t]][a] = digests[t][a]
  /\ library[key[t]][a] = NoFile

SkipMoved(t, a) ==
  /\ pc[t] = "move"
  /\ a \in todo[t]
  /\ AlreadyMoved(t, a)
  /\ todo' = [todo EXCEPT ![t] = @ \ {a}]
  /\ UNCHANGED <<durable, runtime, pc, key, caller, digests>>

\* The source is gone only once the destination has all of it.
MoveArtifact(t, a) ==
  LET k == key[t] IN
  /\ pc[t] = "move"
  /\ a \in todo[t]
  /\ Movable(t, a)
  /\ library' = [library EXCEPT ![k][a] = staged[k][a]]
  /\ staged' = [staged EXCEPT ![k][a] = EmptyFolder]
  /\ todo' = [todo EXCEPT ![t] = @ \ {a}]
  /\ Goto(t, "note")
  /\ UNCHANGED <<ledger, journal, manifest, rescans, runtime, key, caller, digests>>

\* The files contradict the manifest, or the move itself fails, between file systems perhaps
\* with a part or a copy of the file at the destination (as a kill leaves it, too); or the
\* paths cannot be examined, which is an exception.
MoveFails(t, a) ==
  /\ pc[t] = "move"
  /\ a \in todo[t]
  /\ \/ ~AlreadyMoved(t, a) /\ GoReturn(t, "unknown") /\ UNCHANGED library
     \/ /\ Movable(t, a)
        /\ \E c \in Contents : library' = [library EXCEPT ![key[t]][a] = c]
        /\ GoReturn(t, "unknown")
     \/ GoReturn(t, "raised") /\ UNCHANGED library
  /\ UNCHANGED <<ledger, journal, manifest, staged, rescans, runtime, key, locals>>

\* Every journal write of reconcile writes back the record it read.
Record(t, state) ==
  /\ SetJournal(t, state)
  /\ manifest' = [manifest EXCEPT ![key[t]] = digests[t]]

\* A journal write fails: an unknown outcome, or an exception when its folder cannot be made.
Unrecorded(t) ==
  /\ GoReturn(t, "unknown") \/ GoReturn(t, "raised")
  /\ UNCHANGED <<journal, manifest>>

NoteMove(t) ==
  /\ pc[t] = "note"
  /\ \/ Record(t, "moving") /\ Goto(t, "move")
     \/ Unrecorded(t)
  /\ UNCHANGED <<ledger, staged, library, rescans, runtime, key, locals>>

\* Here any failure is an unknown outcome.
WriteRescanning(t) ==
  /\ pc[t] = "move"
  /\ todo[t] = {}
  /\ \/ /\ Record(t, "rescanning")
        /\ Goto(t, "rescan")
        /\ todo' = [todo EXCEPT ![t] = Series]
     \/ /\ GoReturn(t, "unknown")
        /\ UNCHANGED <<journal, manifest, todo>>
  /\ UNCHANGED <<ledger, staged, library, rescans, runtime, key, caller, digests>>

\* A rescan command is sent; an answer lets the loop go on.
Rescan(t, s) ==
  /\ pc[t] = "rescan"
  /\ s \in todo[t]
  /\ rescans' = [rescans EXCEPT ![key[t]][s] = @ + 1]
  /\ \/ todo' = [todo EXCEPT ![t] = @ \ {s}] /\ UNCHANGED pc
     \/ GoReturn(t, "unknown") /\ UNCHANGED todo
  /\ UNCHANGED <<ledger, files, runtime, key, caller, digests>>

\* The request never reaches Sonarr.
RescanFails(t) ==
  /\ pc[t] = "rescan"
  /\ todo[t] # {}
  /\ GoReturn(t, "unknown")
  /\ UNCHANGED <<durable, runtime, key, locals>>

WriteCompleted(t) ==
  /\ pc[t] = "rescan"
  /\ todo[t] = {}
  /\ \/ Record(t, "completed") /\ GoReturn(t, "completed")
     \/ Unrecorded(t)
  /\ UNCHANGED <<ledger, staged, library, rescans, runtime, key, locals>>

-----------------------------------------------------------------------------
\* The steps a thread takes once it works on a key.
Step(t) ==
  \/ JournalAway(t) \/ Lookup(t) \/ CreateJournal(t) \/ FillJournal(t)
  \/ \E a \in Artifacts : Fetch(t, a) \/ FetchFails(t, a)
  \/ Abort(t) \/ WriteDispatching(t)
  \/ ReadJournal(t) \/ Discard(t) \/ Unlink(t)
  \/ \E a \in Artifacts : SkipMoved(t, a) \/ MoveArtifact(t, a) \/ MoveFails(t, a)
  \/ NoteMove(t) \/ WriteRescanning(t)
  \/ \E s \in Series : Rescan(t, s)
  \/ RescanFails(t) \/ WriteCompleted(t)
  \/ Finish(t) \/ Pend(t) \/ LedgerFails(t) \/ Forbidden(t)

Next ==
  \/ Start \/ EndRecovery \/ Crash
  \/ \E k \in Keys : Recover(k)
  \/ \E t \in Threads, k \in Keys : Reserve(t, k) \/ OperatorReconcile(t, k)
  \/ \E t \in Threads : Step(t)

Spec == Init /\ [][Next]_vars

\* Threads are scheduled, requests time out, and the recovery loop goes on.  Nothing
\* makes a worker reserve, the operator act, or the process start or crash.
Fairness ==
  /\ \A t \in Threads : WF_vars(Step(t))
  /\ \A k \in Keys : WF_vars(Recover(k))
  /\ WF_vars(EndRecovery)

FairSpec == Spec /\ Fairness

-----------------------------------------------------------------------------
(* Properties                                                              *)

\* Sonarr is never told twice of the same execution and series, whatever crashes and
\* recoveries come in between ("Never issue it a second time", reconcile).
RescanAtMostOnce == \A k \in Keys, s \in Series : rescans[k][s] <= 1

\* What the ledger says of an attempt is what happened.  One that failed for a reason the
\* adapter gave published nothing: no file of it is in the library and Sonarr was not told
\* (every failure it knows of after dispatch must be an unknown outcome instead).  Only the
\* category adapter_error may hide effects, and never those of an execution the journal
\* records as completed.  A completed one has all its files in the library, with the bytes
\* the journal recorded, and told Sonarr of every series.
OutcomeMatchesEffect ==
  \A k \in Keys :
    /\ ledger[k] = "failed" =>
         /\ library[k] = NoFiles
         /\ \A s \in Series : rescans[k][s] = 0
    /\ ledger[k] = "error" => journal[k] # "completed"
    /\ ledger[k] = "completed" =>
         /\ journal[k] = "completed"
         /\ \A a \in Artifacts : library[k][a] = manifest[k][a] /\ IsFile(library[k][a])
         /\ \A s \in Series : rescans[k][s] >= 1

\* From dispatch to the rescan each file exists with its journaled bytes, in staging until
\* its move is over and in the library alone afterwards: a crash can always tell what is
\* left, and what was cut short can be done again from the source.
DispatchedNeverLost ==
  \A k \in Keys, a \in Artifacts :
    journal[k] \in {"dispatching", "moving"} =>
      \/ staged[k][a] = manifest[k][a]
      \/ library[k][a] = manifest[k][a] /\ ~IsFile(staged[k][a])

\* A file is in the library only under a journal that lists it, with the bytes listed or
\* with those still in staging (a copy that was cut short).
PublishedIsJournaled ==
  \A k \in Keys, a \in Artifacts : IsFile(library[k][a]) =>
    /\ journal[k] \in {"dispatching", "moving", "rescanning", "completed"}
    /\ manifest[k][a] \in {library[k][a], staged[k][a]}

\* No two threads work on the same key.
OneThreadPerKey ==
  \A t, u \in Threads : pc[t] # "idle" /\ pc[u] # "idle" /\ key[t] = key[u] => t = u

\* What is decided stays decided, even by threads that race for the same key.  Once the
\* rescan was begun and its thread is gone, an open attempt stays open for good: no recovery
\* and no request resumes it, starts it over or closes it.  A closed one keeps its outcome,
\* and no attempt is forgotten.
Abandoned(k) == journal[k] = "rescanning" /\ ledger[k] = "reserved"
UnknownIsFrozen ==
  \A k \in Keys : [](Abandoned(k) /\ ~Busy(k) => []Abandoned(k))
OutcomeIsFinal ==
  [][\A k \in Keys :
       /\ ledger[k] \in {"completed"} \cup Failures => ledger'[k] = ledger[k]
       /\ ledger[k] = "reserved" => ledger'[k] # "none"]_vars
DecisionsStand == UnknownIsFrozen /\ OutcomeIsFinal

\* The detailed steps implement the once-only contract of a key.
Announced == {k \in Keys : journal[k] \in {"rescanning", "completed"}}
Contract == INSTANCE OnceOnlyEffect WITH outcome <- ledger, announced <- Announced
ImplementsContract == Contract!Spec

\* A recovery ends: no reservation keeps the start-up from deciding.
RecoveryEnds == mode = "recovering" ~> mode # "recovering"

\* Every thread that took a key lets it go: an execution ends in an outcome or is left
\* open for a later reconciliation, it is never waited for.
ExecutionEnds == \A t \in Threads : pc[t] # "idle" ~> pc[t] = "idle"
=============================================================================
