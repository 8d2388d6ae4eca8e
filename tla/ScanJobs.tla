------------------------------- MODULE ScanJobs -------------------------------
(***************************************************************************)
(* Library scans as jobs (src/v4/scan_jobs.py): the requests and the       *)
(* automatic scheduler that start them, the one worker that runs them, the *)
(* job rows that outlive the process, and the failure events they put in   *)
(* the notification outbox.                                                *)
(*                                                                         *)
(* Every action is one database transaction, one use of the pool or of the *)
(* lock, or a whole scan (ReviewLedger has its transactions).  Whether an  *)
(* automatic scan is due is left to chance: its interval is a setting.     *)
(***************************************************************************)
EXTENDS Naturals, Sequences

CONSTANTS
  Loop,     (* the automatic scheduler                                     *)
  Requests, (* threads of the HTTP API                                     *)
  Worker,   (* the pool's only thread                                      *)
  Free, NoJob, (* absent values                                            *)
  MaxJobs   (* bound on the jobs of a history                              *)

Jobs    == 1..MaxJobs
Clients == Requests \cup {Loop}
Threads == Clients \cup {Worker}

ASSUME ThreadsAssumption ==
  /\ MaxJobs \in Nat
  /\ Worker \notin Clients
  /\ Free \notin Clients /\ NoJob \notin Jobs

Active == {"queued", "running"}
Final  == {"completed", "failed"}

VARIABLES
  status,  (* the job rows                                                 *)
  reports, (* how many failure events of a job are in the outbox           *)
  service, (* whether the process runs, and whether its pool is shut down  *)
  lock,    (* who holds ScanJobs.lock                                      *)
  pool,    (* the pool's work queue                                        *)
  pc, job, (* where each thread is, and the job it has in hand             *)
  adrift   (* history: the active jobs whose bookkeeping failed            *)

rows   == <<status, reports>>
memory == <<lock, pool, pc, job, adrift>>
jobVars == <<status, reports, service, lock, pool, pc, job, adrift>>

Steps == {"idle", "start", "insert", "submit", "report", "begin", "scan", "complete", "fail"}

JobsTypeOK ==
  /\ status  \in [Jobs -> {"none"} \cup Active \cup Final]
  /\ reports \in [Jobs -> Nat]
  /\ service \in {"down", "up", "closed"}
  /\ lock    \in Clients \cup {Free}
  /\ pool    \in Seq(Jobs)
  /\ pc      \in [Threads -> Steps]
  /\ job     \in [Threads -> Jobs \cup {NoJob}]
  /\ adrift  \subseteq Jobs

AtRest(value) == [t \in Threads |-> value]

JobsInit ==
  /\ status = [j \in Jobs |-> "none"] /\ reports = [j \in Jobs |-> 0]
  /\ service = "down"
  /\ lock = Free /\ pool = <<>> /\ adrift = {}
  /\ pc = AtRest("idle") /\ job = AtRest(NoJob)

ActiveJobs == {j \in Jobs : status[j] \in Active}

Goto(t, step) == pc' = [pc EXCEPT ![t] = step]

-----------------------------------------------------------------------------
(* The life of the process                                                 *)

\* Mutation: a start closes only the jobs that were running.
RunningInterrupted(j) == status[j] = "running"

Interrupted(j) == status[j] \in Active

\* A start closes the jobs an earlier process left open and reports each, in one
\* transaction.
Restart ==
  /\ service = "down"
  /\ service' = "up"
  /\ status' = [j \in Jobs |-> IF Interrupted(j) THEN "failed" ELSE status[j]]
  /\ reports' = [j \in Jobs |-> IF Interrupted(j) THEN reports[j] + 1 ELSE reports[j]]
  /\ UNCHANGED memory

\* The automatic scheduler is told to stop and the pool is shut down; what it has queued
\* still runs.
Close ==
  /\ service = "up"
  /\ service' = "closed"
  /\ UNCHANGED <<rows, memory>>

\* The threads are gone, the rows remain.
Crash ==
  /\ service # "down"
  /\ service' = "down"
  /\ lock' = Free /\ pool' = <<>> /\ adrift' = {}
  /\ pc' = AtRest("idle") /\ job' = AtRest(NoJob)
  /\ UNCHANGED rows

-----------------------------------------------------------------------------
(* ScanJobs.start, for a request or for the automatic scheduler            *)

\* A request comes, or the scheduler finds a scan due.
Ask(c) ==
  /\ service \in IF c = Loop THEN {"up"} ELSE {"up", "closed"}
  /\ pc[c] = "idle"
  /\ Goto(c, "start")
  /\ UNCHANGED <<rows, service, lock, pool, job, adrift>>

Enter(c) ==
  /\ pc[c] = "start"
  /\ lock = Free
  /\ lock' = c
  /\ Goto(c, "insert")
  /\ UNCHANGED <<rows, service, pool, job, adrift>>

\* The client leaves start; the scheduler handles an exception, unless it was told to
\* stop.
Leave(c, raised) ==
  /\ lock' = Free
  /\ job' = [job EXCEPT ![c] = NoJob]
  /\ Goto(c, IF raised /\ c = Loop /\ service = "up" THEN "report" ELSE "idle")

\* Mutation: only a running scan makes a request coalesce.
RunningCoalescible(j) == status[j] = "running"

Coalescible(j) == status[j] \in Active

\* A repeated request gets the active job.
Coalesce(c) ==
  /\ pc[c] = "insert"
  /\ \E j \in Jobs : Coalescible(j)
  /\ Leave(c, FALSE)
  /\ UNCHANGED <<rows, service, pool, adrift>>

Insert(c, j) ==
  /\ pc[c] = "insert"
  /\ \A i \in Jobs : ~Coalescible(i)
  /\ status[j] = "none"
  /\ status' = [status EXCEPT ![j] = "queued"]
  /\ job' = [job EXCEPT ![c] = j]
  /\ Goto(c, "submit")
  /\ UNCHANGED <<reports, service, lock, pool, adrift>>

InsertFails(c) ==
  /\ pc[c] = "insert"
  /\ Leave(c, TRUE)
  /\ UNCHANGED <<rows, service, pool, adrift>>

\* The row is committed first, then the pool gets the job; the row may not be read back.
Submit(c) ==
  /\ pc[c] = "submit"
  /\ service = "up"
  /\ pool' = Append(pool, job[c])
  /\ \E raised \in BOOLEAN : Leave(c, raised)
  /\ UNCHANGED <<rows, service, adrift>>

\* A pool that is shut down refuses: nothing will run the job.
Refused(c) ==
  /\ pc[c] = "submit"
  /\ service = "closed"
  /\ adrift' = adrift \cup {job[c]}
  /\ Leave(c, TRUE)
  /\ UNCHANGED <<rows, service, pool>>

\* The scheduler reports its own failure, an event without a job, if it can.
Report ==
  /\ pc[Loop] = "report"
  /\ Goto(Loop, "idle")
  /\ UNCHANGED <<rows, service, lock, pool, job, adrift>>

-----------------------------------------------------------------------------
(* ScanJobs._run                                                           *)

Take ==
  /\ pc[Worker] = "idle"
  /\ pool # <<>>
  /\ job' = [job EXCEPT ![Worker] = Head(pool)]
  /\ pool' = Tail(pool)
  /\ Goto(Worker, "begin")
  /\ UNCHANGED <<rows, service, lock, adrift>>

\* The worker is done with its job.
Rest == Goto(Worker, "idle") /\ job' = [job EXCEPT ![Worker] = NoJob]

\* The job is marked running; an exception here is handled by nobody.
BeginJob ==
  /\ pc[Worker] = "begin"
  /\ \/ /\ status' = [status EXCEPT ![job[Worker]] = "running"]
        /\ Goto(Worker, "scan")
        /\ UNCHANGED <<job, adrift>>
     \/ /\ adrift' = adrift \cup {job[Worker]}
        /\ Rest
        /\ UNCHANGED status
  /\ UNCHANGED <<reports, service, lock, pool>>

\* Mutation: nobody handles the exception of a scan either.
Unhandled == Rest

Handled == Goto(Worker, "fail") /\ UNCHANGED job

\* The scan records its result and returns, or raises, before or after it recorded it.
Scan ==
  /\ pc[Worker] = "scan"
  /\ \/ Goto(Worker, "complete") /\ UNCHANGED job
     \/ Handled
  /\ UNCHANGED <<rows, service, lock, pool, adrift>>

Complete ==
  /\ pc[Worker] = "complete"
  /\ \/ status' = [status EXCEPT ![job[Worker]] = "completed"] /\ Rest
     \/ Handled /\ UNCHANGED status
  /\ UNCHANGED <<reports, service, lock, pool, adrift>>

\* Mutation: the row is left for a later transaction than the event.
LooseFailed(j) == status' \in {status, [status EXCEPT ![j] = "failed"]}

Failed(j) == status' = [status EXCEPT ![j] = "failed"]

\* One transaction closes the job and reports it; if it fails the job stays as it is.
Fail ==
  /\ pc[Worker] = "fail"
  /\ \/ /\ Failed(job[Worker])
        /\ reports' = [reports EXCEPT ![job[Worker]] = @ + 1]
        /\ UNCHANGED adrift
     \/ /\ adrift' = adrift \cup {job[Worker]}
        /\ UNCHANGED rows
  /\ Rest
  /\ UNCHANGED <<service, lock, pool>>

-----------------------------------------------------------------------------
ClientStep(c) ==
  \/ Enter(c) \/ Coalesce(c) \/ (\E j \in Jobs : Insert(c, j)) \/ InsertFails(c)
  \/ Submit(c) \/ Refused(c)

WorkerStep == Take \/ BeginJob \/ Scan \/ Complete \/ Fail

JobsNext ==
  \/ Restart \/ Close \/ Crash
  \/ \E c \in Clients : Ask(c) \/ ClientStep(c)
  \/ Report
  \/ WorkerStep

JobsSpec == JobsInit /\ [][JobsNext]_jobVars

\* The pool runs what it has, a scan ends (its requests time out), and the thread that
\* wrote a row goes on to the pool.
JobsFairness ==
  /\ WF_jobVars(WorkerStep)
  /\ \A c \in Clients : WF_jobVars(Submit(c) \/ Refused(c))

JobsFairSpec == JobsSpec /\ JobsFairness

-----------------------------------------------------------------------------
(* Properties                                                              *)

\* At most one scan is queued or running, whoever starts it and whatever an earlier
\* process left ("The server permits one active scan", frontend-api-contract.md:248).
OneActive == \A i, j \in ActiveJobs : i = j

\* Each failed job has one failure event in the outbox and no other job has any: neither
\* a crash nor a failing transaction comes between the row and the event.
FailedIsReported ==
  \A j \in Jobs : reports[j] = IF status[j] = "failed" THEN 1 ELSE 0

\* A job that ended stays as it ended, whatever the worker and later starts still write.
JobIsFinal ==
  [][\A j \in Jobs : status[j] \in Final => status'[j] = status[j]]_jobVars

InHand(j) == \E t \in Threads : job[t] = j
InPool(j) == \E n \in DOMAIN pool : pool[n] = j

\* While the process runs, an active job is in the pool or in the hands of a thread,
\* unless its bookkeeping failed: requests do not coalesce with a scan nobody will run.
ActiveIsHeld ==
  service # "down" => \A j \in ActiveJobs \ adrift : InHand(j) \/ InPool(j)

\* An accepted scan ends, unless its bookkeeping failed or the process went down.
ScanEnds ==
  \A j \in Jobs :
    status[j] \in Active ~> status[j] \in Final \/ j \in adrift \/ service = "down"
=============================================================================
