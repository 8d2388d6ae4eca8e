---------------------------- MODULE DownloadScheduler --------------------------
(***************************************************************************)
(* The scheduler of V4 executions (src/v4/download_manager.py): a loop and *)
(* the requests of the API ask Sonarr what is missing, choose the rows     *)
(* that are mapped, and submit each to a pool of threads, once while it is *)
(* outstanding.  The set of outstanding keys is guarded by a lock that is  *)
(* not reentrant; a callback of the future takes it to forget the key.     *)
(*                                                                         *)
(* A future runs its callbacks in the thread that completes it, or, if it  *)
(* is complete when the callback is added, in the thread that adds it      *)
(* (concurrent.futures).                                                   *)
(***************************************************************************)
EXTENDS Naturals, Sequences

CONSTANTS
  Keys,       (* missing episodes: a mapping, its target and an episode      *)
  Loop,       (* the thread that polls                                       *)
  Requests,   (* the threads of the API                                      *)
  Workers,    (* the threads of the pool                                     *)
  Free,       (* nobody holds the lock                                       *)
  NoRow,      (* a thread without a row                                      *)
  MaxRevision (* bound on the revisions of a mapping                         *)

Syncers == Requests \cup {Loop}
Threads == Syncers \cup Workers
Rows    == [key : Keys, revision : Nat]

ASSUME ThreadsAssumption ==
  /\ Syncers \cap Workers = {} /\ Loop \notin Requests
  /\ Free \notin Threads
  /\ NoRow \notin Rows
  /\ MaxRevision \in Nat

VARIABLES
  missing,    (* the episodes Sonarr reports missing                         *)
  executable, (* the episodes whose mapping may be executed                  *)
  revision,   (* the revision of the mapping of each episode                 *)
  reserved,   (* the rows the ledger has reserved, ever                      *)
  submitted,  (* _submitted, the outstanding keys                            *)
  lock,       (* the thread that holds _lock                                 *)
  queue,      (* the work queue of the pool                                  *)
  attached,   (* keys whose future has its callback                          *)
  early,      (* keys whose future completed before it had one               *)
  closed,     (* whether the scheduler was closed                            *)
  pc,         (* what each thread does next                                  *)
  rows,       (* the candidates of each sync that are not submitted          *)
  row         (* the row in each thread's hand                               *)

world  == <<missing, executable, revision>>
future == <<queue, attached, early>>
vars   == <<world, reserved, submitted, lock, future, closed, pc, rows, row>>

Steps == {"idle", "ask", "select", "acquire", "submit", "attach", "run", "effect", "return",
          "callback", "dead"}

TypeOK ==
  /\ missing \subseteq Keys /\ executable \subseteq Keys
  /\ revision \in [Keys -> Nat]
  /\ reserved \subseteq Rows
  /\ submitted \subseteq Keys
  /\ lock \in Syncers \cup {Free}
  /\ queue \in Seq(Rows)
  /\ attached \subseteq Keys /\ early \subseteq Keys
  /\ closed \in BOOLEAN
  /\ pc \in [Threads -> Steps]
  /\ rows \in [Syncers -> SUBSET Rows]
  /\ row \in [Threads -> Rows \cup {NoRow}]

Init ==
  /\ missing \in SUBSET Keys /\ executable \in SUBSET Keys
  /\ revision = [k \in Keys |-> 0]
  /\ reserved = {} /\ submitted = {}
  /\ lock = Free
  /\ queue = <<>> /\ attached = {} /\ early = {}
  /\ closed = FALSE
  /\ pc = [t \in Threads |-> "idle"]
  /\ rows = [s \in Syncers |-> {}]
  /\ row = [t \in Threads |-> NoRow]

Goto(t, step) == pc' = [pc EXCEPT ![t] = step]
Drop(t)       == row' = [row EXCEPT ![t] = NoRow]

-----------------------------------------------------------------------------
(* What others do: Sonarr, and the review ledger                           *)

\* An episode airs, or its file is lost or found.
SonarrChanges(k) ==
  /\ missing' = IF k \in missing THEN missing \ {k} ELSE missing \cup {k}
  /\ UNCHANGED <<executable, revision, reserved, submitted, lock, future, closed, pc, rows, row>>

\* A reviewer or a scan changes the mapping: its revision grows.
Review(k) ==
  /\ revision[k] < MaxRevision
  /\ revision' = [revision EXCEPT ![k] = @ + 1]
  /\ executable' \in {executable \cup {k}, executable \ {k}}
  /\ UNCHANGED <<missing, reserved, submitted, lock, future, closed, pc, rows, row>>

-----------------------------------------------------------------------------
(* A sync                                                                  *)

\* The loop polls until it is told to stop; a request may come at any time.
Begin(s) ==
  /\ pc[s] = "idle"
  /\ s = Loop => ~closed
  /\ Goto(s, "ask")
  /\ UNCHANGED <<world, reserved, submitted, lock, future, closed, rows, row>>

\* Sonarr's wanted episodes, at the revision their mapping has now.
Ask(s) ==
  /\ pc[s] = "ask"
  /\ rows' = [rows EXCEPT ![s] = {[key |-> k, revision |-> revision[k]] : k \in missing}]
  /\ Goto(s, "select")
  /\ UNCHANGED <<world, reserved, submitted, lock, future, closed, row>>

\* The rows whose mapping may be executed, at the revision they have when they are
\* looked up; a request may ask for some of them only.
Selected(s, chosen) ==
  {[key |-> r.key, revision |-> revision[r.key]] :
     r \in {q \in rows[s] : q.key \in executable \cap chosen}}

Select(s) ==
  /\ pc[s] = "select"
  /\ \E chosen \in SUBSET Keys :
       /\ s = Loop => chosen = Keys
       /\ rows' = [rows EXCEPT ![s] = Selected(s, chosen)]
  /\ Goto(s, "acquire")
  /\ UNCHANGED <<world, reserved, submitted, lock, future, closed, row>>

\* A failed sync ends.  The loop notes the failure in the ledger and waits for its next turn,
\* but nothing catches a failure of that note (a locked database, say): its thread is gone.
EndFailed(s) == Goto(s, "idle") \/ (s = Loop /\ Goto(s, "dead"))

\* Sonarr or the ledger cannot be read.
SyncFails(s) ==
  /\ pc[s] \in {"ask", "select"}
  /\ rows' = [rows EXCEPT ![s] = {}]
  /\ EndFailed(s)
  /\ UNCHANGED <<world, reserved, submitted, lock, future, closed, row>>

Acquire(s) ==
  /\ pc[s] = "acquire"
  /\ lock = Free
  /\ lock' = s
  /\ Goto(s, "submit")
  /\ UNCHANGED <<world, reserved, submitted, future, closed, rows, row>>

\* Mutation: an operation that is reserved already is not outstanding.
Unreserved(r) == r \notin reserved

\* A key is submitted only while it is not outstanding.
Submittable(r) == r.key \notin submitted

Skip(s, r) ==
  /\ pc[s] = "submit"
  /\ r \in rows[s] /\ ~Submittable(r)
  /\ rows' = [rows EXCEPT ![s] = @ \ {r}]
  /\ UNCHANGED <<world, reserved, submitted, lock, future, closed, pc, row>>

\* The key is noted first, then the pool gets the operation.
Submit(s, r) ==
  /\ pc[s] = "submit"
  /\ r \in rows[s] /\ Submittable(r)
  /\ ~closed
  /\ submitted' = submitted \cup {r.key}
  /\ queue' = Append(queue, r)
  /\ rows' = [rows EXCEPT ![s] = @ \ {r}]
  /\ row' = [row EXCEPT ![s] = r]
  /\ Goto(s, "attach")
  /\ UNCHANGED <<world, reserved, lock, attached, early, closed>>

\* A pool that was shut down refuses: the sync ends, the key stays noted.
Refused(s, r) ==
  /\ pc[s] = "submit"
  /\ r \in rows[s] /\ Submittable(r)
  /\ closed
  /\ submitted' = submitted \cup {r.key}
  /\ rows' = [rows EXCEPT ![s] = {}]
  /\ lock' = Free
  /\ EndFailed(s)
  /\ UNCHANGED <<world, reserved, future, closed, row>>

\* Mutation: the callback of a future that is complete is dropped.
DroppedAttach(s) ==
  /\ pc[s] = "attach"
  /\ attached' = attached \cup ({row[s].key} \ early)
  /\ early' = early \ {row[s].key}
  /\ Goto(s, "submit")
  /\ Drop(s)
  /\ UNCHANGED <<world, reserved, submitted, lock, queue, closed, rows>>

\* The callback is added to the future, or runs at once if that is complete.
Attach(s) ==
  /\ pc[s] = "attach"
  /\ IF row[s].key \in early
     THEN /\ early' = early \ {row[s].key}
          /\ Goto(s, "callback")
          /\ UNCHANGED <<attached, row>>
     ELSE /\ attached' = attached \cup {row[s].key}
          /\ Goto(s, "submit")
          /\ Drop(s)
          /\ UNCHANGED early
  /\ UNCHANGED <<world, reserved, submitted, lock, queue, closed, rows>>

Release(s) ==
  /\ pc[s] = "submit"
  /\ rows[s] = {}
  /\ lock' = Free
  /\ Goto(s, "idle")
  /\ UNCHANGED <<world, reserved, submitted, future, closed, rows, row>>

-----------------------------------------------------------------------------
(* The pool                                                                *)

Take(w) ==
  /\ pc[w] = "idle"
  /\ queue # <<>>
  /\ row' = [row EXCEPT ![w] = Head(queue)]
  /\ queue' = Tail(queue)
  /\ Goto(w, "run")
  /\ UNCHANGED <<world, reserved, submitted, lock, attached, early, closed, rows>>

\* The ledger reserves a row once, at the revision its mapping still has.
Reserve(w) ==
  /\ pc[w] = "run"
  /\ row[w].key \in executable
  /\ row[w].revision = revision[row[w].key]
  /\ row[w] \notin reserved
  /\ reserved' = reserved \cup {row[w]}
  /\ Goto(w, "effect")
  /\ UNCHANGED <<world, submitted, lock, future, closed, rows, row>>

\* Otherwise, or for a reason of the ledger's own, it refuses, and the operation returns.
Conflict(w) ==
  /\ pc[w] = "run"
  /\ Goto(w, "return")
  /\ UNCHANGED <<world, reserved, submitted, lock, future, closed, rows, row>>

\* The execution completes, and Sonarr finds the file; or it fails or stays unknown.
Effect(w) ==
  /\ pc[w] = "effect"
  /\ missing' \in {missing, missing \ {row[w].key}}
  /\ Goto(w, "return")
  /\ UNCHANGED <<executable, revision, reserved, submitted, lock, future, closed, rows, row>>

NoteEarly(w) == early' = early \cup {row[w].key}

\* The future completes; its callback, if it has one, runs in this thread.
Complete(w) ==
  /\ pc[w] = "return"
  /\ IF row[w].key \in attached
     THEN /\ attached' = attached \ {row[w].key}
          /\ Goto(w, "callback")
          /\ UNCHANGED <<early, row>>
     ELSE /\ NoteEarly(w)
          /\ Goto(w, "idle")
          /\ Drop(w)
          /\ UNCHANGED attached
  /\ UNCHANGED <<world, reserved, submitted, lock, queue, closed, rows>>

ForgetKey(k) == submitted' = submitted \ {k}

\* The callback: it needs the lock, whichever thread runs it.
Done(t) ==
  /\ pc[t] = "callback"
  /\ lock = Free
  /\ ForgetKey(row[t].key)
  /\ Goto(t, IF t \in Workers THEN "idle" ELSE "submit")
  /\ Drop(t)
  /\ UNCHANGED <<world, reserved, lock, future, closed, rows>>

Close ==
  /\ ~closed
  /\ closed' = TRUE
  /\ UNCHANGED <<world, reserved, submitted, lock, future, pc, rows, row>>

-----------------------------------------------------------------------------
SyncStep(s) ==
  \/ Begin(s) \/ Ask(s) \/ Select(s) \/ SyncFails(s) \/ Acquire(s)
  \/ \E r \in rows[s] : Skip(s, r) \/ Submit(s, r) \/ Refused(s, r)
  \/ Attach(s) \/ Release(s) \/ Done(s)

PoolStep(w) ==
  Take(w) \/ Reserve(w) \/ Conflict(w) \/ Effect(w) \/ Complete(w) \/ Done(w)

Next ==
  \/ \E k \in Keys : SonarrChanges(k) \/ Review(k)
  \/ \E s \in Syncers : SyncStep(s)
  \/ \E w \in Workers : PoolStep(w)
  \/ Close

Spec == Init /\ [][Next]_vars

\* The loop polls again and again, Sonarr answers it now and again, and it gets the lock
\* if that is free again and again; a thread that holds the lock, or works in the pool,
\* goes on.  Nothing makes a request come, Sonarr answer one, or a sync fail.
Fairness ==
  /\ WF_vars(Begin(Loop))
  /\ SF_vars(Ask(Loop)) /\ SF_vars(Select(Loop)) /\ SF_vars(Acquire(Loop))
  /\ \A s \in Syncers :
       /\ WF_vars(\E r \in rows[s] : Skip(s, r) \/ Submit(s, r) \/ Refused(s, r))
       /\ WF_vars(Attach(s) \/ Release(s))
  /\ \A w \in Workers :
       /\ WF_vars(Take(w) \/ Reserve(w) \/ Conflict(w) \/ Effect(w) \/ Complete(w))
       /\ SF_vars(Done(w))

FairSpec == Spec /\ Fairness

-----------------------------------------------------------------------------
(* Properties                                                              *)

Queued     == {queue[n].key : n \in DOMAIN queue}
Running(k) == \E w \in Workers : pc[w] \in {"run", "effect", "return"} /\ row[w].key = k
Ending(k)  == \E t \in Threads : pc[t] = "callback" /\ row[t].key = k

\* However the loop and the requests overlap, the pool has at most one operation of a
\* key: executions of an episode never compete for a worker or for the ledger.
OneFlight ==
  /\ \A m, n \in DOMAIN queue : queue[m].key = queue[n].key => m = n
  /\ \A v, w \in Workers :
       pc[v] \in {"run", "effect", "return"} /\ pc[w] \in {"run", "effect", "return"} /\
       row[v].key = row[w].key => v = w
  /\ \A k \in Queued : ~Running(k)

\* A key is noted only while its operation is under way, whatever thread completes the
\* future first: no episode is locked out of later syncs (but for a pool shut down).
SubmittedIsOutstanding ==
  ~closed => \A k \in submitted : k \in Queued \cup early \/ Running(k) \/ Ending(k)

\* A sync that runs a callback itself waits for the lock it holds.
Wedged == \E s \in Syncers : pc[s] = "callback"

\* The loop could not note a failure.
Dead == pc[Loop] = "dead"

\* An episode that stays missing and executable, and whose revision is not reserved, is
\* tried again and again, unless a sync is stuck with the lock or the loop has died.
TriedAgain ==
  \A k \in Keys :
    []<>(\/ k \notin missing \cap executable
         \/ [key |-> k, revision |-> revision[k]] \in reserved
         \/ Running(k)
         \/ Wedged \/ Dead \/ closed)

\* The loop polls on until it is closed ("Poll Sonarr and submit each current mapping
\* through its coordinator once", download_manager.py:15), or dies of a note it cannot write.
PollsOn == []<>(pc[Loop] = "idle" \/ Dead \/ closed)
=============================================================================
