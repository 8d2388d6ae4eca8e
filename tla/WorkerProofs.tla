----------------------------- MODULE WorkerProofs -----------------------------
(***************************************************************************)
(* Proofs about the two workers of the V4 process that drain a queue: the  *)
(* workers of the download scheduler (DownloadScheduler, for any sets of   *)
(* episodes, requests and workers and any number of revisions) and the     *)
(* notification worker (Notifications, for any conditions, batches,        *)
(* windows and lengths of the outbox).                                     *)
(***************************************************************************)
EXTENDS DownloadScheduler, Notifications, SequenceTheorems, TLAPS

\* Threads that work have a row.
HasRow ==
  \A t \in Threads : pc[t] \in {"attach", "run", "effect", "return", "callback"} =>
    row[t] \in Rows

\* Workers and syncers take different steps.
OwnSteps ==
  /\ \A w \in Workers : pc[w] \in {"idle", "run", "effect", "return", "callback"}
  /\ \A s \in Syncers : pc[s] \notin {"run", "effect", "return"}

Typed == TypeOK /\ HasRow /\ OwnSteps

LEMMA TypedStep ==
  ASSUME Typed, [Next]_vars
  PROVE  Typed'
<1> USE ThreadsAssumption DEF Typed, TypeOK, HasRow, OwnSteps, Threads, Syncers, Steps, world,
    future, Goto, Drop
<1>1. ASSUME NEW k \in Keys, SonarrChanges(k) PROVE Typed'
  BY <1>1 DEF SonarrChanges
<1>2. ASSUME NEW k \in Keys, Review(k) PROVE Typed'
  BY <1>2 DEF Review
<1>3. ASSUME NEW s \in Syncers, Begin(s) \/ Acquire(s) \/ Release(s) PROVE Typed'
  BY <1>3 DEF Begin, Acquire, Release
<1>4. ASSUME NEW s \in Syncers, Ask(s) PROVE Typed'
  BY <1>4 DEF Ask, Rows
<1>5. ASSUME NEW s \in Syncers, SyncFails(s) PROVE Typed'
  BY <1>5 DEF SyncFails, EndFailed
<1>6. ASSUME NEW s \in Syncers, Select(s) PROVE Typed'
  <2>1. \A chosen \in SUBSET Keys : Selected(s, chosen) \subseteq Rows
    BY DEF Selected, Rows
  <2>2. rows' \in [Syncers -> SUBSET Rows]
    BY <1>6, <2>1 DEF Select
  <2> QED
    BY <1>6, <2>2 DEF Select
<1>7. ASSUME NEW s \in Syncers, NEW r \in rows[s], Skip(s, r) PROVE Typed'
  BY <1>7 DEF Skip
<1>8. ASSUME NEW s \in Syncers, NEW r \in rows[s], Refused(s, r) PROVE Typed'
  <2>1. r.key \in Keys
    BY DEF Rows
  <2> QED
    BY <1>8, <2>1 DEF Refused, EndFailed
<1>9. ASSUME NEW s \in Syncers, NEW r \in rows[s], Submit(s, r) PROVE Typed'
  <2>1. r.key \in Keys /\ r \in Rows
    BY DEF Rows
  <2> QED
    BY <1>9, <2>1 DEF Submit
<1>10. ASSUME NEW s \in Syncers, Attach(s) PROVE Typed'
  <2>1. row[s].key \in Keys
    BY <1>10 DEF Attach, Rows
  <2>2. CASE row[s].key \in early
    BY <1>10, <2>2 DEF Attach
  <2>3. CASE row[s].key \notin early
    <3>1. /\ attached' = attached \cup {row[s].key}
          /\ pc' = [pc EXCEPT ![s] = "submit"] /\ row' = [row EXCEPT ![s] = NoRow]
          /\ UNCHANGED <<world, reserved, submitted, lock, queue, early, closed, rows>>
      BY <1>10, <2>3 DEF Attach
    <3>2. TypeOK'
      BY <2>1, <3>1
    <3>3. HasRow' /\ OwnSteps'
      BY <3>1
    <3> QED
      BY <3>2, <3>3
  <2> QED
    BY <2>2, <2>3
<1>11. ASSUME NEW w \in Workers, Take(w) PROVE Typed'
  <2>1. Head(queue) \in Rows /\ Tail(queue) \in Seq(Rows)
    BY <1>11, HeadTailProperties DEF Take
  <2>2. /\ row' = [row EXCEPT ![w] = Head(queue)]
        /\ queue' = Tail(queue)
        /\ pc' = [pc EXCEPT ![w] = "run"]
    BY <1>11 DEF Take
  <2>3. queue' \in Seq(Rows) /\ row' \in [Threads -> Rows \cup {NoRow}]
        /\ pc' \in [Threads -> Steps]
    BY <2>1, <2>2
  <2>4. HasRow' /\ OwnSteps'
    BY <2>1, <2>2
  <2> QED
    BY <1>11, <2>3, <2>4 DEF Take
<1>12. ASSUME NEW w \in Workers, Reserve(w) PROVE Typed'
  BY <1>12 DEF Reserve
<1>13. ASSUME NEW w \in Workers, Conflict(w) \/ Effect(w) PROVE Typed'
  BY <1>13 DEF Conflict, Effect
<1>14. ASSUME NEW w \in Workers, Complete(w) PROVE Typed'
  <2>1. row[w].key \in Keys
    BY <1>14 DEF Complete, Rows
  <2>2. CASE row[w].key \in attached
    BY <1>14, <2>2 DEF Complete
  <2>3. CASE row[w].key \notin attached
    BY <1>14, <2>1, <2>3 DEF Complete, NoteEarly
  <2> QED
    BY <2>2, <2>3
<1>15. ASSUME NEW t \in Threads, Done(t) PROVE Typed'
  BY <1>15 DEF Done, ForgetKey
<1>16. CASE Close
  BY <1>16 DEF Close
<1>17. CASE UNCHANGED vars
  BY <1>17 DEF vars
<1> QED
  BY <1>1, <1>2, <1>3, <1>4, <1>5, <1>6, <1>7, <1>8, <1>9, <1>10, <1>11, <1>12, <1>13,
     <1>14, <1>15, <1>16, <1>17 DEF Next, SyncStep, PoolStep

LEMMA InitTyped ==
  ASSUME Init
  PROVE  Typed
<1>1. Threads = Syncers \cup Workers
  BY DEF Threads
<1>2. queue \in Seq(Rows)
  BY DEF Init
<1> QED
  BY <1>1, <1>2, ThreadsAssumption DEF Init, Typed, TypeOK, HasRow, OwnSteps, Steps

\* Every variable of the scheduler keeps its type.
THEOREM TypeCorrectness == Spec => []TypeOK
<1>1. Typed => TypeOK
  BY DEF Typed
<1> QED
  BY <1>1, InitTyped, TypedStep, PTL DEF Spec

-----------------------------------------------------------------------------
(* One operation of a key                                                  *)

Working(w) == pc[w] \in {"run", "effect", "return"}

\* Where a key may be: in the queue, with a worker, with the thread that runs its
\* callback, or complete before it got one; in one of these only.
Exclusive ==
  /\ \A k \in early : k \notin Queued /\ ~Running(k) /\ ~Ending(k)
  /\ \A k \in Keys : Ending(k) => k \notin Queued /\ ~Running(k)
  /\ \A t, u \in Threads :
       pc[t] = "callback" /\ pc[u] = "callback" /\ row[t].key = row[u].key => t = u

\* Wherever it is, it is noted.
Noted ==
  /\ Queued \cup early \subseteq submitted
  /\ \A k \in Keys : Running(k) \/ Ending(k) => k \in submitted

\* A sync works with the lock held; the future it attaches its callback to is under way
\* or complete, and any other callback belongs to one under way.
Attaching ==
  /\ \A s \in Syncers : pc[s] \in {"submit", "attach", "callback"} => lock = s
  /\ \A s \in Syncers : pc[s] = "attach" =>
       /\ row[s].key \notin attached
       /\ row[s].key \in Queued \cup early \/ Running(row[s].key)
  /\ \A k \in attached : k \in Queued \/ Running(k)

IInv == Typed /\ OneFlight /\ Exclusive /\ Noted /\ Attaching /\ SubmittedIsOutstanding

\* The queue holds rows.
LEMMA QueuedKeys ==
  ASSUME TypeOK
  PROVE  Queued \subseteq Keys
<1>1. queue \in Seq(Rows)
  BY DEF TypeOK
<1>2. \A n \in DOMAIN queue : queue[n] \in Rows
  BY <1>1
<1> QED
  BY <1>2 DEF Queued, Rows

\* The head of the queue leaves it for good: its key is there once.
LEMMA QueueTail ==
  ASSUME TypeOK, OneFlight, queue # <<>>, queue' = Tail(queue)
  PROVE  /\ Head(queue) \in Rows /\ Head(queue).key \in Queued
         /\ Queued' = Queued \ {Head(queue).key}
         /\ \A m, n \in DOMAIN queue' : queue'[m].key = queue'[n].key => m = n
<1>1. queue \in Seq(Rows) /\ Len(queue) \in Nat /\ DOMAIN queue = 1..Len(queue) /\ Len(queue) > 0
  BY DEF TypeOK
<1>2. /\ Tail(queue) \in Seq(Rows) /\ Len(Tail(queue)) = Len(queue) - 1
      /\ \A i \in 1..Len(Tail(queue)) : Tail(queue)[i] = queue[i + 1]
      /\ Head(queue) \in Rows /\ Head(queue) = queue[1]
  BY <1>1, HeadTailProperties
<1>3. DOMAIN queue' = 1..(Len(queue) - 1)
  BY <1>2
<1>4. \A i \in DOMAIN queue' : queue'[i] = queue[i + 1] /\ i + 1 \in DOMAIN queue
  BY <1>1, <1>2, <1>3
<1>5. \A m, n \in DOMAIN queue : queue[m].key = queue[n].key => m = n
  BY DEF OneFlight
<1>6. Head(queue).key \in Queued
  BY <1>1, <1>2 DEF Queued
<1>7. \A m, n \in DOMAIN queue' : queue'[m].key = queue'[n].key => m = n
  BY <1>1, <1>3, <1>4, <1>5
<1>8. ASSUME NEW k
      PROVE  k \in Queued' <=> k \in Queued \ {Head(queue).key}
  <2>1. ASSUME k \in Queued' PROVE k \in Queued \ {Head(queue).key}
    <3>1. PICK i \in DOMAIN queue' : k = queue'[i].key
      BY <2>1 DEF Queued
    <3>2. i + 1 \in DOMAIN queue /\ k = queue[i + 1].key /\ i + 1 # 1
      BY <1>3, <1>4, <3>1
    <3> QED
      BY <1>1, <1>2, <1>5, <3>2 DEF Queued
  <2>2. ASSUME k \in Queued, k # Head(queue).key PROVE k \in Queued'
    <3>1. PICK i \in DOMAIN queue : k = queue[i].key
      BY <2>2 DEF Queued
    <3>2. i # 1
      BY <1>2, <2>2, <3>1
    <3>3. i - 1 \in DOMAIN queue' /\ queue'[i - 1] = queue[i]
      BY <1>1, <1>3, <1>4, <3>1, <3>2
    <3> QED
      BY <3>1, <3>3 DEF Queued
  <2> QED
    BY <2>1, <2>2
<1> QED
  BY <1>2, <1>6, <1>7, <1>8

\* A row is appended to the queue.
LEMMA QueueAppend ==
  ASSUME TypeOK, NEW r \in Rows, queue' = Append(queue, r)
  PROVE  /\ Queued' = Queued \cup {r.key}
         /\ (\A m, n \in DOMAIN queue : queue[m].key = queue[n].key => m = n)
            /\ r.key \notin Queued =>
              \A m, n \in DOMAIN queue' : queue'[m].key = queue'[n].key => m = n
<1>1. queue \in Seq(Rows) /\ Len(queue) \in Nat /\ DOMAIN queue = 1..Len(queue)
  BY DEF TypeOK
<1>2. /\ DOMAIN queue' = 1..(Len(queue) + 1)
      /\ \A i \in 1..Len(queue) : queue'[i] = queue[i]
      /\ queue'[Len(queue) + 1] = r
  BY <1>1, AppendProperties
<1>3. DOMAIN queue' = DOMAIN queue \cup {Len(queue) + 1}
  BY <1>1, <1>2
<1>4. Queued' = Queued \cup {r.key}
  BY <1>1, <1>2, <1>3 DEF Queued
<1>5. ASSUME \A m, n \in DOMAIN queue : queue[m].key = queue[n].key => m = n,
             r.key \notin Queued, NEW m \in DOMAIN queue', NEW n \in DOMAIN queue',
             queue'[m].key = queue'[n].key
      PROVE  m = n
  <2>1. \A i \in DOMAIN queue : queue[i].key # r.key
    BY <1>5 DEF Queued
  <2> QED
    BY <1>1, <1>2, <1>3, <1>5, <2>1
<1> QED
  BY <1>4, <1>5

\* A step that moves no operation from one place to another keeps the invariant if it
\* respects the lock.
LEMMA QuietStep ==
  ASSUME IInv, Typed',
         UNCHANGED <<queue, attached, early>>, submitted \subseteq submitted',
         closed => closed', closed' \/ submitted' = submitted,
         \A t \in Threads : /\ pc'[t] = "callback" <=> pc[t] = "callback"
                            /\ pc'[t] = "attach" <=> pc[t] = "attach"
                            /\ pc[t] \in {"callback", "attach"} => row'[t] = row[t],
         \A w \in Workers : /\ Working(w)' <=> Working(w)
                            /\ Working(w) => row'[w] = row[w],
         \A s \in Syncers : pc'[s] \in {"submit", "attach", "callback"} => lock' = s
  PROVE  IInv'
<1>1. \A s \in Syncers : s \in Threads
  BY DEF Threads
<1>2. Queued' = Queued
  BY DEF Queued
<1>3. \A k \in Keys : (Running(k)' <=> Running(k)) /\ (Ending(k)' <=> Ending(k))
  BY DEF Running, Ending, Working
<1>4. OneFlight'
  <2>1. \A k \in Queued : k \in Keys
    BY QueuedKeys DEF IInv, Typed
  <2>2. \A k \in Queued' : ~Running(k)'
    BY <1>2, <1>3, <2>1 DEF IInv, OneFlight
  <2> QED
    BY <2>2 DEF IInv, OneFlight, Working
<1>5. Exclusive'
  BY <1>2, <1>3 DEF IInv, Exclusive, Typed, TypeOK
<1>6. Noted'
  BY <1>2, <1>3 DEF IInv, Noted
<1>7. Attaching'
  <2>1. \A s \in Syncers : pc[s] = "attach" => row[s].key \in Keys
    BY <1>1 DEF IInv, Typed, HasRow, Rows
  <2>2. \A k \in attached : k \in Keys
    BY DEF IInv, Typed, TypeOK
  <2> QED
    BY <1>1, <1>2, <1>3, <2>1, <2>2 DEF IInv, Attaching
<1>8. SubmittedIsOutstanding'
  <2>1. \A k \in submitted : k \in Keys
    BY DEF IInv, Typed, TypeOK
  <2> QED
    BY <1>2, <1>3, <2>1 DEF IInv, SubmittedIsOutstanding
<1> QED
  BY <1>4, <1>5, <1>6, <1>7, <1>8 DEF IInv

\* The steps of the invariant's proof that move no operation.
LEMMA QuietActions ==
  ASSUME IInv, Typed',
         \/ \E k \in Keys : SonarrChanges(k) \/ Review(k)
         \/ \E s \in Syncers : \/ Begin(s) \/ Ask(s) \/ Select(s) \/ SyncFails(s)
                               \/ Acquire(s) \/ Release(s)
                               \/ \E r \in rows[s] : Skip(s, r) \/ Refused(s, r)
         \/ \E w \in Workers : Reserve(w) \/ Conflict(w) \/ Effect(w)
         \/ Close
         \/ UNCHANGED vars
  PROVE  IInv'
<1> USE DEF future, Goto, Working
<1>1. /\ Threads = Syncers \cup Workers /\ Syncers \cap Workers = {}
      /\ pc \in [Threads -> Steps] /\ Free \notin Syncers
      /\ \A s \in Syncers : pc[s] \in {"submit", "attach", "callback"} => lock = s
  BY ThreadsAssumption DEF Threads, IInv, Typed, TypeOK, Attaching
<1>2. ASSUME NEW k \in Keys, SonarrChanges(k) \/ Review(k) PROVE IInv'
  <2>1. UNCHANGED <<queue, attached, early, submitted, closed, pc, row, lock>>
    BY <1>2 DEF SonarrChanges, Review
  <2> QED
    BY <1>1, <2>1, QuietStep
<1>3. ASSUME NEW s \in Syncers, Begin(s) \/ Ask(s) \/ Select(s) \/ SyncFails(s) PROVE IInv'
  <2>1. /\ UNCHANGED <<queue, attached, early, submitted, closed, row, lock>>
        /\ pc[s] \in {"idle", "ask", "select"}
        /\ \E step \in {"idle", "ask", "select", "acquire", "dead"} :
             pc' = [pc EXCEPT ![s] = step]
    BY <1>3 DEF Begin, Ask, Select, SyncFails, EndFailed
  <2> QED
    BY <1>1, <2>1, QuietStep
<1>4. ASSUME NEW s \in Syncers, Acquire(s) PROVE IInv'
  <2>1. /\ UNCHANGED <<queue, attached, early, submitted, closed, row>>
        /\ pc[s] = "acquire" /\ pc' = [pc EXCEPT ![s] = "submit"]
        /\ lock = Free /\ lock' = s
    BY <1>4 DEF Acquire
  <2> QED
    BY <1>1, <2>1, QuietStep
<1>5. ASSUME NEW s \in Syncers, Release(s) PROVE IInv'
  <2>1. /\ UNCHANGED <<queue, attached, early, submitted, closed, row>>
        /\ pc[s] = "submit" /\ pc' = [pc EXCEPT ![s] = "idle"]
    BY <1>5 DEF Release
  <2> QED
    BY <1>1, <2>1, QuietStep
<1>6. ASSUME NEW s \in Syncers, NEW r \in rows[s], Skip(s, r) PROVE IInv'
  <2>1. UNCHANGED <<queue, attached, early, submitted, closed, pc, row, lock>>
    BY <1>6 DEF Skip
  <2> QED
    BY <1>1, <2>1, QuietStep
<1>7. ASSUME NEW s \in Syncers, NEW r \in rows[s], Refused(s, r) PROVE IInv'
  <2>1. /\ UNCHANGED <<queue, attached, early, closed, row>>
        /\ closed /\ submitted \subseteq submitted' /\ pc[s] = "submit"
        /\ \E step \in {"idle", "dead"} : pc' = [pc EXCEPT ![s] = step]
    BY <1>7 DEF Refused, EndFailed
  <2> QED
    BY <1>1, <2>1, QuietStep
<1>8. ASSUME NEW w \in Workers, Reserve(w) \/ Conflict(w) \/ Effect(w) PROVE IInv'
  <2>1. /\ UNCHANGED <<queue, attached, early, submitted, closed, row, lock>>
        /\ pc[w] \in {"run", "effect"}
        /\ \E step \in {"effect", "return"} : pc' = [pc EXCEPT ![w] = step]
    BY <1>8 DEF Reserve, Conflict, Effect
  <2> QED
    BY <1>1, <2>1, QuietStep
<1>9. CASE Close
  <2>1. UNCHANGED <<queue, attached, early, submitted, pc, row, lock>> /\ closed'
    BY <1>9 DEF Close
  <2> QED
    BY <1>1, <2>1, QuietStep
<1>10. CASE UNCHANGED vars
  <2>1. UNCHANGED <<queue, attached, early, submitted, closed, pc, row, lock>>
    BY <1>10 DEF vars
  <2> QED
    BY <1>1, <2>1, QuietStep
<1> QED
  BY <1>2, <1>3, <1>4, <1>5, <1>6, <1>7, <1>8, <1>9, <1>10

LEMMA SubmitStep ==
  ASSUME IInv, Typed', NEW s \in Syncers, NEW r \in rows[s], Submit(s, r)
  PROVE  IInv'
<1>1. /\ Threads = Syncers \cup Workers /\ Syncers \cap Workers = {}
      /\ pc \in [Threads -> Steps] /\ row \in [Threads -> Rows \cup {NoRow}]
      /\ r \in Rows /\ r.key \in Keys /\ Queued \subseteq Keys
  BY ThreadsAssumption, QueuedKeys DEF Threads, IInv, Typed, TypeOK, Rows
<1>2. /\ pc[s] = "submit" /\ pc' = [pc EXCEPT ![s] = "attach"]
      /\ row' = [row EXCEPT ![s] = r]
      /\ r.key \notin submitted /\ submitted' = submitted \cup {r.key}
      /\ queue' = Append(queue, r)
      /\ UNCHANGED <<lock, attached, early, closed>>
  BY DEF Submit, Goto, Submittable
<1>3. r.key \notin Queued /\ r.key \notin early /\ ~Running(r.key) /\ ~Ending(r.key)
  BY <1>1, <1>2 DEF IInv, Noted
<1>4. r.key \notin attached
  BY <1>3 DEF IInv, Attaching
<1>5. /\ Queued' = Queued \cup {r.key}
      /\ \A m, n \in DOMAIN queue' : queue'[m].key = queue'[n].key => m = n
  BY <1>1, <1>2, <1>3, QueueAppend DEF IInv, Typed, OneFlight
<1>6. /\ \A w \in Workers : pc'[w] = pc[w] /\ row'[w] = row[w]
      /\ \A t \in Threads : pc'[t] = "callback" <=> pc[t] = "callback"
      /\ \A t \in Threads \ {s} : pc'[t] = pc[t] /\ row'[t] = row[t]
      /\ pc'[s] = "attach" /\ row'[s] = r
  BY <1>1, <1>2
<1>7. \A k \in Keys : (Running(k)' <=> Running(k)) /\ (Ending(k)' <=> Ending(k))
  BY <1>6 DEF Running, Ending
<1>8. OneFlight'
  BY <1>1, <1>3, <1>5, <1>6, <1>7 DEF IInv, OneFlight
<1>9. Exclusive'
  BY <1>1, <1>2, <1>3, <1>5, <1>6, <1>7 DEF IInv, Exclusive, Typed, TypeOK
<1>10. Noted'
  BY <1>2, <1>5, <1>7 DEF IInv, Noted
<1>11. Attaching'
  <2>1. \A u \in Syncers : pc'[u] \in {"submit", "attach", "callback"} => lock' = u
    BY <1>1, <1>2, <1>6 DEF IInv, Attaching
  <2>2. \A u \in Syncers : pc'[u] = "attach" => u = s
    BY <1>1, <1>2, <1>6 DEF IInv, Attaching
  <2>3. \A k \in attached' : k \in Queued' \/ Running(k)'
    BY <1>2, <1>5, <1>7 DEF IInv, Attaching, Typed, TypeOK
  <2> QED
    BY <1>2, <1>4, <1>5, <1>6, <2>1, <2>2, <2>3 DEF Attaching
<1>12. SubmittedIsOutstanding'
  BY <1>2, <1>5, <1>7 DEF IInv, SubmittedIsOutstanding, Typed, TypeOK
<1> QED
  BY <1>8, <1>9, <1>10, <1>11, <1>12 DEF IInv

LEMMA TakeStep ==
  ASSUME IInv, Typed', NEW w \in Workers, Take(w)
  PROVE  IInv'
<1> DEFINE k0 == Head(queue).key
<1>1. /\ Threads = Syncers \cup Workers /\ Syncers \cap Workers = {}
      /\ pc \in [Threads -> Steps] /\ row \in [Threads -> Rows \cup {NoRow}]
      /\ Queued \subseteq Keys
  BY ThreadsAssumption, QueuedKeys DEF Threads, IInv, Typed, TypeOK
<1>2. /\ pc[w] = "idle" /\ pc' = [pc EXCEPT ![w] = "run"]
      /\ row' = [row EXCEPT ![w] = Head(queue)]
      /\ queue # <<>> /\ queue' = Tail(queue)
      /\ UNCHANGED <<submitted, lock, attached, early, closed>>
  BY DEF Take, Goto
<1>3. /\ k0 \in Queued /\ Queued' = Queued \ {k0}
      /\ \A m, n \in DOMAIN queue' : queue'[m].key = queue'[n].key => m = n
  BY <1>2, QueueTail DEF IInv, Typed
<1>4. ~Running(k0) /\ ~Ending(k0) /\ k0 \notin early /\ k0 \in submitted
  BY <1>1, <1>3 DEF IInv, OneFlight, Exclusive, Noted
<1>5. /\ \A t \in Threads \ {w} : pc'[t] = pc[t] /\ row'[t] = row[t]
      /\ pc'[w] = "run" /\ row'[w].key = k0
  BY <1>1, <1>2
<1>6. \A k \in Keys : /\ Running(k)' <=> Running(k) \/ k = k0
                      /\ Ending(k)' <=> Ending(k)
  BY <1>1, <1>2, <1>5 DEF Running, Ending
<1>7. OneFlight'
  <2>1. \A u \in Workers \ {w} : Working(u) => row[u].key # k0
    BY <1>4 DEF Running, Working
  <2>2. \A u, v \in Workers : Working(u)' /\ Working(v)' /\ row'[u].key = row'[v].key => u = v
    BY <1>1, <1>5, <2>1 DEF IInv, OneFlight, Working
  <2>3. \A k \in Queued' : ~Running(k)'
    BY <1>1, <1>3, <1>6 DEF IInv, OneFlight
  <2> QED
    BY <1>3, <2>2, <2>3 DEF OneFlight, Working
<1>8. Exclusive'
  BY <1>1, <1>2, <1>3, <1>4, <1>5, <1>6 DEF IInv, Exclusive, Typed, TypeOK
<1>9. Noted'
  BY <1>2, <1>3, <1>4, <1>6 DEF IInv, Noted
<1>10. Attaching'
  <2>1. \A s \in Syncers : pc'[s] = pc[s] /\ row'[s] = row[s]
    BY <1>1, <1>5
  <2>2. \A s \in Syncers : pc[s] = "attach" => row[s].key \in Keys
    BY <1>1 DEF IInv, Typed, HasRow, Rows
  <2>3. \A k \in Keys : k \in Queued \/ Running(k) => k \in Queued' \/ Running(k)'
    BY <1>3, <1>6
  <2> QED
    BY <1>2, <2>1, <2>2, <2>3 DEF IInv, Attaching, Typed, TypeOK
<1>11. SubmittedIsOutstanding'
  BY <1>2, <1>3, <1>6 DEF IInv, SubmittedIsOutstanding, Typed, TypeOK
<1> QED
  BY <1>7, <1>8, <1>9, <1>10, <1>11 DEF IInv

LEMMA CompleteStep ==
  ASSUME IInv, Typed', NEW w \in Workers, Complete(w)
  PROVE  IInv'
<1> DEFINE k0 == row[w].key
<1>1. /\ Threads = Syncers \cup Workers /\ Syncers \cap Workers = {}
      /\ pc \in [Threads -> Steps] /\ row \in [Threads -> Rows \cup {NoRow}]
      /\ Queued \subseteq Keys
  BY ThreadsAssumption, QueuedKeys DEF Threads, IInv, Typed, TypeOK
<1>2. pc[w] = "return" /\ k0 \in Keys
  BY <1>1 DEF Complete, IInv, Typed, HasRow, Rows
<1>3. /\ Running(k0) /\ k0 \notin Queued /\ k0 \notin early /\ ~Ending(k0) /\ k0 \in submitted
      /\ \A u \in Workers \ {w} : Working(u) => row[u].key # k0
  <2>1. Running(k0)
    BY <1>2 DEF Running
  <2> QED
    BY <1>2, <2>1 DEF IInv, OneFlight, Exclusive, Noted, Working
<1>4. /\ UNCHANGED <<queue, submitted, lock, closed>> /\ Queued' = Queued
      /\ \/ /\ k0 \in attached /\ attached' = attached \ {k0} /\ early' = early
            /\ pc' = [pc EXCEPT ![w] = "callback"] /\ row' = row
         \/ /\ k0 \notin attached /\ attached' = attached /\ early' = early \cup {k0}
            /\ pc' = [pc EXCEPT ![w] = "idle"] /\ row' = [row EXCEPT ![w] = NoRow]
  BY DEF Complete, NoteEarly, Goto, Drop, Queued
<1>5. /\ \A t \in Threads \ {w} : pc'[t] = pc[t] /\ row'[t] = row[t]
      /\ ~Working(w)'
  BY <1>1, <1>4 DEF Working
<1>6. \A k \in Keys : Running(k)' <=> Running(k) /\ k # k0
  BY <1>1, <1>2, <1>3, <1>5 DEF Running, Working
<1>7. \A k \in Keys \ {k0} : Ending(k)' <=> Ending(k)
  BY <1>1, <1>2, <1>4, <1>5 DEF Ending
<1>8. OneFlight'
  <2>1. \A k \in Queued' : ~Running(k)'
    BY <1>1, <1>4, <1>6 DEF IInv, OneFlight
  <2>2. \A u, v \in Workers : Working(u)' /\ Working(v)' /\ row'[u].key = row'[v].key => u = v
    BY <1>1, <1>5 DEF IInv, OneFlight, Working
  <2> QED
    BY <1>4, <2>1, <2>2 DEF IInv, OneFlight, Working
<1>9. CASE k0 \in attached
  <2>1. /\ attached' = attached \ {k0} /\ early' = early
        /\ pc'[w] = "callback" /\ row' = row
    BY <1>1, <1>4, <1>9
  <2>2. Ending(k0)'
    BY <1>1, <2>1 DEF Ending
  <2>3. \A t \in Threads \ {w} : pc'[t] = "callback" => row'[t].key # k0
    BY <1>3, <1>5 DEF Ending
  <2>4. Exclusive'
    <3>1. \A k \in early' : k \in Keys \ {k0} /\ k \notin Queued' /\ ~Running(k)' /\ ~Ending(k)'
      BY <1>3, <1>4, <1>6, <1>7, <2>1 DEF IInv, Exclusive, Typed, TypeOK
    <3>2. \A k \in Keys : Ending(k)' => k \notin Queued' /\ ~Running(k)'
      BY <1>3, <1>4, <1>6, <1>7 DEF IInv, Exclusive
    <3>3. \A t, u \in Threads :
            pc'[t] = "callback" /\ pc'[u] = "callback" /\ row'[t].key = row'[u].key => t = u
      BY <1>1, <1>5, <2>1, <2>3 DEF IInv, Exclusive
    <3> QED
      BY <3>1, <3>2, <3>3 DEF Exclusive
  <2>5. Noted'
    BY <1>3, <1>4, <1>6, <1>7, <2>1 DEF IInv, Noted
  <2>6. Attaching'
    <3>1. \A s \in Syncers : pc'[s] = pc[s] /\ row'[s] = row[s]
      BY <1>1, <1>5
    <3>2. \A s \in Syncers : pc[s] = "attach" => row[s].key \in Keys /\ row[s].key # k0
      BY <1>1, <1>9 DEF IInv, Typed, HasRow, Rows, Attaching
    <3> QED
      BY <1>4, <1>6, <2>1, <3>1, <3>2 DEF IInv, Attaching, Typed, TypeOK
  <2>7. SubmittedIsOutstanding'
    BY <1>4, <1>6, <1>7, <2>1, <2>2 DEF IInv, SubmittedIsOutstanding, Typed, TypeOK
  <2> QED
    BY <1>8, <2>4, <2>5, <2>6, <2>7 DEF IInv
<1>10. CASE k0 \notin attached
  <2>1. /\ attached' = attached /\ early' = early \cup {k0}
        /\ pc'[w] = "idle"
    BY <1>1, <1>4, <1>10
  <2>2. \A k \in Keys : Ending(k)' <=> Ending(k) /\ k # k0
    <3>1. \A t \in Threads : pc[t] = "callback" => row[t].key # k0
      BY <1>3 DEF Ending
    <3>2. \A t \in Threads : pc'[t] = "callback" => t # w
      BY <2>1
    <3> QED
      BY <1>2, <1>5, <3>1, <3>2 DEF Ending
  <2>3. Exclusive'
    <3>1. \A k \in early' : k \in Keys /\ k \notin Queued' /\ ~Running(k)' /\ ~Ending(k)'
      BY <1>2, <1>3, <1>4, <1>6, <2>1, <2>2 DEF IInv, Exclusive, Typed, TypeOK
    <3>2. \A k \in Keys : Ending(k)' => k \notin Queued' /\ ~Running(k)'
      BY <1>4, <1>6, <2>2 DEF IInv, Exclusive
    <3>3. \A t, u \in Threads :
            pc'[t] = "callback" /\ pc'[u] = "callback" /\ row'[t].key = row'[u].key => t = u
      BY <1>1, <1>5, <2>1 DEF IInv, Exclusive
    <3> QED
      BY <3>1, <3>2, <3>3 DEF Exclusive
  <2>4. Noted'
    BY <1>3, <1>4, <1>6, <1>7, <2>1, <2>2 DEF IInv, Noted
  <2>5. Attaching'
    <3>1. \A s \in Syncers : pc'[s] = pc[s] /\ row'[s] = row[s]
      BY <1>1, <1>5
    <3>2. \A s \in Syncers : pc[s] = "attach" => row[s].key \in Keys
      BY <1>1 DEF IInv, Typed, HasRow, Rows
    <3> QED
      BY <1>4, <1>6, <1>10, <2>1, <3>1, <3>2 DEF IInv, Attaching, Typed, TypeOK
  <2>6. SubmittedIsOutstanding'
    BY <1>4, <1>6, <1>7, <2>1 DEF IInv, SubmittedIsOutstanding, Typed, TypeOK
  <2> QED
    BY <1>8, <2>3, <2>4, <2>5, <2>6 DEF IInv
<1> QED
  BY <1>9, <1>10

LEMMA AttachStep ==
  ASSUME IInv, Typed', NEW s \in Syncers, Attach(s)
  PROVE  IInv'
<1> DEFINE k0 == row[s].key
<1>1. /\ Threads = Syncers \cup Workers /\ Syncers \cap Workers = {}
      /\ pc \in [Threads -> Steps] /\ row \in [Threads -> Rows \cup {NoRow}]
      /\ Queued \subseteq Keys
  BY ThreadsAssumption, QueuedKeys DEF Threads, IInv, Typed, TypeOK
<1>2. pc[s] = "attach" /\ k0 \in Keys /\ lock = s
  BY <1>1 DEF Attach, IInv, Typed, HasRow, Rows, Attaching
<1>3. /\ UNCHANGED <<queue, submitted, lock, closed>> /\ Queued' = Queued
      /\ \/ /\ k0 \in early /\ early' = early \ {k0} /\ attached' = attached
            /\ pc' = [pc EXCEPT ![s] = "callback"] /\ row' = row
         \/ /\ k0 \notin early /\ early' = early /\ attached' = attached \cup {k0}
            /\ pc' = [pc EXCEPT ![s] = "submit"] /\ row' = [row EXCEPT ![s] = NoRow]
  BY DEF Attach, Goto, Drop, Queued
<1>4. /\ \A t \in Threads \ {s} : pc'[t] = pc[t] /\ row'[t] = row[t]
      /\ \A w \in Workers : pc'[w] = pc[w] /\ row'[w] = row[w]
      /\ \A t \in Syncers : pc'[t] # "attach"
  <2>1. \A t \in Syncers : pc[t] = "attach" => t = s
    BY <1>2 DEF IInv, Attaching
  <2> QED
    BY <1>1, <1>3, <2>1
<1>5. \A k \in Keys : Running(k)' <=> Running(k)
  BY <1>4 DEF Running
<1>6. OneFlight'
  BY <1>1, <1>3, <1>4, <1>5 DEF IInv, OneFlight
<1>7. \A t \in Syncers : pc'[t] \in {"submit", "attach", "callback"} => lock' = t
  BY <1>1, <1>2, <1>3, <1>4 DEF IInv, Attaching
<1>8. CASE k0 \in early
  <2>1. /\ early' = early \ {k0} /\ attached' = attached
        /\ pc'[s] = "callback" /\ row' = row
    BY <1>1, <1>3, <1>8
  <2>2. k0 \notin Queued /\ ~Running(k0) /\ ~Ending(k0) /\ k0 \in submitted
    BY <1>8 DEF IInv, Exclusive, Noted
  <2>3. \A k \in Keys : Ending(k)' <=> Ending(k) \/ k = k0
    BY <1>1, <1>2, <1>4, <2>1 DEF Ending
  <2>4. Exclusive'
    <3>1. \A k \in early' : k \in Keys /\ k \notin Queued' /\ ~Running(k)' /\ ~Ending(k)'
      BY <1>3, <1>5, <2>1, <2>3 DEF IInv, Exclusive, Typed, TypeOK
    <3>2. \A k \in Keys : Ending(k)' => k \notin Queued' /\ ~Running(k)'
      BY <1>3, <1>5, <2>2, <2>3 DEF IInv, Exclusive
    <3>3. \A t \in Threads : pc[t] = "callback" => row[t].key # k0
      BY <2>2 DEF Ending
    <3>4. \A t, u \in Threads :
            pc'[t] = "callback" /\ pc'[u] = "callback" /\ row'[t].key = row'[u].key => t = u
      BY <1>1, <1>4, <2>1, <3>3 DEF IInv, Exclusive
    <3> QED
      BY <3>1, <3>2, <3>4 DEF Exclusive
  <2>5. Noted'
    BY <1>3, <1>5, <2>1, <2>2, <2>3 DEF IInv, Noted
  <2>6. Attaching'
    BY <1>3, <1>4, <1>5, <1>7, <2>1 DEF IInv, Attaching, Typed, TypeOK
  <2>7. SubmittedIsOutstanding'
    BY <1>3, <1>5, <2>1, <2>3 DEF IInv, SubmittedIsOutstanding, Typed, TypeOK
  <2> QED
    BY <1>6, <2>4, <2>5, <2>6, <2>7 DEF IInv
<1>9. CASE k0 \notin early
  <2>1. /\ early' = early /\ attached' = attached \cup {k0} /\ pc'[s] = "submit"
    BY <1>1, <1>3, <1>9
  <2>2. \A t \in Threads : pc'[t] = "callback" <=> pc[t] = "callback"
    BY <1>1, <1>2, <1>4, <2>1
  <2>3. \A k \in Keys : Ending(k)' <=> Ending(k)
    BY <1>2, <1>4, <2>1, <2>2 DEF Ending
  <2>4. Exclusive'
    <3>1. \A k \in early' : k \in Keys /\ k \notin Queued' /\ ~Running(k)' /\ ~Ending(k)'
      BY <1>3, <1>5, <2>1, <2>3 DEF IInv, Exclusive, Typed, TypeOK
    <3>2. \A k \in Keys : Ending(k)' => k \notin Queued' /\ ~Running(k)'
      BY <1>3, <1>5, <2>3 DEF IInv, Exclusive
    <3>3. \A t, u \in Threads :
            pc'[t] = "callback" /\ pc'[u] = "callback" /\ row'[t].key = row'[u].key => t = u
      BY <1>4, <2>1, <2>2 DEF IInv, Exclusive
    <3> QED
      BY <3>1, <3>2, <3>3 DEF Exclusive
  <2>5. Noted'
    BY <1>3, <1>5, <2>1, <2>3 DEF IInv, Noted
  <2>6. k0 \in Queued \/ Running(k0)
    BY <1>2, <1>9 DEF IInv, Attaching
  <2>7. \A k \in attached' : k \in Queued' \/ Running(k)'
    BY <1>2, <1>3, <1>5, <2>1, <2>6 DEF IInv, Attaching, Typed, TypeOK
  <2>8. Attaching'
    BY <1>4, <1>7, <2>7 DEF Attaching
  <2>9. SubmittedIsOutstanding'
    BY <1>3, <1>5, <2>1, <2>3 DEF IInv, SubmittedIsOutstanding, Typed, TypeOK
  <2> QED
    BY <1>6, <2>4, <2>5, <2>8, <2>9 DEF IInv
<1> QED
  BY <1>8, <1>9

\* Only a worker gets to run a callback: a sync that must has the lock it waits for.
LEMMA DoneStep ==
  ASSUME IInv, Typed', NEW t \in Threads, Done(t)
  PROVE  IInv'
<1> DEFINE k0 == row[t].key
<1>1. /\ Threads = Syncers \cup Workers /\ Syncers \cap Workers = {}
      /\ pc \in [Threads -> Steps] /\ row \in [Threads -> Rows \cup {NoRow}]
      /\ Queued \subseteq Keys /\ Free \notin Threads
  BY ThreadsAssumption, QueuedKeys DEF Threads, IInv, Typed, TypeOK
<1>2. /\ pc[t] = "callback" /\ lock = Free
      /\ submitted' = submitted \ {k0}
      /\ pc' = [pc EXCEPT ![t] = IF t \in Workers THEN "idle" ELSE "submit"]
      /\ row' = [row EXCEPT ![t] = NoRow]
      /\ UNCHANGED <<queue, attached, early, lock, closed>> /\ Queued' = Queued
  BY DEF Done, ForgetKey, Goto, Drop, future, Queued
<1>3. t \in Workers /\ pc'[t] = "idle"
  <2>1. t \notin Syncers
    BY <1>1, <1>2 DEF IInv, Attaching
  <2> QED
    BY <1>1, <1>2, <2>1
<1>4. k0 \in Keys
  BY <1>2 DEF IInv, Typed, HasRow, Rows
<1>5. k0 \notin Queued /\ ~Running(k0) /\ k0 \notin early
      /\ \A u \in Threads \ {t} : pc[u] = "callback" => row[u].key # k0
  <2>1. Ending(k0)
    BY <1>2 DEF Ending
  <2> QED
    BY <1>2, <1>4, <2>1 DEF IInv, Exclusive
<1>6. \A u \in Threads \ {t} : pc'[u] = pc[u] /\ row'[u] = row[u]
  BY <1>1, <1>2
<1>7. \A w \in Workers : Working(w)' <=> Working(w)
  BY <1>1, <1>2, <1>3, <1>6 DEF Working
<1>8. \A k \in Keys : Running(k)' <=> Running(k)
  BY <1>1, <1>2, <1>3, <1>6 DEF Running
<1>9. \A k \in Keys : Ending(k)' <=> Ending(k) /\ k # k0
  BY <1>3, <1>5, <1>6 DEF Ending
<1>10. OneFlight'
  <2>1. \A w \in Workers : Working(w) => w # t
    BY <1>2 DEF Working
  <2> QED
    BY <1>1, <1>2, <1>6, <1>7, <1>8, <2>1 DEF IInv, OneFlight, Working
<1>11. Exclusive'
  <2>1. \A k \in early' : k \in Keys /\ k \notin Queued' /\ ~Running(k)' /\ ~Ending(k)'
    BY <1>2, <1>8, <1>9 DEF IInv, Exclusive, Typed, TypeOK
  <2>2. \A k \in Keys : Ending(k)' => k \notin Queued' /\ ~Running(k)'
    BY <1>2, <1>8, <1>9 DEF IInv, Exclusive
  <2>3. \A u, v \in Threads :
          pc'[u] = "callback" /\ pc'[v] = "callback" /\ row'[u].key = row'[v].key => u = v
    BY <1>3, <1>6 DEF IInv, Exclusive
  <2> QED
    BY <2>1, <2>2, <2>3 DEF Exclusive
<1>12. Noted'
  BY <1>2, <1>5, <1>8, <1>9 DEF IInv, Noted
<1>13. Attaching'
  <2>1. \A s \in Syncers : pc'[s] = pc[s] /\ row'[s] = row[s]
    BY <1>1, <1>3, <1>6
  <2>2. \A s \in Syncers : pc[s] = "attach" => row[s].key \in Keys
    BY <1>1 DEF IInv, Typed, HasRow, Rows
  <2> QED
    BY <1>2, <1>8, <2>1, <2>2 DEF IInv, Attaching, Typed, TypeOK
<1>14. SubmittedIsOutstanding'
  BY <1>2, <1>8, <1>9 DEF IInv, SubmittedIsOutstanding, Typed, TypeOK
<1> QED
  BY <1>10, <1>11, <1>12, <1>13, <1>14 DEF IInv

-----------------------------------------------------------------------------
(* The invariant and the theorems                                          *)

LEMMA InitInv ==
  ASSUME Init
  PROVE  IInv
<1>1. Typed
  BY InitTyped
<1>2. /\ Queued = {} /\ DOMAIN queue = {} /\ early = {} /\ attached = {} /\ submitted = {}
      /\ \A t \in Threads : pc[t] = "idle"
  BY DEF Init, Queued
<1>3. Syncers \subseteq Threads /\ Workers \subseteq Threads
  BY DEF Threads
<1>4. \A k : ~Running(k) /\ ~Ending(k)
  BY <1>2, <1>3 DEF Running, Ending
<1>5. OneFlight
  BY <1>2, <1>3 DEF OneFlight
<1>6. Exclusive /\ Noted /\ SubmittedIsOutstanding
  BY <1>2, <1>4 DEF Exclusive, Noted, SubmittedIsOutstanding
<1>7. Attaching
  BY <1>2, <1>3 DEF Attaching
<1> QED
  BY <1>1, <1>5, <1>6, <1>7 DEF IInv

LEMMA InvStep ==
  ASSUME IInv, [Next]_vars
  PROVE  IInv'
<1>1. Typed'
  BY TypedStep DEF IInv
<1>2. ASSUME NEW s \in Syncers, SyncStep(s) PROVE IInv'
  <2>1. s \in Threads
    BY DEF Threads
  <2> QED
    BY <1>1, <1>2, <2>1, QuietActions, SubmitStep, AttachStep, DoneStep DEF SyncStep
<1>3. ASSUME NEW w \in Workers, PoolStep(w) PROVE IInv'
  <2>1. w \in Threads
    BY DEF Threads
  <2> QED
    BY <1>1, <1>3, <2>1, QuietActions, TakeStep, CompleteStep, DoneStep DEF PoolStep
<1>4. ASSUME NEW k \in Keys, SonarrChanges(k) \/ Review(k) PROVE IInv'
  BY <1>1, <1>4, QuietActions
<1>5. CASE Close \/ UNCHANGED vars
  BY <1>1, <1>5, QuietActions
<1> QED
  BY <1>2, <1>3, <1>4, <1>5 DEF Next

\* The inductive invariant holds in every reachable state.
LEMMA Invariance == Spec => []IInv
BY InitInv, InvStep, PTL DEF Spec

\* However many syncs overlap, the pool has at most one operation of an episode.
THEOREM OneOperation == Spec => []OneFlight
<1>1. IInv => OneFlight
  BY DEF IInv
<1> QED
  BY <1>1, Invariance, PTL

\* Until the scheduler is closed a noted key has its operation under way.
THEOREM NothingLockedOut == Spec => []SubmittedIsOutstanding
<1>1. IInv => SubmittedIsOutstanding
  BY DEF IInv
<1> QED
  BY <1>1, Invariance, PTL

(***************************************************************************)
(* Notifications.  The invariant says what the worker knows of the event   *)
(* it is at, and that a delivery row stands for a recorded delivery.       *)
(***************************************************************************)
\* The cursor is within the outbox, and exists once a worker was started.
CursorOK ==
  /\ cursor # NoCursor => cursor <= Len(outbox)
  /\ worker # "off" => cursor # NoCursor

\* A worker inside a batch has an event before it.
AtEvent == worker \in {"event", "send", "record", "failed", "advance"}
BatchOK == upto <= Len(outbox) /\ (AtEvent => cursor < upto)

\* What is known of the event before it is passed.
Settled(n) == n \in told \cup excused \/ RepeatOf(n)
EventOK ==
  /\ worker = "record"  => cursor + 1 \in told
  /\ worker = "advance" => Settled(cursor + 1)

\* A delivery row stands for a recorded delivery of its condition.
RecordedOK == \A r \in recorded : r.sequence \in 1..Len(outbox)
DeliveriesOK ==
  \A c \in Codes : lastSent[c] # Never =>
    \E r \in recorded :
      /\ outbox[r.sequence].topic = "error" /\ outbox[r.sequence].code = c
      /\ r.at = lastSent[c]

\* The relay never got an event after the one the worker is at.
LatestOK == IF cursor = NoCursor THEN latest = 0 ELSE latest <= cursor + 1

NotifyIInv ==
  /\ NotifyTypeOK /\ CursorOK /\ BatchOK /\ EventOK /\ RecordedOK /\ DeliveriesOK /\ LatestOK
  /\ NothingLost

LEMMA InitIInv == NotifyInit => NotifyIInv
<1> SUFFICES ASSUME NotifyInit PROVE NotifyIInv
  OBVIOUS
<1> USE LimitsAssumption DEF NotifyInit
<1>1. NotifyTypeOK
  BY DEF NotifyTypeOK, Topics
<1>2. CursorOK /\ BatchOK /\ EventOK /\ RecordedOK /\ DeliveriesOK /\ LatestOK /\ NothingLost
  BY DEF CursorOK, BatchOK, AtEvent, EventOK, RecordedOK, DeliveriesOK, LatestOK, NothingLost
<1> QED
  BY <1>1, <1>2 DEF NotifyIInv

-----------------------------------------------------------------------------
(* The rest of the program                                                 *)

LEMMA RaiseKeeps == ASSUME NotifyIInv, NEW c \in Conditions, Raise(c) PROVE NotifyIInv'
<1> DEFINE e == [topic |-> c.topic, code |-> c.code, time |-> clock]
<1> USE LimitsAssumption DEF NotifyIInv
<1>1. e \in Events
  BY DEF NotifyTypeOK, Events
<1>2. /\ outbox' \in Seq(Events) /\ Len(outbox') = Len(outbox) + 1
      /\ \A n \in 1..Len(outbox) : outbox'[n] = outbox[n]
      /\ Len(outbox) \in Nat
  BY <1>1 DEF NotifyTypeOK, Raise
<1>3. UNCHANGED <<clock, wanted, durable, worker, upto, history>>
  BY DEF Raise
<1>4. NotifyTypeOK'
  BY <1>2, <1>3 DEF NotifyTypeOK, durable, history
<1>5. CursorOK' /\ BatchOK' /\ RecordedOK' /\ LatestOK'
  BY <1>2, <1>3 DEF NotifyTypeOK, CursorOK, BatchOK, AtEvent, RecordedOK, LatestOK, durable, history
<1>6. ASSUME NEW n \in 1..Len(outbox), Settled(n) PROVE Settled(n)'
  BY <1>2, <1>3, <1>6 DEF Settled, RepeatOf, RecordedOK, history
<1>7. EventOK'
  BY <1>2, <1>3, <1>6 DEF NotifyTypeOK, CursorOK, BatchOK, AtEvent, EventOK, durable, history
<1>8. DeliveriesOK'
  BY <1>2, <1>3 DEF DeliveriesOK, RecordedOK, durable, history
<1>9. NothingLost'
  BY <1>2, <1>3, <1>6 DEF NotifyTypeOK, CursorOK, NothingLost, Settled, durable, history
<1> QED
  BY <1>4, <1>5, <1>7, <1>8, <1>9

\* A step that leaves the outbox, the durable rows but the retry, the place in the batch
\* and the histories alone.
LEMMA QuietKeeps ==
  ASSUME NotifyIInv, NotifyTypeOK',
         UNCHANGED <<outbox, cursor, lastSent, upto, history>>,
         worker' = worker \/ (worker' \in {"event", "send", "failed"} /\ AtEvent)
  PROVE  NotifyIInv'
<1> USE DEF NotifyIInv, history
<1>1. CursorOK' /\ BatchOK' /\ EventOK' /\ LatestOK'
  BY DEF CursorOK, BatchOK, AtEvent, EventOK, LatestOK, Settled, RepeatOf
<1>2. RecordedOK' /\ DeliveriesOK' /\ NothingLost'
  BY DEF RecordedOK, DeliveriesOK, NothingLost, RepeatOf
<1> QED
  BY <1>1, <1>2

LEMMA WorldKeeps ==
  ASSUME NotifyIInv, (\E topic \in Topics : Toggle(topic)) \/ Tick \/ FallDue PROVE NotifyIInv'
<1> USE LimitsAssumption
<1>1. NotifyTypeOK'
  <2>1. ASSUME NEW topic \in Topics, Toggle(topic) PROVE NotifyTypeOK'
    <3>1. wanted' \subseteq Topics
      BY <2>1 DEF NotifyIInv, NotifyTypeOK, Toggle
    <3> QED
      BY <2>1, <3>1 DEF NotifyIInv, NotifyTypeOK, Toggle, durable, history
  <2>2. CASE Tick
    <3>1. clock' \in 0..MaxTime
      BY <2>2 DEF NotifyIInv, NotifyTypeOK, Tick
    <3> QED
      BY <2>2, <3>1 DEF NotifyIInv, NotifyTypeOK, Tick, durable, history
  <2>3. CASE FallDue
    BY <2>3 DEF NotifyIInv, NotifyTypeOK, FallDue, history
  <2> QED
    BY <2>1, <2>2, <2>3
<1>2. UNCHANGED <<outbox, cursor, lastSent, upto, history, worker>>
  BY DEF Toggle, Tick, FallDue, durable
<1> QED
  BY <1>1, <1>2, QuietKeeps

-----------------------------------------------------------------------------
(* The worker                                                              *)

\* A step that leaves the rows and the histories alone and is, or comes to be, outside of
\* a batch.
LEMMA OutsideKeeps ==
  ASSUME NotifyIInv, NotifyTypeOK',
         UNCHANGED <<outbox, cursor, lastSent, history>>,
         worker' \in {"off", "wait", "dead"}, worker # "off", upto' = 0
  PROVE  NotifyIInv'
<1> USE DEF NotifyIInv, history
<1>1. Len(outbox) \in Nat
  BY DEF NotifyTypeOK
<1>2. CursorOK' /\ BatchOK' /\ EventOK' /\ LatestOK'
  BY <1>1 DEF CursorOK, BatchOK, AtEvent, EventOK, LatestOK
<1>3. RecordedOK' /\ DeliveriesOK' /\ NothingLost'
  BY DEF RecordedOK, DeliveriesOK, NothingLost, RepeatOf
<1> QED
  BY <1>2, <1>3

LEMMA StartKeeps == NotifyIInv /\ Start => NotifyIInv'
<1> SUFFICES ASSUME NotifyIInv, Start PROVE NotifyIInv'
  OBVIOUS
<1> USE LimitsAssumption DEF NotifyIInv, Start, StartCursor
<1>1. Len(outbox) \in Nat
  BY DEF NotifyTypeOK
<1>2. NotifyTypeOK'
  <2>1. cursor' \in Nat \cup {NoCursor}
    BY <1>1 DEF NotifyTypeOK
  <2>2. excused' \subseteq Nat
    <3>1. excused \subseteq Nat
      BY DEF NotifyTypeOK
    <3>2. 1..Len(outbox) \subseteq Nat
      BY <1>1
    <3>3. excused' \in {excused, excused \cup 1..Len(outbox)}
      OBVIOUS
    <3> QED
      BY <3>1, <3>2, <3>3, Zenon
  <2> QED
    BY <2>1, <2>2 DEF NotifyTypeOK
<1>3. CursorOK' /\ BatchOK' /\ EventOK' /\ LatestOK'
  BY <1>1, <1>2 DEF NotifyTypeOK, CursorOK, BatchOK, AtEvent, EventOK, LatestOK
<1>4. RecordedOK' /\ DeliveriesOK'
  BY DEF RecordedOK, DeliveriesOK
<1>5. NothingLost'
  BY <1>1 DEF NotifyTypeOK, NothingLost, RepeatOf
<1> QED
  BY <1>2, <1>3, <1>4, <1>5

LEMMA PollKeeps == NotifyIInv /\ Poll => NotifyIInv'
<1> SUFFICES ASSUME NotifyIInv, Poll PROVE NotifyIInv'
  OBVIOUS
<1> USE LimitsAssumption DEF NotifyIInv, Poll, durable, history
<1>1. Len(outbox) \in Nat /\ cursor \in Nat
  BY DEF NotifyTypeOK, CursorOK
<1>2. upto' \in Nat /\ upto' <= Len(outbox) /\ cursor < upto'
  BY <1>1 DEF Limit
<1>3. NotifyTypeOK'
  BY <1>2 DEF NotifyTypeOK
<1>4. CursorOK' /\ BatchOK' /\ EventOK' /\ LatestOK'
  BY <1>1, <1>2 DEF CursorOK, BatchOK, AtEvent, EventOK, LatestOK
<1>5. RecordedOK' /\ DeliveriesOK' /\ NothingLost'
  BY DEF RecordedOK, DeliveriesOK, NothingLost, RepeatOf
<1> QED
  BY <1>3, <1>4, <1>5

\* The event a worker in a batch is at.
LEMMA EventBefore ==
  ASSUME NotifyIInv, AtEvent
  PROVE  /\ cursor \in Nat /\ Len(outbox) \in Nat /\ cursor + 1 \in 1..Len(outbox)
         /\ Current \in Events
<1>1. cursor \in Nat /\ Len(outbox) \in Nat /\ upto \in Nat
  BY DEF NotifyIInv, NotifyTypeOK, CursorOK, AtEvent
<1>2. cursor + 1 \in 1..Len(outbox)
  BY <1>1 DEF NotifyIInv, BatchOK
<1> QED
  BY <1>1, <1>2, ElementOfSeq DEF NotifyIInv, NotifyTypeOK, Current

LEMMA PassOverKeeps == NotifyIInv /\ PassOver => NotifyIInv'
<1> SUFFICES ASSUME NotifyIInv, PassOver PROVE NotifyIInv'
  OBVIOUS
<1> USE LimitsAssumption DEF NotifyIInv, PassOver, durable
<1>1. AtEvent /\ cursor \in Nat /\ Current \in Events /\ cursor + 1 \in 1..Len(outbox)
  BY EventBefore DEF AtEvent
<1>2. NotifyTypeOK'
  BY <1>1 DEF NotifyTypeOK
<1>3. Settled(cursor + 1)'
  <2>1. CASE Current.topic \notin wanted
    BY <2>1 DEF Settled
  <2>2. CASE Repeated(Current)
    <3>1. Current.code \in Codes /\ Current.time \in Nat
      BY <1>1, <2>2 DEF Repeated, Events, Conditions, NotifyTypeOK
    <3>2. PICK r \in recorded : /\ outbox[r.sequence].topic = "error"
                                /\ outbox[r.sequence].code = Current.code
                                /\ r.at = lastSent[Current.code]
      BY <2>2, <3>1 DEF Repeated, DeliveriesOK
    <3>3. RepeatOf(cursor + 1)'
      BY <2>2, <3>2 DEF Repeated, RepeatOf, Current
    <3> QED
      BY <3>3 DEF Settled
  <2> QED
    BY <2>1, <2>2
<1>4. CursorOK' /\ BatchOK' /\ EventOK' /\ LatestOK'
  BY <1>1, <1>3 DEF CursorOK, BatchOK, AtEvent, EventOK, LatestOK
<1>5. RecordedOK' /\ DeliveriesOK' /\ NothingLost'
  BY DEF RecordedOK, DeliveriesOK, NothingLost, RepeatOf
<1> QED
  BY <1>2, <1>4, <1>5

\* The request, whether it is answered or not, and whether it arrives or not.
LEMMA SendKeeps ==
  ASSUME NotifyIInv, Send \/ SendFails PROVE NotifyIInv'
<1> USE LimitsAssumption DEF NotifyIInv, Send, SendFails, Arrives, durable
<1>1. AtEvent /\ cursor \in Nat /\ cursor # NoCursor
  BY EventBefore DEF AtEvent
<1>2. NotifyTypeOK'
  <2>1. told' \subseteq Nat /\ latest' \in Nat
    <3>1. told \subseteq Nat /\ latest \in Nat
      BY DEF NotifyTypeOK
    <3>2. told' \in {told, told \cup {cursor + 1}} /\ latest' \in {latest, cursor + 1}
      OBVIOUS
    <3>3. cursor + 1 \in Nat
      BY <1>1
    <3> QED
      BY <3>1, <3>2, <3>3, Zenon
  <2>2. worker' \in {"record", "failed"}
    OBVIOUS
  <2>3. UNCHANGED <<outbox, clock, wanted, cursor, lastSent, retry, upto, recorded, excused>>
    OBVIOUS
  <2> QED
    BY <2>1, <2>2, <2>3 DEF NotifyTypeOK
<1>3. /\ told \subseteq told' /\ latest' <= cursor + 1
      /\ worker' = "record" => cursor + 1 \in told'
  BY <1>1 DEF NotifyTypeOK, LatestOK
<1>4. CursorOK' /\ BatchOK' /\ EventOK' /\ LatestOK'
  BY <1>1, <1>3 DEF CursorOK, BatchOK, AtEvent, EventOK, LatestOK
<1>5. RecordedOK' /\ DeliveriesOK' /\ NothingLost'
  BY <1>3 DEF RecordedOK, DeliveriesOK, NothingLost, RepeatOf
<1> QED
  BY <1>2, <1>4, <1>5

LEMMA RecordKeeps == NotifyIInv /\ Record => NotifyIInv'
<1> SUFFICES ASSUME NotifyIInv, Record PROVE NotifyIInv'
  OBVIOUS
<1> USE LimitsAssumption DEF NotifyIInv, Record
<1> DEFINE delivery == [sequence |-> cursor + 1, at |-> clock]
<1>1. AtEvent /\ cursor \in Nat /\ Current \in Events /\ cursor + 1 \in 1..Len(outbox)
  BY EventBefore DEF AtEvent
<1>2. clock \in Nat
  BY DEF NotifyTypeOK
<1>3. Current.topic = "error" => Current.code \in Codes
  BY <1>1 DEF Events, Conditions
<1>4. lastSent' \in [Codes -> Nat \cup {Never}]
  BY <1>2 DEF NotifyTypeOK, Sent
<1>5. NotifyTypeOK'
  BY <1>1, <1>2, <1>4 DEF NotifyTypeOK
<1>6. EventOK'
  BY DEF EventOK, Settled
<1>7. CursorOK' /\ BatchOK' /\ LatestOK'
  BY <1>1 DEF CursorOK, BatchOK, AtEvent, LatestOK
<1>8. RecordedOK'
  BY <1>1 DEF RecordedOK
<1>9. DeliveriesOK'
  <2> SUFFICES ASSUME NEW c \in Codes, lastSent'[c] # Never
               PROVE  \E r \in recorded' : /\ outbox[r.sequence].topic = "error"
                                           /\ outbox[r.sequence].code = c
                                           /\ r.at = lastSent'[c]
    BY DEF DeliveriesOK
  <2>1. CASE Current.topic = "error" /\ c = Current.code
    <3>1. lastSent'[c] = clock
      BY <2>1 DEF Sent, NotifyTypeOK
    <3>2. delivery \in recorded' /\ delivery.sequence = cursor + 1 /\ delivery.at = clock
      OBVIOUS
    <3> QED
      BY <2>1, <3>1, <3>2 DEF Current
  <2>2. CASE ~(Current.topic = "error" /\ c = Current.code)
    <3>1. lastSent'[c] = lastSent[c]
      BY <2>2 DEF Sent, NotifyTypeOK
    <3> QED
      BY <3>1 DEF DeliveriesOK
  <2> QED
    BY <2>1, <2>2
<1>10. NothingLost'
  BY DEF NothingLost, RepeatOf
<1> QED
  BY <1>5, <1>6, <1>7, <1>8, <1>9, <1>10

LEMMA AdvanceKeeps == NotifyIInv /\ Advance => NotifyIInv'
<1> SUFFICES ASSUME NotifyIInv, Advance PROVE NotifyIInv'
  OBVIOUS
<1> USE LimitsAssumption DEF NotifyIInv, Advance, history
<1>1. AtEvent /\ cursor \in Nat /\ cursor + 1 \in 1..Len(outbox)
  BY EventBefore DEF AtEvent
<1>2. NotifyTypeOK'
  BY <1>1 DEF NotifyTypeOK
<1>3. CursorOK' /\ BatchOK' /\ EventOK' /\ LatestOK'
  BY <1>1, <1>2 DEF NotifyTypeOK, CursorOK, BatchOK, AtEvent, EventOK, LatestOK
<1>4. RecordedOK' /\ DeliveriesOK'
  BY DEF RecordedOK, DeliveriesOK
<1>5. Settled(cursor + 1)
  BY DEF EventOK
<1>6. NothingLost'
  BY <1>1, <1>5 DEF NothingLost, Settled, RepeatOf
<1> QED
  BY <1>2, <1>3, <1>4, <1>6

LEMMA ClearKeeps == NotifyIInv /\ Clear => NotifyIInv'
<1> SUFFICES ASSUME NotifyIInv, Clear PROVE NotifyIInv'
  OBVIOUS
<1> USE LimitsAssumption DEF NotifyIInv, Clear, history
<1>1. NotifyTypeOK'
  BY DEF NotifyTypeOK
<1>2. cursor \in Nat /\ Len(outbox) \in Nat
  BY DEF NotifyTypeOK, CursorOK
<1>3. CursorOK' /\ BatchOK' /\ EventOK' /\ LatestOK'
  BY <1>2 DEF CursorOK, BatchOK, AtEvent, EventOK, LatestOK
<1>4. RecordedOK' /\ DeliveriesOK' /\ NothingLost'
  BY DEF RecordedOK, DeliveriesOK, NothingLost, RepeatOf
<1> QED
  BY <1>1, <1>3, <1>4

LEMMA InsideKeeps == NotifyIInv /\ (Offer \/ RecordFails) => NotifyIInv'
<1> SUFFICES ASSUME NotifyIInv, Offer \/ RecordFails PROVE NotifyIInv'
  OBVIOUS
<1>1. NotifyTypeOK'
  BY DEF NotifyIInv, NotifyTypeOK, Offer, RecordFails, durable, history
<1>2. /\ UNCHANGED <<outbox, cursor, lastSent, upto, history>>
      /\ worker' \in {"send", "failed"} /\ AtEvent
  BY DEF Offer, RecordFails, durable, AtEvent
<1> QED
  BY <1>1, <1>2, QuietKeeps

LEMMA EndsKeeps == NotifyIInv /\ (Crash \/ Dies \/ NoteFailure) => NotifyIInv'
<1> SUFFICES ASSUME NotifyIInv, Crash \/ Dies \/ NoteFailure PROVE NotifyIInv'
  OBVIOUS
<1>1. NotifyTypeOK'
  <2>1. /\ UNCHANGED <<outbox, clock, wanted, cursor, lastSent, history>>
        /\ worker' \in {"off", "wait", "dead"} /\ upto' = 0 /\ retry' \in {retry, "waiting"}
    BY DEF Crash, Dies, NoteFailure, KeptCursor, durable
  <2> QED
    BY <2>1 DEF NotifyIInv, NotifyTypeOK, history
<1>2. /\ UNCHANGED <<outbox, cursor, lastSent, history>>
      /\ worker' \in {"off", "wait", "dead"} /\ worker # "off" /\ upto' = 0
  BY DEF Crash, Dies, NoteFailure, KeptCursor, durable
<1> QED
  BY <1>1, <1>2, OutsideKeeps

LEMMA NextKeeps == NotifyIInv /\ [NotifyNext]_notifyVars => NotifyIInv'
<1> SUFFICES ASSUME NotifyIInv, [NotifyNext]_notifyVars PROVE NotifyIInv'
  OBVIOUS
<1>1. CASE NotifyNext
  BY <1>1, RaiseKeeps, WorldKeeps, StartKeeps, EndsKeeps, PollKeeps, PassOverKeeps, InsideKeeps,
     SendKeeps, RecordKeeps, AdvanceKeeps, ClearKeeps DEF NotifyNext, WorkerStep
<1>2. CASE UNCHANGED notifyVars
  <2>1. NotifyTypeOK'
    BY <1>2 DEF NotifyIInv, NotifyTypeOK, notifyVars, durable, history
  <2> QED
    BY <1>2, <2>1, QuietKeeps DEF notifyVars, durable, history
<1> QED
  BY <1>1, <1>2

LEMMA NotifyInvariance == NotifySpec => []NotifyIInv
<1> QED
  BY InitIInv, NextKeeps, PTL DEF NotifySpec

-----------------------------------------------------------------------------
\* Every variable of the notifications keeps its type.
THEOREM NotifyTypeCorrectness == NotifySpec => []NotifyTypeOK
<1>1. NotifyIInv => NotifyTypeOK
  BY DEF NotifyIInv
<1> QED
  BY <1>1, NotifyInvariance, PTL

\* No event is lost behind the cursor (NotificationWorker.run_once), for any outbox,
\* through any failures, lost answers, crashes and changes of the settings.
THEOREM NoEventLost == NotifySpec => []NothingLost
<1>1. NotifyIInv => NothingLost
  BY DEF NotifyIInv
<1> QED
  BY <1>1, NotifyInvariance, PTL

\* The relay never gets an event before one it got already.
THEOREM MessagesInOrder == NotifySpec => InOrder
<1>1. NotifyIInv /\ [NotifyNext]_notifyVars => [latest' >= latest]_notifyVars
  <2> SUFFICES ASSUME NotifyIInv, NotifyNext PROVE latest' >= latest
    OBVIOUS
  <2> USE DEF history
  <2>1. latest \in Nat
    BY DEF NotifyIInv, NotifyTypeOK
  <2>2. CASE Send \/ SendFails
    <3>1. cursor \in Nat /\ cursor # NoCursor
      BY <2>2, EventBefore, LimitsAssumption DEF AtEvent, Send, SendFails
    <3> QED
      BY <2>1, <2>2, <3>1 DEF NotifyIInv, LatestOK, Send, SendFails, Arrives
  <2>3. CASE ~(Send \/ SendFails)
    <3>1. UNCHANGED latest
      BY <2>3 DEF NotifyNext, WorkerStep, Raise, Toggle, Tick, FallDue, Start, Crash, Poll, Dies, PassOver,
                  Offer, Record, RecordFails, NoteFailure, Advance, Clear
    <3> QED
      BY <2>1, <3>1
  <2> QED
    BY <2>2, <2>3
<1> QED
  BY <1>1, NotifyInvariance, PTL DEF NotifySpec, InOrder
===============================================================================
