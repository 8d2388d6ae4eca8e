------------------------ MODULE MappingTableProofs ------------------------
(***************************************************************************)
(* Proofs about the threads that write the mapping table, for any titles,  *)
(* URLs, sheets and tables, and any number of operations.                  *)
(*                                                                         *)
(* SavedIsSafe is not inductive.  It holds because the threads that share  *)
(* the lock never write two lists at a time, because the file and its copy *)
(* are written under a lock of their own, and because the list a writer    *)
(* waits with is the one in memory unless the form put another in its      *)
(* place.                                                                  *)
(*                                                                         *)
(* Nor is NothingLostUnasked: a thread writes what it made of a table it   *)
(* read some steps ago.  It holds because all a thread has read keeps what *)
(* the table serves, but for what it was asked to take away and what came  *)
(* since, and because nothing comes between a read and a write made under  *)
(* the lock but a change of the form.  What the table serves survives the  *)
(* way to the page and back, imports, and every method of the table:       *)
(* MappingRowsProofs says so, operator by operator.                        *)
(*                                                                         *)
(* And PageRoundTrip is about any table, while only some can be read back: *)
(* those sorted by title in which no season has a URL twice.  The third    *)
(* invariant says that the table, the file, its copy and all a thread      *)
(* waits to write are such.                                                *)
(***************************************************************************)
EXTENDS MappingTable, MappingRowsProofs

(***************************************************************************)
(* The threads: what is saved.                                             *)
(***************************************************************************)
Points ==
  {"idle", "found", "eligible", "draft", "cleared", "loaded", "read", "sync", "main",
   "flags", "append"}
Writes == {"sync", "main"}
Locked == {"loaded", "flags"} \cup Writes

OpsOf(p) ==
  CASE p \in Automation -> {None, "sure", "unsure"}
    [] p = "page"       -> {None, "save", "import", "delete", "clear", "extension"}
    [] OTHER            -> {None, "add", "append", "edit", "upload"}

IsJob(job) ==
  job \in [at : {job.at}, op : {job.op}, title : {job.title}, season : {job.season},
          url : {job.url}, option : {job.option}, sheet : {job.sheet}, data : {job.data},
          drafts : {job.drafts}, held : {job.held}, asked : {job.asked}, late : {job.late}]

Typed ==
  /\ th = [p \in Threads |-> th[p]]
  /\ \A p \in Threads : IsJob(th[p]) /\ th[p].at \in Points /\ th[p].op \in OpsOf(p)

\* Only the form writes without the lock.
WriterHoldsLock == \A p \in Threads \ {"form"} : th[p].at \in Locked => lock = p

\* One thread at a time is between the two files.
OneFile == \A p \in Threads : th[p].at = "main" <=> fileLock = p

\* The copy it makes is of the list it published, unless the form has changed
\* that list in place and will publish it again, or has failed to.
FileFollows ==
  \A p \in Threads :
    th[p].at = "main" => disk = ListOf(p) \/ th["form"].at = "sync" \/ failed = "yes"

CopyFollows == Quiet /\ failed = "no" => {disk, lkg} \subseteq saved

Uncrossed ==
  ~crossed => /\ \A p \in Threads : Pending(p) => th[p].held = {}
              /\ Quiet /\ failed = "no" => disk = table

IInv ==
  Typed /\ WriterHoldsLock /\ OneFile /\ FileFollows /\ CopyFollows /\ Uncrossed

(***************************************************************************)
(* What becomes of the threads.                                            *)
(***************************************************************************)
\* A step that gives one thread another job.
LEMMA Given ==
  ASSUME Typed, NEW p \in Threads, NEW job, IsJob(job), job.at \in Points,
         job.op \in OpsOf(p), th' = [th EXCEPT ![p] = job]
  PROVE  /\ Typed' /\ th'[p] = job
         /\ \A q \in Threads \ {p} : th'[q] = th[q]
BY DEF Typed

\* The fields of a job that changes one or two of them.
LEMMA Fields ==
  ASSUME NEW job, IsJob(job), NEW x, NEW y
  PROVE  /\ IsJob([job EXCEPT !.at = x])
         /\ [job EXCEPT !.at = x].at = x
         /\ [job EXCEPT !.at = x].op = job.op
         /\ [job EXCEPT !.at = x].held = job.held
         /\ IsJob([job EXCEPT !.at = x, !.held = y])
         /\ [job EXCEPT !.at = x, !.held = y].at = x
         /\ [job EXCEPT !.at = x, !.held = y].op = job.op
         /\ [job EXCEPT !.at = x, !.held = y].held = y
         /\ IsJob([job EXCEPT !.at = x, !.data = y])
         /\ [job EXCEPT !.at = x, !.data = y].at = x
         /\ [job EXCEPT !.at = x, !.data = y].op = job.op
         /\ IsJob([job EXCEPT !.data = y])
         /\ [job EXCEPT !.data = y].op = job.op
         /\ IsJob([job EXCEPT !.late = y])
         /\ [job EXCEPT !.late = y].at = job.at
         /\ [job EXCEPT !.late = y].op = job.op
         /\ [job EXCEPT !.late = y].held = job.held
         /\ IsJob([job EXCEPT !.held = y])
         /\ [job EXCEPT !.held = y].at = job.at
         /\ [job EXCEPT !.held = y].op = job.op
         /\ [job EXCEPT !.held = y].held = y
BY DEF IsJob

\* A thread takes, keeps or releases the lock as its next point asks.
LockKept(p, point) ==
  \/ lock' = lock /\ (p = "form" \/ point \notin Locked \/ lock = p)
  \/ lock \in {None, p} /\ lock' = p
  \/ lock = p /\ point \notin Locked

\* A thread that keeps to the lock leaves the writer with it.
LEMMA StillLocked ==
  ASSUME WriterHoldsLock, NEW p \in Threads,
         \A q \in Threads \ {p} : th'[q].at = th[q].at, LockKept(p, th'[p].at)
  PROVE  WriterHoldsLock'
BY DEF WriterHoldsLock, LockKept, Threads, Automation, None

\* A step of a thread that neither writes nor begins to.
LEMMA LocalStep ==
  ASSUME IInv, NEW p \in Threads, NEW job, IsJob(job), th' = [th EXCEPT ![p] = job],
         th[p].at \notin Writes, job.at \in Points \ Writes, job.op \in OpsOf(p),
         LockKept(p, job.at),
         UNCHANGED <<table, disk, lkg, fileLock, saved, failed, crossed>>
  PROVE  IInv'
<1>1. Typed' /\ th'[p] = job /\ \A q \in Threads \ {p} : th'[q] = th[q]
  BY Given DEF IInv, Writes
<1>2. WriterHoldsLock'
  BY <1>1, StillLocked DEF IInv
<1>3. \A q \in Threads : /\ Pending(q)' = Pending(q)
                         /\ th'[q].at = "main" <=> th[q].at = "main"
                         /\ th'[q].at = "sync" <=> th[q].at = "sync"
                         /\ Pending(q) => th'[q] = th[q]
  BY <1>1 DEF Pending, Writes
<1>4. OneFile'
  BY <1>3 DEF IInv, OneFile
<1>5. FileFollows'
  BY <1>3 DEF IInv, FileFollows, ListOf, Pending, Threads
<1>6. Quiet' = Quiet
  BY <1>3 DEF Quiet
<1>7. CopyFollows'
  BY <1>6 DEF IInv, CopyFollows
<1>8. Uncrossed'
  BY <1>3, <1>6 DEF IInv, Uncrossed
<1> QED BY <1>1, <1>2, <1>4, <1>5, <1>7, <1>8 DEF IInv

(***************************************************************************)
(* Writing.                                                                *)
(***************************************************************************)
\* What a write does to the threads.
LEMMA NoticedIs ==
  ASSUME NEW threads, threads = [q \in Threads |-> threads[q]],
         \A q \in Threads : IsJob(threads[q]),
         NEW p \in Threads, NEW new, NEW q \in Threads
  PROVE  /\ Noticed(threads, p, new) = [r \in Threads |-> Noticed(threads, p, new)[r]]
         /\ IsJob(Noticed(threads, p, new)[q])
         /\ Noticed(threads, p, new)[q].at = threads[q].at
         /\ Noticed(threads, p, new)[q].op = threads[q].op
         /\ Noticed(threads, p, new)[q].held = threads[q].held
<1>1. \/ Noticed(threads, p, new)[q] = threads[q]
      \/ \E late : Noticed(threads, p, new)[q] = [threads[q] EXCEPT !.late = late]
  BY DEF Noticed
<1>2. Noticed(threads, p, new) = [r \in Threads |-> Noticed(threads, p, new)[r]]
  BY DEF Noticed
<1>3. CASE Noticed(threads, p, new)[q] = threads[q]
  BY <1>2, <1>3
<1>4. ASSUME NEW late, Noticed(threads, p, new)[q] = [threads[q] EXCEPT !.late = late]
      PROVE  /\ IsJob(Noticed(threads, p, new)[q])
             /\ Noticed(threads, p, new)[q].at = threads[q].at
             /\ Noticed(threads, p, new)[q].op = threads[q].op
             /\ Noticed(threads, p, new)[q].held = threads[q].held
  <2>1. IsJob(threads[q])
    OBVIOUS
  <2> QED BY <1>4, <2>1 DEF IsJob
<1> QED BY <1>1, <1>2, <1>3, <1>4

\* What the other writers are left with when the list is replaced.
LEMMA DetachedIs ==
  ASSUME NEW threads, threads = [q \in Threads |-> threads[q]],
         \A q \in Threads : IsJob(threads[q]),
         NEW p \in Threads, NEW q \in Threads
  PROVE  /\ Detached(threads, p) = [r \in Threads |-> Detached(threads, p)[r]]
         /\ IsJob(Detached(threads, p)[q])
         /\ Detached(threads, p)[q].at = threads[q].at
         /\ Detached(threads, p)[q].op = threads[q].op
         /\ Detached(threads, p)[q].held =
              IF q # p /\ Pending(q) /\ th[q].held = {} THEN {table} ELSE threads[q].held
<1>1. Detached(threads, p) = [r \in Threads |-> Detached(threads, p)[r]]
  BY DEF Detached
<1>2. IsJob(threads[q])
  OBVIOUS
<1>3. Detached(threads, p)[q] =
        IF q # p /\ Pending(q) /\ th[q].held = {} THEN [threads[q] EXCEPT !.held = {table}]
        ELSE threads[q]
  BY DEF Detached
<1>4. /\ IsJob([threads[q] EXCEPT !.held = {table}])
      /\ [threads[q] EXCEPT !.held = {table}].at = threads[q].at
      /\ [threads[q] EXCEPT !.held = {table}].op = threads[q].op
      /\ [threads[q] EXCEPT !.held = {table}].held = {table}
  BY <1>2 DEF IsJob
<1> QED BY <1>1, <1>2, <1>3, <1>4

\* A thread starts to write.
Begins(p, job) ==
  /\ Typed'
  /\ th'[p].at = "sync" /\ th'[p].held = {}
  /\ \A q \in Threads \ {p} : th'[q].at = th[q].at

\* A new list in the place of the one in memory begins a write.
LEMMA SwapIs ==
  ASSUME Typed, NEW p \in Threads, NEW new, NEW job, IsJob(job), job.op \in OpsOf(p),
         Swap(p, new, job)
  PROVE  /\ Begins(p, job)
         /\ \A q \in Threads \ {p} :
              th'[q].held = IF Pending(q) /\ th[q].held = {} THEN {table} ELSE th[q].held
<1> DEFINE going == Go(p, Writing(job))
           seen  == Noticed(going, p, table')
<1>1. IsJob(Writing(job)) /\ Writing(job).at = "sync" /\ Writing(job).held = {}
      /\ Writing(job).op = job.op
  BY DEF Writing, IsJob
<1>2. /\ going = [q \in Threads |-> going[q]]
      /\ going[p] = Writing(job)
      /\ \A q \in Threads \ {p} : going[q] = th[q]
      /\ \A q \in Threads : IsJob(going[q])
  BY <1>1 DEF Go, Typed
<1> HIDE DEF going
<1>3. /\ seen = [q \in Threads |-> seen[q]]
      /\ \A q \in Threads : /\ IsJob(seen[q]) /\ seen[q].at = going[q].at
                            /\ seen[q].op = going[q].op /\ seen[q].held = going[q].held
  BY <1>2, NoticedIs
<1>4. th' = Detached(seen, p)
  BY DEF Swap, going
<1> HIDE DEF seen
<1>5. ASSUME NEW q \in Threads
      PROVE  /\ th' = [r \in Threads |-> th'[r]]
             /\ IsJob(th'[q]) /\ th'[q].at = seen[q].at /\ th'[q].op = seen[q].op
             /\ th'[q].held =
                  IF q # p /\ Pending(q) /\ th[q].held = {} THEN {table} ELSE seen[q].held
  <2>1. /\ Detached(seen, p) = [r \in Threads |-> Detached(seen, p)[r]]
        /\ IsJob(Detached(seen, p)[q])
        /\ Detached(seen, p)[q].at = seen[q].at
        /\ Detached(seen, p)[q].op = seen[q].op
        /\ Detached(seen, p)[q].held =
             IF q # p /\ Pending(q) /\ th[q].held = {} THEN {table} ELSE seen[q].held
    BY <1>3, DetachedIs
  <2> QED BY <1>4, <2>1, Zenon
<1>6. Typed'
  BY <1>1, <1>2, <1>3, <1>5 DEF Typed, Points
<1> QED BY <1>1, <1>2, <1>3, <1>5, <1>6 DEF Begins

\* A change of the list itself begins one too.
LEMMA ChangeIs ==
  ASSUME Typed, NEW p \in Threads, NEW new, NEW job, IsJob(job), job.op \in OpsOf(p),
         Change(p, new, job)
  PROVE  Begins(p, job) /\ \A q \in Threads \ {p} : th'[q].held = th[q].held
<1> DEFINE going == Go(p, Writing(job))
<1>1. IsJob(Writing(job)) /\ Writing(job).at = "sync" /\ Writing(job).held = {}
      /\ Writing(job).op = job.op
  BY DEF Writing, IsJob
<1>2. /\ going = [q \in Threads |-> going[q]]
      /\ going[p] = Writing(job)
      /\ \A q \in Threads \ {p} : going[q] = th[q]
      /\ \A q \in Threads : IsJob(going[q])
  BY <1>1 DEF Go, Typed
<1>3. th' = Noticed(going, p, new)
  BY DEF Change
<1> HIDE DEF going
<1>4. ASSUME NEW q \in Threads
      PROVE  /\ th' = [r \in Threads |-> th'[r]]
             /\ IsJob(th'[q]) /\ th'[q].at = going[q].at
             /\ th'[q].op = going[q].op /\ th'[q].held = going[q].held
  <2>1. /\ Noticed(going, p, new) = [r \in Threads |-> Noticed(going, p, new)[r]]
        /\ IsJob(Noticed(going, p, new)[q])
        /\ Noticed(going, p, new)[q].at = going[q].at
        /\ Noticed(going, p, new)[q].op = going[q].op
        /\ Noticed(going, p, new)[q].held = going[q].held
    BY <1>2, NoticedIs
  <2> QED BY <1>3, <2>1, Zenon
<1>5. Typed'
  BY <1>1, <1>2, <1>4 DEF Typed, Points
<1> QED BY <1>1, <1>2, <1>4, <1>5 DEF Begins

\* A thread that begins to write leaves the file and its copy to those that
\* are at it.
LEMMA BeginStep ==
  ASSUME IInv, NEW p \in Threads, NEW job, Begins(p, job), ~Pending(p),
         UNCHANGED <<disk, lkg, fileLock, saved, failed>>, LockKept(p, "sync")
  PROVE  Typed' /\ WriterHoldsLock' /\ OneFile' /\ CopyFollows' /\ ~Quiet'
<1>1. WriterHoldsLock'
  BY StillLocked DEF Begins, IInv
<1>2. OneFile'
  BY DEF Begins, IInv, OneFile, Pending
<1>3. ~Quiet'
  BY DEF Begins, Quiet, Pending
<1> QED BY <1>1, <1>2, <1>3 DEF Begins, CopyFollows

\* Two threads write at a time only when one of them is the form.
LEMMA OneWriter ==
  ASSUME IInv, NEW p \in Threads, ~Pending(p), LockKept(p, "sync"),
         NEW q \in Threads \ {p}, Pending(q)
  PROVE  "form" \in {p, q}
BY DEF IInv, WriterHoldsLock, LockKept, Locked, Writes, Pending, Threads, Automation, None

\* The invariant is kept by a swap,
LEMMA SwapStep ==
  ASSUME IInv, NEW p \in Threads, NEW new, NEW job, IsJob(job), job.op \in OpsOf(p),
         ~Pending(p), Swap(p, new, job), UNCHANGED <<disk, lkg, fileLock, saved, failed>>,
         LockKept(p, "sync")
  PROVE  IInv'
<1>1. /\ Begins(p, job)
      /\ \A q \in Threads \ {p} :
           th'[q].held = IF Pending(q) /\ th[q].held = {} THEN {table} ELSE th[q].held
  BY SwapIs DEF IInv
<1>2. Typed' /\ WriterHoldsLock' /\ OneFile' /\ CopyFollows' /\ ~Quiet'
  BY <1>1, BeginStep
<1>3. ASSUME NEW q \in Threads, th'[q].at = "main"
      PROVE  disk' = ListOf(q)' \/ th'["form"].at = "sync" \/ failed' = "yes"
  <2>1. q # p /\ th[q].at = "main" /\ Pending(q)
    BY <1>1, <1>3 DEF Begins, Pending
  <2>2. disk = ListOf(q) \/ th["form"].at = "sync" \/ failed = "yes"
    BY <2>1 DEF IInv, FileFollows
  <2>3. CASE disk = ListOf(q)
    <3>1. CASE th[q].held = {}
      <4>1. th'[q].held = {table} /\ ListOf(q) = table
        BY <1>1, <2>1, <3>1 DEF ListOf
      <4>2. ListOf(q)' = table
        BY <4>1 DEF ListOf
      <4> QED BY <2>3, <4>1, <4>2
    <3>2. CASE th[q].held # {}
      <4>1. th'[q].held = th[q].held
        BY <1>1, <2>1, <3>2
      <4> QED BY <2>3, <3>2, <4>1 DEF ListOf
    <3> QED BY <3>1, <3>2
  <2>4. CASE th["form"].at = "sync"
    BY <1>1, <2>4 DEF Begins, Threads
  <2> QED BY <2>2, <2>3, <2>4
<1>4. ASSUME ~crossed', NEW q \in Threads, Pending(q)' PROVE th'[q].held = {}
  <2>1. CASE q = p
    BY <1>1, <2>1 DEF Begins
  <2>2. CASE q # p
    <3>1. Pending(q)
      BY <1>1, <1>4, <2>2 DEF Begins, Pending
    <3>2. crossed'
      BY <2>2, <3>1, OneWriter DEF Swap
    <3> QED BY <1>4, <3>2
  <2> QED BY <2>1, <2>2
<1> QED BY <1>2, <1>3, <1>4 DEF IInv, FileFollows, Uncrossed

\* by a change of the form,
LEMMA ChangeStep ==
  ASSUME IInv, NEW new, NEW job, IsJob(job), job.op \in OpsOf("form"),
         ~Pending("form"), Change("form", new, job),
         UNCHANGED <<disk, lkg, fileLock, saved, failed, lock>>
  PROVE  IInv'
<1>1. Begins("form", job) /\ \A q \in Threads \ {"form"} : th'[q].held = th[q].held
  BY ChangeIs DEF IInv, Threads
<1>2. Typed' /\ WriterHoldsLock' /\ OneFile' /\ CopyFollows' /\ ~Quiet'
  BY <1>1, BeginStep DEF LockKept, Threads
<1>3. FileFollows'
  BY <1>1 DEF Begins, FileFollows
<1>4. Uncrossed'
  BY <1>1, <1>2 DEF Begins, IInv, Uncrossed, Pending, Change
<1> QED BY <1>2, <1>3, <1>4 DEF IInv

\* by the write of the file,
LEMMA PublishMainStep ==
  ASSUME IInv, NEW p \in Threads, PublishMain(p)
  PROVE  IInv'
<1>1. IsJob(th[p]) /\ th[p].at = "sync" /\ th[p].op \in OpsOf(p)
  BY DEF PublishMain, IInv, Typed
<1> DEFINE job == [th[p] EXCEPT !.at = "main"]
<1>2. /\ IsJob(job) /\ job.at = "main" /\ job.op = th[p].op /\ job.held = th[p].held
  BY <1>1 DEF IsJob
<1>3. th' = [th EXCEPT ![p] = job]
  BY DEF PublishMain, Goto
<1> HIDE DEF job
<1>4. Typed' /\ th'[p] = job /\ \A q \in Threads \ {p} : th'[q] = th[q]
  BY <1>1, <1>2, <1>3, Given DEF IInv, Points
<1>5. WriterHoldsLock'
  BY <1>1, <1>2, <1>4 DEF PublishMain, IInv, WriterHoldsLock, Locked, Writes
<1>6. ASSUME NEW q \in Threads PROVE th[q].at # "main"
  BY <1>6 DEF PublishMain, IInv, OneFile, None, Threads, Automation
<1>7. OneFile'
  BY <1>2, <1>4, <1>6 DEF PublishMain, OneFile
<1>8. ListOf(p)' = ListOf(p)
  <2>1. th'[p].held = th[p].held /\ table' = table
    BY <1>2, <1>4 DEF PublishMain
  <2> QED BY <2>1 DEF ListOf
<1>9. FileFollows'
  BY <1>4, <1>6, <1>8 DEF PublishMain, FileFollows
<1>10. /\ ~Quiet' /\ \A q \in Threads : th'[q].held = th[q].held /\ Pending(q)' = Pending(q)
  BY <1>1, <1>2, <1>4 DEF Quiet, Pending
<1>11. Uncrossed'
  BY <1>10 DEF PublishMain, IInv, Uncrossed
<1> QED BY <1>4, <1>5, <1>7, <1>9, <1>10, <1>11 DEF IInv, CopyFollows

\* by the write of its copy,
LEMMA PublishLkgStep ==
  ASSUME IInv, NEW p \in Threads, PublishLkg(p)
  PROVE  IInv'
<1>1. IsJob(th[p]) /\ th[p].at = "main" /\ th[p].op \in OpsOf(p)
  BY DEF PublishLkg, IInv, Typed
<1> DEFINE job == AfterWriting(p)
<1>2. /\ IsJob(job) /\ job.op \in OpsOf(p)
      /\ job.at \in {"flags", "append", "idle"}
      /\ p \in Automation => job.at = "idle"
  <2>1. CASE th[p].op \in {"save", "import", "delete", "extension"}
    <3>1. job = [th[p] EXCEPT !.at = "flags"]
      BY <2>1 DEF AfterWriting
    <3>2. p \notin Automation
      BY <1>1, <2>1 DEF OpsOf, Automation, None
    <3> QED BY <1>1, <3>1, <3>2 DEF IsJob
  <2>2. CASE th[p].op = "add"
    <3>1. job = [th[p] EXCEPT !.at = "append"]
      BY <2>2 DEF AfterWriting
    <3>2. p \notin Automation
      BY <1>1, <2>2 DEF OpsOf, None
    <3> QED BY <1>1, <3>1, <3>2 DEF IsJob
  <2>3. CASE th[p].op \notin {"save", "import", "delete", "extension", "add"}
    <3>1. job = Idle
      BY <2>3 DEF AfterWriting
    <3> QED BY <3>1 DEF IsJob, Idle, OpsOf
  <2> QED BY <2>1, <2>2, <2>3
<1>3. th' = [th EXCEPT ![p] = job]
  BY DEF PublishLkg, Go
<1> HIDE DEF job
<1>4. Typed' /\ th'[p] = job /\ \A q \in Threads \ {p} : th'[q] = th[q]
  BY <1>1, <1>2, <1>3, Given DEF IInv, Points
<1>5. WriterHoldsLock'
  <2>1. p # "form" => lock = p
    BY <1>1 DEF IInv, WriterHoldsLock, Locked, Writes
  <2>2. LockKept(p, job.at)
    BY <1>2, <2>1 DEF PublishLkg, LockKept, Locked, Writes, Threads, Automation
  <2> QED BY <1>4, <2>2, StillLocked DEF IInv
<1>6. ASSUME NEW q \in Threads \ {p} PROVE th[q].at # "main"
  BY <1>1, <1>6 DEF IInv, OneFile
<1>7. OneFile' /\ FileFollows'
  BY <1>2, <1>4, <1>6 DEF PublishLkg, OneFile, FileFollows, None, Threads, Automation
<1>8. Quiet' /\ failed' = "no" => disk = ListOf(p)
  <2>1. disk = ListOf(p) \/ th["form"].at = "sync" \/ failed = "yes"
    BY <1>1 DEF IInv, FileFollows
  <2>0. failed = "yes" => failed' = "yes"
    BY DEF PublishLkg
  <2>2. th["form"].at = "sync" => th'["form"].at = "sync" /\ "form" \in Threads
    BY <1>1, <1>4 DEF Threads
  <2> QED BY <2>0, <2>1, <2>2 DEF Quiet, Pending
<1>9. CopyFollows'
  BY <1>8 DEF PublishLkg, CopyFollows
<1>10. Uncrossed'
  <2>1. ASSUME ~crossed' PROVE \A q \in Threads : Pending(q)' => th'[q].held = {}
    BY <1>2, <1>4, <2>1 DEF PublishLkg, IInv, Uncrossed, Pending
  <2>2. ASSUME ~crossed', Quiet', failed' = "no" PROVE disk' = table'
    <3>1. th[p].held = {}
      BY <1>1, <2>2 DEF PublishLkg, IInv, Uncrossed, Pending
    <3> QED BY <1>8, <2>2, <3>1 DEF PublishLkg, ListOf
  <2> QED BY <2>1, <2>2 DEF Uncrossed
<1> QED BY <1>4, <1>5, <1>7, <1>9, <1>10 DEF IInv

\* by a write that fails,
LEMMA WriteFailsStep ==
  ASSUME IInv, NEW p \in Threads, WriteFails(p)
  PROVE  IInv'
<1>1. IsJob(Idle) /\ Idle.at = "idle" /\ Idle.op \in OpsOf(p)
  BY DEF IsJob, Idle, OpsOf
<1>2. Typed' /\ th'[p] = Idle /\ \A q \in Threads \ {p} : th'[q] = th[q]
  BY <1>1, Given DEF WriteFails, IInv, Points
<1>3. WriterHoldsLock'
  <2>1. LockKept(p, th'[p].at)
    BY <1>1, <1>2 DEF WriteFails, LockKept, Locked, Writes
  <2> QED BY <1>2, <2>1, StillLocked DEF IInv
<1>4. p # None
  BY DEF Threads, Automation, None
<1>5. OneFile'
  BY <1>1, <1>2, <1>4 DEF WriteFails, IInv, OneFile, Threads, Automation, None
<1>6. failed' = "yes" /\ UNCHANGED <<table, disk, crossed>>
  BY DEF WriteFails
<1>7. FileFollows' /\ CopyFollows'
  BY <1>6 DEF FileFollows, CopyFollows
<1>8. Uncrossed'
  BY <1>1, <1>2, <1>6 DEF IInv, Uncrossed, Pending
<1> QED BY <1>2, <1>3, <1>5, <1>7, <1>8 DEF IInv

(***************************************************************************)
(* The actions.                                                            *)
(***************************************************************************)
\* by the steps of the automation,
LEMMA AutomateStep ==
  ASSUME IInv, NEW p \in Automation, Automate(p)
  PROVE  IInv'
<1>0. /\ p \in Threads /\ p # "form" /\ IsJob(th[p]) /\ th[p].op \in OpsOf(p)
      /\ IsJob(Idle) /\ Idle.at = "idle" /\ Idle.op \in OpsOf(p)
  BY DEF IInv, Typed, Threads, Automation, IsJob, Idle, OpsOf
<1>1. ASSUME NEW title, NEW season, NEW url, NEW op \in {"sure", "unsure"}, NEW option,
             NEW force, Search(p, title, season, url, op, option, force)
      PROVE  IInv'
  <2> DEFINE job == Found(p, title, season, url, op, option)
  <2>1. IsJob(job) /\ job.at = "found" /\ job.op = op
    BY DEF Found, Idle, IsJob
  <2>2. op \in OpsOf(p)
    BY DEF OpsOf, Automation
  <2>3. th' = [th EXCEPT ![p] = job] /\ th[p].at = "idle"
    BY <1>1 DEF Search, Go
  <2> HIDE DEF job
  <2> QED BY <1>0, <1>1, <2>1, <2>2, <2>3, LocalStep
          DEF Search, LockKept, Points, Writes, Locked, stored
<1>2. ASSUME NEW enabled, HandleSearchResult(p, enabled) PROVE IInv'
  <2>1. PICK point \in {"eligible", "draft"} : th' = [th EXCEPT ![p].at = point]
    BY <1>2 DEF HandleSearchResult, Goto
  <2>2. /\ th' = [th EXCEPT ![p] = [th[p] EXCEPT !.at = point]]
        /\ IsJob([th[p] EXCEPT !.at = point])
        /\ [th[p] EXCEPT !.at = point].at = point
        /\ [th[p] EXCEPT !.at = point].op = th[p].op
    BY <1>0, <2>1 DEF IsJob
  <2> QED BY <1>0, <1>2, <2>2, LocalStep
          DEF HandleSearchResult, LockKept, Points, Writes, Locked, stored
<1>3. CASE Dropped(p)
  BY <1>0, <1>3, LocalStep DEF Dropped, LockKept, Points, Writes, Locked, stored
<1>4. CASE AddReviewDraft(p)
  BY <1>0, <1>4, LocalStep DEF AddReviewDraft, LockKept, Points, Writes, Locked, stored
<1>5. ASSUME NEW enabled, CheckAgain(p, enabled) PROVE IInv'
  <2>1. CASE th' = [th EXCEPT ![p].at = "cleared"]
    <3>1. /\ th' = [th EXCEPT ![p] = [th[p] EXCEPT !.at = "cleared"]]
          /\ IsJob([th[p] EXCEPT !.at = "cleared"])
          /\ [th[p] EXCEPT !.at = "cleared"].at = "cleared"
          /\ [th[p] EXCEPT !.at = "cleared"].op = th[p].op
      BY <1>0, <2>1 DEF IsJob
    <3> QED BY <1>0, <1>5, <3>1, LocalStep
            DEF CheckAgain, LockKept, Points, Writes, Locked, stored
  <2>2. CASE th' = [th EXCEPT ![p] = Idle]
    BY <1>0, <1>5, <2>2, LocalStep DEF CheckAgain, LockKept, Points, Writes, Locked, stored
  <2> QED BY <1>5, <2>1, <2>2 DEF CheckAgain, Goto
<1>6. CASE ReadTable(p)
  <2>1. CASE th' = [th EXCEPT ![p] = Idle] /\ UNCHANGED lock
    BY <1>0, <1>6, <2>1, LocalStep DEF ReadTable, LockKept, Points, Writes, Locked, stored
  <2>2. CASE lock' = p /\ th' = Go(p, Loaded(p))
    <3>1. IsJob(Loaded(p)) /\ Loaded(p).at = "loaded" /\ Loaded(p).op = th[p].op
      BY <1>0 DEF Loaded, IsJob
    <3> QED BY <1>0, <1>6, <2>2, <3>1, LocalStep
            DEF ReadTable, Go, LockKept, Points, Writes, Locked, stored
  <2> QED BY <1>6, <2>1, <2>2 DEF ReadTable
<1> QED BY <1>1, <1>2, <1>3, <1>4, <1>5, <1>6 DEF Automate

\* by a replacement under the lock,
LEMMA ReplaceStep ==
  ASSUME IInv, NEW p \in Automation \cup {"page"}, ReplaceTable(p)
  PROVE  IInv'
<1> DEFINE job == [th[p] EXCEPT !.data = <<>>]
<1>1. /\ p \in Threads /\ p # "form" /\ IsJob(th[p]) /\ th[p].op \in OpsOf(p)
      /\ th[p].at = "loaded"
  BY DEF IInv, Typed, Threads, Automation, ReplaceTable
<1>2. IsJob(job) /\ job.op \in OpsOf(p)
  BY <1>1 DEF IsJob
<1>3. lock = p /\ LockKept(p, "sync") /\ ~Pending(p)
  BY <1>1 DEF IInv, WriterHoldsLock, Locked, LockKept, ReplaceTable, Pending
<1>4. Swap(p, th[p].data, job)
  BY DEF ReplaceTable
<1> HIDE DEF job
<1> QED BY <1>1, <1>2, <1>3, <1>4, SwapStep DEF ReplaceTable, stored

\* by what the page asks for,
LEMMA PageStep ==
  ASSUME IInv, Page
  PROVE  IInv'
<1>0. /\ "page" \in Threads /\ IsJob(th["page"]) /\ th["page"].op \in OpsOf("page")
      /\ IsJob(Idle) /\ Idle.at = "idle" /\ Idle.op \in OpsOf("page")
  BY DEF IInv, Typed, Threads, Automation, IsJob, Idle, OpsOf
<1>1. ASSUME NEW op \in {"save", "import", "delete", "clear"}, NEW sheet, NEW asked,
             NEW drafts, NEW title, Requested(op, sheet, asked, drafts, title)
      PROVE  IInv'
  <2> DEFINE job == [Idle EXCEPT !.at = "read", !.op = op, !.sheet = sheet,
                                 !.asked = asked, !.drafts = drafts, !.title = title]
  <2>1. IsJob(job) /\ job.at = "read" /\ job.op = op
    BY DEF Idle, IsJob
  <2>2. op \in OpsOf("page")
    BY DEF OpsOf, Automation
  <2>3. th' = [th EXCEPT !["page"] = job] /\ th["page"].at = "idle"
    BY <1>1 DEF Requested, Go
  <2> HIDE DEF job
  <2> QED BY <1>0, <1>1, <2>1, <2>2, <2>3, LocalStep
          DEF Requested, LockKept, Points, Writes, Locked, stored
<1>2. CASE SavePage
  BY <1>1, <1>2 DEF SavePage
<1>3. CASE ImportApply
  BY <1>1, <1>3 DEF ImportApply
<1>4. CASE BulkAction
  <2>1. PICK i \in DOMAIN table, op \in {"delete", "clear"} :
          Requested(op, Chosen(Rows, DOMAIN Rows \ OfEntry(Rows, Known(i))),
                    Facts(<<table[i]>>), {}, table[i].title)
    BY <1>4 DEF BulkAction
  <2> QED BY <1>1, <2>1
<1>5. CASE ApplyRequest
  <2>1. CASE th' = Goto("page", "flags") /\ UNCHANGED <<table, crossed>>
    <3>1. /\ th' = [th EXCEPT !["page"] = [th["page"] EXCEPT !.at = "flags"]]
          /\ IsJob([th["page"] EXCEPT !.at = "flags"])
          /\ [th["page"] EXCEPT !.at = "flags"].at = "flags"
          /\ [th["page"] EXCEPT !.at = "flags"].op = th["page"].op
      BY <1>0, <2>1 DEF Goto, IsJob
    <3> QED BY <1>0, <1>5, <2>1, <3>1, LocalStep
            DEF ApplyRequest, LockKept, Points, Writes, Locked, stored
  <2>2. CASE Swap("page", TableFromRows(th["page"].sheet), th["page"])
    <3>1. LockKept("page", "sync") /\ ~Pending("page")
      BY <1>5 DEF ApplyRequest, LockKept, Pending
    <3> QED BY <1>0, <1>5, <2>2, <3>1, SwapStep DEF ApplyRequest, stored
  <2> QED BY <1>5, <2>1, <2>2 DEF ApplyRequest
<1>6. CASE ApplyFlags
  <2>1. /\ th["page"].at = "flags" /\ lock' = None /\ th' = [th EXCEPT !["page"] = Idle]
        /\ UNCHANGED <<table, stored, crossed>>
    BY <1>6 DEF ApplyFlags
  <2>2. lock = "page"
    BY <1>0, <2>1 DEF IInv, WriterHoldsLock, Locked
  <2> QED BY <1>0, <2>1, <2>2, LocalStep DEF LockKept, Points, Writes, Locked, stored
<1>7. ASSUME NEW title, NEW season, NEW url, NEW mode, NEW confirmed, NEW clear,
             ExtensionSave(title, season, url, mode, confirmed, clear)
      PROVE  IInv'
  <2> DEFINE i       == FindEntry(table, title)
             entry   == IF i = 0 THEN Entry(title, FALSE, <<>>) ELSE table[i]
             urls    == IF season \in DOMAIN entry.seasons THEN entry.seasons[season] ELSE <<>>
             known   == \E n \in DOMAIN urls : Norm[urls[n]] = Norm[url]
             after   == IF mode = "replace_season" THEN <<url>>
                        ELSE IF known THEN urls ELSE SortPartUrls(Append(urls, url))
             amended == [entry EXCEPT !.seasons = With(@, season, after)]
             point   == IF after = urls THEN "flags" ELSE "loaded"
             data    == IF i = 0 THEN Append(table, amended) ELSE [table EXCEPT ![i] = amended]
             asked   == IF mode = "replace_season"
                          THEN {<<Key[title], season, Norm[u]>> : u \in Range(urls)} ELSE {}
             job     == [Idle EXCEPT !.at = point, !.op = "extension", !.title = entry.title,
                                     !.option = clear, !.data = data, !.asked = asked]
  <2>1. th' = [th EXCEPT !["page"] = job] /\ point \in {"flags", "loaded"}
    BY <1>7 DEF ExtensionSave, Go
  <2> HIDE DEF i, entry, urls, point, data, asked
  <2>2. IsJob(job) /\ job.at = point /\ job.op = "extension"
    BY DEF Idle, IsJob
  <2>3. "extension" \in OpsOf("page")
    BY DEF OpsOf, Automation
  <2>4. /\ th["page"].at = "idle" /\ lock = None /\ lock' = "page"
        /\ UNCHANGED <<table, stored, crossed>>
    BY <1>7 DEF ExtensionSave
  <2> HIDE DEF job
  <2>5. LockKept("page", job.at) /\ job.at \in Points \ Writes /\ th["page"].at \notin Writes
    BY <2>1, <2>2, <2>4 DEF LockKept, Points, Writes
  <2> QED BY <1>0, <2>1, <2>2, <2>3, <2>4, <2>5, LocalStep DEF job, stored
<1>8. CASE EditDrafts
  <2>1. UNCHANGED <<table, lock, th, disk, lkg, fileLock, saved, failed, crossed>>
    BY <1>8 DEF EditDrafts, stored
  <2> QED BY <1>0, <2>1 DEF IInv, Typed, WriterHoldsLock, OneFile, FileFollows, CopyFollows,
             Uncrossed, Quiet, Pending, ListOf
<1> QED BY <1>2, <1>3, <1>4, <1>5, <1>6, <1>7, <1>8 DEF Page

\* by what the form does,
LEMMA FormStep ==
  ASSUME IInv, Form
  PROVE  IInv'
<1>0. /\ "form" \in Threads /\ IsJob(th["form"]) /\ th["form"].op \in OpsOf("form")
      /\ IsJob(Idle) /\ Idle.at = "idle" /\ Idle.op \in OpsOf("form")
  BY DEF IInv, Typed, Threads, Automation, IsJob, Idle, OpsOf
<1>1. ASSUME NEW new, FormChange(new) PROVE IInv'
  <2> DEFINE job == [Idle EXCEPT !.op = "edit", !.asked = Facts(table) \ Facts(new)]
  <2>1. IsJob(job) /\ job.op = "edit"
    BY DEF Idle, IsJob
  <2>2. "edit" \in OpsOf("form")
    BY DEF OpsOf, Automation
  <2>3. Change("form", new, job)
    BY <1>1 DEF FormChange
  <2> HIDE DEF job
  <2> QED BY <1>1, <2>1, <2>2, <2>3, ChangeStep DEF FormChange, Pending, stored
<1>2. ASSUME NEW title, NEW season, NEW url, FormAdd(title, season, url) PROVE IInv'
  <2> DEFINE job == [Idle EXCEPT !.op = "add", !.title = title, !.season = season, !.url = url]
  <2>1. /\ IsJob(job) /\ job.op = "add" /\ IsJob([job EXCEPT !.at = "append"])
        /\ [job EXCEPT !.at = "append"].at = "append" /\ [job EXCEPT !.at = "append"].op = "add"
    BY DEF Idle, IsJob
  <2>2. "add" \in OpsOf("form") /\ th["form"].at = "idle"
    BY <1>2 DEF OpsOf, Automation, FormAdd
  <2>3. \/ th' = Go("form", [job EXCEPT !.at = "append"]) /\ UNCHANGED <<table, crossed>>
        \/ Change("form", AppendSerie(table, title, season = Absolute), job)
    BY <1>2 DEF FormAdd
  <2>4. UNCHANGED <<disk, lkg, fileLock, saved, failed, lock>>
    BY <1>2 DEF FormAdd, stored
  <2> HIDE DEF job
  <2>5. CASE th' = Go("form", [job EXCEPT !.at = "append"]) /\ UNCHANGED <<table, crossed>>
    BY <1>0, <2>1, <2>2, <2>4, <2>5, LocalStep DEF Go, LockKept, Points, Writes, Locked
  <2>6. CASE Change("form", AppendSerie(table, title, season = Absolute), job)
    BY <2>1, <2>2, <2>4, <2>6, ChangeStep DEF Pending
  <2> QED BY <2>3, <2>5, <2>6
<1>3. CASE FormAppend
  <2> DEFINE job == [Idle EXCEPT !.op = "append"]
             new == AppendUrls(table, th["form"].title, th["form"].season, <<th["form"].url>>)
  <2>1. IsJob(job) /\ job.op = "append"
    BY DEF Idle, IsJob
  <2>2. "append" \in OpsOf("form")
    BY DEF OpsOf, Automation
  <2>3. /\ th["form"].at = "append"
        /\ \/ th' = [th EXCEPT !["form"] = Idle] /\ UNCHANGED <<table, crossed>>
           \/ Change("form", new, job)
        /\ UNCHANGED <<disk, lkg, fileLock, saved, failed, lock>>
    BY <1>3 DEF FormAppend, stored
  <2> HIDE DEF job, new
  <2>4. CASE th' = [th EXCEPT !["form"] = Idle] /\ UNCHANGED <<table, crossed>>
    BY <1>0, <2>3, <2>4, LocalStep DEF LockKept, Points, Writes, Locked
  <2>5. CASE Change("form", new, job)
    BY <2>1, <2>2, <2>3, <2>5, ChangeStep DEF Pending
  <2> QED BY <2>3, <2>4, <2>5
<1>4. CASE FormUpload
  <2> DEFINE job == [Idle EXCEPT !.op = "upload", !.asked = Facts(table)]
  <2>1. IsJob(job) /\ job.op = "upload"
    BY DEF Idle, IsJob
  <2>2. "upload" \in OpsOf("form")
    BY DEF OpsOf, Automation
  <2>3. PICK data : Swap("form", data, job)
    BY <1>4 DEF FormUpload
  <2>4. th["form"].at = "idle" /\ UNCHANGED <<disk, lkg, fileLock, saved, failed, lock>>
    BY <1>4 DEF FormUpload, stored
  <2> HIDE DEF job
  <2> QED BY <1>0, <2>1, <2>2, <2>3, <2>4, SwapStep DEF Pending, LockKept
<1>5. \/ \E new : FormChange(new)
      \/ \E title, season, url : FormAdd(title, season, url)
      \/ FormAppend \/ FormUpload
  <2>1. ASSUME NEW slot \in Slots,
               LET title  == slot[1]
                   season == slot[2]
               IN  \/ FormChange(RemoveSerie(table, title))
                   \/ FormChange(RemoveSeason(table, title, season))
                   \/ \E url \in FormUrls \cup FoundUrls :
                        \/ FormChange(RemoveUrl(table, title, season, url))
                        \/ \E new \in FormUrls :
                             FormChange(RenameUrl(table, title, season, url, new))
                   \/ \E want \in Wanted :
                        \/ FormChange(RenameSerie(table, title, want[1]))
                        \/ FormChange(RenameSeason(table, title, season, want[2]))
                        \/ FormChange(AppendSeason(table, want[1], want[2]))
        PROVE  \E new : FormChange(new)
    BY <2>1
  <2> QED BY <2>1 DEF Form
<1> QED BY <1>1, <1>2, <1>3, <1>4, <1>5

\* and by a stop and a start.
LEMMA CrashStep ==
  ASSUME IInv, NEW damaged, Crash(damaged)
  PROVE  IInv'
<1>1. /\ th' = [p \in Threads |-> Idle] /\ lock' = None /\ fileLock' = None
      /\ disk' = table' /\ lkg' = lkg /\ table' \in {disk, lkg}
      /\ saved' = IF Quiet /\ failed = "no" THEN saved ELSE saved \cup {disk, lkg}
  BY DEF Crash, Quiet
<1>2. /\ IsJob(Idle) /\ Idle.at = "idle"
      /\ \A p \in Threads : Idle.op \in OpsOf(p)
  BY DEF IsJob, Idle, OpsOf
<1>3. Typed'
  BY <1>1, <1>2 DEF Typed, Points
<1>4. \A p \in Threads : th'[p].at = "idle" /\ ~Pending(p)' /\ p # None
  BY <1>1, <1>2 DEF Pending, Threads, Automation, None
<1>5. WriterHoldsLock' /\ OneFile' /\ FileFollows'
  BY <1>1, <1>4 DEF WriterHoldsLock, OneFile, FileFollows, Locked, Writes
<1>6. CopyFollows'
  BY <1>1 DEF IInv, CopyFollows
<1>7. Uncrossed'
  BY <1>1, <1>4 DEF Uncrossed
<1> QED BY <1>3, <1>5, <1>6, <1>7 DEF IInv

\* It holds at the start.
LEMMA Initially == Init => IInv
<1> SUFFICES ASSUME Init PROVE IInv
  OBVIOUS
<1>1. /\ IsJob(Idle) /\ Idle.at = "idle"
      /\ \A p \in Threads : Idle.op \in OpsOf(p)
  BY DEF IsJob, Idle, OpsOf
<1>2. Typed
  BY <1>1 DEF Init, Typed, Points
<1>3. \A p \in Threads : th[p].at = "idle" /\ ~Pending(p) /\ p # None
  BY <1>1 DEF Init, Pending, Threads, Automation, None
<1> QED BY <1>2, <1>3 DEF Init, IInv, WriterHoldsLock, OneFile, FileFollows, CopyFollows,
           Uncrossed, Locked, Writes

\* Every step keeps it.
LEMMA Preserved == IInv /\ [Next]_vars => IInv'
<1> SUFFICES ASSUME IInv, [Next]_vars PROVE IInv'
  OBVIOUS
<1>1. CASE UNCHANGED vars
  BY <1>1 DEF vars, IInv, Typed, WriterHoldsLock, OneFile, FileFollows, CopyFollows,
     Uncrossed, Quiet, Pending, ListOf
<1>2. ASSUME NEW p \in Threads, PublishMain(p) \/ PublishLkg(p) \/ WriteFails(p)
      PROVE  IInv'
  BY <1>2, PublishMainStep, PublishLkgStep, WriteFailsStep
<1>3. ASSUME NEW p \in Automation, Automate(p) PROVE IInv'
  BY <1>3, AutomateStep
<1>4. ASSUME NEW p \in Automation \cup {"page"}, ReplaceTable(p) PROVE IInv'
  BY <1>4, ReplaceStep
<1>5. CASE Page
  BY <1>5, PageStep
<1>6. CASE Form
  BY <1>6, FormStep
<1>7. ASSUME NEW damaged \in BOOLEAN, Crash(damaged) PROVE IInv'
  BY <1>7, CrashStep
<1> QED BY <1>1, <1>2, <1>3, <1>4, <1>5, <1>6, <1>7 DEF Next

\* With no write under way the file and its copy hold what the last write
\* published, and that is the table in memory unless the form and another thread
\* wrote two lists at a time, whatever is imported, uploaded or found, however
\* often the process dies and whichever of the two cannot be published: a write
\* that fails parts them until the next one that succeeds (Database.py, sync;
\* atomic_json.py, 79-139).
THEOREM MappingsAreSafe == Spec => []SavedIsSafe
<1>1. IInv => SavedIsSafe
  BY DEF IInv, CopyFollows, Uncrossed, SavedIsSafe
<1> QED BY Initially, Preserved, <1>1, PTL DEF Spec

\* What MappingsAssumption says of the inputs.
LEMMA InputsAre ==
  /\ \A data \in StartTables \cup Uploads : data \in Tables
  /\ \A file \in Files : file \in Sheets
  /\ \A want \in Wanted : want[1] \in Titles /\ want[2] \in 0 .. Absolute
  /\ FoundUrls \subseteq Urls /\ FormUrls \subseteq Urls
BY MappingsAssumption, TableIs DEF Sheets

(***************************************************************************)
(* What a thread is about to write.                                        *)
(***************************************************************************)
\* The title, season and URL a thread was given.
Arguments(job) ==
  job.title \in Titles /\ job.season \in 0 .. Absolute /\ job.url \in Urls

\* The list a thread has read keeps what the table serves, but for what it was
\* asked to take away and what came since.
Keeps(job, data, current) == Facts(current) \ Facts(data) \subseteq job.asked \cup job.late

\* What a thread knows of the table, and that its arguments are of the kind
\* the methods of the table take.
JobIsSound(p, job, current) ==
  /\ (p \in Automation /\ job.at # "idle") \/ job.at = "append" \/ job.op = "add" =>
       Arguments(job)
  /\ job.held \subseteq Tables
  /\ job.at \in {"loaded", "read"} => p # "form"
  /\ job.at = "loaded" => job.data \in Tables /\ Keeps(job, job.data, current)
  /\ job.at = "read" =>
       job.sheet \in Sheets /\ Keeps(job, TableFromRows(job.sheet), current)

\* The second invariant: the table, the file, its copy and the lists kept for
\* publishing are tables, and every thread keeps what it must not lose.
LInv ==
  /\ table \in Tables /\ disk \in Tables /\ lkg \in Tables
  /\ \A p \in Threads : JobIsSound(p, th[p], table)

\* One step of NothingLostUnasked.
Lossless ==
  \A p \in Threads :
    (th'[p].at = "sync" /\ th[p].at # "sync") =>
      Facts(table) \ Facts(table') \subseteq th'[p].asked \cup th'[p].late

\* What a writer publishes is a table.
LEMMA ListIsTable ==
  ASSUME LInv, NEW p \in Threads
  PROVE  ListOf(p) \in Tables
BY DEF LInv, JobIsSound, ListOf

\* A step of one thread that does not write.
LEMMA SoundStep ==
  ASSUME LInv, Typed, NEW p \in Threads, NEW job, th' = [th EXCEPT ![p] = job],
         JobIsSound(p, job, table), job.at # "sync", table' = table,
         disk' \in Tables, lkg' \in Tables
  PROVE  LInv' /\ Lossless
<1>1. th'[p] = job /\ \A q \in Threads \ {p} : th'[q] = th[q]
  BY DEF Typed
<1>2. \A q \in Threads : JobIsSound(q, th'[q], table)
  BY <1>1 DEF LInv
<1>3. LInv'
  BY <1>2 DEF LInv
<1>4. Lossless
  BY <1>1 DEF Lossless
<1> QED BY <1>3, <1>4

\* A write changes nothing of what the others do but what they hold and are late with.
SameWork(new, old) ==
  /\ new.at = old.at /\ new.op = old.op /\ new.title = old.title
  /\ new.season = old.season /\ new.url = old.url /\ new.sheet = old.sheet
  /\ new.data = old.data /\ new.asked = old.asked

\* SameWork is transitive.
LEMMA SameWorkTwice ==
  ASSUME NEW a, NEW b, NEW c, SameWork(a, b), SameWork(b, c)
  PROVE  SameWork(a, c)
BY Zenon DEF SameWork

\* A thread has read the table and cannot know of this write: the page before
\* it takes the lock, and any thread when the form writes without it.
Unaware(job, p) == job.at = "read" \/ (job.at = "loaded" /\ p = "form")

\* What a write does to what the others are late with.
LEMMA LateIs ==
  ASSUME NEW threads, threads = [q \in Threads |-> threads[q]],
         \A q \in Threads : IsJob(threads[q]),
         NEW p \in Threads, NEW new, NEW q \in Threads
  PROVE  /\ SameWork(Noticed(threads, p, new)[q], threads[q])
         /\ Noticed(threads, p, new)[q].late =
              IF q # p /\ Unaware(threads[q], p)
                THEN threads[q].late \cup (Facts(new) \ Facts(table)) ELSE threads[q].late
<1> DEFINE more == threads[q].late \cup (Facts(new) \ Facts(table))
           other == [threads[q] EXCEPT !.late = more]
<1>1. Noticed(threads, p, new)[q] = IF q # p /\ Unaware(threads[q], p) THEN other ELSE threads[q]
  BY DEF Noticed, Unaware
<1>2. IsJob(threads[q])
  OBVIOUS
<1> HIDE DEF more
<1>3. SameWork(other, threads[q]) /\ other.late = more
  BY <1>2 DEF IsJob, SameWork
<1>4. SameWork(threads[q], threads[q])
  BY DEF SameWork
<1> HIDE DEF other
<1> QED BY <1>1, <1>3, <1>4 DEF more

\* A table put in the place of another leaves the others' work alone.
LEMMA DetachedWorks ==
  ASSUME NEW threads, threads = [q \in Threads |-> threads[q]],
         \A q \in Threads : IsJob(threads[q]),
         NEW p \in Threads, NEW q \in Threads
  PROVE  /\ SameWork(Detached(threads, p)[q], threads[q])
         /\ Detached(threads, p)[q].late = threads[q].late
<1> DEFINE other == [threads[q] EXCEPT !.held = {table}]
<1>1. Detached(threads, p)[q] =
        IF q # p /\ Pending(q) /\ th[q].held = {} THEN other ELSE threads[q]
  BY DEF Detached
<1>2. IsJob(threads[q])
  OBVIOUS
<1>3. SameWork(other, threads[q]) /\ other.late = threads[q].late
  BY <1>2 DEF IsJob, SameWork
<1>4. SameWork(threads[q], threads[q])
  BY DEF SameWork
<1> HIDE DEF other
<1> QED BY <1>1, <1>3, <1>4

\* What the others are about to write, after a write of p.
LEMMA StillSound ==
  ASSUME LInv, NEW p \in Threads, NEW q \in Threads \ {p}, NEW new,
         SameWork(new, th[q]), new.held \in {th[q].held, {table}},
         th[q].at = "loaded" => p = "form",
         new.late = IF Unaware(th[q], p) THEN th[q].late \cup (Facts(table') \ Facts(table))
                    ELSE th[q].late
  PROVE  JobIsSound(q, new, table')
<1>1. JobIsSound(q, th[q], table) /\ table \in Tables
  BY DEF LInv
<1>2. new.held \subseteq Tables
  BY <1>1 DEF JobIsSound
<1>3. ASSUME NEW data, Keeps(th[q], data, table), th[q].at \in {"read", "loaded"}
      PROVE  Keeps(new, data, table')
  <2>1. Unaware(th[q], p)
    BY <1>3 DEF Unaware
  <2> QED BY <1>3, <2>1 DEF Keeps, SameWork
<1>4. Arguments(th[q]) => Arguments(new)
  BY DEF Arguments, SameWork
<1> QED BY <1>1, <1>2, <1>3, <1>4 DEF JobIsSound, SameWork

\* The job of the thread that writes.
LEMMA WritingIs ==
  ASSUME NEW job, IsJob(job)
  PROVE  /\ IsJob(Writing(job)) /\ Writing(job).at = "sync" /\ Writing(job).held = {}
         /\ Writing(job).op = job.op /\ Writing(job).title = job.title
         /\ Writing(job).season = job.season /\ Writing(job).url = job.url
         /\ Writing(job).asked = job.asked /\ Writing(job).late = job.late
BY DEF Writing, IsJob

\* A job that may write.
Prepared(p, job) ==
  /\ IsJob(job)
  /\ p \in Automation \/ job.op = "add" => Arguments(job)

\* A new list is put in the place of the table (Table.replace).
LEMMA SoundSwap ==
  ASSUME IInv, LInv, NEW p \in Threads, NEW new \in Tables, NEW job, Prepared(p, job),
         Swap(p, new, job), Keeps(job, new, table), LockKept(p, "sync"), ~Pending(p),
         UNCHANGED <<disk, lkg>>
  PROVE  LInv' /\ Lossless
<1> DEFINE going == Go(p, Writing(job))
           seen  == Noticed(going, p, table')
<1>1. /\ IsJob(Writing(job)) /\ Writing(job).at = "sync" /\ Writing(job).held = {}
      /\ Writing(job).op = job.op /\ Writing(job).title = job.title
      /\ Writing(job).season = job.season /\ Writing(job).url = job.url
      /\ Writing(job).asked = job.asked /\ Writing(job).late = job.late
  BY WritingIs DEF Prepared
<1>2. /\ going = [q \in Threads |-> going[q]]
      /\ going[p] = Writing(job)
      /\ \A q \in Threads \ {p} : going[q] = th[q]
      /\ \A q \in Threads : IsJob(going[q])
  BY <1>1 DEF Go, IInv, Typed
<1>3. th' = Detached(seen, p) /\ table' = SortedByTitle(new)
  BY DEF Swap
<1>4. table' \in Tables /\ Facts(table') = Facts(new)
  BY <1>3, SortedByTitleIs
<1> HIDE DEF going
<1>5. /\ seen = [q \in Threads |-> seen[q]]
      /\ \A q \in Threads : /\ IsJob(seen[q])
                            /\ seen[q].held = going[q].held
                            /\ SameWork(seen[q], going[q])
                            /\ seen[q].late = IF q # p /\ Unaware(going[q], p)
                                 THEN going[q].late \cup (Facts(table') \ Facts(table))
                                 ELSE going[q].late
  <2>0. \A q \in Threads : IsJob(going[q])
    BY <1>2
  <2>1. seen = [q \in Threads |-> seen[q]]
    BY <1>2, NoticedIs
  <2>2. ASSUME NEW q \in Threads PROVE IsJob(seen[q]) /\ seen[q].held = going[q].held
    BY <1>2, <2>0, NoticedIs
  <2>3. ASSUME NEW q \in Threads
        PROVE  /\ SameWork(seen[q], going[q])
               /\ seen[q].late = IF q # p /\ Unaware(going[q], p)
                                   THEN going[q].late \cup (Facts(table') \ Facts(table))
                                   ELSE going[q].late
    BY <1>2, <2>0, LateIs
  <2> HIDE DEF seen
  <2> QED BY <2>1, <2>2, <2>3
<1> HIDE DEF seen
<1>6. ASSUME NEW q \in Threads
      PROVE  /\ SameWork(th'[q], seen[q]) /\ th'[q].late = seen[q].late
             /\ th'[q].held =
                  IF q # p /\ Pending(q) /\ th[q].held = {} THEN {table} ELSE seen[q].held
  <2>1. /\ SameWork(Detached(seen, p)[q], seen[q])
        /\ Detached(seen, p)[q].late = seen[q].late
        /\ Detached(seen, p)[q].held =
             IF q # p /\ Pending(q) /\ th[q].held = {} THEN {table} ELSE seen[q].held
    BY <1>5, DetachedIs, DetachedWorks
  <2> QED BY <1>3, <2>1, Zenon
<1>7. /\ SameWork(th'[p], Writing(job)) /\ th'[p].held = {} /\ th'[p].late = job.late
  <2>1. SameWork(th'[p], seen[p]) /\ th'[p].late = seen[p].late /\ th'[p].held = seen[p].held
    BY <1>6
  <2>2. SameWork(seen[p], Writing(job)) /\ seen[p].late = job.late /\ seen[p].held = {}
    BY <1>1, <1>2, <1>5
  <2> QED BY <2>1, <2>2, SameWorkTwice
<1>8. JobIsSound(p, th'[p], table')
  <2>1. Arguments(job) => Arguments(th'[p])
    BY <1>1, <1>7 DEF Arguments, SameWork
  <2> QED BY <1>1, <1>7, <2>1 DEF JobIsSound, SameWork, Prepared
<1>9. ASSUME NEW q \in Threads \ {p} PROVE JobIsSound(q, th'[q], table')
  <2>1. going[q] = th[q]
    BY <1>2
  <2>2. SameWork(th'[q], th[q]) /\ th'[q].held \in {th[q].held, {table}}
    <3>1. SameWork(th'[q], seen[q]) /\ th'[q].held \in {seen[q].held, {table}}
      BY <1>6
    <3>2. SameWork(seen[q], th[q]) /\ seen[q].held = th[q].held
      BY <1>5, <2>1
    <3> QED BY <3>1, <3>2, SameWorkTwice
  <2>3. th'[q].late = IF Unaware(th[q], p) THEN th[q].late \cup (Facts(table') \ Facts(table))
                      ELSE th[q].late
    BY <1>5, <1>6, <2>1
  <2>4. th[q].at = "loaded" => p = "form"
    <3>1. th[q].at = "loaded" => q # "form"
      BY DEF LInv, JobIsSound
    <3>2. th[q].at = "loaded" => lock = q
      BY <3>1 DEF IInv, WriterHoldsLock, Locked
    <3> QED BY <3>2 DEF LockKept, Threads, Automation, None, Locked, Writes
  <2> QED BY <2>2, <2>3, <2>4, StillSound
<1>10. LInv'
  BY <1>4, <1>8, <1>9 DEF LInv
<1>11. Facts(table) \ Facts(table') \subseteq th'[p].asked \cup th'[p].late
  BY <1>1, <1>4, <1>7 DEF Keeps, SameWork
<1>12. Lossless
  <2>1. ASSUME NEW q \in Threads \ {p} PROVE th'[q].at = th[q].at
    <3>1. th'[q].at = seen[q].at
      BY <1>6 DEF SameWork
    <3>2. seen[q].at = going[q].at
      BY <1>5 DEF SameWork
    <3> QED BY <1>2, <3>1, <3>2
  <2> QED BY <1>11, <2>1 DEF Lossless
<1> QED BY <1>10, <1>12

\* The form changes the list in place (Table.py).
LEMMA SoundChange ==
  ASSUME IInv, LInv, NEW new \in Tables, NEW job, Prepared("form", job),
         Change("form", new, job), Keeps(job, new, table), UNCHANGED <<disk, lkg>>
  PROVE  LInv' /\ Lossless
<1> DEFINE p == "form"
           going == Go(p, Writing(job))
<1>0. p \in Threads
  BY DEF Threads
<1> HIDE DEF p
<1>1. /\ IsJob(Writing(job)) /\ Writing(job).at = "sync" /\ Writing(job).held = {}
      /\ Writing(job).op = job.op /\ Writing(job).title = job.title
      /\ Writing(job).season = job.season /\ Writing(job).url = job.url
      /\ Writing(job).asked = job.asked /\ Writing(job).late = job.late
  BY WritingIs DEF Prepared
<1>2. /\ going = [q \in Threads |-> going[q]]
      /\ going[p] = Writing(job)
      /\ \A q \in Threads \ {p} : going[q] = th[q]
      /\ \A q \in Threads : IsJob(going[q])
  BY <1>0, <1>1 DEF Go, IInv, Typed
<1>3. th' = Noticed(going, p, table') /\ table' = new
  BY DEF Change, p
<1> HIDE DEF going
<1>5. ASSUME NEW q \in Threads
      PROVE  /\ th'[q].held = going[q].held
             /\ SameWork(th'[q], going[q])
             /\ th'[q].late = IF q # p /\ Unaware(going[q], p)
                                 THEN going[q].late \cup (Facts(table') \ Facts(table))
                                 ELSE going[q].late
  <2>1. /\ Noticed(going, p, table')[q].held = going[q].held
        /\ SameWork(Noticed(going, p, table')[q], going[q])
        /\ Noticed(going, p, table')[q].late = IF q # p /\ Unaware(going[q], p)
                                 THEN going[q].late \cup (Facts(table') \ Facts(table))
                                 ELSE going[q].late
    <3>0. \A r \in Threads : IsJob(going[r])
      BY <1>2
    <3>1. Noticed(going, p, table')[q].held = going[q].held
      BY <1>0, <1>2, <3>0, NoticedIs
    <3>2. /\ SameWork(Noticed(going, p, table')[q], going[q])
          /\ Noticed(going, p, table')[q].late = IF q # p /\ Unaware(going[q], p)
                                 THEN going[q].late \cup (Facts(table') \ Facts(table))
                                 ELSE going[q].late
      BY <1>0, <1>2, <3>0, LateIs
    <3> QED BY <3>1, <3>2
  <2> QED BY <1>3, <2>1, Zenon
<1>7. /\ SameWork(th'[p], Writing(job)) /\ th'[p].held = {} /\ th'[p].late = job.late
  BY <1>0, <1>1, <1>2, <1>5
<1>8. JobIsSound(p, th'[p], table')
  <2>1. Arguments(job) => Arguments(th'[p])
    BY <1>1, <1>7 DEF Arguments, SameWork
  <2> QED BY <1>1, <1>7, <2>1 DEF JobIsSound, SameWork, Prepared, p
<1>9. ASSUME NEW q \in Threads \ {p} PROVE JobIsSound(q, th'[q], table')
  <2>1. going[q] = th[q]
    BY <1>2
  <2>2. SameWork(th'[q], th[q]) /\ th'[q].held \in {th[q].held, {table}}
    BY <1>5, <2>1
  <2>3. th'[q].late = IF Unaware(th[q], p) THEN th[q].late \cup (Facts(table') \ Facts(table))
                      ELSE th[q].late
    BY <1>5, <2>1
  <2> QED BY <1>0, <2>2, <2>3, StillSound DEF p
<1>10. LInv'
  BY <1>3, <1>8, <1>9 DEF LInv
<1>11. Facts(table) \ Facts(table') \subseteq th'[p].asked \cup th'[p].late
  BY <1>1, <1>3, <1>7 DEF Keeps, SameWork
<1>12. Lossless
  <2>1. \A q \in Threads \ {p} : th'[q].at = th[q].at
    BY <1>2, <1>5 DEF SameWork
  <2> QED BY <1>11, <2>1 DEF Lossless
<1> QED BY <1>10, <1>12

\* A thread with nothing to do.
LEMMA IdleIsSound ==
  ASSUME NEW p \in Threads, NEW current
  PROVE  JobIsSound(p, Idle, current) /\ IsJob(Idle) /\ Idle.at = "idle"
BY DEF JobIsSound, Idle, IsJob, None

\* A thread that goes on to a point where it holds no copy of the table.
LEMMA MovedIsSound ==
  ASSUME NEW p \in Threads, NEW job, IsJob(job), NEW current, JobIsSound(p, job, current),
         NEW point \in Points \ {"loaded", "read"},
         p \in Automation => job.at # "idle", point = "append" => job.op = "add"
  PROVE  /\ JobIsSound(p, [job EXCEPT !.at = point], current)
         /\ [job EXCEPT !.at = point].at = point
<1> DEFINE new == [job EXCEPT !.at = point]
<1>1. /\ new.at = point /\ new.op = job.op /\ new.title = job.title
      /\ new.season = job.season /\ new.url = job.url /\ new.held = job.held
  BY DEF IsJob
<1> HIDE DEF new
<1>2. JobIsSound(p, new, current)
  BY <1>1 DEF JobIsSound, Arguments
<1> QED BY <1>1, <1>2 DEF new

\* The list is written to the file.
LEMMA SoundPublishMain ==
  ASSUME IInv, LInv, NEW p \in Threads, PublishMain(p)
  PROVE  LInv' /\ Lossless
<1> DEFINE job == [th[p] EXCEPT !.at = "main"]
<1>1. IsJob(th[p]) /\ th[p].at = "sync" /\ JobIsSound(p, th[p], table) /\ Typed
  BY DEF PublishMain, IInv, Typed, LInv
<1>2. JobIsSound(p, job, table) /\ job.at = "main"
  BY <1>1, MovedIsSound DEF Points
<1>3. th' = [th EXCEPT ![p] = job]
  BY DEF PublishMain, Goto
<1> HIDE DEF job
<1>4. table' = table /\ disk' \in Tables /\ lkg' \in Tables
  BY ListIsTable DEF PublishMain, LInv
<1> QED BY <1>1, <1>2, <1>3, <1>4, SoundStep

\* The list is written to the copy of the file.
LEMMA SoundPublishLkg ==
  ASSUME IInv, LInv, NEW p \in Threads, PublishLkg(p)
  PROVE  LInv' /\ Lossless
<1> DEFINE job == AfterWriting(p)
<1>1. IsJob(th[p]) /\ th[p].at = "main" /\ JobIsSound(p, th[p], table) /\ Typed
  BY DEF PublishLkg, IInv, Typed, LInv
<1>2. JobIsSound(p, job, table) /\ job.at # "sync"
  <2>1. CASE th[p].op \in {"save", "import", "delete", "extension"}
    <3>1. job = [th[p] EXCEPT !.at = "flags"]
      BY <2>1 DEF AfterWriting
    <3>2. /\ JobIsSound(p, [th[p] EXCEPT !.at = "flags"], table)
          /\ [th[p] EXCEPT !.at = "flags"].at = "flags"
      BY <1>1, MovedIsSound DEF Points
    <3> QED BY <3>1, <3>2
  <2>2. CASE th[p].op = "add"
    <3>1. job = [th[p] EXCEPT !.at = "append"]
      BY <2>2 DEF AfterWriting
    <3>2. /\ JobIsSound(p, [th[p] EXCEPT !.at = "append"], table)
          /\ [th[p] EXCEPT !.at = "append"].at = "append"
      BY <1>1, <2>2, MovedIsSound DEF Points
    <3> QED BY <3>1, <3>2
  <2>3. CASE th[p].op \notin {"save", "import", "delete", "extension", "add"}
    <3>1. job = Idle
      BY <2>3 DEF AfterWriting
    <3> QED BY <3>1, IdleIsSound
  <2> QED BY <2>1, <2>2, <2>3
<1>3. th' = [th EXCEPT ![p] = job]
  BY DEF PublishLkg, Go
<1> HIDE DEF job
<1>4. table' = table /\ disk' \in Tables /\ lkg' \in Tables
  BY ListIsTable DEF PublishLkg, LInv
<1> QED BY <1>1, <1>2, <1>3, <1>4, SoundStep

\* A write fails.
LEMMA SoundWriteFails ==
  ASSUME IInv, LInv, NEW p \in Threads, WriteFails(p)
  PROVE  LInv' /\ Lossless
<1>1. JobIsSound(p, Idle, table) /\ Idle.at # "sync"
  BY IdleIsSound
<1>2. /\ th' = [th EXCEPT ![p] = Idle] /\ table' = table
      /\ disk' \in Tables /\ lkg' \in Tables
  BY DEF WriteFails, LInv
<1> QED BY <1>1, <1>2, SoundStep DEF IInv

\* Nothing is written, and one thread goes on.
LEMMA Unwritten ==
  ASSUME IInv, LInv, NEW p \in Threads, NEW job, th' = [th EXCEPT ![p] = job],
         JobIsSound(p, job, table), job.at # "sync", UNCHANGED <<table, stored>>
  PROVE  LInv' /\ Lossless
BY SoundStep DEF IInv, LInv, stored

\* The scan's and the parse's automation (mapping_automation.py).
LEMMA SoundAutomate ==
  ASSUME IInv, LInv, NEW p \in Automation, Automate(p)
  PROVE  LInv' /\ Lossless
<1>0. /\ p \in Threads /\ p # "form" /\ IsJob(th[p]) /\ JobIsSound(p, th[p], table)
      /\ table \in Tables
  BY DEF IInv, Typed, LInv, Threads, Automation
<1>i. JobIsSound(p, Idle, table) /\ Idle.at # "sync"
  BY <1>0, IdleIsSound
<1>1. ASSUME NEW want \in Wanted, NEW url \in FoundUrls, NEW op \in {"sure", "unsure"},
             NEW option, NEW force, Search(p, want[1], want[2], url, op, option, force)
      PROVE  LInv' /\ Lossless
  <2> DEFINE job == Found(p, want[1], want[2], url, op, option)
  <2>1. /\ job.at = "found" /\ job.op = op /\ job.title = want[1] /\ job.season = want[2]
        /\ job.url = url /\ job.held = {}
    BY DEF Found, Idle
  <2>2. th' = [th EXCEPT ![p] = job]
    BY <1>1 DEF Search, Go
  <2> HIDE DEF job
  <2>3. JobIsSound(p, job, table)
    BY <1>0, <2>1, InputsAre DEF JobIsSound, Arguments
  <2>4. UNCHANGED <<table, stored>>
    BY <1>1 DEF Search
  <2> QED BY <1>0, <2>1, <2>2, <2>3, <2>4, Unwritten
<1>2. ASSUME NEW enabled, HandleSearchResult(p, enabled) PROVE LInv' /\ Lossless
  <2>1. PICK point \in {"eligible", "draft"} : th' = [th EXCEPT ![p] = [th[p] EXCEPT !.at = point]]
    BY <1>2 DEF HandleSearchResult, Goto
  <2>2. th[p].at = "found" /\ UNCHANGED <<table, stored>>
    BY <1>2 DEF HandleSearchResult
  <2>3. /\ JobIsSound(p, [th[p] EXCEPT !.at = point], table)
        /\ [th[p] EXCEPT !.at = point].at = point
    BY <1>0, <2>2, MovedIsSound DEF Points
  <2> DEFINE job == [th[p] EXCEPT !.at = point]
  <2> HIDE DEF job
  <2> QED BY <1>0, <2>1, <2>2, <2>3, Unwritten DEF job
<1>3. CASE Dropped(p)
  BY <1>0, <1>i, <1>3, Unwritten DEF Dropped
<1>4. CASE AddReviewDraft(p)
  BY <1>0, <1>i, <1>4, Unwritten DEF AddReviewDraft
<1>5. ASSUME NEW enabled, CheckAgain(p, enabled) PROVE LInv' /\ Lossless
  <2>0. th[p].at = "eligible" /\ UNCHANGED <<table, stored>>
    BY <1>5 DEF CheckAgain
  <2>1. CASE th' = [th EXCEPT ![p] = [th[p] EXCEPT !.at = "cleared"]]
    <3>1. /\ JobIsSound(p, [th[p] EXCEPT !.at = "cleared"], table)
          /\ [th[p] EXCEPT !.at = "cleared"].at = "cleared"
      BY <1>0, <2>0, MovedIsSound DEF Points
    <3> DEFINE job == [th[p] EXCEPT !.at = "cleared"]
    <3> HIDE DEF job
    <3> QED BY <1>0, <2>0, <2>1, <3>1, Unwritten DEF job
  <2>2. CASE th' = [th EXCEPT ![p] = Idle]
    BY <1>0, <1>i, <2>0, <2>2, Unwritten
  <2>3. th' = IF enabled /\ ~Conflict(p) THEN [th EXCEPT ![p].at = "cleared"]
              ELSE [th EXCEPT ![p] = Idle]
    BY <1>5 DEF CheckAgain, Goto
  <2> QED BY <2>1, <2>2, <2>3
<1>6. CASE ReadTable(p)
  <2>0. th[p].at = "cleared" /\ UNCHANGED <<table, stored>>
    BY <1>6 DEF ReadTable
  <2>1. CASE th' = [th EXCEPT ![p] = Idle]
    BY <1>0, <1>i, <2>0, <2>1, Unwritten
  <2>2. CASE th' = Go(p, Loaded(p))
    <3> DEFINE data == Amended(table, th[p].title, th[p].season, th[p].url)
               job == Loaded(p)
    <3>1. Arguments(th[p])
      BY <1>0, <2>0 DEF JobIsSound
    <3>2. data \in Tables /\ Facts(table) \subseteq Facts(data)
      BY <1>0, <3>1, AmendedIs DEF Extends, Arguments
    <3> HIDE DEF data
    <3>3. /\ job.at = "loaded" /\ job.op = th[p].op /\ job.title = th[p].title
          /\ job.season = th[p].season /\ job.url = th[p].url /\ job.held = th[p].held
          /\ job.data = data
      BY <1>0 DEF Loaded, IsJob, data
    <3>4. th' = [th EXCEPT ![p] = job]
      BY <2>2 DEF Go
    <3> HIDE DEF job
    <3>5. JobIsSound(p, job, table)
      BY <1>0, <3>1, <3>2, <3>3 DEF JobIsSound, Arguments, Keeps
    <3> QED BY <1>0, <2>0, <3>3, <3>4, <3>5, Unwritten
  <2> QED BY <1>6, <2>1, <2>2 DEF ReadTable
<1> QED BY <1>1, <1>2, <1>3, <1>4, <1>5, <1>6 DEF Automate

\* A thread that holds the lock writes the list it made of the table.
LEMMA SoundReplace ==
  ASSUME IInv, LInv, NEW p \in Automation \cup {"page"}, ReplaceTable(p)
  PROVE  LInv' /\ Lossless
<1> DEFINE job == [th[p] EXCEPT !.data = <<>>]
<1>1. /\ p \in Threads /\ p # "form" /\ IsJob(th[p]) /\ JobIsSound(p, th[p], table)
      /\ th[p].at = "loaded"
  BY DEF IInv, Typed, LInv, Threads, Automation, ReplaceTable
<1>2. /\ IsJob(job) /\ job.op = th[p].op /\ job.title = th[p].title
      /\ job.season = th[p].season /\ job.url = th[p].url
      /\ job.asked = th[p].asked /\ job.late = th[p].late
  BY <1>1 DEF IsJob
<1>3. lock = p /\ LockKept(p, "sync") /\ ~Pending(p)
  BY <1>1 DEF IInv, WriterHoldsLock, Locked, LockKept, ReplaceTable, Pending
<1>4. Swap(p, th[p].data, job) /\ UNCHANGED <<disk, lkg>>
  BY DEF ReplaceTable, stored
<1> HIDE DEF job
<1>5. Prepared(p, job)
  BY <1>1, <1>2 DEF Prepared, JobIsSound, Arguments
<1>6. th[p].data \in Tables /\ Keeps(job, th[p].data, table)
  BY <1>1, <1>2 DEF JobIsSound, Keeps
<1> QED BY <1>1, <1>3, <1>4, <1>5, <1>6, SoundSwap

\* A request of the page, computed from the table of the moment.
LEMMA RequestIsSound ==
  ASSUME IInv, LInv, NEW op \in {"save", "import", "delete", "clear"}, NEW sheet \in Sheets,
         NEW asked, NEW drafts, NEW title, Requested(op, sheet, asked, drafts, title),
         Facts(table) \ Facts(TableFromRows(sheet)) \subseteq asked
  PROVE  LInv' /\ Lossless
<1> DEFINE job == [Idle EXCEPT !.at = "read", !.op = op, !.sheet = sheet,
                               !.asked = asked, !.drafts = drafts, !.title = title]
<1>1. /\ job.at = "read" /\ job.op = op /\ job.sheet = sheet /\ job.asked = asked
      /\ job.late = {} /\ job.held = {}
  BY DEF Idle
<1>2. th' = [th EXCEPT !["page"] = job] /\ UNCHANGED <<table, stored>>
  BY DEF Requested, Go
<1> HIDE DEF job
<1>3. JobIsSound("page", job, table)
  BY <1>1 DEF JobIsSound, Keeps, Automation
<1>4. "page" \in Threads
  BY DEF Threads
<1> QED BY <1>1, <1>2, <1>3, <1>4, Unwritten

\* The three requests that read the page (frontend_OLD/api.py).
LEMMA SoundRequests ==
  ASSUME IInv, LInv, SavePage \/ ImportApply \/ BulkAction
  PROVE  LInv' /\ Lossless
<1>0. table \in Tables
  BY DEF LInv
<1>1. CASE SavePage
  <2>1. PICK sheet \in Edited(Rows), drafts \in {preferences.drafts, {}} :
          /\ Accepted(sheet)
          /\ Requested("save", sheet, FactsOf(Rows) \ FactsOf(sheet), drafts, 0)
    BY <1>1 DEF SavePage
  <2>2. Rows \in Sheets /\ Facts(table) \subseteq FactsOf(Rows)
    BY <1>0, FlattenTableIs, NothingFlattenedAway DEF Rows, FactsOf
  <2> DEFINE rows == Rows
  <2> HIDE DEF rows
  <2>3. \A other \in Edited(rows) : other \in Sheets
    BY <2>2, EditedIs DEF Edited, rows
  <2>4. sheet \in Sheets
    BY <2>1, <2>3 DEF rows
  <2>5. Facts(table) \ Facts(TableFromRows(sheet)) \subseteq FactsOf(Rows) \ FactsOf(sheet)
    BY <2>2 DEF FactsOf
  <2> QED BY <2>1, <2>4, <2>5, RequestIsSound
<1>2. CASE ImportApply
  <2>0. PICK file \in Files : \E mode \in {"add_only", "update", "overwrite"}, sort \in BOOLEAN :
          LET incoming == IF sort THEN SortPartUrlsInRows(file) ELSE file
          IN  Requested("import", ReconcileImportRows(Rows, incoming, mode),
                        Replaced(incoming, mode), {}, 0)
    BY <1>2 DEF ImportApply
  <2>1. PICK mode \in {"add_only", "update", "overwrite"}, sort \in BOOLEAN :
          LET incoming == IF sort THEN SortPartUrlsInRows(file) ELSE file
          IN  Requested("import", ReconcileImportRows(Rows, incoming, mode),
                        Replaced(incoming, mode), {}, 0)
    BY <2>0
  <2> DEFINE incoming == IF sort THEN SortPartUrlsInRows(file) ELSE file
             sheet == ReconcileImportRows(FlattenTable(table, preferences), incoming, mode)
  <2>2. incoming \in Sheets
    <3>1. file \in Sheets /\ SortPartUrlsInRows(file) \in Sheets
      BY InputsAre, SortedRowsAre
    <3> QED BY <3>1
  <2>3. Requested("import", sheet, Replaced(incoming, mode), {}, 0)
    BY <2>1 DEF Rows
  <2> HIDE DEF incoming
  <2>4. ASSUME NEW fact \in Facts(table)
        PROVE  /\ sheet \in Sheets
               /\ \/ mode = "overwrite"
                  \/ mode = "update" /\ \E i \in DOMAIN incoming :
                                           Concerns(incoming[i], fact[1], fact[2])
                  \/ fact \in Facts(TableFromRows(sheet))
    BY <1>0, <2>2, ImportKeeps
  <2>5. sheet \in Sheets
    BY <1>0, <2>2, ImportTyped
  <2> HIDE DEF sheet
  <2>6. Facts(table) \ Facts(TableFromRows(sheet)) \subseteq Replaced(incoming, mode)
    BY <2>4 DEF Replaced
  <2> QED BY <2>3, <2>5, <2>6, RequestIsSound
<1>3. CASE BulkAction
  <2>1. PICK i \in DOMAIN table, op \in {"delete", "clear"} :
          Requested(op, Chosen(Rows, DOMAIN Rows \ OfEntry(Rows, Known(i))),
                    Facts(<<table[i]>>), {}, table[i].title)
    BY <1>3 DEF BulkAction
  <2> DEFINE left == Chosen(Rows, DOMAIN Rows \ OfEntry(Rows, Known(i)))
  <2>2. left \in Sheets /\ Facts(table) \ Facts(TableFromRows(left)) \subseteq Facts(<<table[i]>>)
    BY <1>0, OneEntryLess DEF Rows
  <2>3. Requested(op, left, Facts(<<table[i]>>), {}, table[i].title)
    BY <2>1
  <2> HIDE DEF left
  <2> QED BY <2>2, <2>3, RequestIsSound
<1> QED BY <1>1, <1>2, <1>3

\* The page takes the lock and writes, or writes only its preferences.
LEMMA SoundApply ==
  ASSUME IInv, LInv, ApplyRequest \/ ApplyFlags \/ EditDrafts
  PROVE  LInv' /\ Lossless
<1>0. /\ "page" \in Threads /\ IsJob(th["page"]) /\ JobIsSound("page", th["page"], table)
      /\ "page" \notin Automation
  BY DEF IInv, Typed, LInv, Threads, Automation
<1>1. CASE ApplyRequest
  <2>0. th["page"].at = "read" /\ lock = None /\ lock' = "page" /\ UNCHANGED stored
    BY <1>1 DEF ApplyRequest
  <2>1. CASE th' = Goto("page", "flags") /\ UNCHANGED <<table, crossed>>
    <3> DEFINE job == [th["page"] EXCEPT !.at = "flags"]
    <3>1. th' = [th EXCEPT !["page"] = job]
      BY <2>1 DEF Goto
    <3>2. JobIsSound("page", job, table) /\ job.at = "flags"
      BY <1>0, MovedIsSound DEF Points
    <3> HIDE DEF job
    <3> QED BY <1>0, <2>0, <2>1, <3>1, <3>2, Unwritten
  <2>2. CASE Swap("page", TableFromRows(th["page"].sheet), th["page"])
    <3> DEFINE new == TableFromRows(th["page"].sheet)
    <3>1. new \in Tables /\ Keeps(th["page"], new, table)
      BY <1>0, <2>0, TableFromRowsIs DEF JobIsSound
    <3>2. Prepared("page", th["page"])
      BY <1>0 DEF Prepared, JobIsSound
    <3>3. LockKept("page", "sync") /\ ~Pending("page") /\ UNCHANGED <<disk, lkg>>
      BY <2>0 DEF LockKept, Pending, stored
    <3> HIDE DEF new
    <3> QED BY <1>0, <2>2, <3>1, <3>2, <3>3, SoundSwap DEF new
  <2> QED BY <1>1, <2>1, <2>2 DEF ApplyRequest
<1>2. CASE ApplyFlags
  <2>1. th' = [th EXCEPT !["page"] = Idle] /\ UNCHANGED <<table, stored>>
    BY <1>2 DEF ApplyFlags
  <2>2. JobIsSound("page", Idle, table) /\ Idle.at # "sync"
    BY <1>0, IdleIsSound
  <2> QED BY <1>0, <2>1, <2>2, Unwritten
<1>3. CASE EditDrafts
  <2>1. UNCHANGED <<table, th, disk, lkg>>
    BY <1>3 DEF EditDrafts, stored
  <2> QED BY <2>1 DEF LInv, Lossless
<1> QED BY <1>1, <1>2, <1>3

\* The extension's request: it reads and writes under the lock.
LEMMA SoundExtension ==
  ASSUME IInv, LInv, NEW title \in Titles, NEW season \in 0 .. Absolute, NEW url \in Urls,
         NEW mode, NEW confirmed, NEW clear,
         ExtensionSave(title, season, url, mode, confirmed, clear)
  PROVE  LInv' /\ Lossless
<1> DEFINE i       == FindEntry(table, title)
           entry   == IF i = 0 THEN Entry(title, FALSE, <<>>) ELSE table[i]
           urls    == SeasonOf(entry, season)
           known   == \E n \in DOMAIN urls : Norm[urls[n]] = Norm[url]
           after   == IF mode = "replace_season" THEN <<url>>
                      ELSE IF known THEN urls ELSE SortPartUrls(Append(urls, url))
           amended == [entry EXCEPT !.seasons = With(entry.seasons, season, after)]
           point   == IF after = urls THEN "flags" ELSE "loaded"
           data    == IF i = 0 THEN Append(table, amended) ELSE [table EXCEPT ![i] = amended]
           asked   == IF mode = "replace_season"
                        THEN {<<Key[title], season, Norm[u]>> : u \in Range(urls)} ELSE {}
           job     == [Idle EXCEPT !.at = point, !.op = "extension", !.title = entry.title,
                                   !.option = clear, !.data = data, !.asked = asked]
<1>0. table \in Tables
  BY DEF LInv
<1>1. th' = [th EXCEPT !["page"] = job] /\ UNCHANGED <<table, stored>>
  BY DEF ExtensionSave, Go, SeasonOf
<1>2. /\ job.at = point /\ job.op = "extension" /\ job.held = {} /\ job.late = {}
      /\ job.data = data /\ job.asked = asked
  BY DEF Idle
<1>3. point \in {"flags", "loaded"}
  OBVIOUS
<1> HIDE DEF job, point
<1>4. entry \in Entries /\ Key[entry.title] = Key[title]
  <2>1. CASE i = 0
    <3>1. entry = Entry(title, FALSE, <<>>)
      BY <2>1
    <3> HIDE DEF entry
    <3>2. /\ Entry(title, FALSE, <<>>) \in Entries
          /\ Entry(title, FALSE, <<>>).title = title
      BY NoSeasonsIs, EntryIs
    <3> QED BY <3>1, <3>2
  <2>2. CASE i # 0
    <3>1. i \in DOMAIN table /\ Key[table[i].title] = Key[title] /\ entry = table[i]
      BY <1>0, <2>2, FindEntryIs
    <3> HIDE DEF entry, i
    <3> QED BY <1>0, <3>1, EntryAt
  <2> QED BY <2>1, <2>2
<1>5. /\ data = IF i = 0 THEN Append(table, amended) ELSE [table EXCEPT ![i] = amended]
      /\ i # 0 => i \in DOMAIN table /\ entry = table[i]
  BY <1>0, FindEntryIs
<1> HIDE DEF data, i, entry
<1>6. urls \in Seq(Urls)
  BY <1>4, SeasonOfIs
<1> HIDE DEF urls
<1>7. after \in Seq(Urls) /\ (mode # "replace_season" => Range(urls) \subseteq Range(after))
  <2>1. <<url>> \in Seq(Urls)
    OBVIOUS
  <2>2. Append(urls, url) \in Seq(Urls) /\ Range(urls) \subseteq Range(Append(urls, url))
    <3>1. /\ Append(urls, url) \in Seq(Urls) /\ DOMAIN urls \subseteq DOMAIN Append(urls, url)
          /\ \A n \in DOMAIN urls : Append(urls, url)[n] = urls[n]
      BY <1>6
    <3> QED BY <3>1 DEF Range
  <2> DEFINE longer == Append(urls, url)
  <2> HIDE DEF longer
  <2>3. /\ SortPartUrls(longer) \in Seq(Urls)
        /\ Range(SortPartUrls(longer)) = Range(longer)
    BY <2>2, SortPartUrlsIs DEF longer
  <2>4. after = IF mode = "replace_season" THEN <<url>>
                ELSE IF known THEN urls ELSE SortPartUrls(longer)
    BY DEF longer
  <2> HIDE DEF after, known
  <2> QED BY <1>6, <2>1, <2>2, <2>3, <2>4 DEF longer
<1> HIDE DEF after
<1>8. /\ amended \in Entries
      /\ \A fact : Serves(entry, fact) /\ ~Serves(amended, fact)
            => /\ fact \in {<<Key[entry.title], season, Norm[u]>> : u \in Range(urls)}
               /\ ~(Range(urls) \subseteq Range(after))
  BY <1>4, <1>7, EntryWithSeason DEF urls
<1> HIDE DEF amended
<1>9. data \in Tables
  BY <1>0, <1>5, <1>8, AppendedEntry, Replacing
<1>10. ASSUME NEW fact \in Facts(table), fact \notin Facts(data) PROVE fact \in asked
  <2>1. i # 0
    BY <1>0, <1>5, <1>8, <1>10, AppendedEntry
  <2>2. Serves(entry, fact) /\ ~Serves(amended, fact)
    <3>1. i \in DOMAIN table /\ entry = table[i] /\ data = [table EXCEPT ![i] = amended]
      BY <1>5, <2>1
    <3>2. \A lost \in Facts(table) \ Facts([table EXCEPT ![i] = amended]) :
            Serves(table[i], lost) /\ ~Serves(amended, lost)
      BY <1>0, <1>8, <3>1, Replacing
    <3> QED BY <1>10, <3>1, <3>2
  <2> QED BY <1>4, <1>7, <1>8, <2>2
<1> HIDE DEF asked
<1>11. JobIsSound("page", job, table)
  BY <1>2, <1>3, <1>9, <1>10 DEF JobIsSound, Keeps, Automation
<1> QED BY <1>1, <1>2, <1>3, <1>11, Unwritten DEF Threads

\* The page.
LEMMA SoundPage ==
  ASSUME IInv, LInv, Page
  PROVE  LInv' /\ Lossless
<1>1. ASSUME NEW want \in Wanted, NEW url \in FoundUrls,
             NEW mode \in {"add_url", "replace_season"},
             NEW confirmed \in BOOLEAN, NEW clear \in BOOLEAN,
             ExtensionSave(want[1], want[2], url, mode, confirmed, clear)
      PROVE  LInv' /\ Lossless
  <2>1. want[1] \in Titles /\ want[2] \in 0 .. Absolute /\ url \in Urls
    BY InputsAre
  <2> QED BY <1>1, <2>1, SoundExtension
<1> QED BY <1>1, SoundRequests, SoundApply DEF Page

\* The old form: it reads and writes in one step.
LEMMA SoundForm ==
  ASSUME IInv, LInv, Form
  PROVE  LInv' /\ Lossless
<1>0. /\ "form" \in Threads /\ JobIsSound("form", th["form"], table) /\ table \in Tables
      /\ "form" \notin Automation
  BY DEF LInv, Threads, Automation
<1>1. ASSUME NEW new \in Tables, FormChange(new) PROVE LInv' /\ Lossless
  <2> DEFINE job == [Idle EXCEPT !.op = "edit", !.asked = Facts(table) \ Facts(new)]
  <2>1. IsJob(job) /\ job.op = "edit" /\ job.asked = Facts(table) \ Facts(new)
    BY DEF Idle, IsJob
  <2>2. Change("form", new, job) /\ UNCHANGED <<disk, lkg>>
    BY <1>1 DEF FormChange, stored
  <2> HIDE DEF job
  <2>3. Prepared("form", job) /\ Keeps(job, new, table)
    BY <1>0, <2>1 DEF Prepared, Keeps
  <2> QED BY <2>2, <2>3, SoundChange
<1>2. ASSUME NEW title \in Titles, NEW season \in 0 .. Absolute, NEW url \in Urls,
             FormAdd(title, season, url)
      PROVE  LInv' /\ Lossless
  <2> DEFINE job == [Idle EXCEPT !.op = "add", !.title = title, !.season = season, !.url = url]
             next == [job EXCEPT !.at = "append"]
             new == AppendSerie(table, title, season = Absolute)
  <2>1. /\ IsJob(job) /\ job.op = "add" /\ Arguments(job)
        /\ next.at = "append" /\ Arguments(next) /\ next.held = {}
    BY DEF Idle, IsJob, Arguments
  <2>2. \/ th' = [th EXCEPT !["form"] = next] /\ UNCHANGED table
        \/ Change("form", new, job)
    BY <1>2 DEF FormAdd, Go
  <2>3. UNCHANGED stored
    BY <1>2 DEF FormAdd
  <2> HIDE DEF job, next
  <2>4. new \in Tables /\ Facts(table) \subseteq Facts(new)
    BY <1>0, AppendSerieIs DEF Extends
  <2> HIDE DEF new
  <2>5. CASE th' = [th EXCEPT !["form"] = next] /\ UNCHANGED table
    <3>1. JobIsSound("form", next, table)
      BY <1>0, <2>1 DEF JobIsSound
    <3> QED BY <1>0, <2>1, <2>3, <2>5, <3>1, Unwritten
  <2>6. CASE Change("form", new, job)
    <3>1. Prepared("form", job) /\ Keeps(job, new, table)
      BY <2>1, <2>4 DEF Prepared, Keeps
    <3> QED BY <2>3, <2>4, <2>6, <3>1, SoundChange DEF stored
  <2> QED BY <2>2, <2>5, <2>6
<1>3. CASE FormAppend
  <2> DEFINE job == [Idle EXCEPT !.op = "append"]
             p == th["form"]
             new == AppendUrls(table, p.title, p.season, <<p.url>>)
  <2>1. IsJob(job) /\ job.op = "append"
    BY DEF Idle, IsJob
  <2>2. /\ \/ th' = [th EXCEPT !["form"] = Idle] /\ UNCHANGED table
           \/ Change("form", new, job)
        /\ UNCHANGED stored /\ p.at = "append"
    BY <1>3 DEF FormAppend
  <2>3. Arguments(p)
    BY <1>0, <2>2 DEF JobIsSound
  <2> HIDE DEF job, p
  <2>4. new \in Tables /\ Facts(table) \subseteq Facts(new)
    <3>1. <<p.url>> \in Seq(Urls)
      BY <2>3 DEF Arguments
    <3> QED BY <1>0, <2>3, <3>1, AppendUrlsIs DEF Extends, Arguments
  <2> HIDE DEF new
  <2>5. CASE th' = [th EXCEPT !["form"] = Idle] /\ UNCHANGED table
    <3>1. JobIsSound("form", Idle, table) /\ Idle.at # "sync"
      BY <1>0, IdleIsSound
    <3> QED BY <1>0, <2>2, <2>5, <3>1, Unwritten
  <2>6. CASE Change("form", new, job)
    <3>1. Prepared("form", job) /\ Keeps(job, new, table)
      BY <1>0, <2>1, <2>4 DEF Prepared, Keeps
    <3> QED BY <2>2, <2>4, <2>6, <3>1, SoundChange DEF stored
  <2> QED BY <2>2, <2>5, <2>6
<1>4. CASE FormUpload
  <2> DEFINE job == [Idle EXCEPT !.op = "upload", !.asked = Facts(table)]
  <2>1. IsJob(job) /\ job.op = "upload" /\ job.asked = Facts(table)
    BY DEF Idle, IsJob
  <2>3. PICK data \in Uploads : Swap("form", data, job)
    BY <1>4 DEF FormUpload
  <2>4. th["form"].at = "idle" /\ UNCHANGED <<disk, lkg, lock>>
    BY <1>4 DEF FormUpload, stored
  <2> HIDE DEF job
  <2>5. Prepared("form", job) /\ data \in Tables /\ Keeps(job, data, table)
    BY <1>0, <2>1, InputsAre DEF Prepared, Keeps
  <2>6. LockKept("form", "sync") /\ ~Pending("form")
    BY <2>4 DEF LockKept, Pending
  <2> QED BY <1>0, <2>3, <2>4, <2>5, <2>6, SoundSwap
<1>5. ASSUME NEW want \in Wanted, NEW url \in FormUrls, FormAdd(want[1], want[2], url)
      PROVE  LInv' /\ Lossless
  <2>1. want[1] \in Titles /\ want[2] \in 0 .. Absolute /\ url \in Urls
    BY InputsAre
  <2> QED BY <1>2, <1>5, <2>1
<1>6. ASSUME NEW slot \in Slots,
             LET title  == slot[1]
                 season == slot[2]
             IN  \/ FormChange(RemoveSerie(table, title))
                 \/ FormChange(RemoveSeason(table, title, season))
                 \/ \E url \in FormUrls \cup FoundUrls :
                      \/ FormChange(RemoveUrl(table, title, season, url))
                      \/ \E new \in FormUrls :
                           FormChange(RenameUrl(table, title, season, url, new))
                 \/ \E want \in Wanted :
                      \/ FormChange(RenameSerie(table, title, want[1]))
                      \/ FormChange(RenameSeason(table, title, season, want[2]))
                      \/ FormChange(AppendSeason(table, want[1], want[2]))
      PROVE  \E new \in Tables : FormChange(new)
  <2> DEFINE title  == slot[1]
             season == slot[2]
  <2> HIDE DEF title, season
  <2>1. /\ RemoveSerie(table, title) \in Tables /\ RemoveSeason(table, title, season) \in Tables
        /\ \A url : RemoveUrl(table, title, season, url) \in Tables
    BY <1>0, RemovalsAre
  <2>2. ASSUME NEW want \in Wanted
        PROVE  /\ RenameSerie(table, title, want[1]) \in Tables
               /\ RenameSeason(table, title, season, want[2]) \in Tables
               /\ AppendSeason(table, want[1], want[2]) \in Tables
    <3>1. want[1] \in Titles /\ want[2] \in 0 .. Absolute
      BY InputsAre
    <3> QED BY <1>0, <3>1, RenamingsAre, AppendSeasonIs DEF Extends
  <2>3. ASSUME NEW url, NEW new \in FormUrls
        PROVE  RenameUrl(table, title, season, url, new) \in Tables
    BY <1>0, InputsAre, RenamedUrlIs
  <2> QED BY <1>6, <2>1, <2>2, <2>3 DEF title, season
<1> QED BY <1>1, <1>3, <1>4, <1>5, <1>6 DEF Form

\* The process dies and starts again from the file or its copy.
LEMMA SoundCrash ==
  ASSUME LInv, NEW damaged, Crash(damaged)
  PROVE  LInv' /\ Lossless
<1>1. /\ th' = [p \in Threads |-> Idle] /\ lkg' = lkg /\ disk' = table'
      /\ table' \in {disk, lkg}
  BY DEF Crash
<1>2. \A p \in Threads : JobIsSound(p, th'[p], table') /\ th'[p].at = "idle"
  BY <1>1, IdleIsSound
<1> QED BY <1>1, <1>2 DEF LInv, Lossless

\* At the start nobody has read anything.
LEMMA SoundFromTheStart == Init => LInv
<1> SUFFICES ASSUME Init PROVE LInv
  OBVIOUS
<1>1. table \in Tables /\ disk = table /\ lkg = table
  BY InputsAre DEF Init
<1>2. \A p \in Threads : JobIsSound(p, th[p], table)
  BY IdleIsSound DEF Init
<1> QED BY <1>1, <1>2 DEF LInv

\* Every step keeps the invariant and loses nothing unasked.
LEMMA EveryStepIsSound ==
  ASSUME IInv, LInv, Next
  PROVE  LInv' /\ Lossless
<1>1. ASSUME NEW p \in Threads, PublishMain(p) \/ PublishLkg(p) \/ WriteFails(p)
      PROVE  LInv' /\ Lossless
  BY <1>1, SoundPublishMain, SoundPublishLkg, SoundWriteFails
<1>2. ASSUME NEW p \in Automation, Automate(p) PROVE LInv' /\ Lossless
  BY <1>2, SoundAutomate
<1>3. ASSUME NEW p \in Automation \cup {"page"}, ReplaceTable(p) PROVE LInv' /\ Lossless
  BY <1>3, SoundReplace
<1>4. ASSUME NEW damaged \in BOOLEAN, Crash(damaged) PROVE LInv' /\ Lossless
  BY <1>4, SoundCrash
<1> QED BY <1>1, <1>2, <1>3, <1>4, SoundPage, SoundForm DEF Next

\* What a write makes disappear from the table is what its thread was asked to
\* take away or what came after it read: the automation, an import that only
\* adds and a page saved unchanged lose no URL, and the threads that take the
\* lock lose none of each other's, whatever the table, the sheets, the files
\* and the URLs (mapping_automation.py, save_high_confidence; mapping.py,
\* reconcile_import_rows and rows_to_table; frontend_OLD/api.py; Table.py).
THEOREM NothingIsLost == Spec => NothingLostUnasked
<1>1. IInv /\ LInv /\ [Next]_vars => LInv'
  <2>1. LInv /\ UNCHANGED vars => LInv'
    BY DEF LInv, vars
  <2> QED BY <2>1, EveryStepIsSound
<1>2. IInv /\ LInv /\ [Next]_vars =>
        [\A p \in Threads :
           (th'[p].at = "sync" /\ th[p].at # "sync") =>
             Facts(table) \ Facts(table') \subseteq th'[p].asked \cup th'[p].late]_vars
  BY EveryStepIsSound DEF Lossless
<1> QED BY Initially, Preserved, SoundFromTheStart, <1>1, <1>2, PTL DEF Spec, NothingLostUnasked

(***************************************************************************)
(* Everything written stays neat.                                          *)
(***************************************************************************)
\* What a thread waits with can be read back too, when it will be written.
TidyJob(job) ==
  /\ \A list \in job.held : Neat(list)
  /\ job.at = "loaded" => Unrepeated(job.data)

\* The third invariant: everything that is or will be written can be read back.
NInv ==
  /\ Neat(table) /\ Neat(disk) /\ Neat(lkg)
  /\ \A p \in Threads : TidyJob(th[p])

\* The list a writer writes is one of them.
LEMMA ListIsNeat ==
  ASSUME NInv, NEW p \in Threads
  PROVE  Neat(ListOf(p))
BY DEF NInv, TidyJob, ListOf

\* One thread goes on, and the table stays.
LEMMA NeatStep ==
  ASSUME NInv, Typed, NEW p \in Threads, NEW job, th' = [th EXCEPT ![p] = job],
         TidyJob(job), table' = table, Neat(disk'), Neat(lkg')
  PROVE  NInv'
<1>1. th'[p] = job /\ \A q \in Threads \ {p} : th'[q] = th[q]
  BY DEF Typed
<1>2. \A q \in Threads : TidyJob(th'[q])
  BY <1>1 DEF NInv
<1> QED BY <1>2 DEF NInv

\* One thread goes on, and nothing is written.
LEMMA NeatUnwritten ==
  ASSUME NInv, Typed, NEW p \in Threads, NEW job, th' = [th EXCEPT ![p] = job],
         TidyJob(job), UNCHANGED <<table, stored>>
  PROVE  NInv'
BY NeatStep DEF NInv, stored

\* A thread with nothing to do.
LEMMA IdleIsTidy == TidyJob(Idle) /\ IsJob(Idle)
BY DEF TidyJob, Idle, IsJob

\* A thread that only moves on.
LEMMA MovedIsTidy ==
  ASSUME NEW job, IsJob(job), TidyJob(job), NEW point, point # "loaded"
  PROVE  TidyJob([job EXCEPT !.at = point])
<1> DEFINE new == [job EXCEPT !.at = point]
<1>1. new.at = point /\ new.held = job.held
  BY DEF IsJob
<1> HIDE DEF new
<1>2. TidyJob(new)
  BY <1>1 DEF TidyJob
<1> QED BY <1>2 DEF new

\* What a write leaves the other threads with.
LEMMA OthersWork ==
  ASSUME Typed, NEW p \in Threads, NEW new, NEW job, IsJob(job),
         Swap(p, new, job) \/ Change(p, new, job)
  PROVE  /\ th'[p].at = "sync" /\ th'[p].held = {}
         /\ \A q \in Threads \ {p} : /\ SameWork(th'[q], th[q])
                                     /\ th'[q].held \in {th[q].held, {table}}
<1> DEFINE going == Go(p, Writing(job))
           seen  == Noticed(going, p, table')
<1>1. IsJob(Writing(job)) /\ Writing(job).at = "sync" /\ Writing(job).held = {}
  BY WritingIs
<1>2. /\ going = [q \in Threads |-> going[q]]
      /\ going[p] = Writing(job)
      /\ \A q \in Threads \ {p} : going[q] = th[q]
      /\ \A q \in Threads : IsJob(going[q])
  BY <1>1 DEF Go, Typed
<1>3. th' = Detached(seen, p) \/ th' = seen
  BY DEF Swap, Change
<1> HIDE DEF going
<1>4. seen = [q \in Threads |-> seen[q]]
  BY <1>2, NoticedIs
<1>5. ASSUME NEW q \in Threads
      PROVE  IsJob(seen[q]) /\ seen[q].held = going[q].held /\ SameWork(seen[q], going[q])
  <2>0. \A r \in Threads : IsJob(going[r])
    BY <1>2
  <2>1. IsJob(seen[q]) /\ seen[q].held = going[q].held
    BY <1>2, <2>0, NoticedIs
  <2>2. SameWork(seen[q], going[q])
    BY <1>2, <2>0, LateIs
  <2> QED BY <2>1, <2>2
<1> HIDE DEF seen
<1>6. ASSUME NEW q \in Threads
      PROVE  /\ SameWork(th'[q], seen[q])
             /\ th'[q].held = seen[q].held \/ (q # p /\ th'[q].held = {table})
  <2>1. CASE th' = seen
    BY <2>1, Zenon DEF SameWork
  <2>2. CASE th' = Detached(seen, p)
    <3>0. \A r \in Threads : IsJob(seen[r])
      BY <1>5
    <3>1. /\ SameWork(Detached(seen, p)[q], seen[q])
          /\ Detached(seen, p)[q].held =
               IF q # p /\ Pending(q) /\ th[q].held = {} THEN {table} ELSE seen[q].held
      BY <1>4, <3>0, DetachedIs, DetachedWorks
    <3>2. \/ Detached(seen, p)[q].held = seen[q].held
          \/ q # p /\ Detached(seen, p)[q].held = {table}
      BY <3>1
    <3> QED BY <2>2, <3>1, <3>2, Zenon
  <2> QED BY <1>3, <2>1, <2>2
<1>7. th'[p].at = "sync" /\ th'[p].held = {}
  BY <1>1, <1>2, <1>5, <1>6 DEF SameWork
<1>8. ASSUME NEW q \in Threads \ {p}
      PROVE  SameWork(th'[q], th[q]) /\ th'[q].held \in {th[q].held, {table}}
  <2>1. going[q] = th[q]
    BY <1>2
  <2>2. SameWork(th'[q], seen[q]) /\ th'[q].held \in {seen[q].held, {table}}
    BY <1>6
  <2>3. SameWork(seen[q], th[q]) /\ seen[q].held = th[q].held
    BY <1>5, <2>1
  <2> QED BY <2>2, <2>3, SameWorkTwice
<1> QED BY <1>7, <1>8

\* A write of the table, sorted (a swap) or in order already (a change).
LEMMA NeatWrite ==
  ASSUME NInv, Typed, NEW p \in Threads, NEW new, NEW job, IsJob(job),
         \/ Swap(p, new, job) /\ new \in Tables /\ Unrepeated(new)
         \/ Change(p, new, job) /\ Neat(new),
         UNCHANGED <<disk, lkg>>
  PROVE  NInv'
<1>1. /\ th'[p].at = "sync" /\ th'[p].held = {}
      /\ \A q \in Threads \ {p} : /\ SameWork(th'[q], th[q])
                                  /\ th'[q].held \in {th[q].held, {table}}
  BY OthersWork
<1>2. Neat(table')
  <2>1. CASE Swap(p, new, job) /\ new \in Tables /\ Unrepeated(new)
    BY <2>1, SortingNeat DEF Swap
  <2>2. CASE Change(p, new, job) /\ Neat(new)
    BY <2>2 DEF Change
  <2> QED BY <2>1, <2>2
<1>3. TidyJob(th'[p])
  BY <1>1 DEF TidyJob
<1>4. ASSUME NEW q \in Threads \ {p} PROVE TidyJob(th'[q])
  <2>1. /\ th'[q].at = th[q].at /\ th'[q].data = th[q].data
        /\ th'[q].held \in {th[q].held, {table}}
    BY <1>1 DEF SameWork
  <2>2. TidyJob(th[q]) /\ Neat(table)
    BY DEF NInv
  <2> QED BY <2>1, <2>2 DEF TidyJob
<1> QED BY <1>2, <1>3, <1>4 DEF NInv

\* What the program is given from outside: neither the file it starts with nor
\* one uploaded by hand (api.py) is looked at for a URL given twice in a season.
\* From inputs that have none the program makes none, and what it writes is sorted.
TidyInputs ==
  /\ \A data \in StartTables : Neat(data)
  /\ \A data \in Uploads : Unrepeated(data)

\* Writing the file and its copy, and failing to.
LEMMA NeatPublish ==
  ASSUME IInv, NInv, NEW p \in Threads, PublishMain(p) \/ PublishLkg(p) \/ WriteFails(p)
  PROVE  NInv'
<1>0. Typed /\ IsJob(th[p]) /\ TidyJob(th[p])
  BY DEF IInv, Typed, NInv
<1>1. CASE PublishMain(p)
  <2> DEFINE job == [th[p] EXCEPT !.at = "main"]
  <2>1. th' = [th EXCEPT ![p] = job]
    BY <1>1 DEF PublishMain, Goto
  <2>2. TidyJob(job)
    BY <1>0, MovedIsTidy
  <2>3. table' = table /\ Neat(disk') /\ Neat(lkg')
    BY <1>1, ListIsNeat DEF PublishMain, NInv
  <2> HIDE DEF job
  <2> QED BY <1>0, <2>1, <2>2, <2>3, NeatStep
<1>2. CASE PublishLkg(p)
  <2> DEFINE job == AfterWriting(p)
  <2>1. th' = [th EXCEPT ![p] = job]
    BY <1>2 DEF PublishLkg, Go
  <2>2. \/ job = [th[p] EXCEPT !.at = "flags"]
        \/ job = [th[p] EXCEPT !.at = "append"]
        \/ job = Idle
    BY DEF AfterWriting
  <2> HIDE DEF job
  <2>3. TidyJob(job)
    <3>1. TidyJob([th[p] EXCEPT !.at = "flags"]) /\ TidyJob([th[p] EXCEPT !.at = "append"])
      BY <1>0, MovedIsTidy
    <3> QED BY <2>2, <3>1, IdleIsTidy
  <2>4. table' = table /\ Neat(disk') /\ Neat(lkg')
    BY <1>2, ListIsNeat DEF PublishLkg, NInv
  <2> QED BY <1>0, <2>1, <2>3, <2>4, NeatStep
<1>3. CASE WriteFails(p)
  <2>1. /\ th' = [th EXCEPT ![p] = Idle] /\ table' = table
        /\ Neat(disk') /\ Neat(lkg')
    BY <1>3 DEF WriteFails, NInv
  <2> QED BY <1>0, <2>1, IdleIsTidy, NeatStep
<1> QED BY <1>1, <1>2, <1>3

\* The steps of the automation.
LEMMA NeatAutomate ==
  ASSUME IInv, LInv, NInv, NEW p \in Automation, Automate(p)
  PROVE  NInv'
<1>0. /\ p \in Threads /\ Typed /\ IsJob(th[p]) /\ TidyJob(th[p]) /\ JobIsSound(p, th[p], table)
      /\ table \in Tables /\ Neat(table)
  BY DEF IInv, Typed, LInv, NInv, Threads
<1>1. ASSUME NEW title, NEW season, NEW url, NEW op, NEW option, NEW force,
             Search(p, title, season, url, op, option, force)
      PROVE  NInv'
  <2> DEFINE job == Found(p, title, season, url, op, option)
  <2>1. TidyJob(job)
    BY DEF Found, Idle, TidyJob
  <2>2. th' = [th EXCEPT ![p] = job] /\ UNCHANGED <<table, stored>>
    BY <1>1 DEF Search, Go
  <2> HIDE DEF job
  <2> QED BY <1>0, <2>1, <2>2, NeatUnwritten
<1>2. ASSUME NEW point \in {"eligible", "draft", "cleared"},
             th' = [th EXCEPT ![p] = [th[p] EXCEPT !.at = point]], UNCHANGED <<table, stored>>
      PROVE  NInv'
  <2> DEFINE job == [th[p] EXCEPT !.at = point]
  <2>1. TidyJob(job)
    BY <1>0, MovedIsTidy
  <2>2. th' = [th EXCEPT ![p] = job]
    BY <1>2
  <2> HIDE DEF job
  <2> QED BY <1>0, <1>2, <2>1, <2>2, NeatUnwritten
<1>3. ASSUME th' = [th EXCEPT ![p] = Idle], UNCHANGED <<table, stored>> PROVE NInv'
  BY <1>0, <1>3, IdleIsTidy, NeatUnwritten
<1>4. ASSUME NEW enabled, HandleSearchResult(p, enabled) PROVE NInv'
  <2>1. /\ UNCHANGED <<table, stored>>
        /\ \/ th' = [th EXCEPT ![p] = [th[p] EXCEPT !.at = "eligible"]]
           \/ th' = [th EXCEPT ![p] = [th[p] EXCEPT !.at = "draft"]]
    BY <1>4 DEF HandleSearchResult, Goto
  <2> QED BY <1>2, <2>1
<1>5. ASSUME NEW enabled, CheckAgain(p, enabled) PROVE NInv'
  <2>1. /\ UNCHANGED <<table, stored>>
        /\ \/ th' = [th EXCEPT ![p] = [th[p] EXCEPT !.at = "cleared"]]
           \/ th' = [th EXCEPT ![p] = Idle]
    BY <1>5 DEF CheckAgain, Goto
  <2> QED BY <1>2, <1>3, <2>1
<1>6. CASE Dropped(p) \/ AddReviewDraft(p)
  <2>1. th' = [th EXCEPT ![p] = Idle] /\ UNCHANGED <<table, stored>>
    BY <1>6 DEF Dropped, AddReviewDraft
  <2> QED BY <1>3, <2>1
<1>7. CASE ReadTable(p)
  <2>0. th[p].at = "cleared" /\ UNCHANGED <<table, stored>>
    BY <1>7 DEF ReadTable
  <2>1. CASE th' = [th EXCEPT ![p] = Idle]
    BY <1>3, <2>0, <2>1
  <2>2. CASE /\ ~Refused(table, th[p].title, th[p].season, th[p].url)
             /\ th' = Go(p, Loaded(p))
    <3> DEFINE data == Amended(table, th[p].title, th[p].season, th[p].url)
               job == Loaded(p)
    <3>1. Arguments(th[p])
      BY <1>0, <2>0 DEF JobIsSound
    <3>2. Unrepeated(data)
      BY <1>0, <2>2, <3>1, AmendedUnrepeated DEF Arguments, Neat
    <3> HIDE DEF data
    <3>3. job.held = th[p].held /\ job.data = data
      BY <1>0 DEF Loaded, IsJob, data
    <3>4. th' = [th EXCEPT ![p] = job]
      BY <2>2 DEF Go
    <3> HIDE DEF job
    <3>5. TidyJob(job)
      BY <1>0, <3>2, <3>3 DEF TidyJob
    <3> QED BY <1>0, <2>0, <3>4, <3>5, NeatUnwritten
  <2> QED BY <1>7, <2>1, <2>2 DEF ReadTable
<1> QED BY <1>1, <1>4, <1>5, <1>6, <1>7 DEF Automate

\* Putting what was made of the table in its place.
LEMMA NeatReplace ==
  ASSUME IInv, LInv, NInv, NEW p \in Automation \cup {"page"}, ReplaceTable(p)
  PROVE  NInv'
<1> DEFINE job == [th[p] EXCEPT !.data = <<>>]
<1>1. p \in Threads /\ Typed /\ IsJob(th[p]) /\ TidyJob(th[p]) /\ JobIsSound(p, th[p], table)
  BY DEF IInv, Typed, LInv, NInv, Threads, Automation
<1>2. IsJob(job)
  BY <1>1 DEF IsJob
<1>3. th[p].data \in Tables /\ Unrepeated(th[p].data)
  BY <1>1 DEF ReplaceTable, TidyJob, JobIsSound
<1>4. Swap(p, th[p].data, job) /\ UNCHANGED <<disk, lkg>>
  BY DEF ReplaceTable, stored
<1> HIDE DEF job
<1> QED BY <1>1, <1>2, <1>3, <1>4, NeatWrite

\* What the browser extension saves.
LEMMA NeatExtension ==
  ASSUME IInv, LInv, NInv, NEW title \in Titles, NEW season \in 0 .. Absolute, NEW url \in Urls,
         NEW mode, NEW confirmed, NEW clear,
         ExtensionSave(title, season, url, mode, confirmed, clear)
  PROVE  NInv'
<1> DEFINE i       == FindEntry(table, title)
           entry   == IF i = 0 THEN Entry(title, FALSE, <<>>) ELSE table[i]
           urls    == SeasonOf(entry, season)
           known   == \E n \in DOMAIN urls : Norm[urls[n]] = Norm[url]
           after   == IF mode = "replace_season" THEN <<url>>
                      ELSE IF known THEN urls ELSE SortPartUrls(Append(urls, url))
           amended == [entry EXCEPT !.seasons = With(entry.seasons, season, after)]
           point   == IF after = urls THEN "flags" ELSE "loaded"
           data    == IF i = 0 THEN Append(table, amended) ELSE [table EXCEPT ![i] = amended]
           asked   == IF mode = "replace_season"
                        THEN {<<Key[title], season, Norm[u]>> : u \in Range(urls)} ELSE {}
           job     == [Idle EXCEPT !.at = point, !.op = "extension", !.title = entry.title,
                                   !.option = clear, !.data = data, !.asked = asked]
<1>0. table \in Tables /\ Unrepeated(table) /\ Typed /\ "page" \in Threads
  BY DEF LInv, NInv, Neat, IInv, Threads
<1>1. th' = [th EXCEPT !["page"] = job] /\ UNCHANGED <<table, stored>>
  BY DEF ExtensionSave, Go, SeasonOf
<1>2. job.held = {} /\ job.data = data
  BY DEF Idle
<1> HIDE DEF job, point
<1>3. entry \in Entries /\ Single(entry.seasons)
  <2>1. CASE i = 0
    <3>0. Entry(title, FALSE, <<>>) \in Entries
      BY NoSeasonsIs, EntryIs
    <3>1. Entry(title, FALSE, <<>>) \in Entries /\ Entry(title, FALSE, <<>>).seasons = <<>>
      BY <3>0 DEF Entry
    <3>2. entry = Entry(title, FALSE, <<>>)
      BY <2>1
    <3> HIDE DEF entry, i
    <3> QED BY <3>1, <3>2, NoneSingle
  <2>2. CASE i # 0
    <3>1. i \in DOMAIN table /\ entry = table[i]
      BY <1>0, <2>2, FindEntryIs
    <3> HIDE DEF entry, i
    <3> QED BY <1>0, <3>1, EntryAt, SingleAt
  <2> QED BY <2>1, <2>2
<1>4. data = IF i = 0 THEN Append(table, amended) ELSE [table EXCEPT ![i] = amended]
  OBVIOUS
<1> HIDE DEF data, i, entry
<1>5. urls \in Seq(Urls) /\ IsInjective(urls)
  BY <1>3, SeasonOfIs, SeasonOnce
<1> HIDE DEF urls
<1>6. after \in Seq(Urls) /\ IsInjective(after)
  <2> DEFINE longer == Append(urls, url)
             single == <<url>>
  <2>1. single \in Seq(Urls) /\ IsInjective(single)
    BY ShortOnce
  <2>2. ~known => url \notin Range(urls)
    BY <1>5 DEF Range
  <2>3. ~known => longer \in Seq(Urls) /\ IsInjective(longer)
    BY <1>5, <2>2, AppendedOnce
  <2>4. after = IF mode = "replace_season" THEN single
                ELSE IF known THEN urls ELSE SortPartUrls(longer)
    OBVIOUS
  <2> HIDE DEF longer, single, after, known
  <2>5. ~known => SortPartUrls(longer) \in Seq(Urls) /\ IsInjective(SortPartUrls(longer))
    BY <2>3, SortPartUrlsIs
  <2> QED BY <1>5, <2>1, <2>4, <2>5
<1> HIDE DEF after
<1>7. amended \in Entries /\ Single(amended.seasons)
  BY <1>3, <1>6, AmendedEntry
<1> HIDE DEF amended
<1>8. Unrepeated(data)
  BY <1>0, <1>4, <1>7, MoreUnrepeated, PutUnrepeated
<1>9. TidyJob(job)
  BY <1>2, <1>8 DEF TidyJob
<1> QED BY <1>0, <1>1, <1>9, NeatUnwritten

\* The requests of the page.
LEMMA NeatPage ==
  ASSUME IInv, LInv, NInv, Page
  PROVE  NInv'
<1>0. /\ "page" \in Threads /\ Typed /\ IsJob(th["page"]) /\ TidyJob(th["page"])
      /\ JobIsSound("page", th["page"], table)
  BY DEF IInv, Typed, LInv, NInv, Threads, Automation
<1>1. ASSUME NEW op, NEW sheet, NEW asked, NEW drafts, NEW title,
             Requested(op, sheet, asked, drafts, title)
      PROVE  NInv'
  <2> DEFINE job == [Idle EXCEPT !.at = "read", !.op = op, !.sheet = sheet,
                                 !.asked = asked, !.drafts = drafts, !.title = title]
  <2>1. TidyJob(job)
    BY DEF Idle, TidyJob
  <2>2. th' = [th EXCEPT !["page"] = job] /\ UNCHANGED <<table, stored>>
    BY <1>1 DEF Requested, Go
  <2> HIDE DEF job
  <2> QED BY <1>0, <2>1, <2>2, NeatUnwritten
<1>2. CASE SavePage \/ ImportApply \/ BulkAction
  BY <1>1, <1>2 DEF SavePage, ImportApply, BulkAction
<1>3. CASE ApplyRequest
  <2>0. th["page"].at = "read" /\ UNCHANGED stored
    BY <1>3 DEF ApplyRequest
  <2>1. CASE th' = Goto("page", "flags") /\ UNCHANGED <<table, crossed>>
    <3> DEFINE job == [th["page"] EXCEPT !.at = "flags"]
    <3>1. th' = [th EXCEPT !["page"] = job]
      BY <2>1 DEF Goto
    <3>2. TidyJob(job)
      BY <1>0, MovedIsTidy
    <3> HIDE DEF job
    <3> QED BY <1>0, <2>0, <2>1, <3>1, <3>2, NeatUnwritten
  <2>2. CASE Swap("page", TableFromRows(th["page"].sheet), th["page"])
    <3>1. TableFromRows(th["page"].sheet) \in Tables /\ Unrepeated(TableFromRows(th["page"].sheet))
      BY <1>0, <2>0, TableFromRowsIs, ReadNeat DEF JobIsSound, Neat
    <3> QED BY <1>0, <2>0, <2>2, <3>1, NeatWrite DEF stored
  <2> QED BY <1>3, <2>1, <2>2 DEF ApplyRequest
<1>4. CASE ApplyFlags
  <2>1. th' = [th EXCEPT !["page"] = Idle] /\ UNCHANGED <<table, stored>>
    BY <1>4 DEF ApplyFlags
  <2> QED BY <1>0, <2>1, IdleIsTidy, NeatUnwritten
<1>5. CASE EditDrafts
  <2>1. UNCHANGED <<table, th, disk, lkg>>
    BY <1>5 DEF EditDrafts, stored
  <2> QED BY <2>1 DEF NInv
<1>6. ASSUME NEW want \in Wanted, NEW url \in FoundUrls,
             NEW mode \in {"add_url", "replace_season"},
             NEW confirmed \in BOOLEAN, NEW clear \in BOOLEAN,
             ExtensionSave(want[1], want[2], url, mode, confirmed, clear)
      PROVE  NInv'
  <2>1. want[1] \in Titles /\ want[2] \in 0 .. Absolute /\ url \in Urls
    BY InputsAre
  <2> QED BY <1>6, <2>1, NeatExtension
<1> QED BY <1>2, <1>3, <1>4, <1>5, <1>6 DEF Page

\* The requests of the old form.
LEMMA NeatForm ==
  ASSUME IInv, LInv, NInv, TidyInputs, Form
  PROVE  NInv'
<1>0. /\ "form" \in Threads /\ Typed /\ JobIsSound("form", th["form"], table)
      /\ table \in Tables /\ Neat(table)
  BY DEF IInv, LInv, NInv, Threads
<1>1. ASSUME NEW new, Neat(new), FormChange(new) PROVE NInv'
  <2> DEFINE job == [Idle EXCEPT !.op = "edit", !.asked = Facts(table) \ Facts(new)]
  <2>1. IsJob(job)
    BY DEF Idle, IsJob
  <2>2. Change("form", new, job) /\ UNCHANGED <<disk, lkg>>
    BY <1>1 DEF FormChange, stored
  <2> HIDE DEF job
  <2> QED BY <1>0, <1>1, <2>1, <2>2, NeatWrite
<1>2. ASSUME NEW want \in Wanted, NEW url \in FormUrls, FormAdd(want[1], want[2], url)
      PROVE  NInv'
  <2> DEFINE job == [Idle EXCEPT !.op = "add", !.title = want[1], !.season = want[2], !.url = url]
             next == [job EXCEPT !.at = "append"]
             new == AppendSerie(table, want[1], want[2] = Absolute)
  <2>1. IsJob(job) /\ TidyJob(next)
    BY DEF Idle, IsJob, TidyJob
  <2>2. /\ \/ th' = [th EXCEPT !["form"] = next] /\ UNCHANGED table
           \/ Change("form", new, job)
        /\ UNCHANGED stored
    BY <1>2 DEF FormAdd, Go
  <2>3. Neat(new)
    BY <1>0, InputsAre, AppendSerieNeat
  <2> HIDE DEF job, next, new
  <2>4. CASE th' = [th EXCEPT !["form"] = next] /\ UNCHANGED table
    BY <1>0, <2>1, <2>2, <2>4, NeatUnwritten
  <2>5. CASE Change("form", new, job)
    BY <1>0, <2>1, <2>2, <2>3, <2>5, NeatWrite DEF stored
  <2> QED BY <2>2, <2>4, <2>5
<1>3. CASE FormAppend
  <2> DEFINE job == [Idle EXCEPT !.op = "append"]
             p == th["form"]
             new == AppendUrls(table, p.title, p.season, <<p.url>>)
  <2>1. IsJob(job)
    BY DEF Idle, IsJob
  <2>2. /\ \/ th' = [th EXCEPT !["form"] = Idle] /\ UNCHANGED table
           \/ Change("form", new, job)
        /\ UNCHANGED stored /\ p.at = "append"
    BY <1>3 DEF FormAppend
  <2>3. Arguments(p)
    BY <1>0, <2>2 DEF JobIsSound
  <2> HIDE DEF job, p
  <2>4. Neat(new)
    BY <1>0, <2>3, AppendUrlNeat DEF Arguments
  <2> HIDE DEF new
  <2>5. CASE th' = [th EXCEPT !["form"] = Idle] /\ UNCHANGED table
    BY <1>0, <2>2, <2>5, IdleIsTidy, NeatUnwritten
  <2>6. CASE Change("form", new, job)
    BY <1>0, <2>1, <2>2, <2>4, <2>6, NeatWrite DEF stored
  <2> QED BY <2>2, <2>5, <2>6
<1>4. CASE FormUpload
  <2> DEFINE job == [Idle EXCEPT !.op = "upload", !.asked = Facts(table)]
  <2>1. IsJob(job)
    BY DEF Idle, IsJob
  <2>2. PICK data \in Uploads : Swap("form", data, job)
    BY <1>4 DEF FormUpload
  <2>3. UNCHANGED <<disk, lkg>>
    BY <1>4 DEF FormUpload, stored
  <2> HIDE DEF job
  <2>4. data \in Tables /\ Unrepeated(data)
    BY InputsAre DEF TidyInputs
  <2> QED BY <1>0, <2>1, <2>2, <2>3, <2>4, NeatWrite
<1>5. ASSUME NEW slot \in Slots,
             LET title  == slot[1]
                 season == slot[2]
             IN  \/ FormChange(RemoveSerie(table, title))
                 \/ FormChange(RemoveSeason(table, title, season))
                 \/ \E url \in FormUrls \cup FoundUrls :
                      \/ FormChange(RemoveUrl(table, title, season, url))
                      \/ \E new \in FormUrls :
                           FormChange(RenameUrl(table, title, season, url, new))
                 \/ \E want \in Wanted :
                      \/ FormChange(RenameSerie(table, title, want[1]))
                      \/ FormChange(RenameSeason(table, title, season, want[2]))
                      \/ FormChange(AppendSeason(table, want[1], want[2]))
      PROVE  \E new : Neat(new) /\ FormChange(new)
  <2> DEFINE title  == slot[1]
             season == slot[2]
  <2> HIDE DEF title, season
  <2>1. /\ Neat(RemoveSerie(table, title)) /\ Neat(RemoveSeason(table, title, season))
        /\ \A url : Neat(RemoveUrl(table, title, season, url))
    BY <1>0, RemoveSerieNeat, RemovalsNeat
  <2>2. ASSUME NEW want \in Wanted
        PROVE  /\ Neat(RenameSerie(table, title, want[1]))
               /\ Neat(RenameSeason(table, title, season, want[2]))
               /\ Neat(AppendSeason(table, want[1], want[2]))
    <3>1. want[1] \in Titles /\ want[2] \in 0 .. Absolute
      BY InputsAre
    <3> QED BY <1>0, <3>1, RenamingsNeat, AppendSeasonNeat
  <2>3. ASSUME NEW url, NEW new \in FormUrls
        PROVE  Neat(RenameUrl(table, title, season, url, new))
    <3>1. new \in Urls
      BY InputsAre
    <3> QED BY <1>0, <3>1, RenamedUrlNeat
  <2> QED BY <1>5, <2>1, <2>2, <2>3 DEF title, season
<1> QED BY <1>1, <1>2, <1>3, <1>4, <1>5 DEF Form

\* A stop and a start.
LEMMA NeatCrash ==
  ASSUME NInv, NEW damaged, Crash(damaged)
  PROVE  NInv'
<1>1. /\ th' = [p \in Threads |-> Idle] /\ lkg' = lkg /\ disk' = table'
      /\ table' \in {disk, lkg}
  BY DEF Crash
<1>2. \A p \in Threads : TidyJob(th'[p])
  BY <1>1, IdleIsTidy
<1> QED BY <1>1, <1>2 DEF NInv

\* The table the program starts with.
LEMMA NeatFromTheStart ==
  ASSUME TidyInputs, Init
  PROVE  NInv
<1>1. table \in StartTables /\ disk = table /\ lkg = table
  BY DEF Init
<1>2. \A p \in Threads : TidyJob(th[p])
  BY IdleIsTidy DEF Init
<1> QED BY <1>1, <1>2 DEF NInv, TidyInputs

\* The invariant is kept by every step.
LEMMA EveryStepIsNeat ==
  ASSUME TidyInputs, IInv, LInv, NInv, [Next]_vars
  PROVE  NInv'
<1>0. CASE UNCHANGED vars
  BY <1>0 DEF NInv, vars
<1>1. ASSUME NEW p \in Threads, PublishMain(p) \/ PublishLkg(p) \/ WriteFails(p)
      PROVE  NInv'
  BY <1>1, NeatPublish
<1>2. ASSUME NEW p \in Automation, Automate(p) PROVE NInv'
  BY <1>2, NeatAutomate
<1>3. ASSUME NEW p \in Automation \cup {"page"}, ReplaceTable(p) PROVE NInv'
  BY <1>3, NeatReplace
<1>4. ASSUME NEW damaged \in BOOLEAN, Crash(damaged) PROVE NInv'
  BY <1>4, NeatCrash
<1> QED BY <1>0, <1>1, <1>2, <1>3, <1>4, NeatPage, NeatForm DEF Next

\* The page that is built from the table, sent back as it is and read again is
\* the table: opening the mappings and saving them changes nothing (flatten_table
\* and rows_to_table in mapping.py), for at most ten entries, which is how far the
\* ids of the rows are compared as numbers are.  A URL given twice in a season
\* would be read back once, so the theorem is about inputs that have none.
THEOREM PagesAreReadBack ==
  ASSUME TidyInputs
  PROVE  Spec => []PageRoundTrip
<1>1. Init => NInv
  BY NeatFromTheStart
<1>2. IInv /\ LInv /\ NInv /\ [Next]_vars => NInv'
  BY EveryStepIsNeat
<1>3. IInv /\ LInv /\ [Next]_vars => LInv'
  <2>1. LInv /\ UNCHANGED vars => LInv'
    BY DEF LInv, vars
  <2> QED BY <2>1, EveryStepIsSound
<1>4. LInv /\ NInv => PageRoundTrip
  BY ReadBack DEF LInv, NInv, Neat, PageRoundTrip
<1> QED BY Initially, Preserved, SoundFromTheStart, <1>1, <1>2, <1>3, <1>4, PTL DEF Spec

============================================================================
