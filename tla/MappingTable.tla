---------------------------- MODULE MappingTable ----------------------------
(***************************************************************************)
(* The threads that write the mapping table of the V3 backend: the scan    *)
(* and the parse job (mapping_automation.py), the mapping page and the     *)
(* browser extension (frontend_OLD/api.py), the old table form             *)
(* (/api/table, /ie/table, api/routes/Table.py), and the durable file      *)
(* under them (database/Database.py, atomic_json.py).                      *)
(*                                                                         *)
(* The automation and the mapping page share an RLock; the form takes no   *)
(* lock.  Some requests of the page read the table before they take the    *)
(* lock.  The table in memory is a list that is either changed in place    *)
(* (the form) or replaced by a new one (everybody else), and a writer that *)
(* waits for the file lock still holds the list it was called with.        *)
(***************************************************************************)
EXTENDS MappingRows

CONSTANTS
  Wanted,         \* <<title, season>> Sonarr asks for
  FoundUrls,      \* what the search and the extension offer
  FormUrls,       \* what is typed into the old form
  Files,          \* sheets that are imported
  Uploads,        \* tables that are uploaded whole
  StartTables,    \* tables the process starts with
  StartReviews,   \* series marked for review at the start
  MaxOps          \* bound: operations that are started, crashes left out

ASSUME MappingsAssumption ==
  /\ \A data \in StartTables \cup Uploads : IsTable(data)
  /\ Files \subseteq Seq(Groups)
  /\ Wanted \subseteq Titles \X (0 .. Absolute)
  /\ FoundUrls \cup FormUrls \subseteq Urls

Automation == {"scan", "parse"}
Threads == Automation \cup {"page", "form"}
None == "none"

VARIABLES
  table,          \* Table._data
  preferences,    \* MappingPreferences.data, synced at every change
  lock,           \* holder of MappingAutomation.lock
  th,             \* what each thread is doing
  disk, lkg,      \* the published file and its last-known-good copy
  fileLock,       \* holder of the file lock
  saved,          \* history: what the last completed write published
  crossed,        \* history: the form and another thread wrote two lists at a time
  failed,         \* history: a write failed since the last that both published
                  \* its generations and began after every failure
  ops             \* operations started so far

vars == <<table, preferences, lock, th, disk, lkg, fileLock, saved, crossed, failed, ops>>
stored == <<disk, lkg, fileLock, saved, failed>>

Idle ==
  [at |-> "idle", op |-> None, title |-> 0, season |-> 0, url |-> 0,
   option |-> FALSE, sheet |-> <<>>, data |-> <<>>, drafts |-> {},
   held |-> {}, asked |-> {}, late |-> {}]

Init ==
  /\ table \in StartTables
  /\ \E review \in StartReviews :
       preferences = [review |-> review, shared |-> {}, drafts |-> {}]
  /\ lock = None /\ fileLock = None
  /\ th = [p \in Threads |-> Idle]
  /\ disk = table /\ lkg = table /\ saved = {table}
  /\ crossed = FALSE
  /\ failed = "no"
  /\ ops = 0

(***************************************************************************)
(* Publication of the table.  A pending writer keeps the list it was given *)
(* in held once another list has taken its place.                          *)
(***************************************************************************)
Pending(p) == th[p].at \in {"sync", "main"}
ListOf(p) == IF th[p].held = {} THEN table ELSE CHOOSE list \in th[p].held : TRUE
Go(p, job) == [th EXCEPT ![p] = job]
Goto(p, point) == [th EXCEPT ![p].at = point]
Started == ops < MaxOps /\ ops' = ops + 1

\* What a change of thread p means for the others: who read the table before
\* it does not know what it added.
Noticed(threads, p, new) ==
  LET Unaware(q) == \/ threads[q].at = "read"
                    \/ threads[q].at = "loaded" /\ p = "form"
  IN  [q \in Threads |->
         IF q # p /\ Unaware(q)
           THEN [threads[q] EXCEPT !.late = @ \cup (Facts(new) \ Facts(table))]
           ELSE threads[q]]

Detached(threads, p) ==
  [q \in Threads |->
     IF q # p /\ Pending(q) /\ th[q].held = {}
       THEN [threads[q] EXCEPT !.held = {table}] ELSE threads[q]]

Writing(job) == [job EXCEPT !.at = "sync", !.held = {}]

\* replaceAll, setData: another list takes the place of the current one.
Swap(p, new, job) ==
  /\ table' = SortedByTitle(new)
  /\ th' = Detached(Noticed(Go(p, Writing(job)), p, table'), p)
  /\ crossed' = (crossed \/ \E q \in Threads \ {p} : Pending(q) /\ "form" \in {p, q})

\* A method of Table: the current list changes in place.
Change(p, new, job) ==
  /\ table' = new
  /\ th' = Noticed(Go(p, Writing(job)), p, new)
  /\ UNCHANGED crossed

PublishMain(p) ==
  /\ th[p].at = "sync" /\ fileLock = None
  /\ fileLock' = p
  /\ disk' = ListOf(p)
  /\ failed' = IF failed = "yes" THEN "retry" ELSE failed
  /\ th' = Goto(p, "main")
  /\ UNCHANGED <<table, preferences, lock, lkg, saved, crossed, ops>>

AfterWriting(p) ==
  CASE th[p].op \in {"save", "import", "delete", "extension"} -> [th[p] EXCEPT !.at = "flags"]
    [] th[p].op = "add" -> [th[p] EXCEPT !.at = "append"]
    [] OTHER -> Idle

\* A bug: the copy is only made when there is none.
PublishLkgOnce(p) ==
  /\ th[p].at = "main"
  /\ fileLock' = None
  /\ saved' = {disk}
  /\ failed' = IF failed = "retry" THEN "no" ELSE failed
  /\ th' = Go(p, AfterWriting(p))
  /\ lock' = IF p \in Automation THEN None ELSE lock
  /\ UNCHANGED <<table, preferences, disk, lkg, crossed, ops>>

PublishLkg(p) ==
  /\ th[p].at = "main"
  /\ lkg' = ListOf(p)
  /\ fileLock' = None
  /\ saved' = {disk}
  /\ failed' = IF failed = "retry" THEN "no" ELSE failed
  /\ th' = Go(p, AfterWriting(p))
  /\ lock' = IF p \in Automation THEN None ELSE lock
  /\ UNCHANGED <<table, preferences, disk, crossed, ops>>

\* The file, or its copy, cannot be published: the exception ends the operation
\* of p and its locks, and the table in memory keeps the change.  What was not
\* published is as it was.
WriteFails(p) ==
  /\ Pending(p)
  /\ failed' = "yes"
  /\ th' = [th EXCEPT ![p] = Idle]
  /\ lock' = IF lock = p THEN None ELSE lock
  /\ fileLock' = IF th[p].at = "main" THEN None ELSE fileLock
  /\ UNCHANGED <<table, preferences, disk, lkg, saved, crossed, ops>>

(***************************************************************************)
(* Automation: a missing season is searched, and a sure result is saved.   *)
(***************************************************************************)
Found(p, title, season, url, op, option) ==
  [Idle EXCEPT !.at = "found", !.op = op, !.title = title, !.season = season,
               !.url = url, !.option = option]

\* search_mapping for a season that is not mapped; the parse job passes over a
\* season with a duplicate URL, and may be told to search again (force).
Search(p, title, season, url, op, option, force) ==
  /\ th[p].at = "idle" /\ Started
  /\ p = "scan" => ~option /\ ~force
  /\ ~force => /\ ~Mapped(table, preferences, title, season)
               /\ p = "parse" =>
                    ~ExistingDuplicate(table, preferences, title, season, option)
  /\ th' = Go(p, Found(p, title, season, url, op, option))
  /\ UNCHANGED <<table, preferences, lock, stored, crossed>>

Conflict(p) ==
  SharedUrlConflict(table, preferences, th[p].title, th[p].season, th[p].url,
                    th[p].option)

\* handle_search_result: enabled is auto_save_high_confidence_mappings, which
\* may be switched at any time.
HandleSearchResult(p, enabled) ==
  /\ th[p].at = "found"
  /\ th' = Goto(p, IF th[p].op = "sure" /\ enabled /\ ~Conflict(p)
                    THEN "eligible" ELSE "draft")
  /\ UNCHANGED <<table, preferences, lock, stored, crossed, ops>>

\* A dry run, a result that is not applied, and a search that fails.
Dropped(p) ==
  /\ th[p].at = "found" /\ p = "parse"
  /\ th' = [th EXCEPT ![p] = Idle]
  /\ UNCHANGED <<table, preferences, lock, stored, crossed, ops>>

Draft(p) == <<Key[th[p].title], th[p].season, th[p].url>>

AddReviewDraft(p) ==
  /\ th[p].at = "draft" /\ lock = None
  /\ preferences' = [preferences EXCEPT !.drafts = @ \cup {Draft(p)}]
  /\ th' = [th EXCEPT ![p] = Idle]
  /\ UNCHANGED <<table, lock, stored, crossed, ops>>

\* save_high_confidence: its own checks, made before it takes the lock.
CheckAgain(p, enabled) ==
  /\ th[p].at = "eligible"
  /\ th' = IF enabled /\ ~Conflict(p) THEN Goto(p, "cleared")
           ELSE [th EXCEPT ![p] = Idle]
  /\ UNCHANGED <<table, preferences, lock, stored, crossed, ops>>

Loaded(p) ==
  [th[p] EXCEPT !.at = "loaded",
                !.data = Amended(table, th[p].title, th[p].season, th[p].url)]

\* A bug: the copy of the table is taken before the lock is.
ReadTableUnlocked(p) ==
  /\ th[p].at = "cleared"
  /\ ~Refused(table, th[p].title, th[p].season, th[p].url)
  /\ lock' = p
  /\ th' = Go(p, Loaded(p))
  /\ UNCHANGED <<table, preferences, stored, crossed, ops>>

ReadTable(p) ==
  /\ th[p].at = "cleared" /\ lock = None
  /\ IF Refused(table, th[p].title, th[p].season, th[p].url)
       THEN th' = [th EXCEPT ![p] = Idle] /\ UNCHANGED lock
       ELSE /\ lock' = p
            /\ th' = Go(p, Loaded(p))
  /\ UNCHANGED <<table, preferences, stored, crossed, ops>>

ReplaceTable(p) ==
  /\ th[p].at = "loaded"
  /\ Swap(p, th[p].data, [th[p] EXCEPT !.data = <<>>])
  /\ UNCHANGED <<preferences, lock, stored, ops>>

Automate(p) ==
  \/ \E want \in Wanted, url \in FoundUrls, op \in {"sure", "unsure"},
        option \in BOOLEAN, force \in BOOLEAN :
       Search(p, want[1], want[2], url, op, option, force)
  \/ \E enabled \in BOOLEAN : HandleSearchResult(p, enabled) \/ CheckAgain(p, enabled)
  \/ Dropped(p)
  \/ AddReviewDraft(p)
  \/ ReadTable(p)

(***************************************************************************)
(* The mapping page.  A request is computed from the rows of a moment and  *)
(* applied under the lock at another.                                      *)
(***************************************************************************)
Rows == FlattenTable(table, preferences)
FactsOf(sheet) == Facts(TableFromRows(sheet))

Requested(op, sheet, asked, drafts, title) ==
  /\ th["page"].at = "idle" /\ Started
  /\ th' = Go("page", [Idle EXCEPT !.at = "read", !.op = op, !.sheet = sheet,
                                   !.asked = asked, !.drafts = drafts, !.title = title])
  /\ UNCHANGED <<table, preferences, lock, stored, crossed>>

\* What the user may have done to the page: nothing, a row less, a flag less.
Edited(sheet) ==
  {sheet} \cup
             {RemoveAt(sheet, i) : i \in DOMAIN sheet}
          \cup {[sheet EXCEPT ![i].review = FALSE] : i \in DOMAIN sheet}

\* bulk-save: the page as it was opened, edited and sent back.
SavePage ==
  \E sheet \in Edited(Rows), drafts \in {preferences.drafts, {}} :
    /\ Accepted(sheet)
    /\ Requested("save", sheet, FactsOf(Rows) \ FactsOf(sheet), drafts, 0)

\* What an import may take away: nothing, the seasons it brings, everything.
Replaced(file, mode) ==
  CASE mode = "add_only"  -> {}
    [] mode = "update"    -> {fact \in Facts(table) : \E i \in DOMAIN file :
                                Concerns(file[i], fact[1], fact[2])}
    [] mode = "overwrite" -> Facts(table)

ImportApply ==
  \E file \in Files, mode \in {"add_only", "update", "overwrite"}, sort \in BOOLEAN :
    LET incoming == IF sort THEN SortPartUrlsInRows(file) ELSE file
    IN  /\ Accepted(incoming)
        /\ Requested("import", ReconcileImportRows(Rows, incoming, mode),
                     Replaced(incoming, mode), {}, 0)

\* bulk-action: delete one mapping, or clear its review mark.
BulkAction ==
  \E i \in DOMAIN table, op \in {"delete", "clear"} :
    Requested(op, Chosen(Rows, DOMAIN Rows \ OfEntry(Rows, Known(i))), Facts(<<table[i]>>),
              {}, table[i].title)

ApplyRequest ==
  /\ th["page"].at = "read" /\ lock = None
  /\ lock' = "page"
  /\ IF th["page"].op = "clear"
       THEN th' = Goto("page", "flags") /\ UNCHANGED <<table, crossed>>
       ELSE Swap("page", TableFromRows(th["page"].sheet), th["page"])
  /\ UNCHANGED <<preferences, stored, ops>>

\* The flags, synced after the table and under the same lock.
ApplyFlags ==
  LET p     == th["page"]
      Of(i) == p.sheet[i].title
      gone  == IF \A i \in DOMAIN p.sheet : Key[Of(i)] # Key[p.title] THEN {p.title} ELSE {}
  IN  /\ p.at = "flags"
      /\ preferences' =
           CASE p.op = "save"   -> [MetadataFromRows(p.sheet, preferences)
                                      EXCEPT !.drafts = p.drafts]
             [] p.op = "import" -> MetadataFromRows(p.sheet, preferences)
             [] p.op = "delete" -> [preferences EXCEPT !.review = @ \ gone,
                                                       !.shared = @ \ gone]
             [] p.op = "clear"  -> [preferences EXCEPT !.review = @ \ {p.title}]
             [] p.op = "extension" ->
                  [preferences EXCEPT !.review = IF p.option THEN @ \ {p.title} ELSE @]
      /\ lock' = None
      /\ th' = [th EXCEPT !["page"] = Idle]
      /\ UNCHANGED <<table, stored, crossed, ops>>

\* save-mapping of the extension: read, asked and replaced under the lock.
ExtensionSave(title, season, url, mode, confirmed, clear) ==
  LET i       == FindEntry(table, title)
      entry   == IF i = 0 THEN Entry(title, FALSE, <<>>) ELSE table[i]
      urls    == IF season \in DOMAIN entry.seasons THEN entry.seasons[season] ELSE <<>>
      known   == \E n \in DOMAIN urls : Norm[urls[n]] = Norm[url]
      after   == IF mode = "replace_season" THEN <<url>>
                 ELSE IF known THEN urls ELSE SortPartUrls(Append(urls, url))
      amended == [entry EXCEPT !.seasons = With(@, season, after)]
      clash   == SharedUrlConflict(table, preferences, entry.title, season, url, FALSE)
  IN  /\ th["page"].at = "idle" /\ lock = None /\ Started
      /\ (urls # <<>> \/ clash) => confirmed
      /\ lock' = "page"
      /\ th' = Go("page", [Idle EXCEPT
                 !.at = IF after = urls THEN "flags" ELSE "loaded",
                 !.op = "extension", !.title = entry.title, !.option = clear,
                 !.data = IF i = 0 THEN Append(table, amended)
                          ELSE [table EXCEPT ![i] = amended],
                 !.asked = IF mode = "replace_season"
                             THEN {<<Key[title], season, Norm[u]>> : u \in Range(urls)}
                             ELSE {}])
      /\ UNCHANGED <<table, preferences, stored, crossed>>

\* import-url and drafts/clear.
EditDrafts ==
  /\ lock = None /\ Started
  /\ \/ \E want \in Wanted, url \in FoundUrls :
          preferences' = [preferences EXCEPT !.drafts = @ \cup {<<Key[want[1]], 1, url>>}]
     \/ preferences' = [preferences EXCEPT !.drafts = {}]
  /\ UNCHANGED <<table, lock, th, stored, crossed>>

Page ==
  \/ SavePage \/ ImportApply \/ BulkAction
  \/ ApplyRequest \/ ApplyFlags
  \/ \E want \in Wanted, url \in FoundUrls,
        mode \in {"add_url", "replace_season"}, confirmed \in BOOLEAN, clear \in BOOLEAN :
       ExtensionSave(want[1], want[2], url, mode, confirmed, clear)
  \/ EditDrafts

(***************************************************************************)
(* The old form: no lock, and the list changes under everybody's feet.     *)
(***************************************************************************)
Slots == UNION {{<<table[i].title, s>> : s \in DOMAIN table[i].seasons} : i \in DOMAIN table}

\* /api/table/add: the series first, synced, and then its URLs.
FormAdd(title, season, url) ==
  /\ th["form"].at = "idle" /\ Started
  /\ LET job == [Idle EXCEPT !.op = "add", !.title = title, !.season = season, !.url = url]
     IN  IF Has(table, title)
           THEN th' = Go("form", [job EXCEPT !.at = "append"]) /\ UNCHANGED <<table, crossed>>
           ELSE Change("form", AppendSerie(table, title, season = Absolute), job)
  /\ UNCHANGED <<preferences, lock, stored>>

FormAppend ==
  LET p   == th["form"]
      new == AppendUrls(table, p.title, p.season, <<p.url>>)
  IN  /\ p.at = "append"
      /\ IF new = table THEN th' = [th EXCEPT !["form"] = Idle] /\ UNCHANGED <<table, crossed>>
         ELSE Change("form", new, [Idle EXCEPT !.op = "append"])
      /\ UNCHANGED <<preferences, lock, stored, ops>>

FormChange(new) ==
  /\ th["form"].at = "idle" /\ Started
  /\ new # table
  /\ Change("form", new, [Idle EXCEPT !.op = "edit", !.asked = Facts(table) \ Facts(new)])
  /\ UNCHANGED <<preferences, lock, stored>>

FormUpload ==
  \E data \in Uploads :
    /\ th["form"].at = "idle" /\ Started
    /\ Swap("form", data, [Idle EXCEPT !.op = "upload", !.asked = Facts(table)])
    /\ UNCHANGED <<preferences, lock, stored>>

Form ==
  \/ \E want \in Wanted, url \in FormUrls : FormAdd(want[1], want[2], url)
  \/ FormAppend
  \/ FormUpload
  \/ \E slot \in Slots :
       LET title  == slot[1]
           season == slot[2]
       IN  \/ FormChange(RemoveSerie(table, title))
           \/ FormChange(RemoveSeason(table, title, season))
           \/ \E url \in FormUrls \cup FoundUrls :
                \/ FormChange(RemoveUrl(table, title, season, url))
                \/ \E new \in FormUrls : FormChange(RenameUrl(table, title, season, url, new))
           \/ \E want \in Wanted :
                \/ FormChange(RenameSerie(table, title, want[1]))
                \/ FormChange(RenameSeason(table, title, season, want[2]))
                \/ FormChange(AppendSeason(table, want[1], want[2]))

(***************************************************************************)
(* The process dies and starts again; the file may have become unreadable  *)
(* in between, in which case the last-known-good copy is published again.  *)
(***************************************************************************)
Crash(damaged) ==
  /\ table' = IF damaged THEN lkg ELSE disk
  /\ disk' = table'
  /\ saved' = IF failed # "no" \/ \E p \in Threads : Pending(p)
                THEN saved \cup {disk, lkg} ELSE saved
  /\ failed' = "no"
  /\ lock' = None /\ fileLock' = None
  /\ th' = [p \in Threads |-> Idle]
  /\ crossed' = FALSE
  /\ UNCHANGED <<preferences, lkg, ops>>

Next ==
  \/ \E p \in Threads : PublishMain(p) \/ PublishLkg(p) \/ WriteFails(p)
  \/ \E p \in Automation : Automate(p)
  \/ \E p \in Automation \cup {"page"} : ReplaceTable(p)
  \/ Page
  \/ Form
  \/ \E damaged \in BOOLEAN : Crash(damaged)

Spec == Init /\ [][Next]_vars

(***************************************************************************)
(* Properties.                                                             *)
(***************************************************************************)
Quiet == \A p \in Threads : ~Pending(p)

\* What a thread is asked to take away, and what it could not know of, is
\* all that a write of its own makes disappear from the table: an import
\* that only adds, the automation and an unchanged page lose nothing, and
\* the lock keeps the threads that share it from losing each other's URLs.
NothingLostUnasked ==
  [][\A p \in Threads :
       (th'[p].at = "sync" /\ th[p].at # "sync") =>
         Facts(table) \ Facts(table') \subseteq th'[p].asked \cup th'[p].late]_vars

\* With no write under way, the file and its copy hold what the last write
\* published, and that is the table in memory unless the form and another
\* thread wrote two lists at a time: neither a crash nor a damaged file
\* costs a mapping whose request was answered.  A write that fails parts the
\* table, the file and the copy, but no longer than until another one succeeds
\* that began after it: that publishes the change of the failed one, too.
SavedIsSafe ==
  Quiet /\ failed = "no" => /\ {disk, lkg} \subseteq saved
                            /\ ~crossed => disk = table

\* A page that is opened and saved unchanged leaves every entry, season and
\* URL in its place, also with two entries under one title, as long as the
\* entries have numbers of one digit: entry 10 comes before entry 9.
PageRoundTrip ==
  Len(table) <= 10 => TableFromRows(FlattenTable(table, preferences)) = table
=============================================================================
