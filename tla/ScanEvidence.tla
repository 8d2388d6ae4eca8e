----------------------------- MODULE ScanEvidence -----------------------------
(***************************************************************************)
(* What a V4 library scan works with and what it leaves behind: the        *)
(* inventory of Sonarr and its recorded fingerprints, the cache of         *)
(* provider pages (provider_validation.py), the catalogue index            *)
(* (animeworld_index.py), the choice between preserving an item and        *)
(* mapping its season again (live_dataset.py), and the order in which      *)
(* application.py writes its results, each in a transaction of its own.    *)
(*                                                                         *)
(* A scan may fail at every step; meanwhile Sonarr, the pages and the      *)
(* users go on.  Of the matcher and the release resolver the module knows  *)
(* the outcome alone, which pages fit a season in which versions           *)
(* (ReleaseResolver has the resolver); an item stands for one season and   *)
(* has one segment, so that it is downloaded from one page (ReviewLedger   *)
(* has the shapes of the plans).                                           *)
(***************************************************************************)
EXTENDS Naturals, Sequences, FiniteSets

CONSTANTS
  Targets,            \* seasons: pairs of a series and a season number
  Urls,               \* provider pages, numbers in the order of their titles
  AudioOf,            \* the audio of each page, SUB or DUB
  Strong, Weak,       \* the pages each series matches by title, and by word
  Fits,               \* the pages that fit each season, each with the versions in which it does
  Catalog,            \* the generations of the provider's catalogue, as sets of pages
  ShortlistLimit,     \* candidate_limit
  ValidationBudget,   \* sources a scan validates
  DetailBudget,       \* pages a scan requests
  None,
  MaxEvents           \* bound: changes in Sonarr and at the provider, failed requests and
                      \* scans, the lost file, and what the users do, deep audits included

Series == {t[1] : t \in Targets}
Audios == {"SUB", "DUB"}

ASSUME EvidenceAssumption ==
  /\ Urls \subseteq Nat \ {0} /\ AudioOf \in [Urls -> Audios]
  /\ \A t \in Targets : Fits[t] \subseteq Urls \X Nat
  /\ ValidationBudget >= 1 /\ DetailBudget >= 1
  /\ \A t \in Targets, v, w \in UNION {Fits[r] : r \in Targets} :
       v \in Fits[t] /\ w \in Fits[t] /\ AudioOf[v[1]] = AudioOf[w[1]] => v[1] = w[1]

\* A snapshot: the outcome of the mapping, the audio preferred, the variants of its release,
\* and the versions of the pages it saw.  An item: a snapshot, the inventory that was mapped,
\* and what a user decided.
Snapshots ==
  [state : {"proposed", "needs_review", "unavailable"}, prefer : Audios, plan : SUBSET Urls,
   pages : [Urls -> Nat]]
Items == [snap : Snapshots, seen : Nat, decision : Audios \cup {None}]

\* Series come in an order, and the last one of several is one of them.
ASSUME SeriesAssumption ==
  \A some \in SUBSET Series : some # {} => \E s \in some : \A r \in some : r <= s

ASSUME NoneAssumption == None \notin Nat \cup Audios \cup Items

VARIABLES
  sonarr,     \* the version of each season in Sonarr's inventory
  page,       \* the version of each provider page
  cache,      \* what was last fetched of it
  index,      \* the catalogue file and its last-known-good copy
  item,       \* the current mapping item of each season
  row,        \* the provider validation state of that item
  recorded,   \* v4_target_inventory
  master,     \* v4_series_audio_master
  override,   \* the audio of v4_season_overrides
  scan,       \* what the running scan knows
  settled,    \* history: series whose audio the last normal scan has enforced
  unrecorded, \* history: seasons mapped by a scan that did not record its inventory
  events

world  == <<sonarr, page>>
ledger == <<item, row, recorded, master, override>>
past   == <<settled, unrecorded>>
vars   == <<world, cache, index, ledger, scan, past, events>>

NoPage == [status |-> "none", version |-> 0, stale |-> FALSE, due |-> TRUE]
Idle   == [phase |-> "idle"]

Init ==
  /\ sonarr = [t \in Targets |-> 1] /\ page = [u \in Urls |-> 1]
  /\ cache = [u \in Urls |-> NoPage]
  /\ index = [main |-> None, backup |-> None]
  /\ item = [t \in Targets |-> None] /\ row = [t \in Targets |-> "absent"]
  /\ recorded = [t \in Targets |-> None] /\ master = [s \in Series |-> None]
  /\ override = [t \in Targets |-> None]
  /\ scan = Idle /\ settled = {} /\ unrecorded = {}
  /\ events = 0

Happens == events < MaxEvents /\ events' = events + 1

-----------------------------------------------------------------------------
(* Items.                                                                    *)

Variant(snap, audio) == CHOOSE u \in snap.plan : AudioOf[u] = audio
Modes(snap) == {AudioOf[u] : u \in snap.plan}

\* choose_plan_variants: the preferred audio if there is a variant in it.
Default(snap) == IF snap.prefer \in Modes(snap) THEN snap.prefer
                 ELSE CHOOSE audio \in Modes(snap) : TRUE

Proposed(t)  == item[t] # None /\ item[t].decision = None /\ item[t].snap.state = "proposed"
Approved(t)  == item[t] # None /\ item[t].decision # None

\* The audio of an item, and its source, as a scan takes them: overrides have no part in it.
Mode(t)      == IF Approved(t) THEN item[t].decision ELSE Default(item[t].snap)
Source(t)    == Variant(item[t].snap, Mode(t))
Evidence(t)  == item[t].snap.pages[Source(t)]

\* What a reservation asks of an item here; the rest is ReviewLedger's.
Executable(t) == (Proposed(t) \/ Approved(t)) /\ row[t] \in {"absent", "current"}

\* The audio it is executed in: an automatic execution prefers that of the season's override.
\* (An override with sources of its own takes the season from the automatic executions.)
Executed(t) == IF Proposed(t) /\ override[t] \in Modes(item[t].snap) THEN override[t] ELSE Mode(t)

-----------------------------------------------------------------------------
(* The scan begins: current_items, and the audio masters.                    *)

Preservable == {t \in Targets : Proposed(t) \/ Approved(t)}
FirstSeasons == {t \in Preservable : t[2] = 1}

Begin(mode) ==
  /\ scan = Idle
  /\ IF mode = "normal" THEN UNCHANGED events ELSE Happens
  /\ scan' = [phase |-> "masters", mode |-> mode, masters |-> master,
              firsts |-> [t \in FirstSeasons |-> Mode(t)],
              groups |-> Preservable, watch |-> IF mode = "normal" THEN Series ELSE {}]
  /\ UNCHANGED <<world, cache, index, ledger, past>>

\* The audio of a series changes, or the user decides against it: what the scans enforced
\* holds no longer.
Unsettle(s) ==
  /\ settled' = settled \ {s}
  /\ scan' = IF scan = Idle THEN scan ELSE [scan EXCEPT !.watch = @ \ {s}]

Missing == {t \in DOMAIN scan.firsts : scan.masters[t[1]] = None}

\* set_series_audio_master: an upsert, whoever wrote the row before.
StoreMaster(s, audio) == master' = [master EXCEPT ![s] = audio]

\* The first season decides the audio of a series that has none, as far as the scan knows.
SetMaster(t) ==
  /\ scan.phase \in {"masters", "persist"}
  /\ t \in Missing
  /\ StoreMaster(t[1], scan.firsts[t])
  /\ settled' = settled \ {t[1]}
  /\ scan' = [scan EXCEPT !.masters = master', !.watch = @ \ {t[1]}]
  /\ UNCHANGED <<world, cache, index, item, row, recorded, override, unrecorded, events>>

-----------------------------------------------------------------------------
(* Inventory, and validation of the sources of the items.                    *)

Due(u) == cache[u].status = "none" \/ cache[u].due
LesserOf(a, b) == IF a < b THEN a ELSE b

\* Groups come in the order of their items: which of them the budget reaches is left open.
ReadInventory ==
  LET groups == IF scan.mode = "deep" THEN {} ELSE scan.groups
      due    == {t \in groups : Due(Source(t))}
  IN  /\ scan.phase = "masters" /\ Missing = {}
      /\ \E chosen \in SUBSET due :
           /\ Cardinality(chosen) = LesserOf(ValidationBudget, Cardinality(due))
           /\ scan' = [phase |-> "verify", mode |-> scan.mode, masters |-> scan.masters,
                       watch |-> scan.watch, inventory |-> sonarr,
                       groups |-> [t \in groups |-> [url |-> Source(t), audio |-> Mode(t),
                                                     version |-> Evidence(t)]],
                       todo |-> chosen, pending |-> due \ chosen, results |-> <<>>]
      /\ UNCHANGED <<world, cache, index, ledger, past, events>>

\* ProviderDetailCache.get: a page that is due is fetched; if that fails a success is kept
\* for a while as stale.
After(u, fetched) ==
  IF fetched THEN [status |-> "ok", version |-> page[u], stale |-> FALSE, due |-> FALSE]
  ELSE IF cache[u].status = "ok" THEN [cache[u] EXCEPT !.stale = TRUE, !.due = FALSE]
  ELSE [status |-> "failed", version |-> 0, stale |-> FALSE, due |-> FALSE]

Get(u) ==
  \/ ~Due(u) /\ UNCHANGED <<cache, events>>
  \/ Due(u) /\ cache' = [cache EXCEPT ![u] = After(u, TRUE)] /\ UNCHANGED events
  \/ Due(u) /\ cache' = [cache EXCEPT ![u] = After(u, FALSE)] /\ Happens

FirstIn(set) == CHOOSE x \in set : \A y \in set : x[1] < y[1] \/ (x[1] = y[1] /\ x[2] <= y[2])

VerifyProvider ==
  LET t == FirstIn(scan.todo)
  IN  /\ scan.phase = "verify" /\ scan.todo # {}
      /\ Get(scan.groups[t].url)
      /\ scan' = [scan EXCEPT !.todo = @ \ {t},
                              !.results = Append(@, <<t, cache'[scan.groups[t].url]>>)]
      /\ UNCHANGED <<world, index, ledger, past>>

\* Mutations: the audio, the source or the recorded inventory is not compared.
AudioIgnored(t)  == TRUE
SourceIgnored(t) == TRUE
ChangeIgnored(t) == TRUE

AudioKept(t) ==
  LET wanted == scan.masters[t[1]] IN wanted = None \/ scan.groups[t].audio = wanted

\* Only a result of this scan is compared; a stale one passes.
SourceKept(t) ==
  \A i \in DOMAIN scan.results :
    LET seen == scan.results[i][2]
    IN  scan.results[i][1] = t =>
          seen.stale \/ (seen.status = "ok" /\ seen.version = scan.groups[t].version)

InventoryKept(t) == recorded[t] \in {None, scan.inventory[t]}

Stale == {scan.results[i][1] : i \in {j \in DOMAIN scan.results : scan.results[j][2].stale}}

\* _diff_inventory: what is preserved, and what is to be mapped again.
DiffInventory ==
  LET kept  == {t \in DOMAIN scan.groups : AudioKept(t) /\ SourceKept(t) /\ InventoryKept(t)}
      dirty == Targets \ kept
  IN  /\ scan.phase = "verify" /\ scan.todo = {}
      /\ scan' = [phase |-> IF dirty = {} THEN "commit" ELSE "index",
                  mode |-> scan.mode, masters |-> scan.masters, watch |-> scan.watch,
                  inventory |-> scan.inventory, dirty |-> dirty, fresh |-> <<>>,
                  rows |-> << scan.pending, Stale, DOMAIN scan.groups \ kept,
                              (kept \ scan.pending) \ Stale >>]
      /\ UNCHANGED <<world, cache, index, ledger, past, events>>

-----------------------------------------------------------------------------
(* The catalogue index: its file, its copy, its generations.                 *)

\* Opening it restores the copy, or starts with an empty document, when the file is missing.
Restored == IF index.main # None THEN index.main
            ELSE IF index.backup # None THEN index.backup ELSE 0

\* write: the file is replaced as a whole; its copy is published afterwards.
Write(g) == [index EXCEPT !.main = g]
Published(new) == [new EXCEPT !.backup = new.main]

\* A normal scan loads the last generation.
LoadIndex ==
  /\ scan.phase = "index" /\ scan.mode = "normal"
  /\ index' = IF index.main # None THEN index ELSE Published(Write(Restored))
  /\ scan' = [scan EXCEPT !.phase = "retrieve"]
  /\ UNCHANGED <<world, cache, ledger, past, events>>

\* discover_index_pages: every listing of the provider, each to its end, or an exception.
Discovered == DOMAIN Catalog

\* A deep audit reads the whole catalogue and replaces the file, and then the copy.
RefreshIndex ==
  /\ scan.phase = "index" /\ scan.mode = "deep"
  /\ \E g \in Discovered : index' = Write(g)
  /\ scan' = [scan EXCEPT !.phase = "backup"]
  /\ UNCHANGED <<world, cache, ledger, past, events>>

PublishBackup ==
  /\ scan.phase = "backup"
  /\ index' = Published(index)
  /\ scan' = [scan EXCEPT !.phase = "retrieve"]
  /\ UNCHANGED <<world, cache, ledger, past, events>>

Entries == IF index.main = 0 THEN {} ELSE Catalog[index.main]

\* The index over the catalogue's titles and words, made again by every scan.
Bucket(lookup, s) == lookup[s] \cap Entries

\* CatalogShortlistIndex.retrieve: pages by title, else by word, else all if they are few.
\* (A series here has fewer names than the 64 keys at which this overflows as well.)
Positions(s) ==
  IF Bucket(Strong, s) # {} THEN Bucket(Strong, s)
  ELSE IF Bucket(Weak, s) # {} THEN Bucket(Weak, s)
  ELSE IF Cardinality(Entries) > ShortlistLimit THEN {} ELSE Entries
Overflow(s) ==
  \/ Cardinality(Positions(s)) > ShortlistLimit
  \/ Bucket(Strong, s) = {} /\ Positions(s) # Entries
Shortlist(s) ==
  {u \in Positions(s) : Cardinality({v \in Positions(s) : v < u}) < ShortlistLimit}

-----------------------------------------------------------------------------
(* The pages of the shortlists.                                              *)

WorkSeries == {t[1] : t \in scan.dirty}
Candidates == UNION {Shortlist(s) : s \in WorkSeries}
FirstUrls(set, n) == {u \in set : Cardinality({v \in set : v < u}) < n}

Retrieve ==
  LET due == {u \in Candidates : Due(u)}
      now == FirstUrls(due, DetailBudget)
  IN  /\ scan.phase = "retrieve"
      /\ scan' = [scan EXCEPT !.phase = "details", !.fresh = [todo |-> now, late |-> due \ now]]
      /\ UNCHANGED <<world, cache, index, ledger, past, events>>

LoadDetail ==
  LET u == CHOOSE x \in scan.fresh.todo : \A y \in scan.fresh.todo : x <= y
  IN  /\ scan.phase = "details" /\ scan.fresh.todo # {}
      /\ Get(u)
      /\ scan' = [scan EXCEPT !.fresh.todo = @ \ {u}]
      /\ UNCHANGED <<world, index, ledger, past>>

\* A page of two series is charged to the one that comes last.
ChargedTo(u) == CHOOSE s \in WorkSeries :
                  u \in Shortlist(s) /\ \A r \in WorkSeries : u \in Shortlist(r) => r <= s

\* Mutation: pages the budget did not reach are forgotten.
FlaggedByOverflow(s) == Overflow(s) \/ Entries = {}

\* The series that cannot be mapped without a person.
Flagged(s) ==
  Overflow(s) \/ Entries = {} \/ \E u \in scan.fresh.late : ChargedTo(u) = s

-----------------------------------------------------------------------------
(* Evaluation, and the audit of the proposals.                               *)

Loaded(s) == Shortlist(s) \ scan.fresh.late
Usable(s) == {u \in Loaded(s) : cache[u].status = "ok"}
Plan(t)   == {u \in Usable(t[1]) : <<u, cache[u].version>> \in Fits[t]}

\* A series master is strict: without a variant in its audio the season is unavailable.
Snapshot(t) ==
  LET wanted  == scan.masters[t[1]]
      allowed == wanted = None \/ \E u \in Plan(t) : AudioOf[u] = wanted
  IN  [state |-> IF Plan(t) = {} \/ Flagged(t[1]) THEN "needs_review"
                 ELSE IF allowed THEN "proposed" ELSE "unavailable",
       prefer |-> IF wanted = None THEN "SUB" ELSE wanted,
       plan |-> Plan(t),
       pages |-> [u \in Urls |-> IF u \in Plan(t) THEN cache[u].version ELSE 0]]

Evaluate ==
  /\ scan.phase = "details" /\ scan.fresh.todo = {}
  /\ scan' = [scan EXCEPT !.phase = "audit",
                !.fresh = [new |-> [t \in scan.dirty |-> Snapshot(t)],
                           missed |-> [t \in scan.dirty |-> Shortlist(t[1]) \cap scan.fresh.late]]]
  /\ UNCHANGED <<world, cache, index, ledger, past, events>>

\* evaluate_many: any of the proposals may come back confirmed; a request that fails twice
\* confirms nothing.
Verdicts(proposals) == SUBSET proposals

\* The verifier only demotes: what it does not confirm, or cannot audit, goes to a person.
AuditProposals ==
  LET proposals == {t \in scan.dirty : scan.fresh.new[t].state = "proposed"}
  IN  /\ scan.phase = "audit"
      /\ \E confirmed \in Verdicts(proposals) :
           scan' = [scan EXCEPT !.phase = "commit",
                      !.fresh.new = [t \in scan.dirty |->
                         IF t \in proposals \ confirmed
                         THEN [scan.fresh.new[t] EXCEPT !.state = "needs_review"]
                         ELSE scan.fresh.new[t]]]
      /\ UNCHANGED <<world, cache, index, ledger, past, events>>

-----------------------------------------------------------------------------
(* The results are written: five transactions, one after the other.          *)

\* record_scan: a season mapped to the same digest keeps its item, and its decision.
RecordScan ==
  LET new(t)   == scan.fresh.new[t]
      replaced == {t \in scan.dirty : item[t] = None \/ item[t].snap # new(t)}
      Item(t)  == [snap |-> new(t), seen |-> scan.inventory[t],
                   decision |-> IF t \in replaced THEN None ELSE item[t].decision]
  IN  /\ scan.phase = "commit"
      /\ item' = [t \in Targets |-> IF t \in scan.dirty THEN Item(t) ELSE item[t]]
      /\ row'  = [t \in Targets |-> IF t \in replaced THEN "absent" ELSE row[t]]
      /\ unrecorded' = unrecorded \cup {t \in scan.dirty : recorded[t] = None}
      /\ scan' = [phase |-> "inventory", mode |-> scan.mode, watch |-> scan.watch,
                  inventory |-> scan.inventory, dirty |-> scan.dirty, rows |-> scan.rows,
                  replaced |-> replaced, masters |-> scan.masters,
                  firsts |-> [t \in {} |-> "SUB"]]
      /\ UNCHANGED <<world, cache, index, recorded, master, override, settled, events>>

\* record_target_inventory, and what _persist_new_audio_masters then reads.
RecordInventory ==
  /\ scan.phase = "inventory"
  /\ recorded' = scan.inventory
  /\ unrecorded' = unrecorded \ scan.dirty
  /\ scan' = [scan EXCEPT !.phase = "persist", !.masters = master,
                          !.firsts = [t \in FirstSeasons |-> Mode(t)]]
  /\ UNCHANGED <<world, cache, index, item, row, master, override, settled, events>>

\* record_provider_validation_state, for one state after the other.
RowStates == <<"pending", "stale_retry", "invalidated", "current">>
Unwritten == {i \in 1..4 : scan.rows[i] # {}}

RecordRows ==
  /\ scan.phase = "persist" /\ Missing = {}
  /\ \E i \in Unwritten :
       /\ \A j \in Unwritten : i <= j
       /\ row' = [t \in Targets |-> IF t \in scan.rows[i] \ scan.replaced THEN RowStates[i]
                                   ELSE row[t]]
       /\ scan' = [scan EXCEPT !.rows[i] = {}]
  /\ UNCHANGED <<world, cache, index, item, recorded, master, override, past, events>>

EndScan ==
  /\ scan.phase = "persist" /\ Missing = {} /\ Unwritten = {}
  /\ settled' = settled \cup {s \in scan.watch : master[s] # None}
  /\ scan' = Idle
  /\ UNCHANGED <<world, cache, index, ledger, unrecorded, events>>

\* Any request or transaction may raise, and the process may stop: the scan ends there.
ScanFails ==
  /\ scan # Idle /\ Happens
  /\ scan' = Idle
  /\ UNCHANGED <<world, cache, index, ledger, past>>

-----------------------------------------------------------------------------
(* The world and the users.                                                  *)

\* A scan reads Sonarr once and a page at most once: what changes meanwhile is seen as it was
\* before or as it will be after, and so changes here before or after it.
SonarrChanges(t) ==
  /\ scan = Idle /\ Happens
  /\ sonarr' = [sonarr EXCEPT ![t] = @ + 1]
  /\ UNCHANGED <<page, cache, index, ledger, scan, past>>

PageChanges(u) ==
  /\ scan = Idle /\ Happens
  /\ page' = [page EXCEPT ![u] = @ + 1]
  /\ UNCHANGED <<sonarr, cache, index, ledger, scan, past>>

\* The hours of a page pass; here between two scans.
Expire(u) ==
  /\ scan = Idle /\ cache[u].status # "none" /\ ~cache[u].due
  /\ cache' = [cache EXCEPT ![u].due = TRUE]
  /\ UNCHANGED <<world, index, ledger, scan, past, events>>

\* The catalogue file is lost.
LoseIndex ==
  /\ scan = Idle /\ index.main # None /\ Happens
  /\ index' = [index EXCEPT !.main = None]
  /\ UNCHANGED <<world, cache, ledger, scan, past>>

\* approve, choose: the variants of the plan in one audio.
Approve(t, audio) ==
  /\ item[t] # None /\ item[t].decision = None
  /\ item[t].snap.state \in {"proposed", "needs_review"} /\ audio \in Modes(item[t].snap)
  /\ Happens
  /\ item' = [item EXCEPT ![t].decision = audio]
  /\ IF audio = master[t[1]] THEN UNCHANGED <<settled, scan>> ELSE Unsettle(t[1])
  /\ UNCHANGED <<world, cache, index, row, recorded, master, override, unrecorded>>

\* update_season_override with an audio, for any season.  For the first one the master of the
\* series follows, in a transaction of its own, which may fail.
ChooseAudio(t, audio) ==
  /\ item[t] # None
  /\ Happens
  /\ override' = [override EXCEPT ![t] = audio]
  /\ \/ t[2] = 1 /\ StoreMaster(t[1], audio) /\ Unsettle(t[1])
     \/ UNCHANGED <<master, settled, scan>>
  /\ UNCHANGED <<world, cache, index, item, row, recorded, unrecorded>>

\* clear_season_override, or an update without an audio: the master stays.
ClearAudio(t) ==
  /\ override[t] # None
  /\ Happens
  /\ override' = [override EXCEPT ![t] = None]
  /\ UNCHANGED <<world, cache, index, item, row, recorded, master, scan, past>>

-----------------------------------------------------------------------------
ReadIncremental ==
  \/ ReadInventory \/ VerifyProvider \/ DiffInventory
  \/ LoadIndex \/ RefreshIndex \/ PublishBackup
  \/ Retrieve \/ LoadDetail

ScanStep ==
  \/ \E t \in Targets : SetMaster(t)
  \/ ReadIncremental
  \/ Evaluate \/ AuditProposals
  \/ RecordScan \/ RecordInventory \/ RecordRows \/ EndScan

Environment ==
  \/ \E t \in Targets : SonarrChanges(t) \/ ClearAudio(t)
  \/ \E u \in Urls : PageChanges(u) \/ Expire(u)
  \/ \E t \in Targets, audio \in Audios : Approve(t, audio) \/ ChooseAudio(t, audio)
  \/ LoseIndex

Next == (\E mode \in {"normal", "deep"} : Begin(mode)) \/ ScanStep \/ ScanFails \/ Environment

\* The automatic scans come back, and the clock goes on; a started scan works on.
Fairness ==
  /\ WF_vars(Begin("normal")) /\ WF_vars(ScanStep)
  /\ \A u \in Urls : SF_vars(Expire(u))

Spec == Init /\ [][Next]_vars /\ Fairness

-----------------------------------------------------------------------------
TypeOK ==
  /\ sonarr \in [Targets -> Nat] /\ page \in [Urls -> Nat]
  /\ cache \in [Urls -> [status : {"none", "ok", "failed"}, version : Nat,
                         stale : BOOLEAN, due : BOOLEAN]]
  /\ item \in [Targets -> Items \cup {None}]
  /\ row \in [Targets -> {"absent", "current", "pending", "stale_retry", "invalidated"}]
  /\ recorded \in [Targets -> Nat \cup {None}]
  /\ master \in [Series -> Audios \cup {None}]
  /\ override \in [Targets -> Audios \cup {None}]
  /\ settled \subseteq Series /\ unrecorded \subseteq Targets

\* A proposal rests on the whole shortlist of its series: the catalogue was there, nothing
\* overflowed it, and a page the budget did not reach holds back every season of a series
\* that shares it (candidate_overflow, provider_request_budget,
\* catalog_generation_unavailable).
WholeEvidence ==
  [][RecordScan =>
       LET new == scan.fresh.new IN
       \A t \in scan.dirty : new[t].state = "proposed" =>
         /\ ~Overflow(t[1]) /\ Entries # {}
         /\ \A u \in scan.fresh.missed[t] : \E s \in WorkSeries :
              \A r \in scan.dirty : r[1] = s =>
                u \in scan.fresh.missed[r] /\ new[r].state = "needs_review"]_vars

\* The inventory that is on record has been seen by the mapping of the season: a change in
\* Sonarr is mapped before it is recorded.  A season is excepted whose first inventory a
\* failed scan did not record.
InventoryIsSeen ==
  \A t \in Targets \ unrecorded : recorded[t] # None => item[t] # None /\ recorded[t] <= item[t].seen

\* No mapping whose page has changed stays executable for ever: there comes a moment at which
\* none is (_preservation_valid, record_provider_validation_state).  Of the page a mapping has
\* by itself: a variant that only an override executes is validated by no scan.
Outdated == \E t \in Targets : Executable(t) /\ Evidence(t) # page[Source(t)]
StaleIsStopped == Outdated ~> ~Outdated

\* After a normal scan everything executable of a series is executed in its audio, whichever
\* of scan and user wrote the master last, until one of them decides again.  A proposal of a
\* season with an override is executed in the audio of that, if it has it; no approval is.
OneAudio ==
  \A t \in Targets : Executable(t) /\ t[1] \in settled =>
    Executed(t) = master[t[1]] \/ (Proposed(t) /\ Executed(t) = override[t])
=============================================================================
