----------------------------- MODULE SeriesScan -----------------------------
(***************************************************************************)
(* A scan of the V3 backend: the loop of core/Core.py and the manual scan  *)
(* beside it, what core/Processor.py makes of Sonarr's missing episodes,   *)
(* and what core/Downloader.py does with each of them, while the operator  *)
(* switches downloads off and on (runtime.py) and Sonarr goes on with its  *)
(* own work.                                                               *)
(*                                                                         *)
(* Every step of a thread ends where the code calls somebody else; the     *)
(* check that follows an effect belongs to the step of the effect.  The    *)
(* fatal error of the loop ends the process (main.py), which is started    *)
(* again; a manual scan dies with it.  The table is MappingRows'; how it   *)
(* is saved while others edit it is MappingTable's.                        *)
(***************************************************************************)
EXTENDS MappingRows

CONSTANTS
  Episodes,       \* Sonarr's episodes
  Info,           \* title, season, number and absolute number (0: none) of each
  Standard,       \* titles that are not of type anime in Sonarr
  Tagged,         \* titles with an active tag
  Listed,         \* the episodes a page lists: pairs of first and last number,
                  \* <<1, 0>> for one the parser ignores
  Length,         \* the number of episodes of the release a page is about
  FoundUrls,      \* what the search answers
  Preferences,    \* MappingPreferences.data
  StartTables, StartSettings,
  StartMissing,   \* the missing episodes at the start, as Sonarr lists them
  PageSize,       \* records of a page of /wanted/missing
  NoFile,
  MaxErrors,      \* bound: calls that fail, crashes included
  MaxOps          \* bound: switches, manual scans, downloads by Sonarr itself

ASSUME ScanAssumption ==
  /\ Preferences.review \subseteq Titles /\ PageSize \in Nat \ {0}
  /\ Info \in [Episodes -> [title : Titles, season : 0 .. (Absolute - 1),
                           number : Nat, absolute : Nat]]
  /\ StartMissing \in Seq(Episodes) /\ \A data \in StartTables : IsTable(data)
  /\ FoundUrls \subseteq Urls

\* Length is the last number of a release, and no page lists one after it.  The
\* parser takes an episode 0, and ignores a merged one that starts with it.
ASSUME PagesAssumption ==
  /\ Length \in [Urls -> Nat] /\ Listed \in [Urls -> Seq(Nat \X Nat)]
  /\ \A url \in Urls : \A i \in DOMAIN Listed[url] :
       /\ Listed[url][i][2] <= Length[url]
       /\ Listed[url][i][1] = 0 => Listed[url][i][2] = 0

Threads == {"core", "manual"}

VARIABLES
  loop,           \* Core.run: woken, running, asleep or dead
  scanLock,       \* holder of scan_lock
  at,             \* where each thread is
  work,           \* what it has in hand: pages, series, seasons, the chosen source
  table,          \* the mapping table
  settings,       \* AutoBind, MoveEp, RenameEp, TagsMode, and auto_save
  runtime,        \* search_only_mode and downloads_paused
  sonarr,         \* its missing list, queue, pending rescans, episodes to air
  folder,         \* the download folder: a file or none for each episode
  library,        \* the series folders, likewise
  trail,          \* history: what was done for the last download of an episode
  after,          \* history: effects since search-only, downloads since a pause
  errors, ops

vars == <<loop, scanLock, at, work, table, settings, runtime, sonarr, folder, library,
          trail, after, errors, ops>>
files == <<folder, library, trail, after>>
bounds == <<errors, ops>>
control == <<loop, scanLock>>

Nothing ==
  [page |-> 1, got |-> <<>>, todo |-> <<>>, bound |-> <<>>, plan |-> <<>>,
   episodi |-> <<>>, source |-> NoFile]

Init ==
  /\ loop = "woken" /\ scanLock = "free"
  /\ at = [p \in Threads |-> "idle"] /\ work = [p \in Threads |-> Nothing]
  /\ table \in StartTables /\ settings \in StartSettings
  /\ runtime = [search |-> FALSE, paused |-> FALSE]
  /\ sonarr = [missing |-> StartMissing, queue |-> {}, rescans |-> {},
               later |-> Episodes \ Range(StartMissing)]
  /\ folder = [e \in Episodes |-> NoFile]
  /\ library = [e \in Episodes |-> NoFile]
  /\ trail = [e \in Episodes |-> {}]
  /\ after = [search |-> 0, paused |-> 0]
  /\ errors = 0 /\ ops = 0

To(p, point) == at' = [at EXCEPT ![p] = point]
Fails == errors < MaxErrors /\ errors' = errors + 1 /\ UNCHANGED ops
Started == ops < MaxOps /\ ops' = ops + 1 /\ UNCHANGED errors

(***************************************************************************)
(* Core: the loop, the manual scan, the end of a scan.                     *)
(***************************************************************************)
\* The delay is over, or wakeUp found the loop asleep and notified it.
Wake ==
  /\ loop = "asleep"
  /\ loop' = "woken"
  /\ UNCHANGED <<scanLock, at, work, table, settings, runtime, sonarr, files, bounds>>

Job ==
  /\ loop = "woken"
  /\ IF scanLock = "free"
       THEN loop' = "running" /\ scanLock' = "core" /\ To("core", "fetch")
       ELSE loop' = "asleep" /\ UNCHANGED <<scanLock, at>>
  /\ UNCHANGED <<work, table, settings, runtime, sonarr, files, bounds>>

RunScanNow ==
  /\ scanLock = "free" /\ Started
  /\ scanLock' = "manual" /\ To("manual", "fetch")
  /\ UNCHANGED <<loop, work, table, settings, runtime, sonarr, files>>

ScanEnds(p) ==
  /\ To(p, "idle") /\ work' = [work EXCEPT ![p] = Nothing]
  /\ scanLock' = "free"
  /\ loop' = IF p = "core" THEN "asleep" ELSE loop

\* A bug: the worker of a manual scan releases the lock only when it succeeds.
RaiseHolding(p) ==
  /\ at[p] # "idle"
  /\ To(p, "idle") /\ work' = [work EXCEPT ![p] = Nothing]
  /\ scanLock' = IF p = "core" THEN "free" ELSE scanLock
  /\ loop' = IF p = "core" THEN "dead" ELSE loop

\* An exception nobody catches.
Raise(p) ==
  /\ at[p] # "idle"
  /\ To(p, "idle") /\ work' = [work EXCEPT ![p] = Nothing]
  /\ scanLock' = "free"
  /\ loop' = IF p = "core" THEN "dead" ELSE loop

\* Any call to Sonarr, AnimeWorld, the disk or a script may raise.
CallRaises(p) ==
  /\ Raise(p) /\ Fails
  /\ UNCHANGED <<table, settings, runtime, sonarr, files>>

\* main ends when the loop does, and with it every other thread.
Restart ==
  /\ IF loop = "dead" THEN UNCHANGED bounds ELSE Fails
  /\ loop' = "woken" /\ scanLock' = "free"
  /\ at' = [p \in Threads |-> "idle"] /\ work' = [p \in Threads |-> Nothing]
  /\ UNCHANGED <<table, settings, runtime, sonarr, files>>

(***************************************************************************)
(* Processor: the missing episodes, grouped, filtered and bound to URLs.   *)
(***************************************************************************)
PageOf(list, n) ==
  SubSeq(list, (n - 1) * PageSize + 1,
         IF n * PageSize < Len(list) THEN n * PageSize ELSE Len(list))

\* Of(x), where TLC evaluates x once.
Once(x, Of(_)) == CHOOSE y \in {Of(z) : z \in {x}} : TRUE

\* A list with something new at some positions, or at its end if there are none.
Placed(list, positions, new, last) ==
  IF positions = {} THEN Append(list, last)
  ELSE [i \in DOMAIN list |-> IF i \in positions THEN new[i] ELSE list[i]]

\* __extractSerie, __extractSeason: what is kept of a record of Sonarr.
ExtractSerie(e) == [title |-> Info[e].title, seasons |-> <<>>]
ExtractSeason(e) == [number |-> Info[e].season, episodes |-> <<>>]

\* __reduce: an episode is added to its season of its series.
Extended(season, e) == [season EXCEPT !.episodes = Append(@, e)]
WithEpisode(series, e) ==
  [series EXCEPT !.seasons =
     Placed(@, {i \in DOMAIN @ : @[i].number = Info[e].season},
            [i \in DOMAIN @ |-> Extended(@[i], e)], Extended(ExtractSeason(e), e))]
Reduce(base, e) ==
  Placed(base, {i \in DOMAIN base : base[i].title = Info[e].title},
         [i \in DOMAIN base |-> WithEpisode(base[i], e)], WithEpisode(ExtractSerie(e), e))

Reduced(got, page) ==
  LET read[n \in 0..Len(page)] ==
        IF n = 0 THEN got ELSE Once(read[n - 1], LAMBDA base : Reduce(base, page[n]))
  IN  read[Len(page)]

IsAnimeSeries(title) ==
  title \notin Standard \/ (settings.tagsMode = "WHITELIST" /\ title \in Tagged)

Allowed(title) ==
  /\ IsAnimeSeries(title)
  /\ settings.tagsMode = "BLACKLIST" => title \notin Tagged
  /\ settings.tagsMode = "WHITELIST" => title \in Tagged

Regular(seasons) == Chosen(seasons, {i \in DOMAIN seasons : seasons[i].number # 0})
Filter(series) ==
  LET kept == [i \in DOMAIN series |-> [series[i] EXCEPT !.seasons = Regular(@)]]
  IN  Chosen(kept, {i \in DOMAIN kept : Allowed(kept[i].title) /\ kept[i].seasons # <<>>})

\* The numbers of the first season's episodes are not looked at.
Numbered(episodes) ==
  Chosen(episodes, {i \in DOMAIN episodes : Info[episodes[i]].absolute # 0})
ConvertToAbsolute(series) ==
  LET others == Tail(series.seasons)
      more   == FlattenSeq([i \in DOMAIN others |-> Numbered(others[i].episodes)])
  IN  [series EXCEPT !.seasons =
         <<[number |-> Absolute, episodes |-> series.seasons[1].episodes \o more]>>]

SortEpisodes(episodes) ==
  LET Before(e, f) == \/ Info[e].season < Info[f].season
                      \/ Info[e].season = Info[f].season /\ Info[e].number < Info[f].number
  IN  Arranged(episodes, {p \in (DOMAIN episodes) \X (DOMAIN episodes) :
                            Before(episodes[p[1]], episodes[p[2]])})
SortSerie(seasons) ==
  LET sorted == Arranged(seasons, {p \in (DOMAIN seasons) \X (DOMAIN seasons) :
                                     seasons[p[1]].number < seasons[p[2]].number})
  IN  [i \in DOMAIN sorted |-> [sorted[i] EXCEPT !.episodes = SortEpisodes(@)]]

\* One request for a page; the empty one is the last.
GetAllMissing(p) ==
  LET page == PageOf(sonarr.missing, work[p].page)
  IN  /\ at[p] = "fetch"
      /\ IF page # <<>>
           THEN work' = [work EXCEPT ![p].page = @ + 1,
                                     ![p].got = Reduced(@, page)] /\ UNCHANGED at
           ELSE work' = [work EXCEPT ![p] = [Nothing EXCEPT !.todo = Filter(work[p].got)]]
                /\ To(p, "bind")
      /\ UNCHANGED <<control, table, settings, runtime, sonarr, files, bounds>>

BindSerie(p) ==
  LET series == Head(work[p].todo)
      i      == FindEntry(table, series.title)
  IN  /\ at[p] = "bind" /\ work[p].todo # <<>>
      /\ IF i = 0 /\ ~settings.autoBind
           THEN work' = [work EXCEPT ![p].todo = Tail(@)] /\ UNCHANGED at
           ELSE /\ work' = [work EXCEPT ![p].todo[1] =
                              IF i # 0 /\ table[i].absolute THEN ConvertToAbsolute(@) ELSE @]
                /\ To(p, "bindSeason")
      /\ UNCHANGED <<control, table, settings, runtime, sonarr, files, bounds>>

\* The season is taken off the series, with the URLs it is downloaded from if any.
Bound(p, urls) ==
  LET series == Head(work[p].todo)
      season == Head(series.seasons)
      found  == [title |-> series.title, number |-> season.number, urls |-> urls,
                 episodes |-> season.episodes]
  IN  work' = [work EXCEPT ![p].todo[1].seasons = Tail(@),
                           ![p].bound = IF urls = <<>> THEN @ ELSE Append(@, found)]

\* A sure result is saved when the settings and the other seasons allow it; the
\* season is downloaded from it whether it was saved or not.
Saved(title, season, url, sure) ==
  IF sure /\ settings.autoSave
     /\ ~SharedUrlConflict(table, Preferences, title, season, url, FALSE)
     /\ ~Refused(table, title, season, url)
    THEN SortedByTitle(Amended(table, title, season, url)) ELSE table

BindUrl(p) ==
  LET series == Head(work[p].todo)
      season == Head(series.seasons)
      mapped == Mapped(table, Preferences, series.title, season.number)
      search == ~mapped /\ settings.autoBind /\ season.number # Absolute
  IN  /\ at[p] = "bindSeason" /\ series.seasons # <<>>
      /\ \/ /\ mapped
            /\ Bound(p, UrlsOf(table, series.title, season.number))
            /\ UNCHANGED table
         \/ /\ ~mapped /\ ~search
            /\ Bound(p, <<>>)
            /\ UNCHANGED table
         \/ /\ search
            /\ \E url \in FoundUrls, sure \in BOOLEAN :
                 /\ Bound(p, <<url>>)
                 /\ table' = Saved(series.title, season.number, url, sure)
         \/ /\ search                        \* nothing, or a draft for review
            /\ Bound(p, <<>>)
            /\ UNCHANGED table
      /\ UNCHANGED <<control, at, settings, runtime, sonarr, files, bounds>>

SerieBound(p) ==
  /\ at[p] = "bindSeason" /\ Head(work[p].todo).seasons = <<>>
  /\ To(p, "bind")
  /\ work' = [work EXCEPT ![p].todo = Tail(@), ![p].bound = <<>>,
                          ![p].plan = @ \o SortSerie(work[p].bound)]
  /\ UNCHANGED <<control, table, settings, runtime, sonarr, files, bounds>>

DataReady(p) ==
  /\ at[p] = "bind" /\ work[p].todo = <<>>
  /\ To(p, "season")
  /\ UNCHANGED <<control, work, table, settings, runtime, sonarr, files, bounds>>

(***************************************************************************)
(* Downloader: which source episode is which.                              *)
(***************************************************************************)
\* A bug: the offset of a page is the number of episodes before it.
CountBefore(base) == Len(base)

LastNumber(base) == IF base = <<>> THEN 0 ELSE base[Len(base)].number

\* expand_episode_number: the numbers of one listed episode.
Expanded(url, range, offset) ==
  [k \in 1..(range[2] + 1 - range[1]) |->
     [url |-> url, local |-> range[1] + k - 1, number |-> offset + range[1] + k - 1]]

PageNumbers(url, offset) ==
  FlattenSeq([i \in DOMAIN Listed[url] |-> Expanded(url, Listed[url][i], offset)])
FlattenEpisodes(urls) ==
  LET base[n \in 0..Len(urls)] ==
        IF n = 0 THEN <<>>
        ELSE Once(base[n - 1], LAMBDA b : b \o PageNumbers(urls[n], LastNumber(b)))
  IN  base[Len(urls)]

NumberIn(season, e) ==
  IF season.number = Absolute THEN Info[e].absolute ELSE Info[e].number
\* The source episodes an episode may be downloaded from; no number is no match.
Matching(season, e, episodi) ==
  IF season.number = Absolute /\ Info[e].absolute = 0 THEN {}
  ELSE {i \in DOMAIN episodi : episodi[i].number = NumberIn(season, e)}

(***************************************************************************)
(* Downloader: one season after the other, one episode after the other.    *)
(***************************************************************************)
Blocked == runtime.search \/ runtime.paused
InQueue(e) == e \in sonarr.queue
Season(p) == Head(work[p].plan)
Episode(p) == Head(Season(p).episodes)

SeasonDone(p) ==
  /\ To(p, "season")
  /\ work' = [work EXCEPT ![p].plan = Tail(@), ![p].episodi = <<>>, ![p].source = NoFile]
EpisodeDone(p) ==
  /\ To(p, "episode")
  /\ work' = [work EXCEPT ![p].plan[1].episodes = Tail(@), ![p].source = NoFile]

\* Something done for the current episode, maybe while downloads are switched off.
Effect(p, marks) ==
  /\ trail' = [trail EXCEPT ![Episode(p)] = marks]
  /\ after' = [search |-> after.search + (IF runtime.search THEN 1 ELSE 0),
               paused |-> after.paused +
                            (IF runtime.paused /\ at[p] = "download" THEN 1 ELSE 0)]

Also(p, mark) == Effect(p, trail[Episode(p)] \cup {mark})

\* __skipPostDownloadActions before the next thing to do.
UnlessSearchOnly(p, next) ==
  IF runtime.search THEN EpisodeDone(p) ELSE To(p, next) /\ UNCHANGED work

DownloadSeason(p) ==
  /\ at[p] = "season" /\ work[p].plan # <<>>
  /\ IF Blocked THEN SeasonDone(p)
       ELSE To(p, "episode")
            /\ work' = [work EXCEPT ![p].episodi = FlattenEpisodes(Season(p).urls)]
  /\ UNCHANGED <<control, table, settings, runtime, sonarr, files, bounds>>

\* AnimeNotAvailable, ServerNotSupported and Error404 end the season.
SeasonFails(p) ==
  /\ at[p] \in {"episode", "download"}
  /\ Fails
  /\ SeasonDone(p)
  /\ UNCHANGED <<control, table, settings, runtime, sonarr, files>>

\* DeprecatedLibrary ends the scan, and not the loop.
Deprecated(p) ==
  /\ at[p] = "episode"
  /\ Fails
  /\ ScanEnds(p)
  /\ UNCHANGED <<table, settings, runtime, sonarr, files>>

\* Both checks for a switch, the queue of Sonarr, and the choice of the source.
ChooseEpisode(p) ==
  LET number == NumberIn(Season(p), Episode(p))
      found  == Matching(Season(p), Episode(p), work[p].episodi)
      first  == work[p].episodi[Lowest(found)]
      source == [urls |-> Season(p).urls, number |-> number,
                 url |-> first.url, local |-> first.local]
  IN  /\ at[p] = "episode" /\ Season(p).episodes # <<>>
      /\ IF Blocked \/ InQueue(Episode(p)) \/ found = {} THEN EpisodeDone(p)
         ELSE To(p, "download") /\ work' = [work EXCEPT ![p].source = source]
      /\ UNCHANGED <<control, table, settings, runtime, sonarr, files, bounds>>

SeasonEnds(p) ==
  /\ at[p] = "episode" /\ Season(p).episodes = <<>>
  /\ SeasonDone(p)
  /\ UNCHANGED <<control, table, settings, runtime, sonarr, files, bounds>>

Download(p) ==
  /\ at[p] = "download"
  /\ folder' = [folder EXCEPT ![Episode(p)] = work[p].source]
  /\ Effect(p, {"file"})
  /\ UnlessSearchOnly(p, IF settings.moveEp THEN "move" ELSE "announce")
  /\ UNCHANGED <<control, table, settings, runtime, sonarr, library, bounds>>

\* The library answers no file.
DownloadFails(p) ==
  /\ at[p] = "download" /\ Fails
  /\ EpisodeDone(p)
  /\ UNCHANGED <<control, table, settings, runtime, sonarr, files>>

\* __moveFile: out of the download folder, into the folder of the series.
FileMoved(e) ==
  /\ library' = [library EXCEPT ![e] = folder[e]]
  /\ folder' = [folder EXCEPT ![e] = NoFile]

\* A bug: the switch is not read again after the file was moved.
MoveFileUnchecked(p) ==
  /\ at[p] = "move"
  /\ FileMoved(Episode(p))
  /\ Also(p, "moved")
  /\ To(p, "rescan")
  /\ UNCHANGED <<control, work, table, settings, runtime, sonarr, bounds>>

MoveFile(p) ==
  /\ at[p] = "move"
  /\ FileMoved(Episode(p))
  /\ Also(p, "moved")
  /\ UnlessSearchOnly(p, "rescan")
  /\ UNCHANGED <<control, table, settings, runtime, sonarr, bounds>>

\* The answer of Sonarr is not looked at: it may refuse the command.
CommandRescanSeries(p) ==
  /\ at[p] = "rescan"
  /\ \/ /\ sonarr' = [sonarr EXCEPT !.rescans = @ \cup {Info[Episode(p)].title}]
        /\ UNCHANGED bounds
     \/ UNCHANGED sonarr /\ Fails
  /\ Also(p, "rescanned")
  /\ UnlessSearchOnly(p, IF settings.renameEp THEN "rename" ELSE "announce")
  /\ UNCHANGED <<control, table, settings, runtime, folder, library>>

\* A bug: an episode Sonarr has not found yet is renamed another time.
RenameFileOrNot(p) ==
  /\ at[p] = "rename"
  /\ IF Episode(p) \notin Range(sonarr.missing) THEN Also(p, "renamed")
       ELSE Effect(p, trail[Episode(p)])
  /\ UnlessSearchOnly(p, "announce")
  /\ UNCHANGED <<control, table, settings, runtime, sonarr, folder, library, bounds>>

\* Three attempts to find the file in Sonarr, and an exception after the last.
RenameFile(p) ==
  /\ at[p] = "rename"
  /\ \/ /\ Episode(p) \notin Range(sonarr.missing)
        /\ Also(p, "renamed")
        /\ UnlessSearchOnly(p, "announce")
        /\ UNCHANGED control
     \/ /\ Episode(p) \in Range(sonarr.missing)
        /\ Raise(p)
        /\ UNCHANGED <<trail, after>>
  /\ UNCHANGED <<table, settings, runtime, sonarr, folder, library, bounds>>

Announce(p) ==
  /\ at[p] = "announce"
  /\ Also(p, "announced")
  /\ EpisodeDone(p)
  /\ UNCHANGED <<control, table, settings, runtime, sonarr, folder, library, bounds>>

JobEnds(p) ==
  /\ at[p] = "season" /\ work[p].plan = <<>>
  /\ ScanEnds(p)
  /\ UNCHANGED <<table, settings, runtime, sonarr, files, bounds>>

Step(p) ==
  \/ GetAllMissing(p) \/ BindSerie(p) \/ BindUrl(p) \/ SerieBound(p) \/ DataReady(p)
  \/ DownloadSeason(p) \/ ChooseEpisode(p) \/ SeasonEnds(p)
  \/ Download(p) \/ MoveFile(p) \/ CommandRescanSeries(p) \/ RenameFile(p) \/ Announce(p)
  \/ JobEnds(p)

Fault(p) == CallRaises(p) \/ SeasonFails(p) \/ Deprecated(p) \/ DownloadFails(p)

(***************************************************************************)
(* The operator, and Sonarr.                                               *)
(***************************************************************************)
Switch(new) ==
  /\ new # runtime /\ Started
  /\ runtime' = new
  /\ after' = [search |-> IF new.search /\ ~runtime.search THEN 0 ELSE after.search,
               paused |-> IF new.paused /\ ~runtime.paused THEN 0 ELSE after.paused]
  /\ UNCHANGED <<control, at, work, table, settings, sonarr, folder, library, trail>>

\* The rescan of a series finds the files in its folder.
Import(title) ==
  /\ title \in sonarr.rescans
  /\ sonarr' = [sonarr EXCEPT
       !.rescans = @ \ {title},
       !.missing = Chosen(@, {i \in DOMAIN @ : \/ Info[@[i]].title # title
                                              \/ library[@[i]] = NoFile})]
  /\ UNCHANGED <<control, at, work, table, settings, runtime, files, bounds>>

\* A new episode goes to the front of the list.
Air(e) ==
  /\ e \in sonarr.later
  /\ sonarr' = [sonarr EXCEPT !.later = @ \ {e}, !.missing = <<e>> \o @]
  /\ UNCHANGED <<control, at, work, table, settings, runtime, files, bounds>>

Grab(e) ==
  /\ e \in Range(sonarr.missing) \ sonarr.queue /\ Started
  /\ sonarr' = [sonarr EXCEPT !.queue = @ \cup {e}]
  /\ UNCHANGED <<control, at, work, table, settings, runtime, files>>

Grabbed(e) ==
  /\ e \in sonarr.queue
  /\ \/ sonarr' = [sonarr EXCEPT !.queue = @ \ {e}]
     \/ sonarr' = [sonarr EXCEPT !.queue = @ \ {e},
                                 !.missing = Chosen(@, {i \in DOMAIN @ : @[i] # e})]
  /\ UNCHANGED <<control, at, work, table, settings, runtime, files, bounds>>

External ==
  \/ \E new \in [search : BOOLEAN, paused : BOOLEAN] : Switch(new)
  \/ \E title \in Titles : Import(title)
  \/ \E e \in Episodes : Air(e) \/ Grab(e) \/ Grabbed(e)

Next ==
  \/ Wake \/ Job \/ RunScanNow \/ Restart
  \/ \E p \in Threads : Step(p) \/ Fault(p)
  \/ External

Spec == Init /\ [][Next]_vars

\* The threads run, the delay passes, the process is started again, and Sonarr
\* finishes its rescans and downloads.
Fairness ==
  /\ WF_vars(Wake) /\ WF_vars(Job) /\ WF_vars(loop = "dead" /\ Restart)
  /\ \A p \in Threads : WF_vars(Step(p))
  /\ \A title \in Titles : WF_vars(Import(title))
  /\ \A e \in Episodes : WF_vars(Grabbed(e))

FairSpec == Spec /\ Fairness

(***************************************************************************)
(* What the scans promise.                                                 *)
(***************************************************************************)
\* Two scans never run at once, and whoever scans holds scan_lock: the loop of
\* Core.run, runScanNow's worker and job exclude each other.
OneScan ==
  \A p \in Threads : at[p] # "idle" => scanLock = p

\* Search-only mode stops a scan within one step: from the moment it is on, at
\* most the one thing whose check had already been passed is done (a download,
\* a move, a rescan, a rename, an announcement), by all the scans together;
\* and a pause lets at most one download through.
SwitchStopsWithinOne == after.search <= 1 /\ after.paused <= 1

\* An episode is announced only when its file was moved to the series, Sonarr
\* was told after that, and renamed it, as far as the settings ask for it.
AnnouncedIsDone ==
  \A e \in Episodes :
    "announced" \in trail[e] =>
      /\ settings.moveEp => {"moved", "rescanned"} \subseteq trail[e]
      /\ settings.moveEp /\ settings.renameEp => "renamed" \in trail[e]

\* A page whose last listed episode is the last of its release.
Lists(range) == range[1] <= range[2]
Whole(url) ==
  \E i \in DOMAIN Listed[url] :
    /\ Lists(Listed[url][i]) /\ Listed[url][i][2] = Length[url]
    /\ \A j \in DOMAIN Listed[url] : i < j => ~Lists(Listed[url][j])
LengthBefore(urls, i) ==
  LET sum[n \in 0..Len(urls)] == IF n = 0 THEN 0 ELSE sum[n - 1] + Length[urls[n]]
  IN  sum[i - 1]

\* A source found by counting the episodes of the URLs before it; an episode 0
\* of a release counts for nothing but number 0.
Right(file) ==
  (\A i \in 1..(Len(file.urls) - 1) : Whole(file.urls[i])) =>
    \E i \in DOMAIN file.urls :
      /\ file.urls[i] = file.url
      /\ file.local \in 0..Length[file.url] /\ (file.local = 0 => file.number = 0)
      /\ LengthBefore(file.urls, i) + file.local = file.number

\* The file of an episode is that episode: counting through the releases of its
\* season in the order of their URLs leads to the source it was taken from.
\* Every release but the last must list its last episode last, which
\* flattenEpisodes relies on.
RightSource ==
  \A file \in (Range(folder) \cup Range(library)) \ {NoFile} : Right(file)

\* Every missing episode that its mapping offers is delivered in the end: Sonarr
\* has it, unless downloads are switched off or Sonarr's own download is in the
\* way.  A failing call, a dead loop, a crash and a manual scan only delay it.
Offered(e) ==
  LET i      == FindEntry(table, Info[e].title)
      number == IF i # 0 /\ table[i].absolute THEN Absolute ELSE Info[e].season
  IN  /\ Info[e].season # 0 /\ Allowed(Info[e].title)
      /\ Mapped(table, Preferences, Info[e].title, number)
      /\ \E urls \in {UrlsOf(table, Info[e].title, number)} :
           \E episodi \in {FlattenEpisodes(urls)} :
             Matching([number |-> number], e, episodi) # {}
Wanted(e) == ~Blocked /\ settings.moveEp /\ e \in Range(sonarr.missing) /\ Offered(e)
SomeWanted == \E e \in Episodes : Wanted(e)
WantedIsDelivered == SomeWanted ~> ~SomeWanted
=============================================================================
