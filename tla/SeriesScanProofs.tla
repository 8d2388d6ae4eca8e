-------------------------- MODULE SeriesScanProofs --------------------------
(***************************************************************************)
(* Proofs about SeriesScan, for any number of episodes, seasons and pages, *)
(* any mapping and any number of faults: two scans never run at once, an   *)
(* announced episode was moved, rescanned and renamed as the settings ask, *)
(* a switch stops the scans within one step, and the file of an episode is *)
(* that episode.                                                           *)
(*                                                                         *)
(* Of the position of a thread the invariant says what must have been done *)
(* for its episode before (Prepared) and that nobody who is about to act   *)
(* has acted since the switch (Quiet).  Both need that the other thread is *)
(* idle: a second scan could fetch the same episode anew in between.       *)
(*                                                                         *)
(* Of what a thread has in hand it says what it is made of, and that the   *)
(* first source of every number of a season is the right one (DataInv):    *)
(* counted release by release (Counted), an episode 0 of a later release   *)
(* stands behind the episode whose number it repeats (ZeroFollows).        *)
(***************************************************************************)
EXTENDS SeriesScan, MappingRowsProofs, TLAPS

Points == {"idle", "fetch", "bind", "bindSeason", "season", "episode",
           "download", "move", "rescan", "rename", "announce"}
Acting == {"download", "move", "rescan", "rename", "announce"}

TypeInv ==
  /\ at \in [Threads -> Points]
  /\ DOMAIN work = Threads
  /\ runtime \in [search : BOOLEAN, paused : BOOLEAN]
  /\ after \in [search : Nat, paused : Nat]
  /\ DOMAIN trail = Episodes

Locked == \A p \in Threads : at[p] # "idle" => scanLock = p

\* What was done for an episode when a thread is about to go on with it.
Needed(point) ==
  CASE point = "rescan" -> {"moved"}
    [] point = "rename" -> {"moved", "rescanned"}
    [] point = "announce" ->
         (IF settings.moveEp THEN {"moved", "rescanned"} ELSE {})
           \cup (IF settings.moveEp /\ settings.renameEp THEN {"renamed"} ELSE {})
    [] OTHER -> {}
Prepared ==
  /\ \A p \in Threads :
       at[p] \in Acting /\ Episode(p) \in Episodes => Needed(at[p]) \subseteq trail[Episode(p)]
  /\ \A p \in Threads : at[p] \in {"move", "rescan", "rename"} => settings.moveEp

Quiet ==
  /\ after.search <= 1 /\ after.paused <= 1
  /\ \A p \in Threads :
       /\ runtime.search /\ at[p] \in Acting => after.search = 0
       /\ runtime.paused /\ at[p] = "download" => after.paused = 0

IInv == TypeInv /\ Locked /\ Prepared /\ AnnouncedIsDone /\ Quiet

(***************************************************************************)
(* Steps that do nothing for an episode: one thread moves to a point where *)
(* it is not about to act.                                                 *)
(***************************************************************************)
Others(p) == \A q \in Threads \ {p} : at'[q] = at[q] /\ work'[q] = work[q]
Moves(p, point) ==
  at' \in [Threads -> Points] /\ at'[p] = point /\ DOMAIN work' = Threads /\ Others(p)

LEMMA ThreadStep ==
  ASSUME TypeInv, NEW p \in Threads, NEW point \in Points, at' = [at EXCEPT ![p] = point],
         NEW data, \/ work' = [work EXCEPT ![p] = data]
                   \/ UNCHANGED work
  PROVE  Moves(p, point)
BY DEF TypeInv, Moves, Others

LEMMA SameWork ==
  ASSUME TypeInv, NEW p \in Threads, NEW point \in Points, To(p, point), UNCHANGED work
  PROVE  Moves(p, point)
BY DEF To, TypeInv, Moves, Others

LEMMA SeasonIsOver ==
  ASSUME TypeInv, NEW p \in Threads, SeasonDone(p)
  PROVE  Moves(p, "season")
BY DEF SeasonDone, To, TypeInv, Moves, Others, Points

LEMMA EpisodeIsOver ==
  ASSUME TypeInv, NEW p \in Threads, EpisodeDone(p)
  PROVE  Moves(p, "episode")
BY DEF EpisodeDone, To, TypeInv, Moves, Others, Points

LEMMA CalmStep ==
  ASSUME IInv, NEW p \in Threads, NEW point \in Points \ Acting, Moves(p, point),
         UNCHANGED <<trail, after, runtime, settings>>,
         \/ UNCHANGED scanLock /\ at[p] # "idle"
         \/ at[p] # "idle" /\ point = "idle"
         \/ scanLock = "free" /\ scanLock' = p
  PROVE  IInv'
<1>1. TypeInv'
  BY DEF IInv, TypeInv, Moves
<1>2. Locked'
  <2>1. \A q \in Threads \ {p} : at[q] = "idle"
    BY DEF IInv, Locked, Threads
  <2> QED BY <2>1 DEF IInv, Locked, Moves, Others
<1>3. Prepared'
  <2>1. ASSUME NEW q \in Threads, at'[q] \in Acting
        PROVE  q # p /\ at'[q] = at[q] /\ work'[q] = work[q]
    BY <2>1 DEF Moves, Others
  <2>2. ASSUME NEW q \in Threads, at'[q] \in Acting, Episode(q)' \in Episodes
        PROVE  Needed(at[q])' \subseteq trail'[Episode(q)']
    <3>1. Episode(q)' = Episode(q) /\ Needed(at[q])' = Needed(at[q])
      BY <2>1, <2>2 DEF Episode, Season, Needed
    <3> QED BY <2>1, <2>2, <3>1 DEF IInv, Prepared
  <2>3. ASSUME NEW q \in Threads, at'[q] \in {"move", "rescan", "rename"}
        PROVE  settings'.moveEp
    BY <2>1, <2>3 DEF IInv, Prepared, Acting
  <2> QED BY <2>2, <2>3 DEF Prepared
<1>4. AnnouncedIsDone'
  BY DEF IInv, AnnouncedIsDone
<1>5. Quiet'
  BY DEF IInv, Quiet, Moves, Others, Acting
<1> QED BY <1>1, <1>2, <1>3, <1>4, <1>5 DEF IInv

(***************************************************************************)
(* Steps that do something for the current episode.                        *)
(***************************************************************************)
Done(marks) ==
  /\ settings.moveEp => {"moved", "rescanned"} \subseteq marks
  /\ settings.moveEp /\ settings.renameEp => "renamed" \in marks

LEMMA EffectStep ==
  ASSUME IInv, NEW p \in Threads, at[p] \in Acting, NEW marks, Effect(p, marks),
         NEW point \in Points, Moves(p, point),
         UNCHANGED <<scanLock, runtime, settings>>,
         \/ point = "episode"
         \/ /\ point \in Acting \ {"download"} /\ ~runtime.search /\ work'[p] = work[p]
            /\ Episode(p) \in Episodes => Needed(point) \subseteq marks
            /\ point \in {"move", "rescan", "rename"} => settings.moveEp,
         Episode(p) \in Episodes /\ "announced" \in marks => Done(marks)
  PROVE  IInv'
<1>1. \A q \in Threads \ {p} : at[q] = "idle" /\ at'[q] = "idle"
  BY DEF IInv, Locked, Threads, Acting, Moves, Others
<1>2. TypeInv'
  BY DEF IInv, TypeInv, Moves, Effect
<1>3. Locked'
  BY <1>1 DEF IInv, Locked, Moves, Acting
<1>4. Prepared'
  <2>1. ASSUME NEW q \in Threads, at'[q] \in Acting
        PROVE  q = p /\ point # "episode" /\ Episode(p)' = Episode(p) /\ at'[p] = point
    BY <2>1, <1>1 DEF Moves, Acting, Episode, Season
  <2>2. ASSUME NEW q \in Threads, at'[q] \in Acting, Episode(q)' \in Episodes
        PROVE  Needed(at[q])' \subseteq trail'[Episode(q)']
    <3>1. trail'[Episode(p)] = marks
      BY <2>1, <2>2 DEF Effect, IInv, TypeInv
    <3>2. Needed(at[p])' = Needed(point)
      BY <2>1, <2>2 DEF Needed
    <3>3. Needed(point) \subseteq marks
      BY <2>1, <2>2
    <3> QED BY <2>1, <2>2, <3>1, <3>2, <3>3
  <2>3. ASSUME NEW q \in Threads, at'[q] \in {"move", "rescan", "rename"}
        PROVE  settings'.moveEp
    BY <2>1, <2>3 DEF Acting
  <2> QED BY <2>2, <2>3 DEF Prepared
<1>5. AnnouncedIsDone'
  BY DEF IInv, AnnouncedIsDone, Effect, TypeInv, Done
<1>6. Quiet'
  <2>1. after.search \in Nat /\ after.paused \in Nat
    BY DEF IInv, TypeInv
  <2>2. after'.search <= 1 /\ (runtime.search \/ after'.search = after.search)
    BY <2>1 DEF IInv, Quiet, Effect
  <2>3. /\ after'.paused <= 1
        /\ after'.paused = after.paused \/ (runtime.paused /\ at[p] = "download")
    BY <2>1 DEF IInv, Quiet, Effect
  <2>4. \A q \in Threads : at'[q] \in Acting => q = p /\ ~runtime.search /\ at'[q] # "download"
    BY <1>1 DEF Moves, Acting
  <2> QED BY <2>2, <2>3, <2>4 DEF Quiet, Acting
<1> QED BY <1>2, <1>3, <1>4, <1>5, <1>6 DEF IInv

(***************************************************************************)
(* The actions, by what they are.                                          *)
(***************************************************************************)
LEMMA StillStep ==
  ASSUME IInv, UNCHANGED <<scanLock, at, work, settings, runtime, trail, after>>
  PROVE  IInv'
<1>1. TypeInv' /\ Locked' /\ AnnouncedIsDone' /\ Quiet'
  BY DEF IInv, TypeInv, Locked, AnnouncedIsDone, Quiet
<1>2. Prepared'
  BY DEF IInv, Prepared, Episode, Season, Needed
<1> QED BY <1>1, <1>2 DEF IInv

LEMMA ProcessorStep ==
  ASSUME IInv, NEW p \in Threads,
         GetAllMissing(p) \/ BindSerie(p) \/ BindUrl(p) \/ SerieBound(p) \/ DataReady(p)
  PROVE  IInv'
<1>1. UNCHANGED <<trail, after, runtime, settings, scanLock>> /\ at[p] # "idle"
  BY DEF GetAllMissing, BindSerie, BindUrl, SerieBound, DataReady, files, control
<1>2. \E point \in Points \ Acting : Moves(p, point)
  <2>1. TypeInv
    BY DEF IInv
  <2>2. CASE GetAllMissing(p)
    BY <2>1, <2>2 DEF GetAllMissing, To, TypeInv, Moves, Others, Points, Acting
  <2>3. CASE BindSerie(p)
    BY <2>1, <2>3 DEF BindSerie, To, TypeInv, Moves, Others, Points, Acting
  <2>4. CASE BindUrl(p)
    <3>1. Others(p) /\ DOMAIN work' = Threads
      BY <2>1, <2>4 DEF BindUrl, Bound, TypeInv, Others
    <3>2. at' = at /\ at[p] = "bindSeason"
      BY <2>4 DEF BindUrl
    <3> QED BY <2>1, <3>1, <3>2 DEF TypeInv, Moves, Points, Acting
  <2>5. CASE SerieBound(p)
    BY <2>1, <2>5 DEF SerieBound, To, TypeInv, Moves, Others, Points, Acting
  <2>6. CASE DataReady(p)
    BY <2>1, <2>6 DEF DataReady, To, TypeInv, Moves, Others, Points, Acting
  <2> QED BY <2>2, <2>3, <2>4, <2>5, <2>6
<1> QED BY <1>1, <1>2, CalmStep

LEMMA EndOfScan ==
  ASSUME IInv, NEW p \in Threads, ScanEnds(p) \/ Raise(p), at[p] # "idle",
         UNCHANGED <<settings, runtime, trail, after>>
  PROVE  IInv'
<1>1. Moves(p, "idle")
  BY DEF ScanEnds, Raise, To, IInv, TypeInv, Moves, Others, Points
<1> QED BY <1>1, CalmStep DEF Points, Acting

LEMMA FaultStep ==
  ASSUME IInv, NEW p \in Threads, Fault(p)
  PROVE  IInv'
<1>1. CASE CallRaises(p)
  BY <1>1, EndOfScan DEF CallRaises, Raise, files
<1>2. CASE SeasonFails(p)
  <2>1. Moves(p, "season")
    BY <1>2, SeasonIsOver DEF SeasonFails, IInv
  <2> QED BY <1>2, <2>1, CalmStep DEF SeasonFails, files, control, Points, Acting
<1>3. CASE Deprecated(p)
  BY <1>3, EndOfScan DEF Deprecated, files
<1>4. CASE DownloadFails(p)
  <2>1. Moves(p, "episode")
    BY <1>4, EpisodeIsOver DEF DownloadFails, IInv
  <2> QED BY <1>4, <2>1, CalmStep DEF DownloadFails, files, control, Points, Acting
<1> QED BY <1>1, <1>2, <1>3, <1>4 DEF Fault

LEMMA SeasonStep ==
  ASSUME IInv, NEW p \in Threads,
         DownloadSeason(p) \/ SeasonEnds(p) \/ JobEnds(p)
  PROVE  IInv'
<1>1. CASE DownloadSeason(p)
  <2>1. \E point \in {"season", "episode"} : Moves(p, point)
    <3>1. CASE SeasonDone(p)
      BY <3>1, SeasonIsOver DEF IInv
    <3>2. CASE ~SeasonDone(p)
      BY <1>1, <3>2 DEF DownloadSeason, To, IInv, TypeInv, Moves, Others, Points
    <3> QED BY <3>1, <3>2
  <2> QED BY <1>1, <2>1, CalmStep DEF DownloadSeason, files, control, Points, Acting
<1>2. CASE SeasonEnds(p)
  <2>1. Moves(p, "season")
    BY <1>2, SeasonIsOver DEF SeasonEnds, IInv
  <2> QED BY <1>2, <2>1, CalmStep DEF SeasonEnds, files, control, Points, Acting
<1>3. CASE JobEnds(p)
  BY <1>3, EndOfScan DEF JobEnds, files
<1> QED BY <1>1, <1>2, <1>3

\* UnlessSearchOnly goes on with the episode, or is done with it.
LEMMA GoesOn ==
  ASSUME TypeInv, NEW p \in Threads, NEW next \in Points, UnlessSearchOnly(p, next)
  PROVE  \/ Moves(p, "episode")
         \/ Moves(p, next) /\ ~runtime.search /\ work'[p] = work[p]
<1>1. CASE runtime.search
  BY <1>1, EpisodeIsOver DEF UnlessSearchOnly
<1>2. CASE ~runtime.search
  BY <1>2, SameWork DEF UnlessSearchOnly
<1> QED BY <1>1, <1>2

LEMMA ChoiceStep ==
  ASSUME IInv, NEW p \in Threads, ChooseEpisode(p)
  PROVE  IInv'
<1>1. /\ UNCHANGED <<trail, after, runtime, settings, scanLock>>
      /\ at[p] = "episode"
  BY DEF ChooseEpisode, files, control
<1>2. CASE EpisodeDone(p)
  <2>1. Moves(p, "episode")
    BY <1>2, EpisodeIsOver DEF IInv
  <2> QED BY <1>1, <2>1, CalmStep DEF Points, Acting
<1>3. CASE ~EpisodeDone(p)
  <2>1. ~Blocked /\ To(p, "download") /\ \E data : work' = [work EXCEPT ![p] = data]
    BY <1>3 DEF ChooseEpisode
  <2>2. Moves(p, "download")
    BY <2>1 DEF To, IInv, TypeInv, Moves, Others, Points
  <2>3. \A q \in Threads \ {p} : at[q] = "idle" /\ at'[q] = "idle"
    BY <1>1, <2>2 DEF IInv, Locked, Threads, Moves, Others
  <2>4. TypeInv' /\ AnnouncedIsDone'
    BY <1>1, <2>2 DEF IInv, TypeInv, Moves, AnnouncedIsDone
  <2>5. Locked'
    BY <1>1, <2>2, <2>3 DEF IInv, Locked, Moves
  <2>6. Prepared'
    BY <2>2, <2>3 DEF Prepared, Needed, Moves, Acting
  <2>7. Quiet'
    BY <1>1, <2>1, <2>2, <2>3 DEF IInv, Quiet, Acting, Blocked, Moves
  <2> QED BY <2>4, <2>5, <2>6, <2>7 DEF IInv
<1> QED BY <1>2, <1>3

\* What an announced episode had done for it stays done when more is done.
LEMMA MoreIsDone ==
  ASSUME IInv, NEW p \in Threads, NEW mark, mark # "announced", Episode(p) \in Episodes,
         "announced" \in trail[Episode(p)] \cup {mark}
  PROVE  Done(trail[Episode(p)] \cup {mark})
BY DEF IInv, AnnouncedIsDone, Done

LEMMA DownloadStep ==
  ASSUME IInv, NEW p \in Threads, Download(p)
  PROVE  IInv'
<1> DEFINE next == IF settings.moveEp THEN "move" ELSE "announce"
<1>1. /\ at[p] = "download" /\ Effect(p, {"file"})
      /\ UNCHANGED <<scanLock, runtime, settings>>
  BY DEF Download, control
<1>2. /\ next \in Points /\ next \in Acting \ {"download"} /\ Needed(next) \subseteq {"file"}
      /\ next \in {"move", "rescan", "rename"} => settings.moveEp
  BY DEF Points, Acting, Needed
<1>3. \/ Moves(p, "episode")
      \/ Moves(p, next) /\ ~runtime.search /\ work'[p] = work[p]
  BY <1>2, GoesOn DEF Download, IInv
<1> HIDE DEF next
<1> QED BY <1>1, <1>2, <1>3, EffectStep DEF Points, Acting

LEMMA MoveStep ==
  ASSUME IInv, NEW p \in Threads, MoveFile(p)
  PROVE  IInv'
<1> DEFINE marks == trail[Episode(p)] \cup {"moved"}
<1>1. /\ at[p] = "move" /\ Effect(p, marks) /\ settings.moveEp
      /\ UNCHANGED <<scanLock, runtime, settings>>
  BY DEF MoveFile, Also, control, IInv, Prepared
<1>2. Needed("rescan") \subseteq marks
  BY DEF Needed
<1>3. \/ Moves(p, "episode")
      \/ Moves(p, "rescan") /\ ~runtime.search /\ work'[p] = work[p]
  BY GoesOn DEF MoveFile, IInv, Points
<1>4. Episode(p) \in Episodes /\ "announced" \in marks => Done(marks)
  BY MoreIsDone
<1> HIDE DEF marks
<1> QED BY <1>1, <1>2, <1>3, <1>4, EffectStep DEF Points, Acting

LEMMA RescanStep ==
  ASSUME IInv, NEW p \in Threads, CommandRescanSeries(p)
  PROVE  IInv'
<1> DEFINE marks == trail[Episode(p)] \cup {"rescanned"}
           next  == IF settings.renameEp THEN "rename" ELSE "announce"
<1>1. /\ at[p] = "rescan" /\ Effect(p, marks) /\ settings.moveEp
      /\ UNCHANGED <<scanLock, runtime, settings>>
  BY DEF CommandRescanSeries, Also, control, IInv, Prepared
<1>2. next \in Points /\ next \in Acting \ {"download"}
  BY DEF Points, Acting
<1>3. Episode(p) \in Episodes => Needed(next) \subseteq marks
  BY <1>1 DEF Needed, IInv, Prepared, Acting
<1>4. \/ Moves(p, "episode")
      \/ Moves(p, next) /\ ~runtime.search /\ work'[p] = work[p]
  BY <1>2, GoesOn DEF CommandRescanSeries, IInv
<1>5. Episode(p) \in Episodes /\ "announced" \in marks => Done(marks)
  BY MoreIsDone
<1> HIDE DEF marks, next
<1> QED BY <1>1, <1>2, <1>3, <1>4, <1>5, EffectStep DEF Points, Acting

LEMMA RenameStep ==
  ASSUME IInv, NEW p \in Threads, RenameFile(p)
  PROVE  IInv'
<1> DEFINE marks == trail[Episode(p)] \cup {"renamed"}
<1>1. /\ at[p] = "rename" /\ settings.moveEp
      /\ UNCHANGED <<runtime, settings>>
  BY DEF RenameFile, IInv, Prepared
<1>2. CASE Raise(p) /\ UNCHANGED <<trail, after>>
  BY <1>1, <1>2, EndOfScan
<1>3. CASE Also(p, "renamed") /\ UnlessSearchOnly(p, "announce") /\ UNCHANGED control
  <2>1. Effect(p, marks) /\ UNCHANGED scanLock
    BY <1>3 DEF Also, control
  <2>2. Episode(p) \in Episodes => Needed("announce") \subseteq marks
    BY <1>1 DEF Needed, IInv, Prepared, Acting
  <2>3. \/ Moves(p, "episode")
        \/ Moves(p, "announce") /\ ~runtime.search /\ work'[p] = work[p]
    BY <1>3, GoesOn DEF IInv, Points
  <2>4. Episode(p) \in Episodes /\ "announced" \in marks => Done(marks)
    BY MoreIsDone
  <2> HIDE DEF marks
  <2> QED BY <1>1, <2>1, <2>2, <2>3, <2>4, EffectStep DEF Points, Acting
<1> QED BY <1>2, <1>3 DEF RenameFile

LEMMA AnnounceStep ==
  ASSUME IInv, NEW p \in Threads, Announce(p)
  PROVE  IInv'
<1> DEFINE marks == trail[Episode(p)] \cup {"announced"}
<1>1. /\ at[p] = "announce" /\ Effect(p, marks)
      /\ UNCHANGED <<scanLock, runtime, settings>>
  BY DEF Announce, Also, control
<1>2. Moves(p, "episode")
  BY EpisodeIsOver DEF Announce, IInv
<1>3. Episode(p) \in Episodes => Done(marks)
  BY <1>1 DEF IInv, Prepared, Needed, Done, Acting
<1> HIDE DEF marks
<1> QED BY <1>1, <1>2, <1>3, EffectStep DEF Points, Acting

LEMMA SwitchStep ==
  ASSUME IInv, NEW new \in [search : BOOLEAN, paused : BOOLEAN], Switch(new)
  PROVE  IInv'
<1>1. UNCHANGED <<scanLock, at, work, settings, trail>> /\ runtime' = new
  BY DEF Switch, control
<1>2. TypeInv' /\ Locked' /\ AnnouncedIsDone'
  BY <1>1 DEF Switch, IInv, TypeInv, Locked, AnnouncedIsDone
<1>3. Prepared'
  BY <1>1 DEF IInv, Prepared, Episode, Season, Needed
<1>4. Quiet'
  BY <1>1 DEF Switch, IInv, Quiet, TypeInv
<1> QED BY <1>2, <1>3, <1>4 DEF IInv

LEMMA Initially == Init => IInv
BY DEF Init, IInv, TypeInv, Locked, Prepared, AnnouncedIsDone, Quiet, Points, Acting

LEMMA Preserved == IInv /\ [Next]_vars => IInv'
<1> SUFFICES ASSUME IInv, [Next]_vars PROVE IInv'
  OBVIOUS
<1>1. CASE UNCHANGED vars
  BY <1>1, StillStep DEF vars
<1>2. CASE Wake
  BY <1>2, StillStep DEF Wake, files
<1>3. CASE Job
  <2>1. CASE scanLock = "free"
    <3>1. Moves("core", "fetch")
      BY <1>3, <2>1, SameWork DEF Job, IInv, Points, Threads
    <3> QED BY <1>3, <2>1, <3>1, CalmStep DEF Job, files, Points, Acting, Threads
  <2>2. CASE scanLock # "free"
    BY <1>3, <2>2, StillStep DEF Job, files
  <2> QED BY <2>1, <2>2
<1>4. CASE RunScanNow
  <2>1. Moves("manual", "fetch")
    BY <1>4, SameWork DEF RunScanNow, IInv, Points, Threads
  <2> QED BY <1>4, <2>1, CalmStep DEF RunScanNow, files, Points, Acting, Threads
<1>5. CASE Restart
  <2>1. TypeInv' /\ Locked' /\ AnnouncedIsDone' /\ Quiet'
    BY <1>5 DEF Restart, files, IInv, TypeInv, Locked, AnnouncedIsDone, Quiet, Points, Acting
  <2>2. Prepared'
    BY <1>5 DEF Restart, Prepared, Acting
  <2> QED BY <2>1, <2>2 DEF IInv
<1>6. ASSUME NEW p \in Threads, Step(p) PROVE IInv'
  BY <1>6, ProcessorStep, SeasonStep, ChoiceStep, DownloadStep, MoveStep, RescanStep,
     RenameStep, AnnounceStep DEF Step
<1>7. ASSUME NEW p \in Threads, Fault(p) PROVE IInv'
  BY <1>7, FaultStep
<1>8. CASE External
  <2>1. ASSUME NEW new \in [search : BOOLEAN, paused : BOOLEAN], Switch(new) PROVE IInv'
    BY <2>1, SwitchStep
  <2>2. ASSUME NEW title \in Titles, Import(title) PROVE IInv'
    BY <2>2, StillStep DEF Import, control, files
  <2>3. ASSUME NEW e \in Episodes, Air(e) \/ Grab(e) \/ Grabbed(e) PROVE IInv'
    BY <2>3, StillStep DEF Air, Grab, Grabbed, control, files
  <2> QED BY <1>8, <2>1, <2>2, <2>3 DEF External
<1> QED BY <1>1, <1>2, <1>3, <1>4, <1>5, <1>6, <1>7, <1>8 DEF Next

\* The parts of the invariant hold in every reachable state: in particular two
\* scans never run at once, though one thread takes scan_lock and another
\* releases it (Core.py, job and runScanNow).
THEOREM ScansExclude == Spec => []OneScan
<1>1. IInv => OneScan
  BY DEF IInv, Locked, OneScan
<1> QED BY Initially, Preserved, <1>1, PTL DEF Spec

\* An episode is announced only after it was moved, Sonarr rescanned its series
\* and renamed it, as far as the settings ask (Downloader.py, download).
THEOREM AnnouncedWasDone == Spec => []AnnouncedIsDone
<1>1. IInv => AnnouncedIsDone
  BY DEF IInv
<1> QED BY Initially, Preserved, <1>1, PTL DEF Spec

\* Search-only mode and a pause stop the scans within one step, whoever switches
\* them when (Downloader.py, __downloadBlockReason and __skipPostDownloadActions).
THEOREM SwitchesStop == Spec => []SwitchStopsWithinOne
<1>1. IInv => SwitchStopsWithinOne
  BY DEF IInv, Quiet, SwitchStopsWithinOne
<1> QED BY Initially, Preserved, <1>1, PTL DEF Spec

(***************************************************************************)
(* What the scans work on.                                                 *)
(***************************************************************************)
Seasons == [number : 0 .. Absolute, episodes : Seq(Episodes)]
Series == [title : Titles, seasons : Seq(Seasons)]
Routes == [title : Titles, number : 0 .. Absolute, urls : Seq(Urls), episodes : Seq(Episodes)]
Sources == [url : Urls, local : Nat, number : Nat]

\* What Sonarr says of an episode.
LEMMA InfoIs ==
  ASSUME NEW e \in Episodes
  PROVE  /\ Info[e].title \in Titles /\ Info[e].season \in 0 .. Absolute
         /\ Info[e].season \in Nat /\ Info[e].number \in Nat /\ Info[e].absolute \in Nat
<1>1. Info[e] \in [title : Titles, season : 0 .. (Absolute - 1), number : Nat, absolute : Nat]
  BY ScanAssumption
<1> QED BY <1>1 DEF Absolute

\* The elements of a list are at its positions.
LEMMA AtPosition ==
  ASSUME NEW X, NEW list \in Seq(X)
  PROVE  /\ Len(list) \in Nat /\ DOMAIN list = 1 .. Len(list)
         /\ \A i \in DOMAIN list : list[i] \in X /\ i \in Nat
OBVIOUS

\* A page of the missing episodes lists episodes.
LEMMA PageOfIs ==
  ASSUME NEW list \in Seq(Episodes), NEW n \in Nat \ {0}
  PROVE  PageOf(list, n) \in Seq(Episodes)
<1> DEFINE from == (n - 1) * PageSize + 1
           to == IF n * PageSize < Len(list) THEN n * PageSize ELSE Len(list)
<1>1. from \in Nat \ {0} /\ to \in Nat /\ to <= Len(list) /\ PageOf(list, n) = SubSeq(list, from, to)
  <2>1. PageSize \in Nat /\ n - 1 \in Nat
    BY ScanAssumption
  <2>2. (n - 1) * PageSize \in Nat /\ n * PageSize \in Nat
    BY <2>1
  <2> QED BY <2>2 DEF PageOf
<1> HIDE DEF from, to
<1>2. \A i \in from .. to : list[i] \in Episodes
  BY <1>1
<1> QED BY <1>1, <1>2, SubSeqProperties

\* A list with some of its elements replaced, or one more.
LEMMA PlacedIs ==
  ASSUME NEW X, NEW list \in Seq(X), NEW positions, NEW new, NEW last \in X,
         \A i \in positions \cap DOMAIN list : new[i] \in X
  PROVE  Placed(list, positions, new, last) \in Seq(X)
<1> DEFINE put == [i \in DOMAIN list |-> IF i \in positions THEN new[i] ELSE list[i]]
<1>1. put \in Seq(X)
  <2>1. put \in [1 .. Len(list) -> X] /\ Len(list) \in Nat
    BY AtPosition
  <2> HIDE DEF put
  <2> QED BY <2>1, IsASeq
<1>2. Append(list, last) \in Seq(X)
  BY AppendProperties
<1> HIDE DEF put
<1> QED BY <1>1, <1>2 DEF Placed, put

\* An episode added to a season, to a series, to the list of series (__reduce).
LEMMA ExtendedIs ==
  ASSUME NEW season \in Seasons, NEW e \in Episodes
  PROVE  Extended(season, e) \in Seasons
<1>1. season.episodes \in Seq(Episodes)
  BY DEF Seasons
<1>2. Append(season.episodes, e) \in Seq(Episodes)
  BY <1>1, AppendProperties
<1> QED BY <1>2 DEF Extended, Seasons

\* The empty list is one of anything.
LEMMA NoListIs == \A X : <<>> \in Seq(X)
OBVIOUS

\* A series stays one when an episode is added to it.
LEMMA WithEpisodeIs ==
  ASSUME NEW series \in Series, NEW e \in Episodes
  PROVE  WithEpisode(series, e) \in Series
<1> DEFINE seasons == series.seasons
           positions == {i \in DOMAIN seasons : seasons[i].number = Info[e].season}
           new == [i \in DOMAIN seasons |-> Extended(seasons[i], e)]
           last == Extended(ExtractSeason(e), e)
           placed == Placed(seasons, positions, new, last)
<1>1. seasons \in Seq(Seasons)
  BY DEF Series
<1>2. WithEpisode(series, e) = [series EXCEPT !.seasons = placed]
  BY DEF WithEpisode
<1> HIDE DEF seasons
<1>3. \A i \in positions \cap DOMAIN seasons : new[i] \in Seasons
  BY <1>1, ExtendedIs
<1>4. last \in Seasons
  <2>1. ExtractSeason(e) \in Seasons
    BY InfoIs, NoListIs DEF ExtractSeason, Seasons
  <2> QED BY <2>1, ExtendedIs
<1> HIDE DEF positions, new, last
<1>5. placed \in Seq(Seasons)
  BY <1>1, <1>3, <1>4, PlacedIs
<1> HIDE DEF placed
<1> QED BY <1>2, <1>5 DEF Series

\* The series stay what they are when an episode is added to them.
LEMMA ReduceIs ==
  ASSUME NEW base \in Seq(Series), NEW e \in Episodes
  PROVE  Reduce(base, e) \in Seq(Series)
<1> DEFINE positions == {i \in DOMAIN base : base[i].title = Info[e].title}
           new == [i \in DOMAIN base |-> WithEpisode(base[i], e)]
           last == WithEpisode(ExtractSerie(e), e)
<1>1. \A i \in positions \cap DOMAIN base : new[i] \in Series
  BY WithEpisodeIs
<1>2. last \in Series
  <2>1. ExtractSerie(e) \in Series
    BY InfoIs, NoListIs DEF ExtractSerie, Series
  <2> QED BY <2>1, WithEpisodeIs
<1>3. Reduce(base, e) = Placed(base, positions, new, last)
  BY DEF Reduce
<1> HIDE DEF positions, new, last
<1> QED BY <1>1, <1>2, <1>3, PlacedIs

\* Once computes what it is given.
LEMMA OnlyOne == \A x : (CHOOSE y \in {x} : TRUE) = x
OBVIOUS

\* The lists __reduce builds, episode by episode.
Reads(f, got, page) ==
  f = [n \in 0 .. Len(page) |->
         IF n = 0 THEN got ELSE Once(f[n - 1], LAMBDA base : Reduce(base, page[n]))]

\* So do they when a page of episodes is.
LEMMA ReducedIs ==
  ASSUME NEW got \in Seq(Series), NEW page \in Seq(Episodes)
  PROVE  Reduced(got, page) \in Seq(Series)
<1> DEFINE size == Len(page)
           S == Seq(Series)
           Then(s, n) == Reduce(s, page[n])
           step == [p \in S \X (1 .. size) |-> Then(p[1], p[2])]
           read == CHOOSE f : Reads(f, got, page)
<1>1. size \in Nat /\ \A n \in 1 .. size : page[n] \in Episodes
  OBVIOUS
<1>2. ASSUME NEW s \in S, NEW n \in 1 .. size PROVE Then(s, n) \in S
  BY <1>1, ReduceIs
<1>3. Reduced(got, page) = read[size]
  BY DEF Reduced, Reads
<1>4. \A f : Reads(f, got, page) <=>
             f = [n \in 0 .. size |-> IF n = 0 THEN got ELSE Then(f[n - 1], n)]
  <2>1. \A x, n : Once(x, LAMBDA base : Reduce(base, page[n])) = Then(x, n)
    BY OnlyOne DEF Once
  <2> QED BY <2>1 DEF Reads
<1> HIDE DEF S, Then, size
<1>5. step \in [S \X (1 .. size) -> S] /\ got \in S
  BY <1>2 DEF S
<1>6. \A s \in S, n \in 1 .. size : step[<<s, n>>] = Then(s, n)
  OBVIOUS
<1> HIDE DEF step
<1>7. PICK f \in [0 .. size -> S] : Runs(f, got, size, step)
  BY <1>1, <1>5, Recursion
<1>8. Reads(f, got, page)
  <2>1. ASSUME NEW n \in 0 .. size
        PROVE  f[n] = IF n = 0 THEN got ELSE Then(f[n - 1], n)
    <3>1. n = 0 \/ (n \in 1 .. size /\ n - 1 \in 0 .. size)
      BY <1>1
    <3> QED BY <1>6, <1>7, <3>1 DEF Runs
  <2>2. f = [n \in 0 .. size |-> f[n]]
    BY <1>7
  <2> QED BY <1>4, <2>1, <2>2
<1>9. Reads(read, got, page)
  BY <1>8
<1> HIDE DEF read
<1>10. RunsWithin(S, read, got, size, step)
  <2>1. \A n \in 0 .. size : read[n] = IF n = 0 THEN got ELSE Then(read[n - 1], n)
    BY <1>4, <1>9
  <2>2. read = [n \in 0 .. size |-> read[n]]
    BY <1>4, <1>9
  <2>3. 0 \in 0 .. size /\ \A n \in 1 .. size : n \in 0 .. size /\ n # 0
    BY <1>1
  <2> QED BY <1>6, <2>1, <2>2, <2>3 DEF RunsWithin
<1>11. read \in [0 .. size -> S] /\ size \in 0 .. size
  BY <1>1, <1>5, <1>10, Followed
<1> QED BY <1>3, <1>11 DEF S

\* Filter leaves no series without a season.
LEMMA FilterIs ==
  ASSUME NEW series \in Seq(Series)
  PROVE  /\ Filter(series) \in Seq(Series)
         /\ \A n \in DOMAIN Filter(series) : Filter(series)[n].seasons # <<>>
<1> DEFINE kept == [i \in DOMAIN series |-> [series[i] EXCEPT !.seasons = Regular(@)]]
           positions == {i \in DOMAIN kept : Allowed(kept[i].title) /\ kept[i].seasons # <<>>}
           left == Chosen(kept, positions)
<1>1. ASSUME NEW i \in DOMAIN series
      PROVE  [series[i] EXCEPT !.seasons = Regular(@)] \in Series
  <2>0. series[i] \in Series
    OBVIOUS
  <2>1. series[i].seasons \in Seq(Seasons)
    BY <2>0 DEF Series
  <2>2. Regular(series[i].seasons) \in Seq(Seasons)
    BY <2>1, ChosenIs DEF Regular
  <2> QED BY <2>0, <2>2 DEF Series
<1>2. kept \in Seq(Series)
  <2>1. kept \in [1 .. Len(series) -> Series] /\ Len(series) \in Nat
    BY <1>1, AtPosition
  <2> HIDE DEF kept
  <2> QED BY <2>1, IsASeq
<1>3. \A i \in positions : kept[i].seasons # <<>>
  OBVIOUS
<1>4. Filter(series) = left
  BY DEF Filter
<1> HIDE DEF kept
<1>5. positions \in SUBSET (DOMAIN kept)
  OBVIOUS
<1> HIDE DEF positions
<1>6. left \in Seq(Series) /\ Range(left) = {kept[i] : i \in positions}
  BY <1>2, <1>5, ChosenIs
<1> HIDE DEF left
<1>7. \A n \in DOMAIN left : left[n].seasons # <<>>
  BY <1>3, <1>6 DEF Range
<1> QED BY <1>4, <1>6, <1>7

\* The tail of a list that has one.
LEMMA TailIs ==
  ASSUME NEW X, NEW list \in Seq(X), list # <<>>
  PROVE  /\ Tail(list) \in Seq(X) /\ Head(list) \in X /\ Head(list) = list[1]
         /\ 1 \in DOMAIN list
         /\ \A n \in DOMAIN Tail(list) : n + 1 \in DOMAIN list \ {1} /\ Tail(list)[n] = list[n + 1]
<1>1. /\ Tail(list) \in Seq(X) /\ Head(list) \in X /\ Len(Tail(list)) = Len(list) - 1
      /\ \A i \in 1 .. Len(Tail(list)) : Tail(list)[i] = list[i + 1]
  BY HeadTailProperties
<1>2. Len(list) \in Nat /\ Len(list) # 0
  BY EmptySeq
<1>3. DOMAIN Tail(list) = 1 .. Len(Tail(list)) /\ DOMAIN list = 1 .. Len(list)
  BY <1>1
<1> QED BY <1>1, <1>2, <1>3

\* The one season of a series that is absolute.
LEMMA ConvertToAbsoluteIs ==
  ASSUME NEW series \in Series, series.seasons # <<>>
  PROVE  ConvertToAbsolute(series) \in Series
<1> DEFINE others == Tail(series.seasons)
           lists == [i \in DOMAIN others |-> Numbered(others[i].episodes)]
           more == FlattenSeq(lists)
           all == series.seasons[1].episodes \o more
           season == [number |-> Absolute, episodes |-> all]
<1>1. others \in Seq(Seasons) /\ series.seasons[1] \in Seasons
  <2>1. series.seasons \in Seq(Seasons)
    BY DEF Series
  <2> QED BY <2>1, TailIs
<1>2. ConvertToAbsolute(series) = [series EXCEPT !.seasons = <<season>>]
  BY DEF ConvertToAbsolute
<1> HIDE DEF others
<1>3. ASSUME NEW i \in DOMAIN others PROVE Numbered(others[i].episodes) \in Seq(Episodes)
  <2>0. others[i] \in Seasons
    BY <1>1
  <2>1. others[i].episodes \in Seq(Episodes)
    BY <2>0 DEF Seasons
  <2> QED BY <2>1, ChosenIs DEF Numbered
<1>4. lists \in Seq(Seq(Episodes))
  <2>1. lists \in [1 .. Len(others) -> Seq(Episodes)] /\ Len(others) \in Nat
    BY <1>1, <1>3
  <2> HIDE DEF lists
  <2> QED BY <2>1, IsASeq
<1> HIDE DEF lists
<1>5. more \in Seq(Episodes)
  BY <1>4, FlattenIs
<1> HIDE DEF more
<1>6. all \in Seq(Episodes)
  <2>1. series.seasons[1].episodes \in Seq(Episodes)
    BY <1>1 DEF Seasons
  <2> QED BY <1>5, <2>1, ConcatProperties
<1> HIDE DEF all
<1>7. season \in Seasons
  BY <1>6 DEF Seasons, Absolute
<1> HIDE DEF season
<1>8. <<season>> \in Seq(Seasons)
  BY <1>7
<1> QED BY <1>2, <1>8 DEF Series

\* Pairs of numbers in lexicographic order.
LEMMA Lexicographic ==
  ASSUME NEW a \in Nat, NEW b \in Nat, NEW c \in Nat,
         NEW x \in Nat, NEW y \in Nat, NEW z \in Nat
  PROVE  /\ a < b \/ (a = b /\ x < y) => ~(b < a \/ (b = a /\ y < x))
         /\ a < c \/ (a = c /\ x < z) =>
              \/ a < b \/ (a = b /\ x < y)
              \/ b < c \/ (b = c /\ y < z)
OBVIOUS

\* The episodes of a season in their order.
LEMMA SortEpisodesIs ==
  ASSUME NEW episodes \in Seq(Episodes)
  PROVE  SortEpisodes(episodes) \in Seq(Episodes)
<1> DEFINE S(i) == Info[episodes[i]].season
           N(i) == Info[episodes[i]].number
           Earlier(i, j) == S(i) < S(j) \/ (S(i) = S(j) /\ N(i) < N(j))
           before == {p \in (DOMAIN episodes) \X (DOMAIN episodes) : Earlier(p[1], p[2])}
<1>1. \A i, j \in DOMAIN episodes : <<i, j>> \in before <=> Earlier(i, j)
  <2> HIDE DEF Earlier
  <2> QED OBVIOUS
<1>2. SortEpisodes(episodes) = Arranged(episodes, before)
  BY DEF SortEpisodes
<1> HIDE DEF before
<1>3. \A i \in DOMAIN episodes : S(i) \in Nat /\ N(i) \in Nat
  BY InfoIs
<1> HIDE DEF S, N
<1>4. \A i, j, k \in DOMAIN episodes : /\ Earlier(i, j) => ~Earlier(j, i)
                                       /\ Earlier(i, k) => Earlier(i, j) \/ Earlier(j, k)
  BY <1>3, Lexicographic
<1> HIDE DEF Earlier
<1>5. Sorts(before, DOMAIN episodes)
  BY <1>1, <1>4 DEF Sorts
<1> QED BY <1>2, <1>5, ArrangedIs

\* The seasons of a series in their order.
LEMMA SortSerieIs ==
  ASSUME NEW seasons \in Seq(Routes)
  PROVE  SortSerie(seasons) \in Seq(Routes)
<1> DEFINE before == {p \in (DOMAIN seasons) \X (DOMAIN seasons) :
                                     seasons[p[1]].number < seasons[p[2]].number}
           sorted == Arranged(seasons, before)
           all == [i \in DOMAIN sorted |-> [sorted[i] EXCEPT !.episodes = SortEpisodes(@)]]
           N(i) == seasons[i].number
<1>1. \A i, j \in DOMAIN seasons : <<i, j>> \in before <=> N(i) < N(j)
  OBVIOUS
<1>2. SortSerie(seasons) = all
  BY DEF SortSerie
<1> HIDE DEF before
<1>3. ASSUME NEW i \in DOMAIN seasons PROVE N(i) \in Nat
  <2>1. seasons[i] \in Routes
    OBVIOUS
  <2> QED BY <2>1 DEF Routes
<1>4. Sorts(before, DOMAIN seasons)
  <2> HIDE DEF N
  <2> QED BY <1>1, <1>3 DEF Sorts
<1>5. sorted \in Seq(Routes)
  BY <1>4, ArrangedIs
<1> HIDE DEF sorted
<1>6. ASSUME NEW i \in DOMAIN sorted
      PROVE  [sorted[i] EXCEPT !.episodes = SortEpisodes(@)] \in Routes
  <2>0. sorted[i] \in Routes
    BY <1>5
  <2>1. sorted[i].episodes \in Seq(Episodes)
    BY <2>0 DEF Routes
  <2>2. SortEpisodes(sorted[i].episodes) \in Seq(Episodes)
    BY <2>1, SortEpisodesIs
  <2> QED BY <2>0, <2>2 DEF Routes
<1>7. all \in [1 .. Len(sorted) -> Routes] /\ Len(sorted) \in Nat
  BY <1>5, <1>6
<1> HIDE DEF all
<1> QED BY <1>2, <1>7, IsASeq

\* A season that is mapped has a list of URLs.
LEMMA UrlsOfIs ==
  ASSUME NEW data \in Tables, NEW preferences, NEW title, NEW season,
         Mapped(data, preferences, title, season)
  PROVE  UrlsOf(data, title, season) \in Seq(Urls)
<1> DEFINE entries == MatchingEntries(data, title)
           Some(list) == Chosen(list, {i \in DOMAIN list : list[i] \in Valid})
           Usable(e) == IF season \in DOMAIN e.seasons THEN Some(e.seasons[season]) ELSE <<>>
           positions == {i \in DOMAIN entries : Usable(entries[i]) # <<>>}
           usable == Chosen(entries, positions)
<1>1. entries \in Seq(Entries)
  <2>1. \A positions1 \in SUBSET (DOMAIN data) : Chosen(data, positions1) \in Seq(Entries)
    BY ChosenIs DEF Tables
  <2>2. /\ {i \in DOMAIN data : data[i].title = title} \in SUBSET (DOMAIN data)
        /\ {i \in DOMAIN data \ {i \in DOMAIN data : data[i].title = title} :
              Key[data[i].title] = Key[title]} \in SUBSET (DOMAIN data)
    OBVIOUS
  <2> QED BY <2>1, <2>2, ConcatProperties DEF MatchingEntries
<1>2. PICK i \in DOMAIN entries :
        season \in DOMAIN entries[i].seasons /\ Range(entries[i].seasons[season]) \cap Valid # {}
  BY DEF Mapped
<1>3. UrlsOf(data, title, season) = CHOOSE urls \in {Usable(e) : e \in {usable[1]}} : TRUE
  BY DEF UrlsOf
<1>4. UrlsOf(data, title, season) = Usable(usable[1])
  <2>1. {Usable(e) : e \in {usable[1]}} = {Usable(usable[1])}
    OBVIOUS
  <2> HIDE DEF Usable, usable
  <2> QED BY <1>3, <2>1, OnlyOne
<1> HIDE DEF entries
<1>5. ASSUME NEW e \in Entries, season \in DOMAIN e.seasons
      PROVE  /\ Some(e.seasons[season]) \in Seq(Urls)
             /\ Range(Some(e.seasons[season])) = Range(e.seasons[season]) \cap Valid
  <2> DEFINE list == e.seasons[season]
             kept == {n \in DOMAIN list : list[n] \in Valid}
  <2>1. list \in Seq(Urls)
    BY <1>5, EntryIs, SeasonMapIs
  <2> HIDE DEF list
  <2>2. {list[n] : n \in kept} = Range(list) \cap Valid
    BY DEF Range
  <2>3. kept \in SUBSET (DOMAIN list)
    OBVIOUS
  <2> HIDE DEF kept
  <2>4. Chosen(list, kept) \in Seq(Urls) /\ Range(Chosen(list, kept)) = {list[n] : n \in kept}
    BY <2>1, <2>3, ChosenIs
  <2> QED BY <2>2, <2>4 DEF list, kept
<1> HIDE DEF Some
<1>6. \A e \in Entries : Usable(e) \in Seq(Urls)
  BY <1>5, NoListIs
<1>7. i \in positions
  <2>1. Range(<<>>) = {}
    <3>1. DOMAIN <<>> = {}
      OBVIOUS
    <3> QED BY <3>1 DEF Range
  <2>2. Usable(entries[i]) # <<>>
    BY <1>1, <1>2, <1>5, <2>1
  <2> HIDE DEF Usable
  <2> QED BY <2>2
<1>8. positions \in SUBSET (DOMAIN entries)
  OBVIOUS
<1> HIDE DEF Usable, positions
<1>9. usable \in Seq(Entries) /\ Range(usable) = {entries[n] : n \in positions}
  BY <1>1, <1>8, ChosenIs
<1> HIDE DEF usable
<1>10. usable[1] \in Entries
  <2>1. Range(usable) # {}
    BY <1>7, <1>9
  <2>2. usable # <<>>
    BY <2>1 DEF Range
  <2> QED BY <1>9, <2>2, TailIs
<1> QED BY <1>4, <1>6, <1>10

\* A result that is saved leaves a table.
LEMMA SavedIs ==
  ASSUME table \in Tables, NEW title \in Titles, NEW season \in 0 .. Absolute,
         NEW url \in Urls, NEW sure
  PROVE  Saved(title, season, url, sure) \in Tables
BY AmendedIs, SortedByTitleIs DEF Saved, Extends

\* How a list ends, and that it ends as what is added to it.
EndsWith(list, x) == Len(list) # 0 /\ list[Len(list)] = x

\* A list ends as the one that is added to it.
LEMMA LongerEnds ==
  ASSUME NEW X, NEW left \in Seq(X), NEW right \in Seq(X), NEW x, EndsWith(right, x)
  PROVE  EndsWith(left \o right, x)
<1> DEFINE both == left \o right
<1>1. /\ Len(both) = Len(left) + Len(right)
      /\ \A i \in 1 .. Len(left) + Len(right) :
           both[i] = IF i <= Len(left) THEN left[i] ELSE right[i - Len(left)]
      /\ Len(left) \in Nat /\ Len(right) \in Nat /\ Len(right) # 0
  BY ConcatProperties DEF EndsWith
<1> HIDE DEF both
<1>2. Len(both) \in 1 .. Len(both) /\ ~(Len(both) <= Len(left)) /\ Len(both) # 0
      /\ Len(both) - Len(left) = Len(right)
  BY <1>1
<1>3. both[Len(both)] = right[Len(right)]
  BY <1>1, <1>2
<1> QED BY <1>2, <1>3 DEF EndsWith, both

\* A list of lists ends as the last of its lists that has an element.
LEMMA FlattenLast ==
  ASSUME NEW X, NEW lists \in Seq(Seq(X)), NEW k \in DOMAIN lists, NEW x,
         EndsWith(lists[k], x), \A i \in DOMAIN lists : k < i => lists[i] = <<>>
  PROVE  EndsWith(FlattenSeq(lists), x)
<1> DEFINE size == Len(lists)
<1>0. /\ size \in Nat /\ DOMAIN lists = 1 .. size /\ size # 0 /\ k \in 1 .. size
      /\ \A i \in 1 .. size : lists[i] \in Seq(X)
  OBVIOUS
<1>1. PICK f \in [1 .. size -> Seq(X)] :
         /\ Flattens(f, lists, size)
         /\ FlattenSeq(lists) = f[size]
         /\ \A n \in 1 .. size : Range(f[n]) = UNION {Range(lists[i]) : i \in 1 .. n}
  BY <1>0, FlattenBy
<1> DEFINE set == {n \in 0 .. size : n >= k => EndsWith(f[n], x)}
<1>2. 0 \in set
  BY <1>0
<1>3. ASSUME NEW n \in 1 .. size, n - 1 \in set PROVE n \in set
  <2> SUFFICES ASSUME n >= k PROVE EndsWith(f[n], x)
    OBVIOUS
  <2>1. n - 1 >= k => EndsWith(f[n - 1], x)
    BY <1>3
  <2>2. f[n] = IF n = 1 THEN lists[n] ELSE f[n - 1] \o lists[n]
    BY <1>1 DEF Flattens
  <2>3. lists[n] \in Seq(X) /\ (n # 1 => n - 1 \in 1 .. size /\ f[n - 1] \in Seq(X))
    <3>1. n # 1 => n - 1 \in 1 .. size
      BY <1>0
    <3> QED BY <1>0, <1>1, <3>1
  <2> HIDE DEF set
  <2>4. CASE n = k
    <3>1. CASE n = 1
      BY <2>2, <2>4, <3>1
    <3>2. CASE n # 1
      BY <2>2, <2>3, <2>4, <3>2, LongerEnds
    <3> QED BY <3>1, <3>2
  <2>5. CASE n # k
    <3>1. n - 1 >= k /\ k < n /\ n # 1
      BY <1>0, <2>5
    <3>2. lists[n] = <<>>
      BY <1>0, <3>1
    <3> QED BY <2>1, <2>2, <2>3, <3>1, <3>2, ConcatEmptySeq
  <2> QED BY <2>4, <2>5
<1> HIDE DEF set
<1>4. 0 .. size \subseteq set
  BY <1>0, <1>2, <1>3, Upto
<1>5. size \in set /\ size >= k
  <2>1. size \in 0 .. size /\ size >= k
    BY <1>0
  <2> QED BY <1>4, <2>1
<1> QED BY <1>1, <1>5 DEF set

\* The sources a page gives from an offset on.
FromPage(url, offset) ==
  {x \in Sources : /\ x.url = url /\ x.local \in 0 .. Length[url]
                   /\ x.number = offset + x.local}

\* The listed episodes of a page are pairs of numbers of its release.
LEMMA ListedIsOf ==
  ASSUME NEW url \in Urls
  PROVE  /\ Length[url] \in Nat /\ Listed[url] \in Seq(Nat \X Nat)
         /\ \A i \in DOMAIN Listed[url] :
              /\ Listed[url][i][1] \in Nat /\ Listed[url][i][2] \in Nat
              /\ Listed[url][i][2] <= Length[url]
<1>1. Length[url] \in Nat /\ Listed[url] \in Seq(Nat \X Nat)
  BY PagesAssumption
<1>2. \A i \in DOMAIN Listed[url] : Listed[url][i] \in Nat \X Nat
  BY <1>1
<1> QED BY <1>1, <1>2, PagesAssumption

\* One listed episode.
LEMMA ExpandedIs ==
  ASSUME NEW url \in Urls, NEW range, range[1] \in Nat, range[2] \in Nat,
         range[2] <= Length[url], NEW offset \in Nat
  PROVE  /\ Expanded(url, range, offset) \in Seq(FromPage(url, offset))
         /\ ~Lists(range) => Expanded(url, range, offset) = <<>>
         /\ Lists(range) => \E x \in FromPage(url, offset) :
              x.number = offset + range[2] /\ EndsWith(Expanded(url, range, offset), x)
<1> DEFINE first == range[1]
           last == range[2]
           size == IF first <= last THEN last + 1 - first ELSE 0
           x(k) == [url |-> url, local |-> first + k - 1, number |-> offset + first + k - 1]
           list == [k \in 1 .. size |-> x(k)]
<1>0. first \in Nat /\ last \in Nat /\ last <= Length[url] /\ Length[url] \in Nat
  BY ListedIsOf
<1>1. Expanded(url, range, offset) = list
  <2>1. 1 .. (last + 1 - first) = 1 .. size
    BY <1>0
  <2> HIDE DEF size
  <2> QED BY <2>1 DEF Expanded
<1>2. Lists(range) <=> first <= last
  BY DEF Lists
<1> HIDE DEF first, last
<1>3. size \in Nat /\ (first <= last => size # 0 /\ first + size - 1 = last)
      /\ (~(first <= last) => size = 0)
      /\ \A k \in 1 .. size : first + k - 1 \in 0 .. Length[url]
  BY <1>0
<1> HIDE DEF size
<1>4. ASSUME NEW k \in 1 .. size PROVE x(k) \in FromPage(url, offset)
  <2>1. first + k - 1 \in 0 .. Length[url] /\ offset + first + k - 1 = offset + (first + k - 1)
        /\ first + k - 1 \in Nat /\ offset + first + k - 1 \in Nat
    BY <1>0, <1>3
  <2> QED BY <2>1 DEF FromPage, Sources
<1>5. list \in [1 .. size -> FromPage(url, offset)]
  <2> HIDE DEF x
  <2> QED BY <1>4
<1>6. list \in Seq(FromPage(url, offset)) /\ Len(list) = size
  <2> HIDE DEF list
  <2> QED BY <1>3, <1>5, IsASeq
<1>7. ASSUME ~(first <= last) PROVE list = <<>>
  <2>1. size = 0
    BY <1>3, <1>7
  <2> HIDE DEF list
  <2> QED BY <1>6, <2>1, EmptySeq
<1>8. ASSUME first <= last
      PROVE  \E y \in FromPage(url, offset) : y.number = offset + last /\ EndsWith(list, y)
  <2>1. size \in 1 .. size /\ first + size - 1 = last
    BY <1>3, <1>8
  <2>2. list[size] = x(size)
    BY <2>1
  <2>3. x(size).number = offset + last
    BY <1>0, <1>3, <2>1
  <2> HIDE DEF list, x
  <2>4. EndsWith(list, x(size))
    BY <1>6, <2>1, <2>2 DEF EndsWith
  <2> QED BY <1>4, <2>1, <2>3, <2>4
<1> HIDE DEF list
<1> QED BY <1>1, <1>2, <1>6, <1>7, <1>8 DEF last

\* A page that is whole gives the last number of its release last.
LEMMA PageNumbersIs ==
  ASSUME NEW url \in Urls, NEW offset \in Nat
  PROVE  /\ PageNumbers(url, offset) \in Seq(FromPage(url, offset))
         /\ Whole(url) => \E x \in FromPage(url, offset) :
              x.number = offset + Length[url] /\ EndsWith(PageNumbers(url, offset), x)
<1> DEFINE list == Listed[url]
           lists == [i \in DOMAIN list |-> Expanded(url, list[i], offset)]
           X == FromPage(url, offset)
<1>0. /\ list \in Seq(Nat \X Nat) /\ PageNumbers(url, offset) = FlattenSeq(lists)
      /\ \A i \in DOMAIN list : /\ list[i][1] \in Nat /\ list[i][2] \in Nat
                                /\ list[i][2] <= Length[url]
  BY ListedIsOf DEF PageNumbers
<1>1. ASSUME NEW i \in DOMAIN list
      PROVE  /\ Expanded(url, list[i], offset) \in Seq(X)
             /\ ~Lists(list[i]) => Expanded(url, list[i], offset) = <<>>
             /\ Lists(list[i]) => \E x \in X :
                  x.number = offset + list[i][2] /\ EndsWith(Expanded(url, list[i], offset), x)
  BY <1>0, ExpandedIs
<1> HIDE DEF list, X
<1>2. lists \in Seq(Seq(X)) /\ DOMAIN lists = DOMAIN list
  <2>1. lists \in [1 .. Len(list) -> Seq(X)] /\ Len(list) \in Nat /\ DOMAIN list = 1 .. Len(list)
    BY <1>0, <1>1
  <2> HIDE DEF lists
  <2> QED BY <2>1, IsASeq
<1>3. \A i \in DOMAIN list : lists[i] = Expanded(url, list[i], offset)
  OBVIOUS
<1> HIDE DEF lists
<1>4. ASSUME Whole(url)
      PROVE  \E x \in X : x.number = offset + Length[url] /\ EndsWith(FlattenSeq(lists), x)
  <2>1. PICK i \in DOMAIN list : /\ Lists(list[i]) /\ list[i][2] = Length[url]
                                 /\ \A j \in DOMAIN list : i < j => ~Lists(list[j])
    BY <1>4 DEF Whole, list
  <2>2. PICK x \in X : x.number = offset + Length[url] /\ EndsWith(lists[i], x)
    BY <1>1, <1>3, <2>1
  <2>3. \A j \in DOMAIN lists : i < j => lists[j] = <<>>
    BY <1>1, <1>2, <1>3, <2>1
  <2>4. EndsWith(FlattenSeq(lists), x)
    BY <1>2, <2>2, <2>3, FlattenLast
  <2> QED BY <2>2, <2>4
<1>5. FlattenSeq(lists) \in Seq(X)
  BY <1>2, FlattenIs
<1> QED BY <1>0, <1>4, <1>5 DEF X

\* The sums LengthBefore computes, URL by URL.
Sums(f, urls) ==
  f = [n \in 0 .. Len(urls) |-> IF n = 0 THEN 0 ELSE f[n - 1] + Length[urls[n]]]

\* Each sum is the one before and the length of one release more.
LEMMA LengthBeforeIs ==
  ASSUME NEW urls \in Seq(Urls)
  PROVE  /\ LengthBefore(urls, 1) = 0
         /\ \A n \in 1 .. Len(urls) :
              /\ LengthBefore(urls, n) \in Nat
              /\ LengthBefore(urls, n + 1) = LengthBefore(urls, n) + Length[urls[n]]
<1> DEFINE size == Len(urls)
           Then(s, n) == s + Length[urls[n]]
           step == [p \in Nat \X (1 .. size) |-> Then(p[1], p[2])]
           sum == CHOOSE f : Sums(f, urls)
<1>1. size \in Nat /\ 0 \in Nat /\ \A n \in 1 .. size : Length[urls[n]] \in Nat
  BY ListedIsOf
<1>2. ASSUME NEW s \in Nat, NEW n \in 1 .. size PROVE Then(s, n) \in Nat
  BY <1>1
<1>3. \A i : LengthBefore(urls, i) = sum[i - 1]
  BY DEF LengthBefore, Sums
<1>4. \A f : Sums(f, urls) <=>
             f = [n \in 0 .. size |-> IF n = 0 THEN 0 ELSE Then(f[n - 1], n)]
  BY DEF Sums
<1> HIDE DEF size
<1>5. step \in [Nat \X (1 .. size) -> Nat]
  <2> HIDE DEF Then
  <2> QED BY <1>2
<1>6. \A s \in Nat, n \in 1 .. size : step[<<s, n>>] = Then(s, n)
  <2> HIDE DEF Then
  <2> QED OBVIOUS
<1> HIDE DEF step, Then
<1>7. PICK f \in [0 .. size -> Nat] : Runs(f, 0, size, step)
  BY <1>1, <1>5, Recursion
<1>8. Sums(f, urls)
  <2>1. ASSUME NEW n \in 0 .. size
        PROVE  f[n] = IF n = 0 THEN 0 ELSE Then(f[n - 1], n)
    <3>1. n = 0 \/ (n \in 1 .. size /\ n - 1 \in 0 .. size)
      BY <1>1
    <3> QED BY <1>6, <1>7, <3>1 DEF Runs
  <2>2. f = [n \in 0 .. size |-> f[n]]
    BY <1>7
  <2> QED BY <1>4, <2>1, <2>2
<1>9. Sums(sum, urls)
  BY <1>8
<1> HIDE DEF sum
<1>10. /\ sum[0] = 0 /\ sum = [n \in 0 .. size |-> sum[n]]
       /\ \A n \in 1 .. size : sum[n] = Then(sum[n - 1], n)
  <2>1. \A n \in 0 .. size : sum[n] = IF n = 0 THEN 0 ELSE Then(sum[n - 1], n)
    BY <1>4, <1>9
  <2>2. sum = [n \in 0 .. size |-> sum[n]]
    BY <1>4, <1>9
  <2>3. 0 \in 0 .. size /\ \A n \in 1 .. size : n \in 0 .. size /\ n # 0
    BY <1>1
  <2> QED BY <2>1, <2>2, <2>3
<1>11. RunsWithin(Nat, sum, 0, size, step)
  BY <1>6, <1>10 DEF RunsWithin
<1>12. sum \in [0 .. size -> Nat]
  BY <1>1, <1>5, <1>11, Followed
<1>13. ASSUME NEW n \in 1 .. size
       PROVE  /\ LengthBefore(urls, n) \in Nat
              /\ LengthBefore(urls, n + 1) = LengthBefore(urls, n) + Length[urls[n]]
  <2>1. (n + 1) - 1 = n /\ n - 1 \in 0 .. size
    BY <1>1
  <2>2. LengthBefore(urls, n) = sum[n - 1] /\ LengthBefore(urls, n + 1) = sum[n]
    BY <1>3, <2>1
  <2> QED BY <1>10, <1>12, <2>1, <2>2 DEF Then
<1>14. LengthBefore(urls, 1) = 0
  <2>1. LengthBefore(urls, 1) = sum[1 - 1] /\ 1 - 1 = 0
    BY <1>3
  <2> QED BY <1>10, <2>1
<1> QED BY <1>13, <1>14 DEF size

\* What the numbers of the first n releases of a season must be.
FileOf(urls, x) == [urls |-> urls, number |-> x.number, url |-> x.url, local |-> x.local]
Counted(urls, n, base) ==
  (\A i \in 1 .. (Len(urls) - 1) : Whole(urls[i])) =>
    /\ \A x \in Range(base) : \E i \in 1 .. n :
         /\ urls[i] = x.url /\ x.local \in 0 .. Length[x.url]
         /\ LengthBefore(urls, i) + x.local = x.number
    /\ n < Len(urls) => LastNumber(base) = LengthBefore(urls, n + 1)

\* An episode 0 of a later release has the number of the episode before it.
ZeroFollows(base) ==
  \A j \in DOMAIN base :
    base[j].local = 0 /\ base[j].number # 0 =>
      \E k \in 1 .. (j - 1) : base[k].number = base[j].number
FirstWith(list, n) == \A k \in 1 .. (n - 1) : list[k].number # list[n].number

\* The last number of what was counted so far.
LEMMA LastNumberIs ==
  ASSUME NEW base \in Seq(Sources)
  PROVE  /\ LastNumber(base) \in Nat
         /\ \A x : EndsWith(base, x) => LastNumber(base) = x.number
<1>1. Len(base) \in Nat /\ (base # <<>> <=> Len(base) # 0)
  BY EmptySeq
<1>2. base # <<>> => base[Len(base)] \in Sources
  BY <1>1
<1>3. base # <<>> => base[Len(base)].number \in Nat
  BY <1>2 DEF Sources
<1> QED BY <1>1, <1>3 DEF LastNumber, EndsWith

\* One release more.
LEMMA CountedOn ==
  ASSUME NEW urls \in Seq(Urls), NEW n \in 1 .. Len(urls), NEW base \in Seq(Sources),
         Counted(urls, n - 1, base)
  PROVE  /\ base \o PageNumbers(urls[n], LastNumber(base)) \in Seq(Sources)
         /\ Counted(urls, n, base \o PageNumbers(urls[n], LastNumber(base)))
<1> DEFINE url == urls[n]
           offset == LastNumber(base)
           page == PageNumbers(url, offset)
           all == base \o page
<1>1. url \in Urls /\ offset \in Nat /\ Len(urls) \in Nat /\ n \in Nat
  BY LastNumberIs
<1> HIDE DEF url, offset
<1>2. page \in Seq(FromPage(url, offset))
  BY <1>1, PageNumbersIs
<1>3. Whole(url) => \E x \in FromPage(url, offset) :
                      x.number = offset + Length[url] /\ EndsWith(page, x)
  BY <1>1, PageNumbersIs
<1> HIDE DEF page
<1>4. page \in Seq(Sources) /\ Range(page) \subseteq FromPage(url, offset)
  <2>1. FromPage(url, offset) \subseteq Sources
    BY DEF FromPage
  <2>2. Len(page) \in Nat /\ page \in [1 .. Len(page) -> Sources]
    BY <1>2, <2>1
  <2>3. page \in Seq(Sources)
    BY <2>2, IsASeq
  <2>4. Range(page) \subseteq FromPage(url, offset)
    BY <1>2, RangeOfSeq
  <2> QED BY <2>3, <2>4
<1>5. all \in Seq(Sources) /\ Range(all) = Range(base) \cup Range(page)
  BY <1>4, ConcatProperties, RangeConcatenation
<1>6. ASSUME \A i \in 1 .. (Len(urls) - 1) : Whole(urls[i])
      PROVE  /\ \A x \in Range(all) : \E i \in 1 .. n :
                  /\ urls[i] = x.url /\ x.local \in 0 .. Length[x.url]
                  /\ LengthBefore(urls, i) + x.local = x.number
             /\ n < Len(urls) => LastNumber(all) = LengthBefore(urls, n + 1)
  <2>1. /\ \A x \in Range(base) : \E i \in 1 .. (n - 1) :
             /\ urls[i] = x.url /\ x.local \in 0 .. Length[x.url]
             /\ LengthBefore(urls, i) + x.local = x.number
        /\ n - 1 < Len(urls) => LastNumber(base) = LengthBefore(urls, (n - 1) + 1)
    BY <1>6 DEF Counted
  <2>2. offset = LengthBefore(urls, n)
    <3>1. n - 1 < Len(urls) /\ (n - 1) + 1 = n
      BY <1>1
    <3> QED BY <2>1, <3>1 DEF offset
  <2>3. ASSUME NEW x \in Range(all)
        PROVE  \E i \in 1 .. n : /\ urls[i] = x.url /\ x.local \in 0 .. Length[x.url]
                                 /\ LengthBefore(urls, i) + x.local = x.number
    <3>1. CASE x \in Range(base)
      <4>1. 1 .. (n - 1) \subseteq 1 .. n
        BY <1>1
      <4> QED BY <2>1, <3>1, <4>1
    <3>2. CASE x \in Range(page)
      <4>1. x.url = url /\ x.local \in 0 .. Length[url] /\ x.number = offset + x.local
        BY <1>4, <3>2 DEF FromPage
      <4>2. n \in 1 .. n
        BY <1>1
      <4> QED BY <2>2, <4>1, <4>2 DEF url
    <3> QED BY <1>5, <3>1, <3>2
  <2>4. ASSUME n < Len(urls) PROVE LastNumber(all) = LengthBefore(urls, n + 1)
    <3>1. n \in 1 .. (Len(urls) - 1)
      BY <1>1, <2>4
    <3>2. Whole(url)
      BY <1>6, <3>1 DEF url
    <3>3. PICK x \in FromPage(url, offset) :
            x.number = offset + Length[url] /\ EndsWith(page, x)
      BY <1>3, <3>2
    <3>4. EndsWith(all, x)
      BY <1>4, <3>3, LongerEnds
    <3>5. LastNumber(all) = offset + Length[url]
      BY <1>5, <3>3, <3>4, LastNumberIs
    <3>6. LengthBefore(urls, n + 1) = LengthBefore(urls, n) + Length[urls[n]]
      BY LengthBeforeIs
    <3> QED BY <2>2, <3>5, <3>6 DEF url
  <2> QED BY <2>3, <2>4
<1>7. Counted(urls, n, all)
  BY <1>6 DEF Counted
<1> QED BY <1>5, <1>7 DEF all, page, url, offset

\* The numbers of one release more keep an episode 0 behind the one it repeats.
LEMMA ZeroFollowsOn ==
  ASSUME NEW url \in Urls, NEW base \in Seq(Sources), ZeroFollows(base)
  PROVE  ZeroFollows(base \o PageNumbers(url, LastNumber(base)))
<1> DEFINE offset == LastNumber(base)
           page == PageNumbers(url, offset)
           all == base \o page
<1>1. offset \in Nat /\ Len(base) \in Nat /\ DOMAIN base = 1 .. Len(base)
  BY LastNumberIs
<1>2. page \in Seq(FromPage(url, offset))
  BY <1>1, PageNumbersIs
<1> HIDE DEF page
<1>3. /\ Len(page) \in Nat /\ Len(all) = Len(base) + Len(page) /\ DOMAIN all = 1 .. Len(all)
      /\ \A i \in 1 .. Len(base) : all[i] = base[i]
      /\ \A i \in 1 .. Len(page) : all[i + Len(base)] = page[i]
  BY <1>1, <1>2
<1> HIDE DEF all
<1>4. ASSUME NEW j \in DOMAIN all, all[j].local = 0, all[j].number # 0
      PROVE  \E k \in 1 .. (j - 1) : all[k].number = all[j].number
  <2>1. CASE j \in DOMAIN base
    <3>1. all[j] = base[j]
      BY <1>1, <1>3, <2>1
    <3>2. PICK k \in 1 .. (j - 1) : base[k].number = base[j].number
      BY <1>4, <2>1, <3>1 DEF ZeroFollows
    <3>3. k \in 1 .. Len(base)
      BY <1>1, <2>1, <3>2
    <3> QED BY <1>3, <3>1, <3>2, <3>3
  <2>2. CASE j \notin DOMAIN base
    <3>1. j - Len(base) \in 1 .. Len(page) /\ (j - Len(base)) + Len(base) = j
      BY <1>1, <1>3, <2>2
    <3>2. all[j] = page[j - Len(base)]
      BY <1>3, <3>1
    <3>3. page[j - Len(base)] \in FromPage(url, offset)
      BY <1>2, <3>1
    <3>4. all[j].number = offset
      BY <1>1, <1>4, <3>2, <3>3 DEF FromPage
    <3>5. base # <<>>
      BY <1>4, <3>4 DEF LastNumber, offset
    <3>6. base[Len(base)].number = offset
      BY <3>5 DEF LastNumber, offset
    <3>7. Len(base) \in 1 .. Len(base) /\ Len(base) \in 1 .. (j - 1)
      BY <1>1, <1>3, <2>2, <3>5, EmptySeq
    <3> QED BY <1>3, <3>4, <3>6, <3>7
  <2> QED BY <2>1, <2>2
<1> QED BY <1>4 DEF ZeroFollows, all, page, offset

\* Nothing is counted before the first release.
LEMMA NothingCounted ==
  ASSUME NEW urls \in Seq(Urls)
  PROVE  Counted(urls, 0, <<>>) /\ ZeroFollows(<<>>)
<1>1. Range(<<>>) = {}
  <2>1. DOMAIN <<>> = {}
    OBVIOUS
  <2> QED BY <2>1 DEF Range
<1>2. LastNumber(<<>>) = LengthBefore(urls, 0 + 1)
  BY LengthBeforeIs DEF LastNumber
<1>3. DOMAIN <<>> = {}
  OBVIOUS
<1> QED BY <1>1, <1>2, <1>3 DEF Counted, ZeroFollows

\* The lists flattenEpisodes builds, release by release.
Flattened(f, urls) ==
  f = [n \in 0 .. Len(urls) |->
         IF n = 0 THEN <<>>
         ELSE Once(f[n - 1], LAMBDA b : b \o PageNumbers(urls[n], LastNumber(b)))]

\* The list flattenEpisodes builds is counted, with the episodes 0 behind.
LEMMA FlattenEpisodesIs ==
  ASSUME NEW urls \in Seq(Urls)
  PROVE  /\ FlattenEpisodes(urls) \in Seq(Sources)
         /\ Counted(urls, Len(urls), FlattenEpisodes(urls))
         /\ ZeroFollows(FlattenEpisodes(urls))
<1> DEFINE size == Len(urls)
           Then(b, n) == b \o PageNumbers(urls[n], LastNumber(b))
           none == <<>>
           step == [p \in Seq(Sources) \X (1 .. size) |-> Then(p[1], p[2])]
           base == CHOOSE f : Flattened(f, urls)
<1>1. size \in Nat /\ none \in Seq(Sources)
  BY NoListIs
<1>2. ASSUME NEW b \in Seq(Sources), NEW n \in 1 .. size PROVE Then(b, n) \in Seq(Sources)
  <2>1. urls[n] \in Urls /\ LastNumber(b) \in Nat
    BY LastNumberIs
  <2>2. PageNumbers(urls[n], LastNumber(b)) \in Seq(FromPage(urls[n], LastNumber(b)))
    BY <2>1, PageNumbersIs
  <2>3. FromPage(urls[n], LastNumber(b)) \subseteq Sources
    BY DEF FromPage
  <2>4. PageNumbers(urls[n], LastNumber(b)) \in Seq(Sources)
    BY <2>2, <2>3, SeqMonotonic
  <2> QED BY <2>4, ConcatProperties
<1>3. FlattenEpisodes(urls) = base[size]
  BY DEF FlattenEpisodes, Flattened
<1>4. \A f : Flattened(f, urls) <=>
             f = [n \in 0 .. size |-> IF n = 0 THEN none ELSE Then(f[n - 1], n)]
  <2>1. \A x, n : Once(x, LAMBDA b : b \o PageNumbers(urls[n], LastNumber(b))) = Then(x, n)
    BY OnlyOne DEF Once
  <2> QED BY <2>1 DEF Flattened
<1> HIDE DEF size, none
<1>5. step \in [Seq(Sources) \X (1 .. size) -> Seq(Sources)]
  <2> HIDE DEF Then
  <2> QED BY <1>2
<1>6. \A b \in Seq(Sources), n \in 1 .. size : step[<<b, n>>] = Then(b, n)
  <2> HIDE DEF Then
  <2> QED OBVIOUS
<1> HIDE DEF step, Then
<1>7. PICK f \in [0 .. size -> Seq(Sources)] : Runs(f, none, size, step)
  BY <1>1, <1>5, Recursion
<1>8. Flattened(f, urls)
  <2>1. ASSUME NEW n \in 0 .. size
        PROVE  f[n] = IF n = 0 THEN none ELSE Then(f[n - 1], n)
    <3>1. n = 0 \/ (n \in 1 .. size /\ n - 1 \in 0 .. size)
      BY <1>1
    <3> QED BY <1>6, <1>7, <3>1 DEF Runs
  <2>2. f = [n \in 0 .. size |-> f[n]]
    BY <1>7
  <2> QED BY <1>4, <2>1, <2>2
<1>9. Flattened(base, urls)
  BY <1>8
<1> HIDE DEF base
<1>10. /\ base[0] = none /\ base = [n \in 0 .. size |-> base[n]]
       /\ \A n \in 1 .. size : base[n] = Then(base[n - 1], n)
  <2>1. \A n \in 0 .. size : base[n] = IF n = 0 THEN none ELSE Then(base[n - 1], n)
    BY <1>4, <1>9
  <2>2. base = [n \in 0 .. size |-> base[n]]
    BY <1>4, <1>9
  <2>3. 0 \in 0 .. size /\ \A n \in 1 .. size : n \in 0 .. size /\ n # 0
    BY <1>1
  <2> QED BY <2>1, <2>2, <2>3
<1>11. RunsWithin(Seq(Sources), base, none, size, step)
  BY <1>6, <1>10 DEF RunsWithin
<1>12. base \in [0 .. size -> Seq(Sources)]
  BY <1>1, <1>5, <1>11, Followed
<1> DEFINE set == {n \in 0 .. size : Counted(urls, n, base[n]) /\ ZeroFollows(base[n])}
<1>13. 0 \in set
  BY <1>1, <1>10, NothingCounted DEF none
<1>14. ASSUME NEW n \in 1 .. size, n - 1 \in set PROVE n \in set
  <2>1. /\ n \in 0 .. size /\ n - 1 \in 0 .. size
        /\ Counted(urls, n - 1, base[n - 1]) /\ ZeroFollows(base[n - 1])
    BY <1>1, <1>14
  <2>2. base[n - 1] \in Seq(Sources) /\ base[n] = Then(base[n - 1], n)
    BY <1>10, <1>12, <2>1
  <2>3. Counted(urls, n, base[n])
    BY <2>1, <2>2, CountedOn DEF size, Then
  <2>4. urls[n] \in Urls
    BY DEF size
  <2>5. ZeroFollows(base[n])
    BY <2>1, <2>2, <2>4, ZeroFollowsOn DEF Then
  <2> QED BY <2>1, <2>3, <2>5
<1> HIDE DEF set
<1>15. size \in set /\ size \in 0 .. size
  <2>1. 0 .. size \subseteq set
    BY <1>1, <1>13, <1>14, Upto
  <2> QED BY <1>1, <2>1
<1>16. /\ base[size] \in Seq(Sources) /\ Counted(urls, size, base[size])
       /\ ZeroFollows(base[size])
  BY <1>12, <1>15 DEF set
<1> QED BY <1>3, <1>16 DEF size

\* The first source of a number is that of the episode it stands for.
LEMMA SourcesAreRight ==
  ASSUME NEW urls \in Seq(Urls), NEW n \in DOMAIN FlattenEpisodes(urls),
         FirstWith(FlattenEpisodes(urls), n)
  PROVE  Right(FileOf(urls, FlattenEpisodes(urls)[n]))
<1> DEFINE base == FlattenEpisodes(urls)
           x == base[n]
           file == FileOf(urls, x)
<1>1. base \in Seq(Sources) /\ Counted(urls, Len(urls), base)
  BY FlattenEpisodesIs
<1>2. x.local = 0 => x.number = 0
  BY FlattenEpisodesIs DEF ZeroFollows, FirstWith
<1>3. x \in Range(base)
  BY DEF Range
<1>4. file.urls = urls /\ file.url = x.url /\ file.local = x.local /\ file.number = x.number
  BY DEF FileOf
<1>5. DOMAIN urls = 1 .. Len(urls)
  OBVIOUS
<1> HIDE DEF base, x, file
<1> QED BY <1>1, <1>2, <1>3, <1>4, <1>5 DEF Counted, Right, x, base, file

(***************************************************************************)
(* What is in hand, in the table, at Sonarr and on the disk.               *)
(***************************************************************************)
Files == [urls : Seq(Urls), number : Nat, url : Urls, local : Nat]
RightFiles == {NoFile} \cup {file \in Files : Right(file)}
Works == [page : Nat \ {0}, got : Seq(Series), todo : Seq(Series), bound : Seq(Routes),
          plan : Seq(Routes), episodi : Seq(Sources), source : RightFiles]
Sonarrs == [missing : Seq(Episodes), queue : SUBSET Episodes, rescans : SUBSET Titles,
            later : SUBSET Episodes]

\* What a thread that is somewhere has in hand.
Shaped(point, w) ==
  /\ point = "bind" => \A n \in DOMAIN w.todo : w.todo[n].seasons # <<>>
  /\ point = "bindSeason" => /\ w.todo # <<>>
                             /\ \A n \in DOMAIN w.todo \ {1} : w.todo[n].seasons # <<>>
  /\ point \in Acting \cup {"episode"} =>
       /\ w.plan # <<>>
       /\ \A n \in DOMAIN w.episodi : FirstWith(w.episodi, n) =>
            Right(FileOf(w.plan[1].urls, w.episodi[n]))
  /\ point \in Acting => w.plan[1].episodes # <<>>

DataInv ==
  /\ table \in Tables /\ sonarr \in Sonarrs
  /\ folder \in [Episodes -> RightFiles] /\ library \in [Episodes -> RightFiles]
  /\ work \in [Threads -> Works]
  /\ \A p \in Threads : Shaped(at[p], work[p])

\* A thread moves and has something else in hand.
LEMMA WorkStep ==
  ASSUME DataInv, NEW p \in Threads, \A q \in Threads \ {p} : at'[q] = at[q],
         NEW w \in Works, work' = [work EXCEPT ![p] = w], Shaped(at'[p], w),
         table' \in Tables, sonarr' \in Sonarrs,
         folder' \in [Episodes -> RightFiles], library' \in [Episodes -> RightFiles]
  PROVE  DataInv'
<1>1. work' \in [Threads -> Works]
  BY DEF DataInv
<1>2. ASSUME NEW q \in Threads PROVE Shaped(at'[q], work'[q])
  <2>1. CASE q = p
    BY <2>1 DEF DataInv
  <2>2. CASE q # p
    <3>1. at'[q] = at[q] /\ work'[q] = work[q]
      BY <2>2 DEF DataInv
    <3> QED BY <3>1 DEF DataInv
  <2> QED BY <2>1, <2>2
<1> QED BY <1>1, <1>2 DEF DataInv

\* Nothing else changes.
LEMMA WorkOnly ==
  ASSUME DataInv, NEW p \in Threads, \A q \in Threads \ {p} : at'[q] = at[q],
         NEW w \in Works, work' = [work EXCEPT ![p] = w], Shaped(at'[p], w),
         UNCHANGED <<table, sonarr, folder, library>>
  PROVE  DataInv'
BY WorkStep DEF DataInv

\* Nobody moves.
LEMMA WorldStep ==
  ASSUME DataInv, UNCHANGED <<at, work>>, table' \in Tables, sonarr' \in Sonarrs,
         folder' \in [Episodes -> RightFiles], library' \in [Episodes -> RightFiles]
  PROVE  DataInv'
BY DEF DataInv

\* A thread that has nothing in hand.
LEMMA NothingIs ==
  /\ Nothing \in Works
  /\ \A point \in Points \ (Acting \cup {"bindSeason", "episode"}) : Shaped(point, Nothing)
<1>1. Nothing \in Works
  BY NoListIs DEF Nothing, Works, RightFiles
<1>2. DOMAIN Nothing.todo = {}
  BY DEF Nothing
<1> QED BY <1>1, <1>2 DEF Shaped

\* What is in hand is what it is.
LEMMA InHand ==
  ASSUME NEW w \in Works
  PROVE  /\ w.page \in Nat \ {0} /\ w.got \in Seq(Series) /\ w.todo \in Seq(Series)
         /\ w.bound \in Seq(Routes) /\ w.plan \in Seq(Routes)
         /\ w.episodi \in Seq(Sources) /\ w.source \in RightFiles
BY DEF Works

(***************************************************************************)
(* The processor.                                                          *)
(***************************************************************************)

\* A page of the missing episodes, and the filter after the last.
LEMMA FetchData ==
  ASSUME TypeInv, DataInv, NEW p \in Threads, GetAllMissing(p)
  PROVE  DataInv'
<1> DEFINE w == work[p]
           page == PageOf(sonarr.missing, w.page)
           read == [w EXCEPT !.page = @ + 1, !.got = Reduced(@, page)]
           grouped == [Nothing EXCEPT !.todo = Filter(w.got)]
<1>1. /\ w \in Works /\ at[p] = "fetch" /\ UNCHANGED <<table, sonarr, folder, library>>
      /\ w.page \in Nat \ {0} /\ w.got \in Seq(Series)
  BY InHand DEF GetAllMissing, DataInv, files
<1>2. page \in Seq(Episodes)
  <2>1. sonarr.missing \in Seq(Episodes)
    BY DEF DataInv, Sonarrs
  <2> QED BY <1>1, <2>1, PageOfIs
<1>3. CASE page # <<>>
  <2>1. work' = [work EXCEPT ![p] = read] /\ UNCHANGED at
    BY <1>3 DEF GetAllMissing, DataInv
  <2>2. Reduced(w.got, page) \in Seq(Series) /\ w.page + 1 \in Nat \ {0}
    BY <1>1, <1>2, ReducedIs
  <2> HIDE DEF w, page
  <2>3. read \in Works
    BY <1>1, <2>2 DEF Works
  <2> HIDE DEF read
  <2>4. Shaped(at'[p], read)
    BY <1>1, <2>1 DEF Shaped, Acting
  <2> QED BY <1>1, <2>1, <2>3, <2>4, WorkOnly
<1>4. CASE page = <<>>
  <2>1. work' = [work EXCEPT ![p] = grouped] /\ at' = [at EXCEPT ![p] = "bind"]
    BY <1>4 DEF GetAllMissing, DataInv, To
  <2>2. Filter(w.got) \in Seq(Series) /\ \A n \in DOMAIN Filter(w.got) : Filter(w.got)[n].seasons # <<>>
    BY <1>1, FilterIs
  <2> HIDE DEF w, page
  <2>3. grouped \in Works /\ grouped.todo = Filter(w.got)
    BY <2>2, NothingIs DEF Works
  <2> HIDE DEF grouped
  <2>4. at'[p] = "bind" /\ \A q \in Threads \ {p} : at'[q] = at[q]
    BY <2>1 DEF TypeInv
  <2>5. Shaped(at'[p], grouped)
    BY <2>2, <2>3, <2>4 DEF Shaped, Acting
  <2> QED BY <1>1, <2>1, <2>3, <2>4, <2>5, WorkOnly
<1> QED BY <1>3, <1>4

\* The next series is bound, in its absolute numbering or not.
LEMMA BindSerieData ==
  ASSUME TypeInv, DataInv, NEW p \in Threads, BindSerie(p)
  PROVE  DataInv'
<1> DEFINE w == work[p]
           series == Head(w.todo)
           i == FindEntry(table, series.title)
           bound == IF i # 0 /\ table[i].absolute THEN ConvertToAbsolute(w.todo[1]) ELSE w.todo[1]
           skipped == [w EXCEPT !.todo = Tail(@)]
           taken == [w EXCEPT !.todo = [@ EXCEPT ![1] = bound]]
<1>1. /\ w \in Works /\ at[p] = "bind" /\ UNCHANGED <<table, sonarr, folder, library>>
      /\ w.todo \in Seq(Series) /\ w.todo # <<>> /\ \A n \in DOMAIN w.todo : w.todo[n].seasons # <<>>
  <2>1. w \in Works /\ at[p] = "bind" /\ UNCHANGED <<table, sonarr, folder, library>> /\ w.todo # <<>>
    BY DEF BindSerie, DataInv, files
  <2> QED BY <2>1, InHand DEF DataInv, Shaped
<1>2. /\ Tail(w.todo) \in Seq(Series) /\ 1 \in DOMAIN w.todo /\ w.todo[1] \in Series
      /\ \A n \in DOMAIN Tail(w.todo) : /\ n + 1 \in DOMAIN w.todo \ {1}
                                       /\ Tail(w.todo)[n] = w.todo[n + 1]
  BY <1>1, TailIs
<1>3. CASE i = 0 /\ ~settings.autoBind
  <2>1. work' = [work EXCEPT ![p] = skipped] /\ UNCHANGED at
    BY <1>3 DEF BindSerie, DataInv
  <2> HIDE DEF w
  <2>2. skipped \in Works /\ skipped.todo = Tail(w.todo)
    BY <1>1, <1>2 DEF Works
  <2> HIDE DEF skipped
  <2>3. Shaped(at'[p], skipped)
    BY <1>1, <1>2, <2>1, <2>2 DEF Shaped, Acting
  <2> QED BY <1>1, <2>1, <2>2, <2>3, WorkOnly
<1>4. CASE ~(i = 0 /\ ~settings.autoBind)
  <2>1. work' = [work EXCEPT ![p] = taken] /\ at' = [at EXCEPT ![p] = "bindSeason"]
    BY <1>4 DEF BindSerie, DataInv, To
  <2> HIDE DEF w, i
  <2>2. bound \in Series
    BY <1>1, <1>2, ConvertToAbsoluteIs
  <2> HIDE DEF bound
  <2>3. [w.todo EXCEPT ![1] = bound] \in Seq(Series)
    BY <1>1, <2>2
  <2>4. taken \in Works /\ taken.todo = [w.todo EXCEPT ![1] = bound]
    BY <1>1, <2>3 DEF Works
  <2> HIDE DEF taken
  <2>5. at'[p] = "bindSeason" /\ \A q \in Threads \ {p} : at'[q] = at[q]
    BY <2>1 DEF TypeInv
  <2>6. /\ taken.todo # <<>>
        /\ \A n \in DOMAIN taken.todo \ {1} : taken.todo[n].seasons # <<>>
    <3>1. DOMAIN taken.todo = DOMAIN w.todo /\ \A n \in DOMAIN w.todo \ {1} : taken.todo[n] = w.todo[n]
      BY <1>1, <2>4
    <3>2. DOMAIN <<>> = {}
      OBVIOUS
    <3> QED BY <1>1, <1>2, <3>1, <3>2
  <2>7. Shaped(at'[p], taken)
    BY <2>5, <2>6 DEF Shaped, Acting
  <2> QED BY <1>1, <2>1, <2>4, <2>5, <2>7, WorkOnly
<1> QED BY <1>3, <1>4

\* A season taken off a series, and put with its URLs if it has some.
LEMMA BoundIs ==
  ASSUME DataInv, NEW p \in Threads, at[p] = "bindSeason", UNCHANGED at,
         Head(work[p].todo).seasons # <<>>, NEW urls \in Seq(Urls), Bound(p, urls),
         table' \in Tables, UNCHANGED <<sonarr, folder, library>>
  PROVE  DataInv'
<1> DEFINE w == work[p]
           series == Head(w.todo)
           season == Head(series.seasons)
           found == [title |-> series.title, number |-> season.number, urls |-> urls,
                     episodes |-> season.episodes]
           bound == IF urls = <<>> THEN w.bound ELSE Append(w.bound, found)
           left == Tail(w.todo[1].seasons)
           rest == [w.todo[1] EXCEPT !.seasons = left]
           next == [w EXCEPT !.todo = [@ EXCEPT ![1] = rest], !.bound = bound]
<1>1. /\ w \in Works /\ w.todo \in Seq(Series) /\ w.bound \in Seq(Routes) /\ w.todo # <<>>
      /\ \A n \in DOMAIN w.todo \ {1} : w.todo[n].seasons # <<>>
  <2>1. w \in Works
    BY DEF DataInv
  <2> QED BY <2>1, InHand DEF DataInv, Shaped
<1>2. series \in Series /\ series = w.todo[1] /\ 1 \in DOMAIN w.todo
  BY <1>1, TailIs
<1>3. series.title \in Titles /\ series.seasons \in Seq(Seasons) /\ series.seasons # <<>>
  BY <1>2 DEF Series
<1>4. season \in Seasons /\ Tail(series.seasons) \in Seq(Seasons)
  BY <1>3, TailIs
<1>5. work' = [work EXCEPT ![p] = next]
  BY DEF Bound, DataInv
<1> HIDE DEF w, series, season
<1>6. found \in Routes
  BY <1>3, <1>4 DEF Routes, Seasons
<1> HIDE DEF found
<1>7. bound \in Seq(Routes)
  BY <1>1, <1>6, AppendProperties
<1>8. rest \in Series
  BY <1>2, <1>4 DEF Series
<1> HIDE DEF bound, rest
<1>9. [w.todo EXCEPT ![1] = rest] \in Seq(Series)
  BY <1>1, <1>8
<1>10. next \in Works /\ next.todo = [w.todo EXCEPT ![1] = rest]
  BY <1>1, <1>7, <1>9 DEF Works
<1> HIDE DEF next
<1>11. /\ next.todo # <<>>
       /\ \A n \in DOMAIN next.todo \ {1} : next.todo[n].seasons # <<>>
  <2>1. DOMAIN next.todo = DOMAIN w.todo /\ \A n \in DOMAIN w.todo \ {1} : next.todo[n] = w.todo[n]
    BY <1>1, <1>10
  <2>2. DOMAIN <<>> = {}
    OBVIOUS
  <2> QED BY <1>1, <1>2, <2>1, <2>2
<1>12. Shaped(at'[p], next)
  BY <1>11 DEF Shaped, Acting
<1> QED BY <1>5, <1>10, <1>12, WorkStep DEF DataInv

\* What a season is downloaded from, known or searched for.
LEMMA BindUrlData ==
  ASSUME TypeInv, DataInv, NEW p \in Threads, BindUrl(p)
  PROVE  DataInv'
<1> DEFINE series == Head(work[p].todo)
           season == Head(series.seasons)
<1>1. /\ at[p] = "bindSeason" /\ UNCHANGED at /\ series.seasons # <<>>
      /\ UNCHANGED <<sonarr, folder, library>>
  BY DEF BindUrl, files
<1>2. series.title \in Titles /\ season.number \in 0 .. Absolute
  <2>1. work[p].todo \in Seq(Series) /\ work[p].todo # <<>>
    BY <1>1, InHand DEF DataInv, Shaped
  <2>2. series \in Series
    BY <2>1, TailIs
  <2>3. series.title \in Titles /\ series.seasons \in Seq(Seasons)
    BY <2>2 DEF Series
  <2>4. season \in Seasons
    BY <1>1, <2>3, TailIs
  <2> QED BY <2>3, <2>4 DEF Seasons
<1>3. CASE /\ Mapped(table, Preferences, series.title, season.number)
           /\ Bound(p, UrlsOf(table, series.title, season.number)) /\ UNCHANGED table
  <2>1. table \in Tables
    BY DEF DataInv
  <2>2. UrlsOf(table, series.title, season.number) \in Seq(Urls)
    BY <1>3, <2>1, UrlsOfIs
  <2> QED BY <1>1, <1>3, <2>1, <2>2, BoundIs
<1>4. CASE Bound(p, <<>>) /\ UNCHANGED table
  <2>1. table \in Tables
    BY DEF DataInv
  <2>2. <<>> \in Seq(Urls)
    BY NoListIs
  <2> DEFINE none == <<>>
  <2>3. none \in Seq(Urls) /\ Bound(p, none)
    BY <1>4, <2>2
  <2> HIDE DEF none
  <2> QED BY <1>1, <1>4, <2>1, <2>3, BoundIs
<1>5. ASSUME NEW url \in FoundUrls, NEW sure \in BOOLEAN, Bound(p, <<url>>),
             table' = Saved(series.title, season.number, url, sure)
      PROVE  DataInv'
  <2>1. url \in Urls
    BY ScanAssumption
  <2>2. table' \in Tables
    BY <1>2, <1>5, <2>1, SavedIs DEF DataInv
  <2> DEFINE one == <<url>>
  <2>3. one \in Seq(Urls) /\ Bound(p, one)
    BY <1>5, <2>1
  <2> HIDE DEF one
  <2> QED BY <1>1, <2>2, <2>3, BoundIs
<1> QED BY <1>3, <1>4, <1>5 DEF BindUrl

\* The seasons of a series are put in order and planned.
LEMMA SerieBoundData ==
  ASSUME TypeInv, DataInv, NEW p \in Threads, SerieBound(p)
  PROVE  DataInv'
<1> DEFINE w == work[p]
           plan == w.plan \o SortSerie(w.bound)
           next == [w EXCEPT !.todo = Tail(@), !.bound = <<>>, !.plan = plan]
<1>1. /\ w \in Works /\ at[p] = "bindSeason" /\ UNCHANGED <<table, sonarr, folder, library>>
      /\ at' = [at EXCEPT ![p] = "bind"]
      /\ work' = [work EXCEPT ![p] = next]
  BY DEF SerieBound, DataInv, files, To
<1>2. /\ w.todo \in Seq(Series) /\ w.bound \in Seq(Routes) /\ w.plan \in Seq(Routes)
      /\ w.todo # <<>> /\ \A n \in DOMAIN w.todo \ {1} : w.todo[n].seasons # <<>>
  BY <1>1, InHand DEF DataInv, Shaped
<1>3. /\ Tail(w.todo) \in Seq(Series)
      /\ \A n \in DOMAIN Tail(w.todo) : /\ n + 1 \in DOMAIN w.todo \ {1}
                                       /\ Tail(w.todo)[n] = w.todo[n + 1]
  BY <1>2, TailIs
<1>4. plan \in Seq(Routes)
  BY <1>2, SortSerieIs, ConcatProperties
<1> HIDE DEF w, plan
<1>5. next \in Works /\ next.todo = Tail(w.todo)
  BY <1>1, <1>3, <1>4, NoListIs DEF Works
<1> HIDE DEF next
<1>6. at'[p] = "bind" /\ \A q \in Threads \ {p} : at'[q] = at[q]
  BY <1>1 DEF TypeInv
<1>7. Shaped(at'[p], next)
  BY <1>2, <1>3, <1>5, <1>6 DEF Shaped, Acting
<1> QED BY <1>1, <1>5, <1>6, <1>7, WorkOnly

\* Something else in hand is the same thing when nothing changes.
LEMMA DataReadyData ==
  ASSUME TypeInv, DataInv, NEW p \in Threads, DataReady(p)
  PROVE  DataInv'
<1>1. /\ at' = [at EXCEPT ![p] = "season"] /\ UNCHANGED <<work, table, sonarr, folder, library>>
  BY DEF DataReady, To, files
<1>2. at'[p] = "season" /\ \A q \in Threads \ {p} : at'[q] = at[q]
  BY <1>1 DEF TypeInv
<1>3. work[p] \in Works /\ work' = [work EXCEPT ![p] = work[p]]
  BY <1>1 DEF DataInv
<1>4. Shaped(at'[p], work[p])
  BY <1>2 DEF Shaped, Acting
<1> QED BY <1>1, <1>2, <1>3, <1>4, WorkOnly

\* The end of a scan, however it ends.
LEMMA DroppedData ==
  ASSUME TypeInv, DataInv, NEW p \in Threads, ScanEnds(p) \/ Raise(p),
         UNCHANGED <<table, sonarr, folder, library>>
  PROVE  DataInv'
<1>1. at' = [at EXCEPT ![p] = "idle"] /\ work' = [work EXCEPT ![p] = Nothing]
  BY DEF ScanEnds, Raise, To
<1>2. at'[p] = "idle" /\ \A q \in Threads \ {p} : at'[q] = at[q]
  BY <1>1 DEF TypeInv
<1>3. Nothing \in Works /\ Shaped(at'[p], Nothing)
  BY <1>2, NothingIs DEF Points, Acting
<1> QED BY <1>1, <1>2, <1>3, WorkOnly

(***************************************************************************)
(* The downloader.                                                         *)
(***************************************************************************)
\* What a thread takes in hand next.
Takes(p) ==
  /\ \A q \in Threads \ {p} : at'[q] = at[q]
  /\ \E w \in Works : work' = [work EXCEPT ![p] = w] /\ Shaped(at'[p], w)

\* Only what the thread has in hand changes.
LEMMA TakesStep ==
  ASSUME DataInv, NEW p \in Threads, Takes(p), table' \in Tables, sonarr' \in Sonarrs,
         folder' \in [Episodes -> RightFiles], library' \in [Episodes -> RightFiles]
  PROVE  DataInv'
BY WorkStep DEF Takes

\* The next season.
LEMMA SeasonDoneTakes ==
  ASSUME TypeInv, DataInv, NEW p \in Threads, SeasonDone(p), work[p].plan # <<>>
  PROVE  Takes(p)
<1> DEFINE w == work[p]
           next == [w EXCEPT !.plan = Tail(@), !.episodi = <<>>, !.source = NoFile]
<1>1. w \in Works /\ w.plan \in Seq(Routes)
  BY InHand DEF DataInv
<1>2. at' = [at EXCEPT ![p] = "season"] /\ work' = [work EXCEPT ![p] = next]
  BY DEF SeasonDone, To, DataInv
<1>3. Tail(w.plan) \in Seq(Routes)
  BY <1>1, TailIs
<1> HIDE DEF w
<1>4. next \in Works
  BY <1>1, <1>3, NoListIs DEF Works, RightFiles
<1> HIDE DEF next
<1>5. at'[p] = "season" /\ \A q \in Threads \ {p} : at'[q] = at[q]
  BY <1>2 DEF TypeInv
<1>6. Shaped(at'[p], next)
  BY <1>5 DEF Shaped, Acting
<1> QED BY <1>2, <1>4, <1>5, <1>6 DEF Takes

\* The next episode of the season.
LEMMA EpisodeDoneTakes ==
  ASSUME TypeInv, DataInv, NEW p \in Threads, EpisodeDone(p),
         at[p] \in Acting \cup {"episode"}, work[p].plan[1].episodes # <<>>
  PROVE  Takes(p)
<1> DEFINE w == work[p]
           first == [w.plan[1] EXCEPT !.episodes = Tail(@)]
           next == [w EXCEPT !.plan = [@ EXCEPT ![1] = first], !.source = NoFile]
<1>1. /\ w \in Works /\ w.plan \in Seq(Routes) /\ w.plan # <<>>
      /\ \A n \in DOMAIN w.episodi : FirstWith(w.episodi, n) =>
           Right(FileOf(w.plan[1].urls, w.episodi[n]))
  <2>1. w \in Works /\ Shaped(at[p], w)
    BY DEF DataInv
  <2> QED BY <2>1, InHand DEF Shaped
<1>2. at' = [at EXCEPT ![p] = "episode"] /\ work' = [work EXCEPT ![p] = next]
  BY DEF EpisodeDone, To, DataInv
<1>3. w.plan[1] \in Routes /\ 1 \in DOMAIN w.plan
  BY <1>1, TailIs
<1>4. Tail(w.plan[1].episodes) \in Seq(Episodes)
  <2>1. w.plan[1].episodes \in Seq(Episodes)
    BY <1>3 DEF Routes
  <2> QED BY <2>1, TailIs
<1> HIDE DEF w
<1>5. first \in Routes /\ first.urls = w.plan[1].urls
  BY <1>3, <1>4 DEF Routes
<1> HIDE DEF first
<1>6. /\ [w.plan EXCEPT ![1] = first] \in Seq(Routes)
      /\ [w.plan EXCEPT ![1] = first][1] = first
      /\ DOMAIN [w.plan EXCEPT ![1] = first] = DOMAIN w.plan
  BY <1>1, <1>3, <1>5
<1>7. /\ next \in Works /\ next.plan = [w.plan EXCEPT ![1] = first]
      /\ next.episodi = w.episodi
  BY <1>1, <1>6 DEF Works, RightFiles
<1> HIDE DEF next
<1>8. next.plan # <<>> /\ next.plan[1].urls = w.plan[1].urls
  <2>1. DOMAIN <<>> = {}
    OBVIOUS
  <2> QED BY <1>3, <1>5, <1>6, <1>7, <2>1
<1>9. at'[p] = "episode" /\ \A q \in Threads \ {p} : at'[q] = at[q]
  BY <1>2 DEF TypeInv
<1>10. Shaped(at'[p], next)
  BY <1>1, <1>7, <1>8, <1>9 DEF Shaped, Acting
<1> QED BY <1>2, <1>7, <1>9, <1>10 DEF Takes

\* The same episode goes on.
LEMMA GoesOnTakes ==
  ASSUME TypeInv, DataInv, NEW p \in Threads, NEW next \in Acting, at[p] \in Acting,
         UnlessSearchOnly(p, next)
  PROVE  Takes(p)
<1>1. work[p] \in Works /\ Shaped(at[p], work[p])
  BY DEF DataInv
<1>2. CASE EpisodeDone(p)
  <2>1. work[p].plan[1].episodes # <<>>
    BY <1>1 DEF Shaped
  <2> QED BY <1>2, <2>1, EpisodeDoneTakes
<1>3. CASE To(p, next) /\ UNCHANGED work
  <2>1. at'[p] = next /\ \A q \in Threads \ {p} : at'[q] = at[q]
    BY <1>3 DEF To, TypeInv
  <2>2. work' = [work EXCEPT ![p] = work[p]]
    BY <1>3 DEF DataInv
  <2>3. Shaped(next, work[p])
    BY <1>1 DEF Shaped, Acting
  <2> QED BY <1>1, <2>1, <2>2, <2>3 DEF Takes
<1> QED BY <1>2, <1>3 DEF UnlessSearchOnly

\* The source episodes of a season are listed: they are right.
LEMMA DownloadSeasonData ==
  ASSUME TypeInv, DataInv, NEW p \in Threads, DownloadSeason(p)
  PROVE  DataInv'
<1>1. /\ UNCHANGED <<table, sonarr, folder, library>> /\ work[p].plan # <<>>
  BY DEF DownloadSeason, files
<1>2. CASE SeasonDone(p)
  BY <1>1, <1>2, SeasonDoneTakes, TakesStep DEF DataInv
<1>3. CASE ~SeasonDone(p)
  <2> DEFINE w == work[p]
             urls == Season(p).urls
             next == [w EXCEPT !.episodi = FlattenEpisodes(urls)]
  <2>1. at' = [at EXCEPT ![p] = "episode"] /\ work' = [work EXCEPT ![p] = next]
    BY <1>3 DEF DownloadSeason, To, DataInv
  <2>2. w \in Works /\ w.plan \in Seq(Routes)
    BY InHand DEF DataInv
  <2>3. w.plan[1] \in Routes /\ Season(p) = w.plan[1]
    BY <1>1, <2>2, TailIs DEF Season
  <2>4. urls \in Seq(Urls)
    BY <2>3 DEF Routes
  <2>5. FlattenEpisodes(urls) \in Seq(Sources)
    BY <2>4, FlattenEpisodesIs
  <2>6. \A n \in DOMAIN FlattenEpisodes(urls) : FirstWith(FlattenEpisodes(urls), n) =>
          Right(FileOf(urls, FlattenEpisodes(urls)[n]))
    BY <2>4, SourcesAreRight
  <2>7. urls = w.plan[1].urls /\ w.plan # <<>>
    BY <1>1, <2>3
  <2> HIDE DEF w, urls
  <2>8. next \in Works /\ next.episodi = FlattenEpisodes(urls) /\ next.plan = w.plan
    BY <2>2, <2>5 DEF Works
  <2> HIDE DEF next
  <2>9. at'[p] = "episode" /\ \A q \in Threads \ {p} : at'[q] = at[q]
    BY <2>1 DEF TypeInv
  <2>10. Shaped(at'[p], next)
    BY <2>6, <2>7, <2>8, <2>9 DEF Shaped, Acting
  <2> QED BY <1>1, <2>1, <2>8, <2>9, <2>10, WorkOnly
<1> QED BY <1>2, <1>3

\* A season is given up, or is over.
LEMMA SeasonFailsData ==
  ASSUME TypeInv, DataInv, NEW p \in Threads, SeasonFails(p) \/ SeasonEnds(p)
  PROVE  DataInv'
<1>1. /\ UNCHANGED <<table, sonarr, folder, library>> /\ SeasonDone(p)
      /\ at[p] \in {"episode", "download"}
  BY DEF SeasonFails, SeasonEnds, files
<1>2. work[p].plan # <<>>
  BY <1>1 DEF DataInv, Shaped, Acting
<1>3. Takes(p)
  BY <1>1, <1>2, SeasonDoneTakes
<1> QED BY <1>1, <1>3, TakesStep DEF DataInv

\* The first source of the number is chosen: it is right.
LEMMA ChooseData ==
  ASSUME TypeInv, DataInv, NEW p \in Threads, ChooseEpisode(p)
  PROVE  DataInv'
<1> DEFINE w == work[p]
           number == NumberIn(Season(p), Episode(p))
           found == Matching(Season(p), Episode(p), w.episodi)
           n == Lowest(found)
           source == [urls |-> Season(p).urls, number |-> number,
                      url |-> w.episodi[n].url, local |-> w.episodi[n].local]
           next == [w EXCEPT !.source = source]
<1>1. /\ at[p] = "episode" /\ UNCHANGED <<table, sonarr, folder, library>>
      /\ Season(p).episodes # <<>>
  BY DEF ChooseEpisode, files
<1>2. /\ w \in Works /\ w.plan \in Seq(Routes) /\ w.plan # <<>> /\ w.episodi \in Seq(Sources)
      /\ \A i \in DOMAIN w.episodi : FirstWith(w.episodi, i) =>
           Right(FileOf(w.plan[1].urls, w.episodi[i]))
  <2>1. w \in Works /\ Shaped(at[p], w)
    BY DEF DataInv
  <2> QED BY <1>1, <2>1, InHand DEF Shaped
<1>3. w.plan[1] \in Routes /\ Season(p) = w.plan[1]
  BY <1>2, TailIs DEF Season
<1>4. CASE EpisodeDone(p)
  BY <1>1, <1>3, <1>4, EpisodeDoneTakes, TakesStep DEF DataInv
<1>5. CASE ~EpisodeDone(p)
  <2>1. /\ at' = [at EXCEPT ![p] = "download"] /\ work' = [work EXCEPT ![p] = next]
        /\ found # {}
    BY <1>5 DEF ChooseEpisode, To, DataInv
  <2> DEFINE x == w.episodi[n]
  <2> DEFINE all == {i \in DOMAIN w.episodi : w.episodi[i].number = number}
  <2>2. found = all
    BY <2>1 DEF Matching
  <2>3. n \in all /\ \A j \in all : n <= j
    <3>1. all \in SUBSET Nat
      BY <1>2
    <3> HIDE DEF found, all
    <3> QED BY <2>1, <2>2, <3>1, LowestIs
  <2>4. n \in DOMAIN w.episodi /\ x.number = number
    <3> HIDE DEF n
    <3> QED BY <2>3
  <2>5. FirstWith(w.episodi, n)
    <3> SUFFICES ASSUME NEW k \in 1 .. (n - 1), w.episodi[k].number = w.episodi[n].number
                 PROVE  FALSE
      BY DEF FirstWith
    <3>1. DOMAIN w.episodi = 1 .. Len(w.episodi) /\ Len(w.episodi) \in Nat
      BY <1>2
    <3> HIDE DEF n, number, w
    <3>2. k \in DOMAIN w.episodi /\ k < n /\ n \in Nat
      BY <2>4, <3>1
    <3>3. k \in all
      BY <2>4, <3>2
    <3> QED BY <2>3, <3>2, <3>3
  <2>6. x \in Sources
    <3> HIDE DEF n, w
    <3> QED BY <1>2, <2>4
  <2>7. source = FileOf(w.plan[1].urls, x)
    BY <1>3, <2>4 DEF FileOf
  <2>8. Right(source)
    BY <1>2, <2>4, <2>7, <2>5
  <2> HIDE DEF x, n, number
  <2>9. source \in Files
    <3>1. w.plan[1].urls \in Seq(Urls)
      BY <1>3 DEF Routes
    <3> QED BY <2>6, <2>7, <3>1 DEF FileOf, Files, Sources
  <2> HIDE DEF source, w
  <2>10. next \in Works /\ next.episodi = w.episodi /\ next.plan = w.plan
    BY <1>2, <2>8, <2>9 DEF Works, RightFiles
  <2> HIDE DEF next
  <2>11. at'[p] = "download" /\ \A q \in Threads \ {p} : at'[q] = at[q]
    BY <2>1 DEF TypeInv
  <2>12. Shaped(at'[p], next)
    BY <1>1, <1>2, <1>3, <2>10, <2>11 DEF Shaped, Acting
  <2> QED BY <1>1, <2>1, <2>10, <2>11, <2>12, WorkOnly
<1> QED BY <1>4, <1>5

\* Where the episode is, in the lists and on the disk.
LEMMA ActingOn ==
  ASSUME DataInv, NEW p \in Threads, at[p] \in Acting
  PROVE  /\ work[p].plan[1].episodes # <<>> /\ Episode(p) \in Episodes
         /\ work[p].source \in RightFiles
<1>1. work[p] \in Works /\ Shaped(at[p], work[p])
  BY DEF DataInv
<1>2. work[p].plan \in Seq(Routes) /\ work[p].source \in RightFiles
  BY <1>1, InHand
<1>3. work[p].plan # <<>> /\ work[p].plan[1].episodes # <<>>
  BY <1>1 DEF Shaped
<1>4. Season(p) \in Routes /\ Season(p) = work[p].plan[1]
  BY <1>2, <1>3, TailIs DEF Season
<1>5. Season(p).episodes \in Seq(Episodes)
  BY <1>4 DEF Routes
<1>6. Episode(p) \in Episodes
  BY <1>3, <1>4, <1>5, TailIs DEF Episode
<1> QED BY <1>2, <1>3, <1>6

\* The file that arrives is the source that was chosen.
LEMMA DownloadData ==
  ASSUME TypeInv, DataInv, NEW p \in Threads, Download(p)
  PROVE  DataInv'
<1> DEFINE next == IF settings.moveEp THEN "move" ELSE "announce"
<1>1. /\ at[p] = "download" /\ UNCHANGED <<table, sonarr, library>>
      /\ folder' = [folder EXCEPT ![Episode(p)] = work[p].source]
      /\ UnlessSearchOnly(p, next)
  BY DEF Download
<1>2. next \in Acting /\ at[p] \in Acting
  BY <1>1 DEF Acting
<1> HIDE DEF next
<1>3. Takes(p)
  BY <1>1, <1>2, GoesOnTakes
<1>4. folder' \in [Episodes -> RightFiles]
  BY <1>1, <1>2, ActingOn DEF DataInv
<1> QED BY <1>1, <1>3, <1>4, TakesStep DEF DataInv

\* No file arrives.
LEMMA DownloadFailsData ==
  ASSUME TypeInv, DataInv, NEW p \in Threads, DownloadFails(p)
  PROVE  DataInv'
<1>1. /\ at[p] = "download" /\ UNCHANGED <<table, sonarr, folder, library>> /\ EpisodeDone(p)
  BY DEF DownloadFails, files
<1>2. work[p].plan[1].episodes # <<>>
  BY <1>1, ActingOn DEF Acting
<1>3. Takes(p)
  BY <1>1, <1>2, EpisodeDoneTakes DEF Acting
<1> QED BY <1>1, <1>3, TakesStep DEF DataInv

\* The file goes from one folder to the other.
LEMMA MoveData ==
  ASSUME TypeInv, DataInv, NEW p \in Threads, MoveFile(p)
  PROVE  DataInv'
<1>1. /\ at[p] = "move" /\ UNCHANGED <<table, sonarr>>
      /\ library' = [library EXCEPT ![Episode(p)] = folder[Episode(p)]]
      /\ folder' = [folder EXCEPT ![Episode(p)] = NoFile]
      /\ UnlessSearchOnly(p, "rescan")
  BY DEF MoveFile, FileMoved
<1>2. Takes(p) /\ Episode(p) \in Episodes
  BY <1>1, GoesOnTakes, ActingOn DEF Acting
<1>3. folder' \in [Episodes -> RightFiles] /\ library' \in [Episodes -> RightFiles]
  BY <1>1, <1>2 DEF DataInv, RightFiles
<1> QED BY <1>1, <1>2, <1>3, TakesStep DEF DataInv

\* Sonarr is told, or refuses.
LEMMA RescanData ==
  ASSUME TypeInv, DataInv, NEW p \in Threads, CommandRescanSeries(p)
  PROVE  DataInv'
<1> DEFINE next == IF settings.renameEp THEN "rename" ELSE "announce"
<1>1. /\ at[p] = "rescan" /\ UNCHANGED <<table, folder, library>>
      /\ UnlessSearchOnly(p, next)
      /\ \/ sonarr' = [sonarr EXCEPT !.rescans = @ \cup {Info[Episode(p)].title}]
         \/ UNCHANGED sonarr
  BY DEF CommandRescanSeries
<1>2. next \in Acting /\ at[p] \in Acting
  BY <1>1 DEF Acting
<1> HIDE DEF next
<1>3. Takes(p) /\ Episode(p) \in Episodes
  BY <1>1, <1>2, GoesOnTakes, ActingOn
<1>4. Info[Episode(p)].title \in Titles
  BY <1>3, InfoIs
<1>5. sonarr' \in Sonarrs
  BY <1>1, <1>4 DEF DataInv, Sonarrs
<1> QED BY <1>1, <1>3, <1>5, TakesStep DEF DataInv

\* Sonarr renames the file, or the scan ends.
LEMMA RenameData ==
  ASSUME TypeInv, DataInv, NEW p \in Threads, RenameFile(p)
  PROVE  DataInv'
<1>1. at[p] = "rename" /\ UNCHANGED <<table, sonarr, folder, library>>
  BY DEF RenameFile
<1>2. CASE UnlessSearchOnly(p, "announce")
  <2>1. Takes(p)
    BY <1>1, <1>2, GoesOnTakes DEF Acting
  <2> QED BY <1>1, <2>1, TakesStep DEF DataInv
<1>3. CASE Raise(p)
  BY <1>1, <1>3, DroppedData
<1> QED BY <1>2, <1>3 DEF RenameFile

\* The episode is announced, and over.
LEMMA AnnounceData ==
  ASSUME TypeInv, DataInv, NEW p \in Threads, Announce(p)
  PROVE  DataInv'
<1>1. /\ at[p] = "announce" /\ UNCHANGED <<table, sonarr, folder, library>> /\ EpisodeDone(p)
  BY DEF Announce
<1>2. work[p].plan[1].episodes # <<>>
  BY <1>1, ActingOn DEF Acting
<1>3. Takes(p)
  BY <1>1, <1>2, EpisodeDoneTakes DEF Acting
<1> QED BY <1>1, <1>3, TakesStep DEF DataInv

(***************************************************************************)
(* Sonarr, and the whole.                                                  *)
(***************************************************************************)

\* Sonarr goes on with its own work.
LEMMA SonarrData ==
  ASSUME DataInv,
         \/ \E title \in Titles : Import(title)
         \/ \E e \in Episodes : Air(e) \/ Grab(e) \/ Grabbed(e)
  PROVE  DataInv'
<1>1. /\ sonarr.missing \in Seq(Episodes) /\ sonarr.queue \in SUBSET Episodes
      /\ sonarr.rescans \in SUBSET Titles /\ sonarr.later \in SUBSET Episodes
      /\ sonarr \in Sonarrs
  BY DEF DataInv, Sonarrs
<1>2. ASSUME NEW set \in SUBSET (DOMAIN sonarr.missing)
      PROVE  Chosen(sonarr.missing, set) \in Seq(Episodes)
  BY <1>1, ChosenIs
<1>3. sonarr' \in Sonarrs
  <2>1. ASSUME NEW title \in Titles, Import(title) PROVE sonarr' \in Sonarrs
    <3> DEFINE set == {i \in DOMAIN sonarr.missing : \/ Info[sonarr.missing[i]].title # title
                                                     \/ library[sonarr.missing[i]] = NoFile}
    <3>1. sonarr' = [sonarr EXCEPT !.rescans = @ \ {title}, !.missing = Chosen(@, set)]
      BY <2>1 DEF Import
    <3>2. set \in SUBSET (DOMAIN sonarr.missing)
      OBVIOUS
    <3> HIDE DEF set
    <3>3. Chosen(sonarr.missing, set) \in Seq(Episodes)
      BY <1>2, <3>2
    <3> QED BY <1>1, <3>1, <3>3 DEF Sonarrs
  <2>2. ASSUME NEW e \in Episodes, Air(e) PROVE sonarr' \in Sonarrs
    <3>1. <<e>> \o sonarr.missing \in Seq(Episodes)
      BY <1>1, ConcatProperties
    <3> QED BY <1>1, <2>2, <3>1 DEF Air, Sonarrs
  <2>3. ASSUME NEW e \in Episodes, Grab(e) PROVE sonarr' \in Sonarrs
    BY <1>1, <2>3 DEF Grab, Sonarrs
  <2>4. ASSUME NEW e \in Episodes, Grabbed(e) PROVE sonarr' \in Sonarrs
    <3> DEFINE set == {i \in DOMAIN sonarr.missing : sonarr.missing[i] # e}
    <3>1. \/ sonarr' = [sonarr EXCEPT !.queue = @ \ {e}]
          \/ sonarr' = [sonarr EXCEPT !.queue = @ \ {e}, !.missing = Chosen(@, set)]
      BY <2>4 DEF Grabbed
    <3>2. set \in SUBSET (DOMAIN sonarr.missing)
      OBVIOUS
    <3> HIDE DEF set
    <3>3. Chosen(sonarr.missing, set) \in Seq(Episodes)
      BY <1>2, <3>2
    <3> QED BY <1>1, <3>1, <3>3 DEF Sonarrs
  <2> QED BY <2>1, <2>2, <2>3, <2>4
<1>4. UNCHANGED <<at, work, table, folder, library>>
  BY DEF Import, Air, Grab, Grabbed, files
<1> QED BY <1>3, <1>4, WorldStep DEF DataInv

\* A step of somebody else.
LEMMA StillData ==
  ASSUME DataInv, UNCHANGED <<at, work, table, sonarr, folder, library>>
  PROVE  DataInv'
BY DEF DataInv

\* At the start nothing is in hand and no file is there.
LEMMA DataInitially == Init => DataInv
<1> SUFFICES ASSUME Init PROVE DataInv
  OBVIOUS
<1>1. table \in Tables
  BY ScanAssumption, TableIs DEF Init
<1>2. sonarr \in Sonarrs
  BY ScanAssumption DEF Init, Sonarrs
<1>3. folder \in [Episodes -> RightFiles] /\ library \in [Episodes -> RightFiles]
  BY DEF Init, RightFiles
<1>4. /\ work \in [Threads -> Works]
      /\ \A p \in Threads : Shaped(at[p], work[p])
  <2>1. \A p \in Threads : at[p] = "idle" /\ work[p] = Nothing
    BY DEF Init
  <2>2. work \in [Threads -> Works]
    BY NothingIs DEF Init
  <2> QED BY <2>1, <2>2, NothingIs DEF Points, Acting
<1> QED BY <1>1, <1>2, <1>3, <1>4 DEF DataInv

\* Every step keeps the data what it is.
LEMMA DataPreserved == TypeInv /\ DataInv /\ [Next]_vars => DataInv'
<1> SUFFICES ASSUME TypeInv, DataInv, [Next]_vars PROVE DataInv'
  OBVIOUS
<1>1. CASE UNCHANGED vars
  BY <1>1, StillData DEF vars
<1>2. CASE Wake
  BY <1>2, StillData DEF Wake, files
<1>3. ASSUME NEW p \in Threads, To(p, "fetch"),
             UNCHANGED <<work, table, sonarr, folder, library>>
      PROVE  DataInv'
  <2>1. at'[p] = "fetch" /\ \A q \in Threads \ {p} : at'[q] = at[q]
    BY <1>3 DEF To, TypeInv
  <2>2. work[p] \in Works /\ work' = [work EXCEPT ![p] = work[p]]
    BY <1>3 DEF DataInv
  <2>3. Shaped(at'[p], work[p])
    BY <2>1 DEF Shaped, Acting
  <2> QED BY <1>3, <2>1, <2>2, <2>3, WorkOnly
<1>4. CASE Job
  BY <1>3, <1>4, StillData DEF Job, files, Threads
<1>5. CASE RunScanNow
  BY <1>3, <1>5 DEF RunScanNow, files, Threads
<1>6. CASE Restart
  <2>1. UNCHANGED <<table, sonarr, folder, library>>
    BY <1>6 DEF Restart, files
  <2>2. \A p \in Threads : at'[p] = "idle" /\ work'[p] = Nothing
    BY <1>6 DEF Restart
  <2>3. work' \in [Threads -> Works]
    BY <1>6, NothingIs DEF Restart
  <2>4. \A p \in Threads : Shaped(at'[p], work'[p])
    BY <2>2, NothingIs DEF Points, Acting
  <2> QED BY <2>1, <2>3, <2>4 DEF DataInv
<1>7. ASSUME NEW p \in Threads, Step(p) PROVE DataInv'
  <2>1. CASE JobEnds(p)
    BY <2>1, DroppedData DEF JobEnds, files
  <2>2. CASE ~JobEnds(p)
    BY <1>7, <2>2, FetchData, BindSerieData, BindUrlData, SerieBoundData, DataReadyData,
       DownloadSeasonData, ChooseData, SeasonFailsData, DownloadData, MoveData, RescanData,
       RenameData, AnnounceData DEF Step
  <2> QED BY <2>1, <2>2
<1>8. ASSUME NEW p \in Threads, Fault(p) PROVE DataInv'
  <2>1. CASE CallRaises(p)
    BY <2>1, DroppedData DEF CallRaises, files
  <2>2. CASE Deprecated(p)
    BY <2>2, DroppedData DEF Deprecated, files
  <2> QED BY <1>8, <2>1, <2>2, SeasonFailsData, DownloadFailsData DEF Fault
<1>9. CASE External
  <2>1. ASSUME NEW new \in [search : BOOLEAN, paused : BOOLEAN], Switch(new) PROVE DataInv'
    BY <2>1, StillData DEF Switch
  <2> QED BY <1>9, <2>1, SonarrData DEF External
<1> QED BY <1>1, <1>2, <1>4, <1>5, <1>6, <1>7, <1>8, <1>9 DEF Next

\* The mapping table, Sonarr's lists, the files and what every thread has in
\* hand stay what they are, and every number a season offers is first offered
\* by the source it stands for (Processor.py, Downloader.py).
THEOREM DataIsKept == Spec => [](TypeInv /\ DataInv)
<1>1. IInv => TypeInv
  BY DEF IInv
<1>2. IInv /\ DataInv /\ [Next]_vars => (IInv /\ DataInv)'
  BY <1>1, Preserved, DataPreserved
<1>3. Init => IInv /\ DataInv
  BY Initially, DataInitially
<1> QED BY <1>1, <1>2, <1>3, PTL DEF Spec

\* The file an episode has, in the download folder or in its series, is the one
\* that counting through the releases of its season leads to, whatever is
\* mapped, found, moved and interrupted (Downloader.py, flattenEpisodes and the
\* choice of the episode).
THEOREM EpisodesAreRight == Spec => []RightSource
<1>1. TypeInv /\ DataInv => RightSource
  <2> SUFFICES ASSUME DataInv,
                      NEW file \in (Range(folder) \cup Range(library)) \ {NoFile}
               PROVE  Right(file)
    BY DEF RightSource
  <2>1. file \in RightFiles
    BY DEF DataInv, Range
  <2> QED BY <2>1 DEF RightFiles
<1> QED BY <1>1, DataIsKept, PTL
=============================================================================
