----------------------------- MODULE ScanProofs -----------------------------
(***************************************************************************)
(* Proofs about the scans of V4: ScanEvidence, for any seasons, pages and  *)
(* catalogue, any budgets and any number of events, and ScanJobs, for any  *)
(* number of requests and jobs.                                            *)
(*                                                                         *)
(* Of the evidence: what is on record was mapped, a settled series is of   *)
(* one audio, and no proposal rests on a part of its candidates.  These    *)
(* properties speak of what is written; the invariant says of each phase   *)
(* of a scan what it has read and still knows.  It has three parts beside  *)
(* the types: of the inventory (RecordInv), of the audio (AudioInv), of    *)
(* the candidates (WholeInv).                                              *)
(*                                                                         *)
(* Of the jobs: one is active at a time and stays what it ended as.  The   *)
(* invariant says where the active one is: nowhere while the process is    *)
(* down, else with the thread that inserted it, in the pool or with the    *)
(* worker, and in at most one of these places (JobsInv).                   *)
(***************************************************************************)
EXTENDS ScanEvidence, ScanJobs, SequenceTheorems, TLAPS

(***************************************************************************)
(* The evidence of a scan.                                                 *)
(***************************************************************************)
Mapping  == {"index", "backup", "retrieve", "details", "audit", "commit"}
Phases   == {"masters", "verify", "inventory", "persist"} \cup Mapping

Has(fields) == fields \subseteq DOMAIN scan

\* A proposal has variants.
Sound(snap) == snap.state = "proposed" => snap.plan # {}
ItemsSound == \A t \in Targets : item[t] # None => Sound(item[t].snap)

ScanTypes ==
  /\ \/ scan = Idle
     \/ /\ Has({"phase", "mode", "masters", "watch"}) /\ scan.phase \in Phases
        /\ scan.masters \in [Series -> Audios \cup {None}] /\ scan.watch \subseteq Series
  /\ scan.phase \in {"masters", "persist"} =>
       Has({"firsts"}) /\ \A t \in DOMAIN scan.firsts : t \in Targets /\ scan.firsts[t] \in Audios
  /\ scan.phase = "masters" =>
       Has({"groups"}) /\ scan.groups \subseteq Targets /\ (scan.mode = "deep" => scan.watch = {})
  /\ scan.phase = "verify" =>
       /\ Has({"inventory", "groups", "todo", "pending", "results"})
       /\ DOMAIN scan.groups \subseteq Targets
  /\ scan.phase \in Mapping \cup {"inventory", "persist"} =>
       /\ Has({"inventory", "dirty", "rows"}) /\ scan.dirty \subseteq Targets
       /\ DOMAIN scan.rows = 1..4
  /\ scan.phase \in Mapping => Has({"fresh"})
  /\ scan.phase = "audit" => {"new", "missed"} \subseteq DOMAIN scan.fresh
  /\ scan.phase \in {"audit", "commit"} =>
       \A t \in scan.dirty : scan.fresh.new[t] \in Snapshots /\ Sound(scan.fresh.new[t])
  /\ scan.phase \in {"inventory", "persist"} =>
       Has({"replaced", "firsts"}) /\ scan.replaced \subseteq scan.dirty

(***************************************************************************)
(* The inventory on record.  Of a season a scan does not map again it      *)
(* knows that the record is what it read, or that there is none; the       *)
(* seasons it maps are mapped from what it is about to record.             *)
(***************************************************************************)
Recorded ==
  \A t \in Targets :
    /\ recorded[t] # None => recorded[t] <= sonarr[t]
    /\ recorded[t] = None /\ t \notin unrecorded => item[t] = None

Inventoried ==
  /\ scan.phase = "masters" => \A t \in scan.groups : item[t] # None
  /\ scan.phase = "verify" => \A t \in DOMAIN scan.groups : item[t] # None
  /\ scan.phase \in {"verify", "inventory"} \cup Mapping => scan.inventory = sonarr
  /\ scan.phase \in Mapping \cup {"inventory"} =>
       \A t \in Targets \ scan.dirty : item[t] # None /\ InventoryKept(t)
  /\ scan.phase = "inventory" =>
       \A t \in scan.dirty : item[t] # None /\ item[t].seen = scan.inventory[t]

(***************************************************************************)
(* The audio of a series.  A series is held while nobody has changed its   *)
(* audio or decided against it since the scan began (Watched), or since it *)
(* was settled; of a held one the scan has the master.  Each phase says    *)
(* which of its items may still be of another audio: those the scan has    *)
(* yet to compare, then those it has invalidated, until that is written.   *)
(***************************************************************************)
Watched   == IF scan = Idle THEN {} ELSE scan.watch
Held      == {s \in settled \cup Watched : master[s] # None}
Live(t)   == Proposed(t) \/ Approved(t)
Agrees(t) == Live(t) => Mode(t) = master[t[1]]

SettledHasMaster == \A s \in settled : master[s] # None
MastersKnown == scan # Idle => \A s \in settled \cup scan.watch : scan.masters[s] = master[s]

\* What is written to the rows of an item that is not of the audio.
Marked(t) == row[t] = "invalidated" /\ \A i \in 1..4 : t \notin scan.rows[i]

Unread ==
  scan.phase = "masters" =>
    \A t \in Targets \ scan.groups : t[1] \in scan.watch \cap Held => Agrees(t)
Read ==
  scan.phase = "verify" => \A t \in Targets :
    /\ t \in DOMAIN scan.groups /\ t[1] \in Held => scan.groups[t].audio = Mode(t) \/ Agrees(t)
    /\ t \notin DOMAIN scan.groups /\ t[1] \in scan.watch \cap Held => Agrees(t)
Validated ==
  scan.phase \in {"inventory", "persist"} \cup Mapping =>
    /\ scan.rows[4] \cap (scan.dirty \cup scan.rows[3]) = {}
    /\ \A t \in Targets : t[1] \in Held /\ t \in scan.rows[4] => Agrees(t)
Invalidated ==
  scan.phase \in Mapping =>
    \A t \in Targets : t[1] \in scan.watch \cap Held => Agrees(t) \/ t \in scan.rows[3]
Mapped ==
  scan.phase \in {"audit", "commit"} =>
    \A t \in scan.dirty : t[1] \in Held /\ scan.fresh.new[t].state = "proposed" =>
      Default(scan.fresh.new[t]) = master[t[1]]
Written ==
  scan.phase \in {"inventory", "persist"} =>
    \A t \in Targets : t[1] \in scan.watch \cap Held =>
      Agrees(t) \/ t \in scan.rows[3] \ scan.replaced \/ Marked(t)

Heard == Unread /\ Read /\ Validated /\ Invalidated /\ Mapped /\ Written

\* Of the series that are settled, what OneAudio says of the items before any override.
ModesAgree == \A t \in Targets : Executable(t) /\ t[1] \in settled => Mode(t) = master[t[1]]

TypeInv == TypeOK /\ ItemsSound /\ ScanTypes
RecordInv == Recorded /\ Inventoried /\ InventoryIsSeen
AudioInv == SettledHasMaster /\ MastersKnown /\ Heard /\ ModesAgree

-----------------------------------------------------------------------------
(* What the operators return.                                                *)

LEMMA ModeIsAudio ==
  ASSUME TypeOK, ItemsSound, NEW t \in Targets, Live(t)
  PROVE  Mode(t) \in Audios
<1>1. item[t] \in Items /\ item[t] # None
  BY DEF TypeOK, Live, Proposed, Approved
<1>2. CASE Approved(t)
  BY <1>1, <1>2 DEF Items, Mode, Approved
<1>3. CASE ~Approved(t)
  <2>1. item[t].snap.state = "proposed" /\ item[t].snap \in Snapshots
    BY <1>1, <1>3 DEF Live, Proposed, Items
  <2>2. item[t].snap.plan # {} /\ item[t].snap.plan \subseteq Urls
    BY <1>1, <2>1 DEF ItemsSound, Sound, Snapshots
  <2>3. Modes(item[t].snap) # {} /\ Modes(item[t].snap) \subseteq Audios
    BY <2>2, EvidenceAssumption DEF Modes
  <2>4. Default(item[t].snap) \in Audios
    BY <2>3 DEF Default
  <2> QED BY <1>3, <2>4 DEF Mode
<1> QED BY <1>2, <1>3

LEMMA SnapshotType ==
  ASSUME TypeOK, NEW t \in Targets, scan.masters \in [Series -> Audios \cup {None}]
  PROVE  Snapshot(t) \in Snapshots /\ Sound(Snapshot(t))
<1>1. Plan(t) \subseteq Urls /\ t[1] \in Series
  BY EvidenceAssumption DEF Plan, Series
<1>2. \A u \in Plan(t) : cache[u].version \in Nat
  BY <1>1 DEF TypeOK
<1>3. [u \in Urls |-> IF u \in Plan(t) THEN cache[u].version ELSE 0] \in [Urls -> Nat]
  BY <1>2
<1>4. (IF scan.masters[t[1]] = None THEN "SUB" ELSE scan.masters[t[1]]) \in Audios
  BY <1>1 DEF Audios
<1> QED BY <1>1, <1>3, <1>4 DEF Snapshot, Snapshots, Sound

LEMMA GetType ==
  ASSUME TypeOK, NEW u, Get(u)
  PROVE  cache' \in [Urls -> [status : {"none", "ok", "failed"}, version : Nat,
                             stale : BOOLEAN, due : BOOLEAN]]
<1>1. CASE u \in Urls
  <2>1. \A fetched \in BOOLEAN :
          After(u, fetched) \in [status : {"none", "ok", "failed"}, version : Nat,
                                 stale : BOOLEAN, due : BOOLEAN]
    BY <1>1 DEF After, TypeOK
  <2> QED BY <1>1, <2>1 DEF Get, TypeOK
<1>2. CASE u \notin Urls
  BY <1>2 DEF Get, TypeOK
<1> QED BY <1>1, <1>2

\* The proposals in set are demoted.
Demoted(t, set) == IF t \in set THEN [scan.fresh.new[t] EXCEPT !.state = "needs_review"]
                   ELSE scan.fresh.new[t]

LEMMA AuditEffect ==
  ASSUME ScanTypes, AuditProposals
  PROVE  /\ scan'.masters = scan.masters /\ scan'.watch = scan.watch
         /\ scan'.dirty = scan.dirty /\ scan'.rows = scan.rows
         /\ {"phase", "mode", "masters", "watch", "inventory", "dirty", "rows", "fresh"}
              \subseteq DOMAIN scan'
         /\ scan # Idle /\ scan' # Idle
         /\ \E set \in SUBSET scan.dirty :
              /\ scan'.phase = "commit"
              /\ \A t \in scan.dirty : scan'.fresh.new[t] = Demoted(t, set)
         /\ scan'.fresh.missed = scan.fresh.missed
<1> DEFINE proposals == {t \in scan.dirty : scan.fresh.new[t].state = "proposed"}
<1>1. scan.phase = "audit"
  BY DEF AuditProposals
<1>2. /\ {"phase", "mode", "masters", "watch", "inventory", "dirty", "rows", "fresh"}
           \subseteq DOMAIN scan
      /\ {"new", "missed"} \subseteq DOMAIN scan.fresh
  BY <1>1 DEF ScanTypes, Has, Idle, Mapping
<1>3. PICK confirmed \in Verdicts(proposals) :
        scan' = [scan EXCEPT !.phase = "commit",
                   !.fresh.new = [t \in scan.dirty |->
                      IF t \in proposals \ confirmed
                      THEN [scan.fresh.new[t] EXCEPT !.state = "needs_review"]
                      ELSE scan.fresh.new[t]]]
  BY DEF AuditProposals
<1>4. proposals \ confirmed \in SUBSET scan.dirty
  OBVIOUS
<1>5. /\ \A t \in scan.dirty : scan'.fresh.new[t] = Demoted(t, proposals \ confirmed)
      /\ scan'.fresh.missed = scan.fresh.missed
  BY <1>2, <1>3 DEF Demoted
<1>6. /\ scan'.phase = "commit" /\ DOMAIN scan' = DOMAIN scan
      /\ \A f \in DOMAIN scan \ {"phase", "fresh"} : scan'[f] = scan[f]
  BY <1>2, <1>3
<1>7. scan # Idle /\ scan' # Idle
  BY <1>1, <1>6 DEF Idle
<1> QED BY <1>2, <1>4, <1>5, <1>6, <1>7

\* What record_scan does to an item.
LEMMA ScanEffect ==
  ASSUME TypeOK, ScanTypes, scan.phase = "commit" => scan.inventory = sonarr, RecordScan
  PROVE  /\ \A t \in Targets \ scan.dirty : item'[t] = item[t] /\ row'[t] = row[t]
         /\ \A t \in scan.dirty :
              /\ item'[t] \in Items /\ item'[t] # None
              /\ item'[t].seen = scan.inventory[t] /\ item'[t].snap = scan.fresh.new[t]
         /\ \A t \in scan'.replaced : item'[t].decision = None /\ row'[t] = "absent"
         /\ \A t \in scan.dirty \ scan'.replaced :
              /\ item[t] # None /\ item'[t].snap = item[t].snap
              /\ item'[t].decision = item[t].decision /\ row'[t] = row[t]
         /\ item' \in [Targets -> Items \cup {None}] /\ DOMAIN row' = Targets
         /\ scan'.replaced \subseteq scan.dirty /\ scan.dirty \subseteq Targets
<1> DEFINE new(t)   == scan.fresh.new[t]
           replaced == {t \in scan.dirty : item[t] = None \/ item[t].snap # new(t)}
           Item(t)  == [snap |-> new(t), seen |-> scan.inventory[t],
                        decision |-> IF t \in replaced THEN None ELSE item[t].decision]
<1>1. /\ item' = [t \in Targets |-> IF t \in scan.dirty THEN Item(t) ELSE item[t]]
      /\ row'  = [t \in Targets |-> IF t \in replaced THEN "absent" ELSE row[t]]
      /\ scan'.replaced = replaced /\ scan.phase = "commit"
  BY DEF RecordScan
<1>2. scan.dirty \subseteq Targets /\ \A t \in scan.dirty : new(t) \in Snapshots
  BY <1>1 DEF ScanTypes, Mapping
<1>3. \A t \in scan.dirty : Item(t) \in Items
  BY <1>1, <1>2 DEF TypeOK, Items
<1>4. \A t \in scan.dirty : item'[t] = Item(t) /\ item'[t] # None
  BY <1>1, <1>2, <1>3, NoneAssumption
<1>5. item' \in [Targets -> Items \cup {None}]
  BY <1>1, <1>3 DEF TypeOK
<1>6. ASSUME NEW t \in scan.dirty
      PROVE  /\ item'[t].seen = scan.inventory[t] /\ item'[t].snap = new(t)
             /\ item'[t].decision = IF t \in replaced THEN None ELSE item[t].decision
  <2>1. item'[t] = Item(t)
    BY <1>4
  <2> QED BY <2>1
<1> QED BY <1>1, <1>2, <1>3, <1>4, <1>5, <1>6

-----------------------------------------------------------------------------
(* The steps, and the types.                                                 *)

LEMMA InitTypes == Init => TypeInv
<1> SUFFICES ASSUME Init PROVE TypeInv OBVIOUS
<1>1. TypeOK
  BY DEF Init, TypeOK, NoPage
<1>2. ItemsSound /\ ScanTypes
  BY DEF Init, ItemsSound, ScanTypes, Idle, Phases, Mapping
<1> QED BY <1>1, <1>2 DEF TypeInv

LEMMA StepTypes == TypeInv /\ Inventoried /\ [Next]_vars => TypeInv'
<1> SUFFICES ASSUME TypeOK, ItemsSound, ScanTypes, Inventoried, [Next]_vars
             PROVE  TypeOK' /\ ItemsSound' /\ ScanTypes'
  BY DEF TypeInv
<1> USE DEF Has, Phases, Mapping
<1>1. ASSUME NEW mode \in {"normal", "deep"}, Begin(mode)
      PROVE  TypeOK' /\ ItemsSound' /\ ScanTypes'
  <2>1. TypeOK' /\ ItemsSound'
    BY <1>1 DEF Begin, TypeOK, ItemsSound, world, ledger, past
  <2>2. FirstSeasons \subseteq Targets /\ Preservable \subseteq Targets
    BY DEF FirstSeasons, Preservable
  <2>3. \A t \in FirstSeasons : Mode(t) \in Audios
    BY <2>2, ModeIsAudio DEF FirstSeasons, Preservable, Live
  <2>4. ScanTypes'
    BY <1>1, <2>2, <2>3 DEF Begin, ScanTypes, TypeOK
  <2> QED BY <2>1, <2>4
<1>2. ASSUME NEW t \in Targets, SetMaster(t)
      PROVE  TypeOK' /\ ItemsSound' /\ ScanTypes'
  <2>1. scan # Idle /\ t[1] \in Series /\ scan.firsts[t] \in Audios
    BY <1>2 DEF SetMaster, Missing, ScanTypes, Series, Idle
  <2>2. TypeOK' /\ ItemsSound'
    BY <1>2, <2>1 DEF SetMaster, StoreMaster, TypeOK, ItemsSound, world
  <2>3. ScanTypes'
    BY <1>2, <2>1, <2>2 DEF SetMaster, ScanTypes, TypeOK
  <2> QED BY <2>2, <2>3
<1>3. ASSUME ReadInventory
      PROVE  TypeOK' /\ ItemsSound' /\ ScanTypes'
  <2>1. TypeOK' /\ ItemsSound'
    BY <1>3 DEF ReadInventory, TypeOK, ItemsSound, world, ledger, past
  <2>2. ScanTypes'
    BY <1>3 DEF ReadInventory, ScanTypes, Idle
  <2> QED BY <2>1, <2>2
<1>4. ASSUME VerifyProvider
      PROVE  TypeOK' /\ ItemsSound' /\ ScanTypes'
  <2>1. TypeOK' /\ ItemsSound'
    BY <1>4, GetType DEF VerifyProvider, TypeOK, ItemsSound, world, ledger, past
  <2>2. ScanTypes'
    BY <1>4 DEF VerifyProvider, ScanTypes, Idle
  <2> QED BY <2>1, <2>2
<1>5. ASSUME DiffInventory
      PROVE  TypeOK' /\ ItemsSound' /\ ScanTypes'
  <2>1. TypeOK' /\ ItemsSound'
    BY <1>5 DEF DiffInventory, TypeOK, ItemsSound, world, ledger, past
  <2>2. ScanTypes'
    BY <1>5 DEF DiffInventory, ScanTypes, Idle
  <2> QED BY <2>1, <2>2
<1>6. ASSUME LoadIndex \/ RefreshIndex \/ PublishBackup \/ Retrieve
      PROVE  TypeOK' /\ ItemsSound' /\ ScanTypes'
  <2>1. TypeOK' /\ ItemsSound'
    BY <1>6 DEF LoadIndex, RefreshIndex, PublishBackup, Retrieve, TypeOK, ItemsSound,
                world, ledger, past
  <2>2. ScanTypes'
    BY <1>6 DEF LoadIndex, RefreshIndex, PublishBackup, Retrieve, ScanTypes, Idle
  <2> QED BY <2>1, <2>2
<1>7. ASSUME LoadDetail
      PROVE  TypeOK' /\ ItemsSound' /\ ScanTypes'
  <2>1. TypeOK' /\ ItemsSound'
    BY <1>7, GetType DEF LoadDetail, TypeOK, ItemsSound, world, ledger, past
  <2>2. ScanTypes'
    BY <1>7 DEF LoadDetail, ScanTypes, Idle
  <2> QED BY <2>1, <2>2
<1>8. ASSUME Evaluate
      PROVE  TypeOK' /\ ItemsSound' /\ ScanTypes'
  <2>1. TypeOK' /\ ItemsSound'
    BY <1>8 DEF Evaluate, TypeOK, ItemsSound, world, ledger, past
  <2>2. scan # Idle /\ scan.dirty \subseteq Targets
    BY <1>8 DEF Evaluate, ScanTypes, Idle
  <2>3. \A t \in scan.dirty : Snapshot(t) \in Snapshots /\ Sound(Snapshot(t))
    BY <2>2, SnapshotType DEF ScanTypes
  <2>4. ScanTypes'
    BY <1>8, <2>2, <2>3 DEF Evaluate, ScanTypes, Sound
  <2> QED BY <2>1, <2>4
<1>9. ASSUME AuditProposals
      PROVE  TypeOK' /\ ItemsSound' /\ ScanTypes'
  <2>1. TypeOK' /\ ItemsSound'
    BY <1>9 DEF AuditProposals, TypeOK, ItemsSound, world, ledger, past
  <2>2. scan # Idle /\ \A t \in scan.dirty : scan.fresh.new[t] \in Snapshots
    BY <1>9 DEF AuditProposals, ScanTypes, Idle
  <2>3. \A t \in scan.dirty :
          /\ [scan.fresh.new[t] EXCEPT !.state = "needs_review"] \in Snapshots
          /\ Sound([scan.fresh.new[t] EXCEPT !.state = "needs_review"])
    BY <2>2 DEF Snapshots, Sound
  <2>4. PICK set \in SUBSET scan.dirty :
          /\ scan'.phase = "commit"
          /\ \A t \in scan.dirty : scan'.fresh.new[t] = Demoted(t, set)
    BY <1>9, AuditEffect
  <2>5. ScanTypes'
    <3>2. \A t \in scan.dirty : scan'.fresh.new[t] \in Snapshots /\ Sound(scan'.fresh.new[t])
      <4>1. \A t \in scan.dirty : Sound(scan.fresh.new[t])
        BY <1>9 DEF AuditProposals, ScanTypes
      <4> QED BY <2>2, <2>3, <2>4, <4>1 DEF Demoted
    <3>3. /\ scan'.masters = scan.masters /\ scan'.watch = scan.watch
          /\ scan'.dirty = scan.dirty /\ scan'.rows = scan.rows
          /\ {"phase", "mode", "masters", "watch", "inventory", "dirty", "rows", "fresh"}
               \subseteq DOMAIN scan'
      BY <1>9, AuditEffect
    <3>4. /\ scan.masters \in [Series -> Audios \cup {None}] /\ scan.watch \subseteq Series
          /\ scan.dirty \subseteq Targets /\ DOMAIN scan.rows = 1..4
      BY <1>9, <2>2 DEF AuditProposals, ScanTypes
    <3> QED BY <2>4, <3>2, <3>3, <3>4 DEF ScanTypes
  <2> QED BY <2>1, <2>5
<1>10. ASSUME RecordScan
       PROVE  TypeOK' /\ ItemsSound' /\ ScanTypes'
  <2>1. scan.phase = "commit" /\ scan.inventory = sonarr
    BY <1>10 DEF RecordScan, Inventoried
  <2>2. \A t \in scan.dirty : Sound(item'[t].snap)
    BY <1>10, <2>1, ScanEffect DEF ScanTypes
  <2>3. \A t \in Targets : row'[t] \in {"absent", "current", "pending", "stale_retry",
                                      "invalidated"}
    BY <1>10, <2>1, ScanEffect DEF TypeOK
  <2>4. row' \in [Targets -> {"absent", "current", "pending", "stale_retry", "invalidated"}]
    BY <1>10, <2>3 DEF RecordScan
  <2>5. TypeOK'
    BY <1>10, <2>1, <2>4, ScanEffect DEF RecordScan, TypeOK, world
  <2>6. ItemsSound'
    BY <1>10, <2>1, <2>2, ScanEffect DEF ItemsSound
  <2>7. ScanTypes'
    BY <1>10 DEF RecordScan, ScanTypes, Idle
  <2> QED BY <2>5, <2>6, <2>7
<1>11. ASSUME RecordInventory
       PROVE  TypeOK' /\ ItemsSound' /\ ScanTypes'
  <2>1. recorded' \in [Targets -> Nat \cup {None}]
    BY <1>11 DEF RecordInventory, Inventoried, TypeOK
  <2>2. TypeOK' /\ ItemsSound'
    BY <1>11, <2>1 DEF RecordInventory, TypeOK, ItemsSound, world
  <2>3. \A t \in FirstSeasons : t \in Targets /\ Mode(t) \in Audios
    BY ModeIsAudio DEF FirstSeasons, Preservable, Live
  <2>4. ScanTypes'
    BY <1>11, <2>3 DEF RecordInventory, ScanTypes, TypeOK, Idle
  <2> QED BY <2>2, <2>4
<1>12. ASSUME RecordRows
       PROVE  TypeOK' /\ ItemsSound' /\ ScanTypes'
  <2>1. \A i \in 1..4 : RowStates[i] \in {"current", "pending", "stale_retry", "invalidated"}
    BY DEF RowStates
  <2>2. TypeOK' /\ ItemsSound'
    BY <1>12, <2>1 DEF RecordRows, Unwritten, TypeOK, ItemsSound, world, past
  <2>3. ScanTypes'
    BY <1>12 DEF RecordRows, ScanTypes, Idle
  <2> QED BY <2>2, <2>3
<1>13. ASSUME EndScan \/ ScanFails
       PROVE  TypeOK' /\ ItemsSound' /\ ScanTypes'
  <2>1. TypeOK' /\ ItemsSound'
    BY <1>13 DEF EndScan, ScanFails, TypeOK, ItemsSound, ScanTypes, Idle, world, ledger, past
  <2>2. ScanTypes'
    BY <1>13 DEF EndScan, ScanFails, ScanTypes, Idle
  <2> QED BY <2>1, <2>2
<1>14. ASSUME \/ \E t \in Targets : SonarrChanges(t) \/ ClearAudio(t)
              \/ \E u \in Urls : PageChanges(u) \/ Expire(u)
              \/ LoseIndex
       PROVE  TypeOK' /\ ItemsSound' /\ ScanTypes'
  <2>0. \A u \in Urls : [cache[u] EXCEPT !.due = TRUE] \in
          [status : {"none", "ok", "failed"}, version : Nat, stale : BOOLEAN, due : BOOLEAN]
    BY DEF TypeOK
  <2>1. TypeOK' /\ ItemsSound'
    <3>1. CASE \E t \in Targets : SonarrChanges(t)
      BY <3>1 DEF SonarrChanges, TypeOK, ItemsSound, ledger, past
    <3>2. CASE \E u \in Urls : PageChanges(u)
      BY <3>2 DEF PageChanges, TypeOK, ItemsSound, ledger, past
    <3>3. CASE \E u \in Urls : Expire(u)
      BY <2>0, <3>3 DEF Expire, TypeOK, ItemsSound, world, ledger, past
    <3>4. CASE LoseIndex
      BY <3>4 DEF LoseIndex, TypeOK, ItemsSound, world, ledger, past
    <3>5. CASE \E t \in Targets : ClearAudio(t)
      BY <3>5 DEF ClearAudio, TypeOK, ItemsSound, world, past
    <3> QED BY <1>14, <3>1, <3>2, <3>3, <3>4, <3>5
  <2>2. ScanTypes'
    BY <1>14 DEF SonarrChanges, ClearAudio, PageChanges, Expire, LoseIndex, ScanTypes
  <2> QED BY <2>1, <2>2
<1>15. ASSUME NEW t \in Targets, NEW audio \in Audios, Approve(t, audio)
       PROVE  TypeOK' /\ ItemsSound' /\ ScanTypes'
  <2>1. item[t] \in Items /\ [item[t] EXCEPT !.decision = audio] \in Items
    BY <1>15 DEF Approve, TypeOK, Items
  <2>2. item' = [item EXCEPT ![t] = [item[t] EXCEPT !.decision = audio]]
    BY <1>15 DEF Approve
  <2>3. settled' \subseteq settled
    BY <1>15 DEF Approve, Unsettle
  <2>4. TypeOK'
    BY <1>15, <2>1, <2>2, <2>3 DEF Approve, TypeOK, world
  <2>5. ItemsSound'
    BY <1>15, <2>1, <2>2 DEF Approve, ItemsSound, TypeOK, Items
  <2>6. ScanTypes'
    BY <1>15 DEF Approve, Unsettle, ScanTypes, Idle
  <2> QED BY <2>4, <2>5, <2>6
<1>16. ASSUME NEW t \in Targets, NEW audio \in Audios, ChooseAudio(t, audio)
       PROVE  TypeOK' /\ ItemsSound' /\ ScanTypes'
  <2>1. TypeOK' /\ ItemsSound'
    BY <1>16 DEF ChooseAudio, StoreMaster, Unsettle, TypeOK, ItemsSound, Series, world
  <2>2. ScanTypes'
    BY <1>16 DEF ChooseAudio, Unsettle, ScanTypes, Idle
  <2> QED BY <2>1, <2>2
<1>17. CASE UNCHANGED vars
  BY <1>17 DEF vars, world, ledger, past, TypeOK, ItemsSound, ScanTypes
<1> QED
  BY <1>1, <1>2, <1>3, <1>4, <1>5, <1>6, <1>7, <1>8, <1>9, <1>10, <1>11, <1>12, <1>13, <1>14,
     <1>15, <1>16, <1>17 DEF Next, ScanStep, ReadIncremental, Environment
-----------------------------------------------------------------------------
(* The steps, and the inventory.                                             *)

LEMMA InitRecord == Init => RecordInv
BY DEF Init, RecordInv, Recorded, Inventoried, InventoryIsSeen, Idle, Mapping

LEMMA StepRecord == TypeInv /\ RecordInv /\ [Next]_vars => RecordInv'
<1> SUFFICES ASSUME TypeOK, ItemsSound, ScanTypes, Recorded, Inventoried, InventoryIsSeen,
                    [Next]_vars
             PROVE  Recorded' /\ Inventoried' /\ InventoryIsSeen'
  BY DEF TypeInv, RecordInv
<1> USE DEF Has, Phases, Mapping
<1>1. ASSUME UNCHANGED <<item, recorded, unrecorded, sonarr>>
      PROVE  Recorded' /\ InventoryIsSeen'
  BY <1>1 DEF Recorded, InventoryIsSeen
<1>2. ASSUME NEW mode \in {"normal", "deep"}, Begin(mode)
      PROVE  Inventoried'
  <2>1. \A t \in Preservable : item[t] # None
    BY DEF Preservable, Proposed, Approved
  <2> QED BY <1>2, <2>1 DEF Begin, Inventoried, ledger
<1>3. ASSUME NEW t \in Targets, SetMaster(t)
      PROVE  Inventoried'
  <2>1. {"phase", "masters", "watch"} \subseteq DOMAIN scan
    BY <1>3 DEF SetMaster, ScanTypes, Idle
  <2> QED BY <1>3, <2>1 DEF SetMaster, Inventoried, world
<1>4. ASSUME ReadInventory
      PROVE  Inventoried'
  BY <1>4 DEF ReadInventory, Inventoried, world, ledger
<1>5. ASSUME VerifyProvider
      PROVE  Inventoried'
  BY <1>5 DEF VerifyProvider, Inventoried, ScanTypes, Idle, world, ledger
<1>6. ASSUME DiffInventory
      PROVE  Inventoried'
  <2> DEFINE kept == {t \in DOMAIN scan.groups :
                        AudioKept(t) /\ SourceKept(t) /\ InventoryKept(t)}
  <2>1. /\ scan'.phase \in {"index", "commit"}
        /\ scan'.dirty = Targets \ kept /\ scan'.inventory = scan.inventory
    BY <1>6 DEF DiffInventory
  <2>2. \A t \in kept : item[t] # None /\ recorded[t] \in {None, scan.inventory[t]}
    BY <1>6 DEF DiffInventory, Inventoried, InventoryKept
  <2>3. UNCHANGED <<sonarr, item, recorded>> /\ scan.inventory = sonarr
    BY <1>6 DEF DiffInventory, Inventoried, world, ledger
  <2> QED BY <2>1, <2>2, <2>3 DEF Inventoried, InventoryKept
<1>7. ASSUME \/ LoadIndex \/ RefreshIndex \/ PublishBackup \/ Retrieve \/ LoadDetail
             \/ Evaluate \/ AuditProposals
      PROVE  Inventoried'
  <2>1. scan # Idle /\ {"phase", "inventory", "dirty", "fresh"} \subseteq DOMAIN scan
    BY <1>7 DEF LoadIndex, RefreshIndex, PublishBackup, Retrieve, LoadDetail, Evaluate,
                AuditProposals, ScanTypes, Idle
  <2>2. /\ scan.phase \in Mapping /\ scan'.phase \in Mapping
        /\ scan'.inventory = scan.inventory /\ scan'.dirty = scan.dirty
    BY <1>7, <2>1 DEF LoadIndex, RefreshIndex, PublishBackup, Retrieve, LoadDetail, Evaluate,
                      AuditProposals
  <2>3. UNCHANGED <<sonarr, item, recorded>>
    BY <1>7 DEF LoadIndex, RefreshIndex, PublishBackup, Retrieve, LoadDetail, Evaluate,
                AuditProposals, world, ledger
  <2> QED BY <2>2, <2>3 DEF Inventoried, InventoryKept
<1>8. ASSUME RecordScan
      PROVE  Recorded' /\ Inventoried' /\ InventoryIsSeen'
  <2>1. scan.dirty \subseteq Targets /\ scan.inventory = sonarr
    BY <1>8 DEF RecordScan, ScanTypes, Inventoried
  <2>2. \A t \in scan.dirty : item'[t] # None /\ item'[t].seen = sonarr[t]
    BY <1>8, <2>1, ScanEffect
  <2>3. /\ \A t \in Targets \ scan.dirty : item'[t] = item[t]
        /\ scan'.phase = "inventory" /\ scan'.dirty = scan.dirty
        /\ scan'.inventory = scan.inventory
        /\ UNCHANGED <<sonarr, recorded>>
        /\ unrecorded' = unrecorded \cup {t \in scan.dirty : recorded[t] = None}
        /\ scan.phase = "commit"
    BY <1>8 DEF RecordScan, world
  <2>4. \A t \in Targets : recorded[t] # None => recorded[t] \in Nat /\ recorded[t] <= sonarr[t]
    BY DEF Recorded, TypeOK
  <2>5. Inventoried'
    BY <2>1, <2>2, <2>3 DEF Inventoried, InventoryKept
  <2>6. Recorded'
    BY <2>1, <2>3 DEF Recorded
  <2>7. InventoryIsSeen'
    BY <2>1, <2>2, <2>3, <2>4 DEF InventoryIsSeen
  <2> QED BY <2>5, <2>6, <2>7
<1>9. ASSUME RecordInventory
      PROVE  Recorded' /\ Inventoried' /\ InventoryIsSeen'
  <2>1. /\ scan.phase = "inventory" /\ scan' # Idle /\ scan'.phase = "persist"
        /\ recorded' = scan.inventory /\ unrecorded' = unrecorded \ scan.dirty
        /\ UNCHANGED <<sonarr, item>>
    BY <1>9 DEF RecordInventory, ScanTypes, Idle, world
  <2>2. scan.inventory = sonarr /\ sonarr \in [Targets -> Nat] /\ scan.dirty \subseteq Targets
    BY <2>1 DEF Inventoried, TypeOK, ScanTypes
  <2>3. Recorded' /\ Inventoried'
    BY <2>1, <2>2, NoneAssumption DEF Recorded, Inventoried
  <2>4. ASSUME NEW t \in Targets, t \notin unrecorded'
        PROVE  item[t] # None /\ sonarr[t] <= item[t].seen
    <3>1. CASE t \in scan.dirty
      BY <2>1, <2>2, <3>1 DEF Inventoried
    <3>2. CASE t \notin scan.dirty
      BY <2>1, <2>2, <2>4, <3>2 DEF Inventoried, InventoryKept, Recorded, InventoryIsSeen
    <3> QED BY <3>1, <3>2
  <2>5. InventoryIsSeen'
    BY <2>1, <2>2, <2>4 DEF InventoryIsSeen
  <2> QED BY <2>3, <2>5
<1>10. ASSUME RecordRows \/ EndScan \/ ScanFails
       PROVE  Inventoried'
  BY <1>10 DEF RecordRows, EndScan, ScanFails, Inventoried, ScanTypes, Idle
<1>11. ASSUME NEW t \in Targets, SonarrChanges(t)
       PROVE  Recorded' /\ Inventoried' /\ InventoryIsSeen'
  <2>1. Inventoried'
    BY <1>11 DEF SonarrChanges, Inventoried, Idle
  <2>2. Recorded'
    BY <1>11 DEF SonarrChanges, Recorded, TypeOK, ledger, past
  <2>3. InventoryIsSeen'
    BY <1>11 DEF SonarrChanges, InventoryIsSeen, ledger, past
  <2> QED BY <2>1, <2>2, <2>3
<1>12. ASSUME \/ \E u \in Urls : PageChanges(u) \/ Expire(u)
              \/ \E t \in Targets : ClearAudio(t)
              \/ LoseIndex
       PROVE  Inventoried'
  BY <1>12 DEF PageChanges, Expire, ClearAudio, LoseIndex, Inventoried, InventoryKept, world, ledger
<1>13. ASSUME NEW t \in Targets, NEW audio \in Audios, Approve(t, audio)
       PROVE  Recorded' /\ Inventoried' /\ InventoryIsSeen'
  <2>1. item[t] \in Items /\ item' = [item EXCEPT ![t] = [item[t] EXCEPT !.decision = audio]]
    BY <1>13 DEF Approve, TypeOK
  <2>2. [item[t] EXCEPT !.decision = audio] \in Items
    BY <2>1 DEF Items
  <2>3. \A s \in Targets : /\ (item'[s] = None) <=> (item[s] = None)
                           /\ item[s] # None => item'[s].seen = item[s].seen
    BY <2>1, <2>2, NoneAssumption DEF TypeOK, Items
  <2>4. UNCHANGED <<recorded, unrecorded, sonarr>>
    BY <1>13 DEF Approve, world
  <2>5. Recorded' /\ InventoryIsSeen'
    <3>1. Recorded'
      BY <2>3, <2>4 DEF Recorded
    <3>2. InventoryIsSeen'
      BY <2>3, <2>4 DEF InventoryIsSeen
    <3> QED BY <3>1, <3>2
  <2>6. /\ scan'.phase = scan.phase
        /\ scan.phase \in {"masters", "verify"} => scan'.groups = scan.groups
        /\ scan.phase \in Mapping \cup {"verify", "inventory"} => scan'.inventory = scan.inventory
        /\ scan.phase \in Mapping \cup {"inventory"} => scan'.dirty = scan.dirty
    BY <1>13 DEF Approve, Unsettle, ScanTypes, Idle
  <2>7. /\ scan.phase \in Mapping \cup {"inventory"} => scan.dirty \subseteq Targets
        /\ scan.phase = "masters" => scan.groups \subseteq Targets
        /\ scan.phase = "verify" => DOMAIN scan.groups \subseteq Targets
    BY DEF ScanTypes
  <2>8. Inventoried'
    BY <2>3, <2>4, <2>6, <2>7 DEF Inventoried, InventoryKept
  <2> QED BY <2>5, <2>8
<1>14. ASSUME NEW t \in Targets, NEW audio \in Audios, ChooseAudio(t, audio)
       PROVE  Inventoried'
  BY <1>14 DEF ChooseAudio, Unsettle, Inventoried, InventoryKept, ScanTypes, world
<1>15. CASE UNCHANGED vars
  BY <1>15, <1>1 DEF vars, world, ledger, past, Inventoried, InventoryKept
<1> QED
  <2>1. ASSUME UNCHANGED <<item, recorded, unrecorded, sonarr>>, Inventoried'
        PROVE  Recorded' /\ Inventoried' /\ InventoryIsSeen'
    BY <1>1, <2>1
  <2> QED
    BY <2>1, <1>2, <1>3, <1>4, <1>5, <1>6, <1>7, <1>8, <1>9, <1>10, <1>11, <1>12, <1>13, <1>14,
       <1>15
      DEF Next, ScanStep, ReadIncremental, Environment, Begin, SetMaster, ReadInventory,
          VerifyProvider, DiffInventory, LoadIndex, RefreshIndex, PublishBackup, Retrieve,
          LoadDetail, Evaluate, AuditProposals, RecordRows, EndScan, ScanFails, PageChanges,
          Expire, LoseIndex, ChooseAudio, ClearAudio, world, ledger, past
-----------------------------------------------------------------------------
(* The steps, and the audio.                                                 *)

LEMMA InitAudio == Init => AudioInv
BY DEF Init, AudioInv, SettledHasMaster, MastersKnown, Heard, Unread, Read, Validated,
       Invalidated, Mapped, Written, ModesAgree, Idle, Mapping

\* An item and a master that stay as they are.
LEMMA SameItem ==
  ASSUME NEW t, item'[t] = None <=> item[t] = None,
         item'[t].snap = item[t].snap, item'[t].decision = item[t].decision
  PROVE  /\ Live(t)' <=> Live(t)
         /\ Mode(t)' = Mode(t)
         /\ master'[t[1]] = master[t[1]] => (Agrees(t)' <=> Agrees(t))
<1>1. (Live(t)' <=> Live(t)) /\ (Proposed(t)' <=> Proposed(t)) /\ (Approved(t)' <=> Approved(t))
  BY DEF Live, Proposed, Approved
<1>2. Mode(t)' = Mode(t)
  BY <1>1 DEF Mode, Default, Modes
<1> QED BY <1>1, <1>2 DEF Agrees

\* What a scan may know less about, it knows still.
Fields ==
  /\ scan'.phase = scan.phase
  /\ scan.phase \in {"masters", "verify"} => scan'.groups = scan.groups
  /\ scan.phase \in {"inventory", "persist"} \cup Mapping =>
       scan'.rows = scan.rows /\ scan'.dirty = scan.dirty
  /\ scan.phase \in Mapping => scan'.fresh = scan.fresh
  /\ scan.phase \in {"inventory", "persist"} => scan'.replaced = scan.replaced

LEMMA LessHeld ==
  ASSUME ScanTypes, Heard, Fields, row' = row, scan # Idle => scan' # Idle,
         scan # Idle => scan'.watch \subseteq scan.watch,
         Held' \subseteq Held,
         \A s \in Held' : master'[s] = master[s],
         \A t \in Targets : t[1] \in Held' => \/ Agrees(t)'
                                              \/ item'[t] = item[t]
  PROVE  Heard'
<1> USE DEF Mapping
<1>1. ASSUME NEW t \in Targets, t[1] \in Held'
      PROVE  /\ t[1] \in Held /\ master'[t[1]] = master[t[1]]
             /\ Agrees(t) => Agrees(t)'
             /\ Mode(t)' = Mode(t) \/ Agrees(t)'
  BY <1>1, SameItem
<1>2. Unread' /\ Read'
  BY <1>1 DEF Heard, Unread, Read, Fields, Idle
<1>3. Validated' /\ Invalidated'
  BY <1>1 DEF Heard, Validated, Invalidated, Fields, Idle
<1>4. Mapped'
  <2> SUFFICES ASSUME scan.phase \in {"audit", "commit"}, NEW t \in scan.dirty, t[1] \in Held',
                      scan.fresh.new[t].state = "proposed"
               PROVE  Default(scan'.fresh.new[t]) = master'[t[1]]
    BY DEF Mapped, Fields
  <2>1. t \in Targets /\ scan'.fresh = scan.fresh
    BY DEF ScanTypes, Fields
  <2>2. Default(scan.fresh.new[t]) = master[t[1]]
    BY <1>1, <2>1 DEF Heard, Mapped
  <2> QED BY <1>1, <2>1, <2>2
<1>5. Written'
  BY <1>1 DEF Heard, Written, Marked, Fields, Idle
<1> QED BY <1>2, <1>3, <1>4, <1>5 DEF Heard

\* A series that is settled stays so while nothing but its own audio becomes executable.
LEMMA StillOne ==
  ASSUME ModesAgree, SettledHasMaster, settled' \subseteq settled,
         \A s \in settled' : master'[s] = master[s],
         \A t \in Targets : t[1] \in settled' =>
           \/ Agrees(t)'
           \/ /\ item'[t] = None <=> item[t] = None
              /\ item'[t].snap = item[t].snap /\ item'[t].decision = item[t].decision
              /\ row'[t] = row[t] \/ row'[t] \notin {"absent", "current"}
  PROVE  ModesAgree' /\ SettledHasMaster'
<1>1. SettledHasMaster'
  BY DEF SettledHasMaster
<1>2. ASSUME NEW t \in Targets, t[1] \in settled', Executable(t)'
      PROVE  Mode(t)' = master'[t[1]]
  <2>1. CASE Agrees(t)'
    BY <1>2, <2>1 DEF Agrees, Live, Executable
  <2>2. CASE ~Agrees(t)'
    <3>1. Executable(t) /\ Mode(t)' = Mode(t)
      BY <1>2, <2>2, SameItem DEF Executable, Live
    <3> QED BY <1>2, <3>1 DEF ModesAgree
  <2> QED BY <2>1, <2>2
<1> QED BY <1>1, <1>2 DEF ModesAgree

LEMMA StepAudio == TypeInv /\ Inventoried /\ AudioInv /\ [Next]_vars => AudioInv'
<1> SUFFICES ASSUME TypeOK, ItemsSound, ScanTypes, Inventoried,
                    SettledHasMaster, MastersKnown, Heard, ModesAgree, [Next]_vars
             PROVE  MastersKnown' /\ Heard' /\ ModesAgree' /\ SettledHasMaster'
  BY DEF TypeInv, AudioInv
<1> USE DEF Has, Phases, Mapping
<1>0. ASSUME UNCHANGED <<item, row, master, settled>>
      PROVE  /\ ModesAgree' /\ SettledHasMaster'
             /\ \A t \in Targets : (Agrees(t)' <=> Agrees(t)) /\ Mode(t)' = Mode(t)
  BY <1>0, StillOne, SameItem
<1>1. ASSUME NEW mode \in {"normal", "deep"}, Begin(mode)
      PROVE  MastersKnown' /\ Heard' /\ ModesAgree' /\ SettledHasMaster'
  <2>1. UNCHANGED <<item, row, master, settled>>
    BY <1>1 DEF Begin, ledger, past
  <2>2. /\ scan' # Idle /\ scan'.phase = "masters" /\ scan'.masters = master
        /\ scan'.groups = Preservable
    BY <1>1 DEF Begin, Idle
  <2>3. \A t \in Targets \ Preservable : Agrees(t)
    BY DEF Preservable, Agrees, Live
  <2>4. MastersKnown'
    BY <2>1, <2>2 DEF MastersKnown
  <2>5. Heard'
    BY <1>0, <2>1, <2>2, <2>3
      DEF Heard, Unread, Read, Validated, Invalidated, Mapped, Written
  <2> QED BY <1>0, <2>1, <2>4, <2>5
<1>2. ASSUME NEW t \in Targets, SetMaster(t)
      PROVE  MastersKnown' /\ Heard' /\ ModesAgree' /\ SettledHasMaster'
  <2>1. /\ scan # Idle /\ {"phase", "masters", "watch"} \subseteq DOMAIN scan
        /\ scan.watch \subseteq Series /\ settled \subseteq Series
    BY <1>2 DEF SetMaster, ScanTypes, TypeOK, Idle
  <2>2. /\ scan' = [scan EXCEPT !.masters = master', !.watch = @ \ {t[1]}]
        /\ settled' = settled \ {t[1]} /\ UNCHANGED <<item, row>>
        /\ \A s \in Series \ {t[1]} : master'[s] = master[s]
    BY <1>2, <2>1 DEF SetMaster, StoreMaster, TypeOK
  <2>3. Fields /\ scan' # Idle /\ scan'.masters = master' /\ scan'.watch = scan.watch \ {t[1]}
    BY <2>1, <2>2 DEF Fields, ScanTypes, Idle
  <2>4. MastersKnown'
    BY <2>3 DEF MastersKnown
  <2>5. Held' \subseteq Held /\ \A s \in Held' : master'[s] = master[s]
    BY <2>1, <2>2, <2>3 DEF Held, Watched
  <2>6. Heard'
    BY <2>1, <2>2, <2>3, <2>5, LessHeld
  <2>7. ModesAgree' /\ SettledHasMaster'
    BY <2>1, <2>2, StillOne
  <2> QED BY <2>4, <2>6, <2>7
<1>3. ASSUME ReadInventory
      PROVE  MastersKnown' /\ Heard' /\ ModesAgree' /\ SettledHasMaster'
  <2>1. UNCHANGED <<item, row, master, settled>>
    BY <1>3 DEF ReadInventory, ledger, past
  <2> DEFINE groups == IF scan.mode = "deep" THEN {} ELSE scan.groups
  <2>2. /\ scan # Idle /\ scan.phase = "masters" /\ scan' # Idle /\ scan'.phase = "verify"
        /\ scan'.masters = scan.masters /\ scan'.watch = scan.watch
        /\ DOMAIN scan'.groups = groups
        /\ \A t \in groups : scan'.groups[t].audio = Mode(t)
    BY <1>3 DEF ReadInventory, Idle
  <2>3. scan.groups \subseteq Targets /\ (scan.mode = "deep" => scan.watch = {})
    BY <2>2 DEF ScanTypes
  <2>4. MastersKnown'
    BY <2>1, <2>2 DEF MastersKnown
  <2>5. Held' = Held
    BY <2>1, <2>2 DEF Held, Watched
  <2>6. Heard'
    BY <1>0, <2>1, <2>2, <2>3, <2>5
      DEF Heard, Unread, Read, Validated, Invalidated, Mapped, Written
  <2> QED BY <1>0, <2>1, <2>4, <2>6
<1>4. ASSUME VerifyProvider
      PROVE  MastersKnown' /\ Heard' /\ ModesAgree' /\ SettledHasMaster'
  <2>1. UNCHANGED <<item, row, master, settled>>
    BY <1>4 DEF VerifyProvider, ledger, past
  <2>2. scan # Idle /\ scan' # Idle /\ Fields
        /\ scan'.masters = scan.masters /\ scan'.watch = scan.watch
    BY <1>4 DEF VerifyProvider, ScanTypes, Fields, Idle
  <2>3. MastersKnown' /\ Held' = Held
    BY <2>1, <2>2 DEF MastersKnown, Held, Watched
  <2>4. Heard'
    BY <2>1, <2>2, <2>3, LessHeld
  <2> QED BY <1>0, <2>1, <2>3, <2>4
<1>5. ASSUME DiffInventory
      PROVE  MastersKnown' /\ Heard' /\ ModesAgree' /\ SettledHasMaster'
  <2>1. UNCHANGED <<item, row, master, settled>>
    BY <1>5 DEF DiffInventory, ledger, past
  <2> DEFINE kept == {t \in DOMAIN scan.groups :
                        AudioKept(t) /\ SourceKept(t) /\ InventoryKept(t)}
  <2>2. /\ scan # Idle /\ scan.phase = "verify" /\ DOMAIN scan.groups \subseteq Targets
        /\ scan' # Idle /\ scan'.phase \in {"index", "commit"}
        /\ scan'.masters = scan.masters /\ scan'.watch = scan.watch
        /\ scan'.dirty = Targets \ kept
        /\ scan'.phase = "commit" => scan'.dirty = {}
        /\ scan'.rows[3] = DOMAIN scan.groups \ kept /\ scan'.rows[4] \subseteq kept
    BY <1>5 DEF DiffInventory, ScanTypes, Idle
  <2>3. MastersKnown' /\ Held' = Held
    BY <2>1, <2>2 DEF MastersKnown, Held, Watched
  <2>4. ASSUME NEW t \in kept, t[1] \in Held
        PROVE  Agrees(t)
    <3>1. scan.masters[t[1]] = master[t[1]] /\ master[t[1]] # None
      BY <2>2, <2>4 DEF Held, Watched, MastersKnown
    <3>2. scan.groups[t].audio = master[t[1]]
      BY <3>1 DEF AudioKept
    <3> QED BY <2>2, <2>4, <3>2 DEF Heard, Read, Agrees
  <2>5. Validated'
    BY <1>0, <2>1, <2>2, <2>3, <2>4 DEF Validated
  <2>6. Invalidated'
    BY <1>0, <2>1, <2>2, <2>3, <2>4 DEF Invalidated, Heard, Read
  <2>7. Unread' /\ Read' /\ Mapped' /\ Written'
    BY <2>2 DEF Unread, Read, Mapped, Written
  <2> QED BY <1>0, <2>1, <2>3, <2>5, <2>6, <2>7 DEF Heard
<1>6. ASSUME LoadIndex \/ RefreshIndex \/ PublishBackup \/ Retrieve \/ LoadDetail
      PROVE  MastersKnown' /\ Heard' /\ ModesAgree' /\ SettledHasMaster'
  <2>1. UNCHANGED <<item, row, master, settled>>
    BY <1>6 DEF LoadIndex, RefreshIndex, PublishBackup, Retrieve, LoadDetail, ledger, past
  <2>2. /\ scan # Idle
        /\ {"phase", "masters", "watch", "inventory", "dirty", "rows", "fresh"}
             \subseteq DOMAIN scan
    BY <1>6 DEF LoadIndex, RefreshIndex, PublishBackup, Retrieve, LoadDetail, ScanTypes, Idle
  <2>3. /\ scan.phase \in Mapping /\ scan' # Idle
        /\ scan'.phase \in Mapping \ {"audit", "commit"}
        /\ scan'.masters = scan.masters /\ scan'.watch = scan.watch
        /\ scan'.dirty = scan.dirty /\ scan'.rows = scan.rows
    BY <1>6, <2>2 DEF LoadIndex, RefreshIndex, PublishBackup, Retrieve, LoadDetail, Idle
  <2>4. MastersKnown' /\ Held' = Held
    BY <2>1, <2>2, <2>3 DEF MastersKnown, Held, Watched
  <2>5. Heard'
    BY <1>0, <2>1, <2>3, <2>4 DEF Heard, Unread, Read, Validated, Invalidated, Mapped, Written
  <2> QED BY <1>0, <2>1, <2>4, <2>5
<1>7. ASSUME Evaluate
      PROVE  MastersKnown' /\ Heard' /\ ModesAgree' /\ SettledHasMaster'
  <2>1. UNCHANGED <<item, row, master, settled>>
    BY <1>7 DEF Evaluate, ledger, past
  <2>2. /\ scan # Idle /\ scan.phase = "details" /\ scan.dirty \subseteq Targets
        /\ {"phase", "masters", "watch", "inventory", "dirty", "rows", "fresh"}
             \subseteq DOMAIN scan
    BY <1>7 DEF Evaluate, ScanTypes, Idle
  <2>3. /\ scan' # Idle /\ scan'.phase = "audit"
        /\ scan'.masters = scan.masters /\ scan'.watch = scan.watch
        /\ scan'.dirty = scan.dirty /\ scan'.rows = scan.rows
        /\ \A t \in scan.dirty : scan'.fresh.new[t] = Snapshot(t)
    BY <1>7, <2>2 DEF Evaluate, Idle
  <2>4. MastersKnown' /\ Held' = Held
    BY <2>1, <2>2, <2>3 DEF MastersKnown, Held, Watched
  <2>5. ASSUME NEW t \in scan.dirty, t[1] \in Held, Snapshot(t).state = "proposed"
        PROVE  Default(Snapshot(t)) = master[t[1]]
    <3>1. scan.masters[t[1]] = master[t[1]] /\ master[t[1]] # None
      BY <2>2, <2>5 DEF Held, Watched, MastersKnown
    <3>2. /\ \E u \in Plan(t) : AudioOf[u] = master[t[1]]
          /\ Snapshot(t).prefer = master[t[1]] /\ Snapshot(t).plan = Plan(t)
      BY <2>5, <3>1 DEF Snapshot
    <3> QED BY <3>2 DEF Default, Modes
  <2>6. Mapped'
    BY <2>1, <2>2, <2>3, <2>4, <2>5 DEF Mapped
  <2>7. Validated' /\ Invalidated'
    BY <1>0, <2>1, <2>2, <2>3, <2>4 DEF Heard, Validated, Invalidated
  <2>8. Unread' /\ Read' /\ Written'
    BY <2>3 DEF Unread, Read, Written
  <2> QED BY <1>0, <2>1, <2>4, <2>6, <2>7, <2>8 DEF Heard
<1>8. ASSUME AuditProposals
      PROVE  MastersKnown' /\ Heard' /\ ModesAgree' /\ SettledHasMaster'
  <2>1. UNCHANGED <<item, row, master, settled>> /\ scan.phase = "audit"
    BY <1>8 DEF AuditProposals, ledger, past
  <2>2. /\ scan # Idle /\ scan' # Idle /\ scan'.phase = "commit"
        /\ scan'.masters = scan.masters /\ scan'.watch = scan.watch
        /\ scan'.dirty = scan.dirty /\ scan'.rows = scan.rows
    BY <1>8, AuditEffect
  <2>3. MastersKnown' /\ Held' = Held
    BY <2>1, <2>2 DEF MastersKnown, Held, Watched
  <2>4. PICK set \in SUBSET scan.dirty :
          \A t \in scan.dirty : scan'.fresh.new[t] = Demoted(t, set)
    BY <1>8, AuditEffect
  <2>5. Mapped'
    <3>1. ASSUME NEW t \in scan.dirty, t[1] \in Held, scan'.fresh.new[t].state = "proposed"
          PROVE  Default(scan'.fresh.new[t]) = master[t[1]]
      <4>1. scan.fresh.new[t] \in Snapshots
        BY <2>1 DEF ScanTypes
      <4>2. scan'.fresh.new[t] = scan.fresh.new[t]
        BY <2>4, <3>1, <4>1 DEF Demoted, Snapshots
      <4> QED BY <2>1, <3>1, <4>2 DEF Heard, Mapped
    <3> QED BY <2>1, <2>2, <2>3, <3>1 DEF Mapped
  <2>6. Validated' /\ Invalidated'
    BY <1>0, <2>1, <2>2, <2>3 DEF Heard, Validated, Invalidated
  <2>7. Unread' /\ Read' /\ Written'
    BY <2>2 DEF Unread, Read, Written
  <2> QED BY <1>0, <2>1, <2>3, <2>5, <2>6, <2>7 DEF Heard
<1>9. ASSUME RecordScan
      PROVE  MastersKnown' /\ Heard' /\ ModesAgree' /\ SettledHasMaster'
  <2>1. /\ scan # Idle /\ scan.phase = "commit" /\ scan.inventory = sonarr
        /\ UNCHANGED <<master, settled>>
        /\ scan' # Idle /\ scan'.phase = "inventory"
        /\ scan'.masters = scan.masters /\ scan'.watch = scan.watch
        /\ scan'.dirty = scan.dirty /\ scan'.rows = scan.rows
    BY <1>9 DEF RecordScan, Inventoried, Idle
  <2>2. MastersKnown' /\ Held' = Held
    BY <2>1 DEF MastersKnown, Held, Watched
  \* What is mapped anew has the audio of its series; the rest is what it was.
  <2>3. ASSUME NEW t \in scan'.replaced, t[1] \in Held
        PROVE  Agrees(t)'
    <3>1. /\ t \in scan.dirty /\ item'[t].snap = scan.fresh.new[t]
          /\ item'[t].decision = None
      BY <1>9, <2>1, ScanEffect
    <3>2. SUFFICES ASSUME Live(t)' PROVE Mode(t)' = master[t[1]]
      BY <2>1 DEF Agrees
    <3>3. scan.fresh.new[t].state = "proposed" /\ Mode(t)' = Default(item'[t].snap)
      BY <3>1, <3>2 DEF Live, Proposed, Approved, Mode
    <3> QED BY <2>1, <2>3, <3>1, <3>3 DEF Heard, Mapped
  <2>4. ASSUME NEW t \in Targets \ scan'.replaced
        PROVE  /\ item'[t] = None <=> item[t] = None
               /\ item'[t].snap = item[t].snap /\ item'[t].decision = item[t].decision
               /\ row'[t] = row[t]
    BY <1>9, <2>1, <2>4, ScanEffect
  <2>5. \A t \in Targets \ scan'.replaced : Agrees(t)' <=> Agrees(t)
    BY <2>1, <2>4, SameItem
  <2>6. scan'.replaced \subseteq scan.dirty /\ scan.dirty \subseteq Targets
    BY <1>9, <2>1, ScanEffect
  <2>7. ModesAgree' /\ SettledHasMaster'
    <3>1. \A t \in Targets : t[1] \in settled => t[1] \in Held
      BY DEF Held, SettledHasMaster
    <3> QED BY <2>1, <2>3, <2>4, <3>1, StillOne
  <2>8. Validated'
    BY <2>1, <2>2, <2>5, <2>6 DEF Heard, Validated
  <2>9. Written'
    BY <2>1, <2>2, <2>3, <2>5 DEF Heard, Invalidated, Written
  <2>10. Unread' /\ Read' /\ Invalidated' /\ Mapped'
    BY <2>1 DEF Unread, Read, Invalidated, Mapped
  <2> QED BY <2>2, <2>7, <2>8, <2>9, <2>10 DEF Heard
<1>10. ASSUME RecordInventory
       PROVE  MastersKnown' /\ Heard' /\ ModesAgree' /\ SettledHasMaster'
  <2>1. UNCHANGED <<item, row, master, settled>>
    BY <1>10 DEF RecordInventory
  <2>2. /\ scan # Idle /\ scan.phase = "inventory" /\ scan' # Idle /\ scan'.phase = "persist"
        /\ scan'.masters = master /\ scan'.watch = scan.watch
        /\ scan'.dirty = scan.dirty /\ scan'.rows = scan.rows /\ scan'.replaced = scan.replaced
    BY <1>10 DEF RecordInventory, ScanTypes, Idle
  <2>3. MastersKnown' /\ Held' = Held
    BY <2>1, <2>2 DEF MastersKnown, Held, Watched
  <2>4. Validated' /\ Written'
    BY <1>0, <2>1, <2>2, <2>3 DEF Heard, Validated, Written, Marked
  <2>5. Unread' /\ Read' /\ Invalidated' /\ Mapped'
    BY <2>2 DEF Unread, Read, Invalidated, Mapped
  <2> QED BY <1>0, <2>1, <2>3, <2>4, <2>5 DEF Heard
<1>11. ASSUME RecordRows
       PROVE  MastersKnown' /\ Heard' /\ ModesAgree' /\ SettledHasMaster'
  <2>1. UNCHANGED <<item, master, settled>> /\ scan # Idle /\ scan.phase = "persist"
    BY <1>11 DEF RecordRows, Idle, past
  <2>2. /\ {"phase", "masters", "watch", "dirty", "rows", "replaced"} \subseteq DOMAIN scan
        /\ DOMAIN scan.rows = 1..4 /\ scan.replaced \subseteq scan.dirty
    BY <2>1 DEF ScanTypes
  <2>3. PICK i \in Unwritten :
          /\ \A j \in Unwritten : i <= j
          /\ row' = [t \in Targets |-> IF t \in scan.rows[i] \ scan.replaced THEN RowStates[i]
                                      ELSE row[t]]
          /\ scan' = [scan EXCEPT !.rows = [scan.rows EXCEPT ![i] = {}]]
    BY <1>11 DEF RecordRows
  <2>4. /\ i \in 1..4 /\ \A j \in 1..4 : j < i => scan.rows[j] = {}
    BY <2>3 DEF Unwritten
  <2>5. /\ scan' # Idle /\ scan'.phase = "persist"
        /\ scan'.masters = scan.masters /\ scan'.watch = scan.watch
        /\ scan'.dirty = scan.dirty /\ scan'.replaced = scan.replaced
        /\ \A j \in 1..4 : scan'.rows[j] = IF j = i THEN {} ELSE scan.rows[j]
    BY <2>1, <2>2, <2>3, <2>4 DEF Idle
  <2>6. MastersKnown' /\ Held' = Held
    BY <2>1, <2>5 DEF MastersKnown, Held, Watched
  <2>7. \A t \in Targets : Agrees(t)' <=> Agrees(t)
    BY <2>1, SameItem
  <2>8. Validated'
    BY <2>1, <2>2, <2>4, <2>5, <2>6, <2>7 DEF Heard, Validated
  <2>9. ASSUME NEW t \in Targets, t[1] \in scan.watch \cap Held, ~Agrees(t)
        PROVE  t \in scan'.rows[3] \ scan.replaced \/ Marked(t)'
    <3>1. t \notin scan.rows[4] /\ (t \in scan.rows[3] \ scan.replaced \/ Marked(t))
      BY <2>1, <2>9 DEF Heard, Validated, Written
    <3>2. CASE Marked(t)
      BY <2>3, <2>4, <2>5, <3>2 DEF Marked
    <3>3. CASE t \in scan.rows[3] \ scan.replaced /\ i # 3
      BY <2>4, <2>5, <3>3
    <3>4. CASE t \in scan.rows[3] \ scan.replaced /\ i = 3
      <4>1. row'[t] = "invalidated"
        BY <2>3, <3>4 DEF RowStates
      <4>2. \A j \in 1..4 : t \notin scan'.rows[j]
        BY <2>4, <2>5, <3>1, <3>4
      <4> QED BY <4>1, <4>2 DEF Marked
    <3> QED BY <3>1, <3>2, <3>3, <3>4
  <2>10. Written'
    BY <2>1, <2>5, <2>6, <2>7, <2>9 DEF Written
  <2>11. Unread' /\ Read' /\ Invalidated' /\ Mapped'
    BY <2>5 DEF Unread, Read, Invalidated, Mapped
  <2>12. ModesAgree' /\ SettledHasMaster'
    <3>1. ASSUME NEW t \in Targets, t[1] \in settled, ~Agrees(t)'
          PROVE  row'[t] = row[t] \/ row'[t] \notin {"absent", "current"}
      <4>1. t \notin scan.rows[4]
        BY <2>1, <2>7, <3>1 DEF Heard, Validated, Held, SettledHasMaster
      <4>2. \A j \in 1..3 : RowStates[j] \notin {"absent", "current"}
        BY DEF RowStates
      <4> QED BY <2>3, <2>4, <4>1, <4>2
    <3> QED BY <2>1, <3>1, StillOne
  <2> QED BY <2>6, <2>8, <2>10, <2>11, <2>12 DEF Heard
<1>12. ASSUME EndScan
       PROVE  MastersKnown' /\ Heard' /\ ModesAgree' /\ SettledHasMaster'
  <2>1. /\ UNCHANGED <<item, row, master>> /\ scan' = Idle
        /\ settled' = settled \cup {s \in scan.watch : master[s] # None}
        /\ scan # Idle /\ scan.phase = "persist" /\ scan.rows[3] = {}
    BY <1>12 DEF EndScan, Unwritten, ledger, Idle
  <2>2. MastersKnown' /\ Heard'
    BY <2>1 DEF MastersKnown, Heard, Unread, Read, Validated, Invalidated, Mapped, Written, Idle
  <2>3. SettledHasMaster'
    BY <2>1 DEF SettledHasMaster
  <2>4. ASSUME NEW t \in Targets, t[1] \in settled', Executable(t)
        PROVE  Mode(t) = master[t[1]]
    <3>1. CASE t[1] \in settled
      BY <2>4, <3>1 DEF ModesAgree
    <3>2. CASE t[1] \in scan.watch /\ master[t[1]] # None
      <4>1. Agrees(t) \/ row[t] = "invalidated"
        BY <2>1, <3>2 DEF Heard, Written, Held, Watched, Marked
      <4> QED BY <2>4, <4>1 DEF Executable, Agrees, Live
    <3> QED BY <2>1, <2>4, <3>1, <3>2
  <2>5. \A t \in Targets : (Executable(t)' <=> Executable(t)) /\ Mode(t)' = Mode(t)
    BY <2>1, SameItem DEF Executable, Live
  <2> QED BY <2>1, <2>2, <2>3, <2>4, <2>5 DEF ModesAgree
<1>13. ASSUME ScanFails
       PROVE  MastersKnown' /\ Heard' /\ ModesAgree' /\ SettledHasMaster'
  <2>1. UNCHANGED <<item, row, master, settled>> /\ scan' = Idle
    BY <1>13 DEF ScanFails, ledger, past
  <2>2. MastersKnown' /\ Heard'
    BY <2>1 DEF MastersKnown, Heard, Unread, Read, Validated, Invalidated, Mapped, Written, Idle
  <2> QED BY <1>0, <2>1, <2>2
<1>14. ASSUME \/ \E t \in Targets : SonarrChanges(t) \/ ClearAudio(t)
              \/ \E t \in Targets, audio \in Audios :
                   ChooseAudio(t, audio) /\ UNCHANGED <<master, settled, scan>>
              \/ \E u \in Urls : PageChanges(u) \/ Expire(u)
              \/ LoseIndex \/ UNCHANGED vars
       PROVE  MastersKnown' /\ Heard' /\ ModesAgree' /\ SettledHasMaster'
  <2>1. UNCHANGED <<item, row, master, settled, scan>>
    BY <1>14 DEF SonarrChanges, ClearAudio, ChooseAudio, PageChanges, Expire, LoseIndex, vars,
                 ledger, past
  <2>2. MastersKnown' /\ Held' = Held /\ Fields
    BY <2>1 DEF MastersKnown, Held, Watched, Fields
  <2>3. Heard'
    BY <2>1, <2>2, LessHeld
  <2> QED BY <1>0, <2>1, <2>2, <2>3
<1>15. ASSUME NEW t \in Targets, NEW audio \in Audios, Approve(t, audio), audio = master[t[1]]
       PROVE  MastersKnown' /\ Heard' /\ ModesAgree' /\ SettledHasMaster'
  <2>1. /\ UNCHANGED <<row, master, settled, scan>> /\ item[t] \in Items
        /\ item' = [item EXCEPT ![t] = [item[t] EXCEPT !.decision = audio]]
    BY <1>15 DEF Approve, TypeOK
  <2>2. MastersKnown' /\ Held' = Held /\ Fields
    BY <2>1 DEF MastersKnown, Held, Watched, Fields
  <2>3. Agrees(t)'
    <3>1. item'[t] \in Items /\ item'[t].decision = audio
      BY <2>1 DEF TypeOK, Items
    <3>2. Approved(t)'
      BY <3>1, NoneAssumption DEF Approved
    <3> QED BY <1>15, <2>1, <3>1, <3>2 DEF Agrees, Mode
  <2>4. \A s \in Targets \ {t} : item'[s] = item[s]
    BY <2>1 DEF TypeOK
  <2>5. Heard'
    BY <2>1, <2>2, <2>3, <2>4, LessHeld
  <2>6. ModesAgree' /\ SettledHasMaster'
    BY <2>1, <2>3, <2>4, StillOne
  <2> QED BY <2>2, <2>5, <2>6
<1>16. ASSUME NEW t \in Targets, NEW audio \in Audios,
              \/ ChooseAudio(t, audio) /\ StoreMaster(t[1], audio) /\ Unsettle(t[1])
              \/ Approve(t, audio) /\ audio # master[t[1]]
       PROVE  MastersKnown' /\ Heard' /\ ModesAgree' /\ SettledHasMaster'
  <2>1. /\ row' = row /\ Unsettle(t[1])
        /\ \A s \in Series \ {t[1]} : master'[s] = master[s]
        /\ \A u \in Targets : u[1] # t[1] => item'[u] = item[u]
    BY <1>16 DEF Approve, ChooseAudio, StoreMaster, TypeOK
  <2>2. /\ scan = Idle => scan' = Idle
        /\ scan # Idle => /\ scan' # Idle /\ scan'.watch = scan.watch \ {t[1]}
                          /\ scan'.masters = scan.masters /\ scan.watch \subseteq Series
        /\ settled' = settled \ {t[1]} /\ settled \subseteq Series
        /\ Fields
    BY <2>1 DEF Unsettle, ScanTypes, TypeOK, Fields, Idle
  <2>3. MastersKnown'
    BY <2>1, <2>2 DEF MastersKnown
  <2>4. Held' \subseteq Held /\ \A s \in Held' : s # t[1] /\ master'[s] = master[s]
    BY <2>1, <2>2 DEF Held, Watched
  <2>5. Heard'
    BY <2>1, <2>2, <2>4, LessHeld
  <2>6. ModesAgree' /\ SettledHasMaster'
    BY <2>1, <2>2, StillOne
  <2> QED BY <2>3, <2>5, <2>6
<1> QED
  BY <1>1, <1>2, <1>3, <1>4, <1>5, <1>6, <1>7, <1>8, <1>9, <1>10, <1>11, <1>12, <1>13, <1>14,
     <1>15, <1>16 DEF Next, ScanStep, ReadIncremental, Environment, ChooseAudio

-----------------------------------------------------------------------------
(* The candidates of a proposal.                                             *)

\* What WholeEvidence says of a result, from the moment it is there.
Whole ==
  \A t \in scan.dirty : scan.fresh.new[t].state = "proposed" =>
    /\ ~Overflow(t[1]) /\ Entries # {}
    /\ \A u \in scan.fresh.missed[t] : \E s \in WorkSeries :
         \A r \in scan.dirty : r[1] = s =>
           u \in scan.fresh.missed[r] /\ scan.fresh.new[r].state = "needs_review"
WholeInv == scan.phase \in {"audit", "commit"} => Whole

LEMMA ChargedToOne ==
  ASSUME ScanTypes, scan.phase = "details", NEW u, NEW s \in WorkSeries, u \in Shortlist(s)
  PROVE  ChargedTo(u) \in WorkSeries /\ u \in Shortlist(ChargedTo(u))
<1> DEFINE sharing == {r \in WorkSeries : u \in Shortlist(r)}
<1>1. sharing \in SUBSET Series /\ sharing # {}
  BY DEF WorkSeries, Series, ScanTypes, Mapping
<1>2. \E r \in WorkSeries :
        u \in Shortlist(r) /\ \A q \in WorkSeries : u \in Shortlist(q) => q <= r
  BY <1>1, SeriesAssumption
<1> QED BY <1>2 DEF ChargedTo

LEMMA StepWhole == TypeInv /\ WholeInv /\ [Next]_vars => WholeInv'
<1> SUFFICES ASSUME TypeOK, ScanTypes, WholeInv, [Next]_vars
             PROVE  WholeInv'
  BY DEF TypeInv
<1>1. ASSUME Evaluate
      PROVE  Whole'
  <2>1. /\ scan # Idle /\ scan.phase = "details" /\ scan.dirty \subseteq Targets
        /\ {"phase", "dirty", "fresh"} \subseteq DOMAIN scan
    BY <1>1 DEF Evaluate, ScanTypes, Has, Mapping, Idle
  <2>2. /\ scan'.dirty = scan.dirty /\ index' = index
        /\ \A t \in scan.dirty : /\ scan'.fresh.new[t] = Snapshot(t)
                                /\ scan'.fresh.missed[t] = Shortlist(t[1]) \cap scan.fresh.late
    BY <1>1, <2>1 DEF Evaluate
  <2>3. WorkSeries' = WorkSeries /\ Entries' = Entries /\ \A s : Overflow(s)' = Overflow(s)
    BY <2>2 DEF WorkSeries, Entries, Overflow, Positions, Bucket
  <2>4. \A t \in scan.dirty : Flagged(t[1]) => Snapshot(t).state = "needs_review"
    BY DEF Snapshot
  <2>5. ASSUME NEW t \in scan.dirty, Snapshot(t).state = "proposed",
               NEW u \in Shortlist(t[1]) \cap scan.fresh.late
        PROVE  \E s \in WorkSeries : \A r \in scan.dirty : r[1] = s =>
                 /\ u \in Shortlist(r[1]) \cap scan.fresh.late
                 /\ Snapshot(r).state = "needs_review"
    <3>1. ChargedTo(u) \in WorkSeries /\ u \in Shortlist(ChargedTo(u))
      BY <2>1, <2>5, ChargedToOne DEF WorkSeries
    <3>2. Flagged(ChargedTo(u))
      BY <2>5 DEF Flagged
    <3> QED BY <2>4, <2>5, <3>1, <3>2
  <2>6. \A t \in scan.dirty : Snapshot(t).state = "proposed" => ~Overflow(t[1]) /\ Entries # {}
    BY <2>4 DEF Flagged
  <2> QED BY <2>2, <2>3, <2>5, <2>6 DEF Whole
<1>2. ASSUME AuditProposals
      PROVE  Whole'
  <2>1. scan.phase = "audit" /\ index' = index
    BY <1>2 DEF AuditProposals
  <2>2. PICK set \in SUBSET scan.dirty :
          \A t \in scan.dirty : scan'.fresh.new[t] = Demoted(t, set)
    BY <1>2, AuditEffect
  <2>3. scan'.dirty = scan.dirty /\ scan'.fresh.missed = scan.fresh.missed
    BY <1>2, AuditEffect
  <2>4. WorkSeries' = WorkSeries /\ Entries' = Entries /\ \A s : Overflow(s)' = Overflow(s)
    BY <2>1, <2>3 DEF WorkSeries, Entries, Overflow, Positions, Bucket
  <2>5. \A t \in scan.dirty :
          /\ scan'.fresh.new[t].state = "proposed" => scan.fresh.new[t].state = "proposed"
          /\ scan.fresh.new[t].state = "needs_review" => scan'.fresh.new[t].state = "needs_review"
    <3>1. \A t \in scan.dirty : scan.fresh.new[t] \in Snapshots
      BY <2>1 DEF ScanTypes
    <3> QED BY <2>2, <3>1 DEF Demoted, Snapshots
  <2> QED BY <2>1, <2>3, <2>4, <2>5 DEF Whole, WholeInv
<1>3. ASSUME DiffInventory
      PROVE  WholeInv'
  <2>1. scan'.phase = "commit" => scan'.dirty = {}
    BY <1>3 DEF DiffInventory
  <2>2. scan'.phase # "audit"
    BY <1>3 DEF DiffInventory
  <2> QED BY <2>1, <2>2 DEF WholeInv, Whole
<1>4. ASSUME \/ \E t \in Targets, audio \in Audios : Approve(t, audio) \/ ChooseAudio(t, audio)
             \/ UNCHANGED <<scan, index>>
      PROVE  WholeInv'
  <2>1. /\ index' = index /\ scan'.phase = scan.phase
        /\ scan.phase \in {"audit", "commit"} =>
             scan'.dirty = scan.dirty /\ scan'.fresh = scan.fresh
    BY <1>4 DEF Approve, ChooseAudio, Unsettle, ScanTypes, Has, Mapping, Idle
  <2>2. /\ Entries' = Entries /\ \A s : Overflow(s)' = Overflow(s)
        /\ scan.phase \in {"audit", "commit"} => WorkSeries' = WorkSeries
    BY <2>1 DEF WorkSeries, Entries, Overflow, Positions, Bucket
  <2> QED BY <2>1, <2>2 DEF WholeInv, Whole
<1>5. ASSUME \/ \E mode \in {"normal", "deep"} : Begin(mode)
             \/ \E t \in Targets : SetMaster(t)
             \/ ReadInventory \/ VerifyProvider \/ LoadIndex \/ RefreshIndex \/ PublishBackup
             \/ Retrieve \/ LoadDetail \/ RecordScan \/ RecordInventory \/ RecordRows \/ EndScan
             \/ ScanFails \/ LoseIndex
      PROVE  scan'.phase \notin {"audit", "commit"}
  <2>1. scan = Idle \/ {"phase", "masters", "watch"} \subseteq DOMAIN scan
    BY DEF ScanTypes, Has
  <2>2. CASE \E mode \in {"normal", "deep"} : Begin(mode)
    BY <2>2 DEF Begin
  <2>3. CASE \E t \in Targets : SetMaster(t)
    BY <2>1, <2>3 DEF SetMaster, Idle
  <2>4. CASE ReadInventory
    BY <2>4 DEF ReadInventory
  <2>5. CASE VerifyProvider \/ LoadDetail
    BY <2>1, <2>5 DEF VerifyProvider, LoadDetail, Idle
  <2>6. CASE LoadIndex \/ RefreshIndex \/ PublishBackup \/ Retrieve
    BY <2>1, <2>6 DEF LoadIndex, RefreshIndex, PublishBackup, Retrieve, Idle
  <2>7. CASE RecordScan
    BY <2>7 DEF RecordScan
  <2>8. CASE RecordInventory \/ RecordRows
    BY <2>1, <2>8 DEF RecordInventory, RecordRows, Idle
  <2>9. CASE EndScan \/ ScanFails \/ LoseIndex
    BY <2>9 DEF EndScan, ScanFails, LoseIndex, Idle
  <2> QED BY <1>5, <2>2, <2>3, <2>4, <2>5, <2>6, <2>7, <2>8, <2>9
<1>6. ASSUME \/ \E t \in Targets : SonarrChanges(t) \/ ClearAudio(t)
             \/ \E u \in Urls : PageChanges(u) \/ Expire(u)
             \/ UNCHANGED vars
      PROVE  UNCHANGED <<scan, index>>
  BY <1>6 DEF SonarrChanges, ClearAudio, PageChanges, Expire, vars
<1> QED
  BY <1>1, <1>2, <1>3, <1>4, <1>5, <1>6
    DEF Next, ScanStep, ReadIncremental, Environment, WholeInv

-----------------------------------------------------------------------------
IInv == TypeInv /\ RecordInv /\ AudioInv /\ WholeInv

LEMMA Inductive == Spec => []IInv
<1>1. Init => IInv
  BY InitTypes, InitRecord, InitAudio DEF IInv, Init, Idle, WholeInv
<1>2. IInv /\ [Next]_vars => IInv'
  BY StepTypes, StepRecord, StepAudio, StepWhole DEF IInv, RecordInv
<1> QED BY <1>1, <1>2, PTL DEF Spec

\* Every variable has its type.
THEOREM TypeCorrect == Spec => []TypeOK
<1>1. IInv => TypeOK
  BY DEF IInv, TypeInv
<1> QED BY <1>1, Inductive, PTL

\* What Sonarr is on record with has been mapped, whatever failed and in whichever order
\* scans and changes come (live_dataset.py:214, application.py:192).
THEOREM OnRecordIsSeen == Spec => []InventoryIsSeen
<1>1. IInv => InventoryIsSeen
  BY DEF IInv, RecordInv
<1> QED BY <1>1, Inductive, PTL

\* After a normal scan a series is executed in one audio, whoever decided it; but for the
\* proposals of a season whose override has another, in which that season is executed
\* (live_dataset.py:229, application_store.py:585).
THEOREM SeriesHasOneAudio == Spec => []OneAudio
<1>1. IInv => OneAudio
  <2> SUFFICES ASSUME ModesAgree, NEW t \in Targets, Executable(t), t[1] \in settled
               PROVE  Executed(t) = master[t[1]] \/ (Proposed(t) /\ Executed(t) = override[t])
    BY DEF IInv, AudioInv, OneAudio
  <2>1. Mode(t) = master[t[1]]
    BY DEF ModesAgree
  <2> QED BY <2>1 DEF Executed
<1> QED BY <1>1, Inductive, PTL

\* No proposal rests on a part of the candidates of its series without a person being asked
\* (live_dataset.py:339).
THEOREM ProposalsAreWhole == Spec => WholeEvidence
<1>1. IInv /\ [Next]_vars =>
        [RecordScan =>
           LET new == scan.fresh.new IN
           \A t \in scan.dirty : new[t].state = "proposed" =>
             /\ ~Overflow(t[1]) /\ Entries # {}
             /\ \A u \in scan.fresh.missed[t] : \E s \in WorkSeries :
                  \A r \in scan.dirty : r[1] = s =>
                    u \in scan.fresh.missed[r] /\ new[r].state = "needs_review"]_vars
  BY DEF IInv, WholeInv, Whole, RecordScan
<1> QED BY <1>1, Inductive, PTL DEF Spec, WholeEvidence

(***************************************************************************)
(* The jobs.                                                               *)
(***************************************************************************)
\* What a process that is down has in memory.
DownIsEmpty ==
  service = "down" =>
    /\ lock = Free /\ pool = <<>> /\ adrift = {}
    /\ pc = AtRest("idle") /\ job = AtRest(NoJob)

\* A client that inserts or submits holds the lock; only one that submits has a job, an
\* active one, and then neither the pool nor the worker has any.
ClientsOK ==
  \A c \in Clients :
    /\ pc[c] \in {"insert", "submit"} => lock = c
    /\ pc[c] # "submit" => job[c] = NoJob
    /\ pc[c] = "submit" => /\ job[c] \in Jobs /\ status[job[c]] = "queued"
                           /\ pool = <<>> /\ pc[Worker] = "idle"

\* What the pool has is one active job, and the worker has none meanwhile.
PoolOK ==
  pool # <<>> =>
    /\ Len(pool) = 1 /\ pool[1] \in Jobs /\ status[pool[1]] = "queued"
    /\ pc[Worker] = "idle"

\* What the worker has is active.
WorkerOK ==
  /\ pc[Worker] = "idle" => job[Worker] = NoJob
  /\ pc[Worker] # "idle" => job[Worker] \in Jobs /\ status[job[Worker]] \in Active

JobsInv ==
  /\ JobsTypeOK /\ OneActive /\ FailedIsReported /\ ActiveIsHeld
  /\ DownIsEmpty /\ ClientsOK /\ PoolOK /\ WorkerOK

LEMMA ShortSeq == ASSUME NEW S, NEW x \in S PROVE <<>> \in Seq(S) /\ <<x>> \in Seq(S)
  OBVIOUS

LEMMA InitJobs == JobsInit => JobsInv
<1> SUFFICES ASSUME JobsInit PROVE JobsInv
  OBVIOUS
<1> USE ThreadsAssumption DEF JobsInit, AtRest, Threads, Clients, Jobs, Active, Final
<1>1. JobsTypeOK
  BY DEF JobsTypeOK, Steps
<1>2. OneActive /\ FailedIsReported /\ ActiveIsHeld
  BY DEF OneActive, ActiveJobs, FailedIsReported, ActiveIsHeld
<1>3. DownIsEmpty /\ ClientsOK /\ PoolOK /\ WorkerOK
  BY DEF DownIsEmpty, ClientsOK, PoolOK, WorkerOK
<1> QED
  BY <1>1, <1>2, <1>3 DEF JobsInv

LEMMA RestartKeeps == JobsInv /\ Restart => JobsInv'
<1> SUFFICES ASSUME JobsInv, Restart PROVE JobsInv'
  OBVIOUS
<1> USE ThreadsAssumption DEF Restart, memory, Interrupted, Active, Final
<1>1. JobsTypeOK'
  BY DEF JobsInv, JobsTypeOK
<1>2. \A j \in Jobs : status'[j] \notin Active
  BY DEF JobsInv, JobsTypeOK
<1>3. OneActive' /\ ActiveIsHeld'
  BY <1>2 DEF OneActive, ActiveIsHeld, ActiveJobs
<1>4. FailedIsReported'
  BY DEF JobsInv, JobsTypeOK, FailedIsReported
<1>5. DownIsEmpty'
  BY DEF DownIsEmpty
<1>6. /\ pool = <<>> /\ pc[Worker] = "idle" /\ job[Worker] = NoJob
      /\ \A c \in Clients : pc[c] = "idle" /\ job[c] = NoJob
  BY DEF JobsInv, DownIsEmpty, AtRest, Threads
<1>7. ClientsOK' /\ PoolOK' /\ WorkerOK'
  BY <1>6 DEF ClientsOK, PoolOK, WorkerOK
<1> QED
  BY <1>1, <1>3, <1>4, <1>5, <1>7 DEF JobsInv

LEMMA CrashKeeps == JobsInv /\ Crash => JobsInv'
<1> SUFFICES ASSUME JobsInv, Crash PROVE JobsInv'
  OBVIOUS
<1> USE ThreadsAssumption DEF Crash, rows, AtRest, Threads, Clients
<1>1. JobsTypeOK'
  BY DEF JobsInv, JobsTypeOK, Steps
<1>2. OneActive' /\ FailedIsReported' /\ ActiveIsHeld'
  BY DEF JobsInv, OneActive, ActiveJobs, FailedIsReported, ActiveIsHeld
<1>3. DownIsEmpty' /\ ClientsOK' /\ PoolOK' /\ WorkerOK'
  BY DEF DownIsEmpty, ClientsOK, PoolOK, WorkerOK
<1> QED
  BY <1>1, <1>2, <1>3 DEF JobsInv

LEMMA CloseKeeps == JobsInv /\ Close => JobsInv'
<1> SUFFICES ASSUME JobsInv, Close PROVE JobsInv'
  OBVIOUS
<1>1. UNCHANGED <<rows, memory>> /\ service = "up" /\ service' = "closed"
  BY DEF Close
<1>2. JobsTypeOK' /\ OneActive' /\ FailedIsReported' /\ ActiveIsHeld'
  BY <1>1 DEF JobsInv, JobsTypeOK, OneActive, ActiveJobs, FailedIsReported, ActiveIsHeld,
              InHand, InPool, rows, memory
<1>3. DownIsEmpty' /\ ClientsOK' /\ PoolOK' /\ WorkerOK'
  BY <1>1 DEF JobsInv, DownIsEmpty, ClientsOK, PoolOK, WorkerOK, rows, memory
<1> QED
  BY <1>2, <1>3 DEF JobsInv

-----------------------------------------------------------------------------
(* The clients                                                             *)

\* A client step that neither writes a row nor gives a job away, and leaves the job of
\* its client alone or absent.
LEMMA ClientMoves ==
  ASSUME JobsInv, NEW c \in Clients, service # "down", pc[c] # "submit",
         UNCHANGED <<rows, service, pool, adrift>>,
         NEW step \in {"idle", "start", "insert", "report"}, Goto(c, step),
         job' = job, lock' \in Clients \cup {Free},
         step = "insert" => lock' = c,
         \A d \in Clients \ {c} : pc[d] \in {"insert", "submit"} => lock' = d
  PROVE  JobsInv'
<1> USE ThreadsAssumption DEF Goto, rows, Threads
<1>1. JobsTypeOK'
  BY DEF JobsInv, JobsTypeOK, Steps
<1>2. OneActive' /\ FailedIsReported' /\ ActiveIsHeld'
  BY DEF JobsInv, OneActive, ActiveJobs, FailedIsReported, ActiveIsHeld, InHand, InPool
<1>3. pc'[Worker] = pc[Worker] /\ pc'[c] = step /\ \A d \in Clients \ {c} : pc'[d] = pc[d]
  BY DEF JobsInv, JobsTypeOK
<1>4. DownIsEmpty' /\ PoolOK' /\ WorkerOK'
  BY <1>3 DEF JobsInv, DownIsEmpty, PoolOK, WorkerOK
<1>5. ClientsOK'
  BY <1>3 DEF JobsInv, ClientsOK
<1> QED
  BY <1>1, <1>2, <1>4, <1>5 DEF JobsInv

LEMMA Awake ==
  ASSUME JobsInv, NEW t \in Threads, pc[t] # "idle" PROVE service # "down"
BY DEF JobsInv, DownIsEmpty, AtRest

LEMMA ClientKeeps ==
  ASSUME JobsInv, NEW c \in Clients, Ask(c) \/ ClientStep(c) PROVE JobsInv'
<1> USE ThreadsAssumption DEF Threads
<1>0. /\ \A d \in Clients : pc[d] \in {"insert", "submit"} => lock = d
      /\ lock \in Clients \cup {Free} /\ pc[c] \in Steps
      /\ job \in [Threads -> Jobs \cup {NoJob}]
  BY DEF JobsInv, ClientsOK, JobsTypeOK
<1>1. CASE Ask(c)
  BY <1>0, <1>1, ClientMoves DEF Ask
<1>2. CASE Enter(c)
  <2>1. service # "down" /\ lock = Free
    BY <1>2, Awake DEF Enter
  <2> QED
    BY <1>0, <1>2, <2>1, ClientMoves DEF Enter
<1>3. ASSUME pc[c] = "insert", NEW raised \in BOOLEAN, Leave(c, raised),
             UNCHANGED <<rows, service, pool, adrift>>
      PROVE  JobsInv'
  <2>1. service # "down" /\ lock = c
    BY <1>0, <1>3, Awake
  <2>2. job[c] = NoJob
    BY <1>3 DEF JobsInv, ClientsOK
  <2>3. job' = job
    BY <1>0, <1>3, <2>2 DEF Leave
  <2>4. \A d \in Clients \ {c} : pc[d] \notin {"insert", "submit"}
    BY <1>0, <2>1
  <2>5. PICK step \in {"idle", "report"} : Goto(c, step)
    BY <1>3 DEF Leave
  <2> QED
    BY <1>3, <2>1, <2>3, <2>4, <2>5, ClientMoves DEF Leave
<1>4. CASE Coalesce(c)
  BY <1>3, <1>4 DEF Coalesce
<1>5. CASE InsertFails(c)
  BY <1>3, <1>5 DEF InsertFails
<1>6. ASSUME NEW j \in Jobs, Insert(c, j) PROVE JobsInv'
  <2> USE <1>6 DEF Insert, Goto, Coalescible
  <2>1. service # "down" /\ lock = c
    BY <1>0, Awake
  <2>2. ActiveJobs = {}
    BY DEF ActiveJobs
  <2>3. pool = <<>> /\ pc[Worker] = "idle"
    BY DEF JobsInv, PoolOK, WorkerOK, Active
  <2>4. JobsTypeOK'
    BY DEF JobsInv, JobsTypeOK, Steps, Active
  <2>5. ActiveJobs' = {j} /\ status'[j] = "queued"
    BY <2>2 DEF JobsInv, JobsTypeOK, ActiveJobs, Active
  <2>6. OneActive' /\ FailedIsReported'
    BY <2>5 DEF JobsInv, JobsTypeOK, OneActive, FailedIsReported
  <2>7. job'[c] = j /\ pc'[c] = "submit" /\ pc'[Worker] = "idle" /\ job'[Worker] = NoJob
    BY <2>3 DEF JobsInv, JobsTypeOK, WorkerOK
  <2>8. ActiveIsHeld'
    BY <2>5, <2>7 DEF ActiveIsHeld, InHand
  <2>9. \A d \in Clients \ {c} :
          pc'[d] = pc[d] /\ job'[d] = job[d] /\ pc[d] \notin {"insert", "submit"}
    BY <1>0, <2>1 DEF JobsInv, JobsTypeOK
  <2>10. ClientsOK'
    BY <2>1, <2>3, <2>5, <2>7, <2>9 DEF JobsInv, ClientsOK
  <2>11. DownIsEmpty' /\ PoolOK' /\ WorkerOK'
    BY <2>1, <2>3, <2>7 DEF DownIsEmpty, PoolOK, WorkerOK
  <2> QED
    BY <2>4, <2>6, <2>8, <2>10, <2>11 DEF JobsInv
<1>7. ASSUME pc[c] = "submit", NEW raised \in BOOLEAN, Leave(c, raised),
             UNCHANGED <<rows, service>>, pool' \in {<<>>, <<job[c]>>},
             pool' = <<>> => adrift' = adrift \cup {job[c]},
             pool' # <<>> => adrift' = adrift
      PROVE  JobsInv'
  <2>1. service # "down" /\ lock = c
    BY <1>0, <1>7, Awake
  <2>2. job[c] \in Jobs /\ status[job[c]] = "queued" /\ pool = <<>> /\ pc[Worker] = "idle"
    BY <1>7 DEF JobsInv, ClientsOK
  <2>3. PICK step \in {"idle", "report"} : Goto(c, step)
    BY <1>7 DEF Leave
  <2>4. /\ job'[c] = NoJob /\ pc'[c] = step
        /\ \A t \in Threads \ {c} : job'[t] = job[t] /\ pc'[t] = pc[t]
    BY <1>7, <2>3 DEF JobsInv, JobsTypeOK, Leave, Goto
  <2>5. JobsTypeOK'
    <3>1. pool' \in Seq(Jobs)
      <4>1. <<>> \in Seq(Jobs) /\ <<job[c]>> \in Seq(Jobs)
        BY <2>2, ShortSeq
      <4>2. pool' = <<>> \/ pool' = <<job[c]>>
        BY <1>7
      <4> QED
        BY <4>1, <4>2, Zenon
    <3>2. adrift' \subseteq Jobs
      BY <1>7, <2>2 DEF JobsInv, JobsTypeOK
    <3>3. pc' \in [Threads -> Steps] /\ job' \in [Threads -> Jobs \cup {NoJob}]
      BY <1>7, <2>3 DEF JobsInv, JobsTypeOK, Leave, Goto, Steps
    <3> QED
      BY <1>7, <3>1, <3>2, <3>3 DEF JobsInv, JobsTypeOK, Leave, rows
  <2>6. ActiveJobs' = ActiveJobs /\ OneActive' /\ FailedIsReported'
    BY <1>7 DEF JobsInv, OneActive, ActiveJobs, FailedIsReported, rows
  <2>7. ASSUME NEW j \in ActiveJobs', j \notin adrift' PROVE InHand(j)' \/ InPool(j)'
    <3>1. job[c] \in ActiveJobs
      BY <2>2 DEF ActiveJobs, Active
    <3>2. j = job[c]
      BY <2>6, <2>7, <3>1 DEF JobsInv, OneActive
    <3>3. pool' = <<job[c]>>
      BY <1>7, <2>7, <3>2
    <3> QED
      BY <3>2, <3>3 DEF InPool
  <2>8. ActiveIsHeld'
    BY <2>7 DEF ActiveIsHeld
  <2>9. ClientsOK'
    BY <1>0, <1>7, <2>1, <2>4 DEF JobsInv, ClientsOK, rows
  <2>10. DownIsEmpty' /\ PoolOK' /\ WorkerOK'
    BY <1>7, <2>1, <2>2, <2>4 DEF JobsInv, DownIsEmpty, PoolOK, WorkerOK, rows
  <2> QED
    BY <2>5, <2>6, <2>8, <2>9, <2>10 DEF JobsInv
<1>8. pc[c] = "submit" => pool = <<>> /\ job[c] \in Jobs
  BY DEF JobsInv, ClientsOK
<1>9. CASE Submit(c)
  <2>1. pc[c] = "submit" /\ pool = <<>> /\ job[c] \in Jobs
    BY <1>8, <1>9 DEF Submit
  <2>2. Append(<<>>, job[c]) = <<job[c]>>
    OBVIOUS
  <2>3. pool' = <<job[c]>> /\ pool' # <<>>
    BY <1>9, <2>1, <2>2 DEF Submit
  <2> QED
    BY <1>7, <1>9, <2>1, <2>3 DEF Submit
<1>10. CASE Refused(c)
  BY <1>7, <1>8, <1>10 DEF Refused
<1> QED
  BY <1>1, <1>2, <1>4, <1>5, <1>6, <1>9, <1>10 DEF ClientStep

LEMMA ReportKeeps == JobsInv /\ Report => JobsInv'
<1> SUFFICES ASSUME JobsInv, Report PROVE JobsInv'
  OBVIOUS
<1>1. Loop \in Clients /\ service # "down"
  BY Awake DEF Report, Clients, Threads
<1>2. lock \in Clients \cup {Free} /\ \A d \in Clients : pc[d] \in {"insert", "submit"} => lock = d
  BY DEF JobsInv, JobsTypeOK, ClientsOK
<1> QED
  BY <1>1, <1>2, ClientMoves DEF Report

-----------------------------------------------------------------------------
(* The worker                                                              *)

LEMMA WorkerKeeps == JobsInv /\ WorkerStep => JobsInv'
<1> SUFFICES ASSUME JobsInv, WorkerStep PROVE JobsInv'
  OBVIOUS
<1> USE ThreadsAssumption
<1>0. Worker \in Threads /\ \A c \in Clients : c \in Threads /\ c # Worker
  BY DEF Threads
<1>1. CASE Take
  <2> USE <1>1 DEF Take, Goto, rows
  <2>1. pool = <<pool[1]>> /\ pool[1] \in Jobs /\ status[pool[1]] = "queued"
    BY DEF JobsInv, PoolOK, JobsTypeOK
  <2>2. Head(pool) = pool[1] /\ pool' = <<>>
    <3>1. pool \in Seq(Jobs) /\ pool # <<>> /\ Len(pool) = 1
      BY DEF JobsInv, JobsTypeOK, PoolOK
    <3>2. Head(pool) = pool[1] /\ Tail(pool) \in Seq(Jobs) /\ Len(Tail(pool)) = 0
      BY <3>1, HeadTailProperties
    <3> QED
      BY <3>2, EmptySeq
  <2>3. /\ job'[Worker] = pool[1] /\ pc'[Worker] = "begin"
        /\ \A c \in Clients : job'[c] = job[c] /\ pc'[c] = pc[c]
    BY <1>0, <2>2 DEF JobsInv, JobsTypeOK
  <2>4. \A c \in Clients : pc[c] # "submit"
    BY DEF JobsInv, ClientsOK
  <2>5. service # "down"
    BY DEF JobsInv, DownIsEmpty
  <2>6. JobsTypeOK'
    <3>1. pool' \in Seq(Jobs)
      BY <2>1, <2>2, ShortSeq, Zenon
    <3>2. pc' \in [Threads -> Steps] /\ job' \in [Threads -> Jobs \cup {NoJob}]
      BY <1>0, <2>1, <2>2 DEF JobsInv, JobsTypeOK, Steps
    <3> QED
      BY <3>1, <3>2 DEF JobsInv, JobsTypeOK
  <2>7. OneActive' /\ FailedIsReported' /\ ActiveJobs' = ActiveJobs
    BY DEF JobsInv, OneActive, ActiveJobs, FailedIsReported
  <2>8. \A j \in ActiveJobs : j = pool[1]
    BY <2>1 DEF JobsInv, OneActive, ActiveJobs, Active
  <2>9. ActiveIsHeld'
    BY <1>0, <2>3, <2>7, <2>8 DEF ActiveIsHeld, InHand
  <2>10. ClientsOK' /\ DownIsEmpty' /\ PoolOK' /\ WorkerOK'
    BY <2>1, <2>2, <2>3, <2>4, <2>5 DEF JobsInv, ClientsOK, DownIsEmpty, PoolOK, WorkerOK, Active
  <2> QED
    BY <2>6, <2>7, <2>9, <2>10 DEF JobsInv
<1>2. ASSUME pc[Worker] # "idle" PROVE /\ service # "down" /\ pool = <<>>
                                       /\ \A c \in Clients : pc[c] # "submit"
                                       /\ job[Worker] \in Jobs /\ status[job[Worker]] \in Active
  BY <1>0, <1>2, Awake DEF JobsInv, PoolOK, ClientsOK, WorkerOK
<1>3. \* The worker keeps its job, whose row stays active.
      ASSUME pc[Worker] # "idle", NEW step \in {"scan", "complete", "fail"}, Goto(Worker, step),
             UNCHANGED <<reports, service, lock, pool, job, adrift>>,
             \/ status' = status
             \/ status' = [status EXCEPT ![job[Worker]] = "running"]
      PROVE  JobsInv'
  <2> USE <1>2, <1>3 DEF Goto
  <2>1. JobsTypeOK'
    BY DEF JobsInv, JobsTypeOK, Steps, Active
  <2>2. \A j \in Jobs : (status'[j] \in Active) = (status[j] \in Active) /\
                        (status'[j] = "failed") = (status[j] = "failed")
    BY DEF JobsInv, JobsTypeOK, Active
  <2>3. ActiveJobs' = ActiveJobs
    BY <2>2 DEF ActiveJobs
  <2>4. OneActive' /\ FailedIsReported' /\ ActiveIsHeld'
    BY <2>2, <2>3 DEF JobsInv, OneActive, FailedIsReported, ActiveIsHeld, InHand, InPool
  <2>5. pc'[Worker] = step /\ \A c \in Clients : pc'[c] = pc[c]
    BY <1>0 DEF JobsInv, JobsTypeOK
  <2>6. ClientsOK' /\ DownIsEmpty' /\ PoolOK' /\ WorkerOK'
    BY <2>2, <2>5 DEF JobsInv, ClientsOK, DownIsEmpty, PoolOK, WorkerOK
  <2> QED
    BY <2>1, <2>4, <2>6 DEF JobsInv
<1>4. \* The worker lets its job go, closed or adrift.
      ASSUME pc[Worker] # "idle", Rest, UNCHANGED <<service, lock, pool>>,
             \/ /\ adrift' = adrift \cup {job[Worker]}
                /\ UNCHANGED rows
             \/ /\ status' = [status EXCEPT ![job[Worker]] = "completed"]
                /\ UNCHANGED <<reports, adrift>>
             \/ /\ status' = [status EXCEPT ![job[Worker]] = "failed"]
                /\ reports' = [reports EXCEPT ![job[Worker]] = @ + 1]
                /\ UNCHANGED adrift
      PROVE  JobsInv'
  <2> USE <1>2, <1>4 DEF Rest, Goto, rows
  <2>1. JobsTypeOK'
    <3>1. status' \in [Jobs -> {"none"} \cup Active \cup Final]
      BY DEF JobsInv, JobsTypeOK, Active, Final
    <3>2. reports' \in [Jobs -> Nat]
      BY DEF JobsInv, JobsTypeOK
    <3>3. pc' \in [Threads -> Steps] /\ job' \in [Threads -> Jobs \cup {NoJob}]
      BY DEF JobsInv, JobsTypeOK, Steps
    <3> QED
      BY <3>1, <3>2, <3>3 DEF JobsInv, JobsTypeOK
  <2>2. ActiveJobs' \subseteq ActiveJobs /\ FailedIsReported'
    BY DEF JobsInv, JobsTypeOK, ActiveJobs, FailedIsReported, Active, Final
  <2>3. \A j \in ActiveJobs : j = job[Worker]
    BY DEF JobsInv, OneActive, ActiveJobs
  <2>4. job[Worker] \in adrift' \/ job[Worker] \notin ActiveJobs'
    BY DEF JobsInv, JobsTypeOK, ActiveJobs, Active
  <2>5. OneActive' /\ ActiveIsHeld'
    BY <2>2, <2>3, <2>4 DEF JobsInv, OneActive, ActiveIsHeld
  <2>6. /\ pc'[Worker] = "idle" /\ job'[Worker] = NoJob
        /\ \A c \in Clients : pc'[c] = pc[c] /\ job'[c] = job[c]
    BY <1>0 DEF JobsInv, JobsTypeOK
  <2>7. ClientsOK' /\ DownIsEmpty' /\ PoolOK' /\ WorkerOK'
    BY <2>6 DEF JobsInv, ClientsOK, DownIsEmpty, PoolOK, WorkerOK
  <2> QED
    BY <2>1, <2>2, <2>5, <2>7 DEF JobsInv
<1>5. CASE BeginJob
  BY <1>3, <1>4, <1>5 DEF BeginJob, rows
<1>6. CASE Scan
  BY <1>3, <1>6 DEF Scan, Handled, rows
<1>7. CASE Complete
  BY <1>3, <1>4, <1>7 DEF Complete, Handled, rows
<1>8. CASE Fail
  BY <1>4, <1>8 DEF Fail, Failed, rows
<1> QED
  BY <1>1, <1>5, <1>6, <1>7, <1>8 DEF WorkerStep

LEMMA StepKeeps == JobsInv /\ [JobsNext]_jobVars => JobsInv'
<1> SUFFICES ASSUME JobsInv, [JobsNext]_jobVars PROVE JobsInv'
  OBVIOUS
<1>1. CASE JobsNext
  BY <1>1, RestartKeeps, CrashKeeps, CloseKeeps, ClientKeeps, ReportKeeps, WorkerKeeps DEF JobsNext
<1>2. CASE UNCHANGED jobVars
  BY <1>2 DEF jobVars, JobsInv, JobsTypeOK, OneActive, ActiveJobs, FailedIsReported, ActiveIsHeld, InHand,
              InPool, DownIsEmpty, ClientsOK, PoolOK, WorkerOK
<1> QED
  BY <1>1, <1>2

THEOREM JobsInvariance == JobsSpec => []JobsInv
<1>1. QED
  BY InitJobs, StepKeeps, PTL DEF JobsSpec

-----------------------------------------------------------------------------
\* Every variable of the scan jobs keeps its type.
THEOREM JobTypes == JobsSpec => []JobsTypeOK
<1>1. JobsInv => JobsTypeOK
  BY DEF JobsInv
<1> QED
  BY <1>1, JobsInvariance, PTL

\* At most one scan is active (ScanJobs.start and the clean-up of a start), for any number
\* of requests, jobs, crashes and failing transactions.
THEOREM OneScan == JobsSpec => []OneActive
<1>1. JobsInv => OneActive
  BY DEF JobsInv
<1> QED
  BY <1>1, JobsInvariance, PTL

\* A job has one failure event in the outbox exactly if it failed.
THEOREM FailuresAreReported == JobsSpec => []FailedIsReported
<1>1. JobsInv => FailedIsReported
  BY DEF JobsInv
<1> QED
  BY <1>1, JobsInvariance, PTL

\* An active job is in the pool or in the hands of a thread, unless its bookkeeping failed
\* (the first update of _run, the last one, or a pool that was shut down).
THEOREM NoScanForgotten == JobsSpec => []ActiveIsHeld
<1>1. JobsInv => ActiveIsHeld
  BY DEF JobsInv
<1> QED
  BY <1>1, JobsInvariance, PTL

\* What a job ended as is final, though the worker's updates ask for no earlier status.
THEOREM OutcomesAreFinal == JobsSpec => JobIsFinal
<1>1. JobsInv /\ [JobsNext]_jobVars =>
        [\A j \in Jobs : status[j] \in Final => status'[j] = status[j]]_jobVars
  <2> SUFFICES ASSUME JobsInv, JobsNext, NEW j \in Jobs, status[j] \in Final
               PROVE  status'[j] = status[j]
    BY DEF JobIsFinal
  <2> USE DEF Final, Active, rows
  <2>1. status \in [Jobs -> {"none"} \cup Active \cup Final]
    BY DEF JobsInv, JobsTypeOK
  <2>2. pc[Worker] # "idle" => job[Worker] # j
    BY DEF JobsInv, WorkerOK
  <2>3. CASE Restart \/ Close \/ Crash
    BY <2>1, <2>3 DEF Restart, Close, Crash, Interrupted
  <2>4. ASSUME NEW c \in Clients, Ask(c) \/ ClientStep(c) PROVE status'[j] = status[j]
    BY <2>1, <2>4 DEF Ask, ClientStep, Enter, Coalesce, Insert, InsertFails, Submit, Refused
  <2>5. CASE Report \/ WorkerStep
    BY <2>1, <2>2, <2>5 DEF Report, WorkerStep, Take, BeginJob, Scan, Complete, Fail, Failed
  <2> QED
    BY <2>3, <2>4, <2>5 DEF JobsNext
<1> QED
  BY <1>1, JobsInvariance, PTL DEF JobsSpec, JobIsFinal

=============================================================================
