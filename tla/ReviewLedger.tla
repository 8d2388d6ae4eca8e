------------------------------ MODULE ReviewLedger -----------------------------
(***************************************************************************)
(* The review ledger of V4 (src/v4/application_store.py): mapping items,   *)
(* their review states and revisions, which item is current for each       *)
(* target, the season overrides, the writer claims and the execution       *)
(* attempts, with the three parties that race for them: the library scan   *)
(* (src/v4/application.py), the clients of the API (reviewers and the      *)
(* download scheduler) and the cut-over between the V3 and V4 writers.     *)
(*                                                                         *)
(* Every action is one transaction, or one read whose result a later       *)
(* transaction uses: other transactions may come in between.               *)
(***************************************************************************)
EXTENDS Naturals, FiniteSets

CONSTANTS
  Items,       (* identities of mapping items                                *)
  Targets,     (* Sonarr seasons                                             *)
  Contents,    (* what else a snapshot holds: candidates, plans, evidence    *)
  Outcomes,    (* the states a scan may give a new item                      *)
  Audios,      (* the audio preferences, SUB and DUB                         *)
  ReviewActions, (* the actions reviewers take                               *)
  Clients,     (* reviewers and workers                                      *)
  V3, V4,      (* the two writers, each with its owner token                 *)
  Claimers,    (* the writers that claim and transfer targets                *)
  Editable,    (* the targets whose override is edited                       *)
  NoItem, NoSnapshot, NoAudio, NoApproval, NoOne, Idle, (* absent values     *)
  Whole,       (* the scope of an execution of a whole plan                  *)
  Preclaimed,  (* whether a reservation needs claims made beforehand         *)
  MaxRevision, (* bound on the revision a review action may reach            *)
  MaxAttempts  (* bound on the number of attempts                            *)

ASSUME BoundsAssumption ==
  /\ Outcomes \subseteq {"proposed", "needs_review", "waiting"}
  /\ ReviewActions \subseteq {"approve", "choose", "reject", "dismiss", "reopen"}
  /\ Claimers \subseteq {V3, V4}
  /\ Editable \subseteq Targets
  /\ MaxRevision \in Nat
  /\ MaxAttempts \in Nat
  /\ Preclaimed \in BOOLEAN

\* "airing" and "unavailable" are treated as "waiting" everywhere in this ledger.
Snapshots  == [targets : (SUBSET Targets) \ {{}}, content : Contents, state : Outcomes]

MappingStates == {"none", "proposed", "needs_review", "waiting", "approved", "rejected",
                  "superseded"}
ReviewStates  == {"none", "not_required", "open", "resolved", "rejected", "dismissed",
                  "superseded"}
Approving == {"approve", "choose"}

\* A manual approval is bound to the item, its revision and the target it was given for.
Approvals == [item : Items, revision : Nat, target : Targets, audio : Audios]
Overrides == [active   : BOOLEAN,    \* something that takes the season out of automation
              audio    : Audios \cup {NoAudio},
              approval : Approvals \cup {NoApproval}]
NoOverride == [active |-> FALSE, audio |-> NoAudio, approval |-> NoApproval]

\* The identity of an execution.
Keys == [item     : Items,
         revision : Nat,
         scope    : Targets \cup {Whole},
         audio    : Audios \cup {NoAudio},
         approval : Approvals \cup {NoApproval}]

\* What a client is shown: the states of an item, its revision and its manual approvals.
Views == MappingStates \X ReviewStates \X (ReviewActions \cup {"none"})

Requests == [item : Items, revision : Nat, view : Views, approvals : SUBSET Approvals]

ASSUME AbsentAssumption ==
  /\ NoItem \notin Items
  /\ NoSnapshot \notin Snapshots
  /\ NoAudio \notin Audios
  /\ NoApproval \notin Approvals
  /\ Idle \notin Requests
  /\ Whole \notin Targets
  /\ V3 # V4 /\ NoOne \notin {V3, V4}

VARIABLES
  snapshot,   (* the immutable snapshot of each item                         *)
  mapping,    (* its mapping state                                           *)
  review,     (* its review state                                            *)
  revision,   (* how often its state changed                                 *)
  decision,   (* the last human action on it                                 *)
  current,    (* the item that is current for each target                    *)
  validation, (* the provider validation row of each item                    *)
  override,   (* the season override of each target                          *)
  claim,      (* the writer each target belongs to                           *)
  opened,     (* executions reserved and not finished                        *)
  closed,     (* executions completed or failed                              *)
  reached,    (* executions handed to the downstream adapter                 *)
  scan,       (* what the running scan knows                                 *)
  request     (* what each client read                                       *)

items    == <<snapshot, mapping, review, revision, decision, current>>
attempts == <<opened, closed, reached>>
vars     == <<items, validation, override, claim, attempts, scan, request>>

NoScan == [phase |-> "idle", preserved |-> {}, unsure |-> {}]

Created(i)    == snapshot[i] # NoSnapshot
Superseded(i) == mapping[i] = "superseded"
TargetsOf(i)  == IF Created(i) THEN snapshot[i].targets ELSE {}

\* What a client is shown of the state of an item.
View(i) == <<mapping[i], review[i], decision[i]>>

TypeOK ==
  /\ snapshot   \in [Items -> Snapshots \cup {NoSnapshot}]
  /\ mapping    \in [Items -> MappingStates]
  /\ review     \in [Items -> ReviewStates]
  /\ revision   \in [Items -> Nat]
  /\ decision   \in [Items -> ReviewActions \cup {"none"}]
  /\ current    \in [Targets -> Items \cup {NoItem}]
  /\ validation \in [Items -> {"absent", "current", "unsure"}]
  /\ override   \in [Targets -> Overrides]
  /\ claim      \in [Targets -> {V3, V4, NoOne}]
  /\ opened  \subseteq Keys
  /\ closed  \subseteq Keys
  /\ reached \subseteq opened \cup closed
  /\ scan    \in [phase : {"idle", "reading", "unsure", "current"},
                  preserved : SUBSET Items, unsure : SUBSET Items]
  /\ request \in [Clients -> Requests \cup {Idle}]

Init ==
  /\ snapshot   = [i \in Items |-> NoSnapshot]
  /\ mapping    = [i \in Items |-> "none"]
  /\ review     = [i \in Items |-> "none"]
  /\ revision   = [i \in Items |-> 0]
  /\ decision   = [i \in Items |-> "none"]
  /\ current    = [t \in Targets |-> NoItem]
  /\ validation = [i \in Items |-> "absent"]
  /\ override   = [t \in Targets |-> NoOverride]
  /\ claim      = [t \in Targets |-> NoOne]
  /\ opened = {} /\ closed = {} /\ reached = {}
  /\ scan = NoScan
  /\ request = [c \in Clients |-> Idle]

-----------------------------------------------------------------------------
(* The scan                                                                *)

\* A scan reads the current items and checks them against Sonarr and the provider: those
\* it can preserve are only proposals and approvals; some of them are invalid, of some the
\* evidence could not be checked this time.
ScanRead ==
  /\ scan.phase = "idle"
  /\ \E candidates \in SUBSET {i \in Items : \E t \in Targets : current[t] = i} :
       /\ candidates \subseteq {i \in Items : mapping[i] \in {"proposed", "approved"}}
       /\ \E invalid \in SUBSET candidates, unchecked \in SUBSET candidates :
            scan' = [phase     |-> "reading",
                     preserved |-> candidates \ invalid,
                     unsure    |-> invalid \cup unchecked]
  /\ UNCHANGED <<items, validation, override, claim, attempts, request>>

\* The groups a scan may hand to record_scan: disjoint ones, the preserved snapshots
\* among them.
Disjoint(groups) == \A g, h \in groups : g # h => g.targets \cap h.targets = {}
Scans == {groups \in SUBSET Snapshots : Disjoint(groups)}

Frozen == {snapshot[i] : i \in scan.preserved}

Owners(ts) == {current[t] : t \in ts} \ {NoItem}

\* Mutation: only the owner of a group's first target is looked up.
FirstOwnerOf(group) == {current[CHOOSE t \in group.targets : TRUE]} \ {NoItem}

OwnersOf(group) == Owners(group.targets)

\* Mutation: an item a reviewer has touched is replaced even if nothing changed.
UntouchedKept(group) ==
  \E i \in Items : OwnersOf(group) = {i} /\ snapshot[i] = group /\ mapping[i] = group.state

\* A group whose targets have one owner with the same snapshot changes nothing.
Kept(group) == \E i \in Items : OwnersOf(group) = {i} /\ snapshot[i] = group

\* The items that stop being current: a target of theirs left the library, or a new
\* group takes one.
Removed(groups) ==
  LET live == UNION {g.targets : g \in groups} IN
  {i \in Items : LET owned == {t \in Targets : current[t] = i} IN
                 owned # {} /\ ~(owned \subseteq live)}
Replaced(groups) == UNION {OwnersOf(g) : g \in {h \in groups : ~Kept(h)}}
Gone(groups)     == Removed(groups) \cup Replaced(groups)

\* Mutation: supersession is not a change of the review state.
SilentRevision(i) == revision[i]

\* Supersession counts as a change of the item.
SupersededRevision(i) == revision[i] + 1

\* Only what needs a review is open.
FirstReview(group) == IF group.state = "needs_review" THEN "open" ELSE "not_required"

\* One transaction: what is gone is superseded and what is new becomes current.
RecordScan(groups, new) ==
  LET gone == Gone(groups)
      GroupOf(i) == CHOOSE g \in DOMAIN new : new[g] = i
      added == {new[g] : g \in DOMAIN new}
  IN
  /\ scan.phase = "reading"
  /\ Frozen \subseteq groups
  /\ snapshot' = [i \in Items |-> IF i \in added THEN GroupOf(i) ELSE snapshot[i]]
  /\ mapping'  = [i \in Items |-> IF i \in added THEN GroupOf(i).state
                                  ELSE IF i \in gone THEN "superseded" ELSE mapping[i]]
  /\ review'   = [i \in Items |-> IF i \in added THEN FirstReview(GroupOf(i))
                                  ELSE IF i \in gone THEN "superseded" ELSE review[i]]
  /\ revision' = [i \in Items |-> IF i \in gone THEN SupersededRevision(i) ELSE revision[i]]
  /\ current'  = [t \in Targets |->
                    IF \E g \in DOMAIN new : t \in g.targets
                    THEN new[CHOOSE g \in DOMAIN new : t \in g.targets]
                    ELSE IF current[t] \in gone THEN NoItem ELSE current[t]]
  /\ scan' = [scan EXCEPT !.phase = "unsure"]
  /\ UNCHANGED <<decision, validation, override, claim, attempts, request>>

\* Each group that is not kept becomes an item with a fresh identity.
SomeScan ==
  \E groups \in Scans :
    LET added == {g \in groups : ~Kept(g)} IN
    \E new \in [added -> {i \in Items : ~Created(i)}] :
      /\ \A g, h \in added : g # h => new[g] # new[h]
      /\ RecordScan(groups, new)

\* Transactions of their own write the validation rows: first what could not be
\* confirmed, then what was.
MarkUnsure ==
  /\ scan.phase = "unsure"
  /\ validation' = [i \in Items |-> IF i \in scan.unsure THEN "unsure" ELSE validation[i]]
  /\ scan' = [scan EXCEPT !.phase = "current"]
  /\ UNCHANGED <<items, override, claim, attempts, request>>

MarkCurrent ==
  /\ scan.phase = "current"
  /\ validation' = [i \in Items |->
                      IF i \in scan.preserved \ scan.unsure THEN "current" ELSE validation[i]]
  /\ scan' = NoScan
  /\ UNCHANGED <<items, override, claim, attempts, request>>

\* The scan fails, or the process restarts, between two of its transactions.
ScanFails ==
  /\ scan.phase # "idle"
  /\ scan' = NoScan
  /\ UNCHANGED <<items, validation, override, claim, attempts, request>>

-----------------------------------------------------------------------------
(* Clients: review actions and season overrides                            *)

\* A client is shown an item and the manual approvals of its targets.
Read(c, i) ==
  /\ request[c] = Idle
  /\ Created(i)
  /\ request' = [request EXCEPT ![c] =
       [item |-> i, revision |-> revision[i], view |-> View(i),
        approvals |-> {override[t].approval : t \in TargetsOf(i)} \ {NoApproval}]]
  /\ UNCHANGED <<items, validation, override, claim, attempts, scan>>

Answered(c) == request' = [request EXCEPT ![c] = Idle]

\* The client goes no further, or is refused.
Forget(c) ==
  /\ request[c] # Idle
  /\ Answered(c)
  /\ UNCHANGED <<items, validation, override, claim, attempts, scan>>

\* Mutation: the revision a client acts on is not compared.
AnyFresh(i, expected) == ~Superseded(i)

\* A review action is refused on a stale revision and on a superseded item.
Fresh(i, expected) == revision[i] = expected /\ ~Superseded(i)

\* Mutation: reopening brings the proposal back.
RestoringMapping(action) ==
  CASE action \in Approving -> "approved"
    [] action = "reject"    -> "rejected"
    [] action = "reopen"    -> "proposed"
    [] OTHER                -> "needs_review"

\* The states an action leads to.
NextMapping(action) ==
  CASE action \in Approving -> "approved"
    [] action = "reject"    -> "rejected"
    [] OTHER                -> "needs_review"
NextReview(action) ==
  CASE action \in Approving -> "resolved"
    [] action = "reject"    -> "rejected"
    [] action = "dismiss"   -> "dismissed"
    [] OTHER                -> "open"

\* Only closed decisions reopen; only open items are decided.
Decidable(i, action) ==
  IF action = "reopen"
  THEN review[i] \in {"resolved", "rejected", "dismissed"}
  ELSE mapping[i] \in {"proposed", "needs_review"} /\ review[i] # "dismissed"

Transition(c, action) ==
  LET i == request[c].item IN
  /\ request[c] # Idle
  /\ Fresh(i, request[c].revision)
  /\ Decidable(i, action)
  /\ revision[i] < MaxRevision
  /\ mapping'  = [mapping EXCEPT ![i] = NextMapping(action)]
  /\ review'   = [review EXCEPT ![i] = NextReview(action)]
  /\ decision' = [decision EXCEPT ![i] = action]
  /\ revision' = [revision EXCEPT ![i] = @ + 1]
  /\ Answered(c)
  /\ UNCHANGED <<snapshot, current, validation, override, claim, attempts, scan>>

\* validate_override: an approval by hand needs sources and an audio.
Admissible(active, audio, approve) == approve => active /\ audio # NoAudio

\* The override of a target that is current; an approval was validated live for the item
\* and the revision the client read.
SetOverride(c, t, active, audio, approve) ==
  LET r == request[c] IN
  /\ r # Idle
  /\ r.view[1] # "superseded"
  /\ t \in TargetsOf(r.item) \cap Editable
  /\ current[t] # NoItem
  /\ Admissible(active, audio, approve)
  /\ active \/ audio # NoAudio
  /\ override' = [override EXCEPT ![t] =
       [active |-> active, audio |-> audio,
        approval |-> IF approve
                     THEN [item |-> r.item, revision |-> r.revision, target |-> t,
                           audio |-> audio]
                     ELSE NoApproval]]
  /\ Answered(c)
  /\ UNCHANGED <<items, validation, claim, attempts, scan>>

ClearOverride(t) ==
  /\ override[t] # NoOverride
  /\ override' = [override EXCEPT ![t] = NoOverride]
  /\ UNCHANGED <<items, validation, claim, attempts, scan, request>>

-----------------------------------------------------------------------------
(* Executions                                                              *)

\* The targets an execution writes to.
Scope(k) == IF k.scope = Whole THEN TargetsOf(k.item) ELSE {k.scope}

\* Every target of the plan still points to the item.
IsCurrent(i) == Owners(TargetsOf(i)) = {i}

\* An item without a validation row passes.
Validated(i) == validation[i] \in {"absent", "current"}

\* The writer holds the targets, or may take the free ones.
Claimable(ts) ==
  \A t \in ts : claim[t] = V4 \/ (~Preclaimed /\ claim[t] = NoOne)

\* The key is unused; claim and reservation are one transaction.
Open(k) ==
  /\ k \notin opened \cup closed
  /\ Cardinality(opened \cup closed) < MaxAttempts
  /\ Claimable(Scope(k))
  /\ claim'  = [t \in Targets |-> IF t \in Scope(k) THEN V4 ELSE claim[t]]
  /\ opened' = opened \cup {k}
  /\ UNCHANGED <<items, validation, override, closed, reached, scan>>

Asked(i, expected) == revision[i] = expected

\* The coordinates of a plan an execution may be for.
ScopesOf(i) == TargetsOf(i) \cup {Whole}

\* What identifies an execution is what its envelope is made from: the item as it is now, and
\* for a manual one the approval.
Identity(i, scope, audio, approval) ==
  [item |-> i, revision |-> revision[i], scope |-> scope, audio |-> audio,
   approval |-> approval]
ApprovedEnvelope(i, scope)         == Identity(i, scope, NoAudio, NoApproval)
AutomaticEnvelope(i, scope, audio) == Identity(i, scope, audio, NoApproval)
ManualEnvelope(i, t)               == Identity(i, t, NoAudio, override[t].approval)

\* A human-approved plan.
ReserveApproved(c, scope) ==
  LET r == request[c]  i == r.item IN
  /\ r # Idle
  /\ mapping[i] = "approved" /\ review[i] = "resolved"
  /\ decision[i] \in Approving
  /\ Asked(i, r.revision)
  /\ scope \in ScopesOf(i)
  /\ IsCurrent(i)
  /\ Validated(i)
  /\ Open(ApprovedEnvelope(i, scope))
  /\ Answered(c)

\* A deterministic proposal nobody has decided on, unless an override takes one of its
\* targets out of automation; an audio override becomes part of the identity.
AudiosOf(ts) == {override[t].audio : t \in ts} \ {NoAudio}

ReserveAutomatic(c, scope) ==
  LET r == request[c]  i == r.item
      ts == IF scope = Whole THEN TargetsOf(i) ELSE {scope} IN
  /\ r # Idle
  /\ mapping[i] = "proposed" /\ review[i] = "not_required" /\ decision[i] = "none"
  /\ Asked(i, r.revision)
  /\ scope \in ScopesOf(i)
  /\ \A t \in ts : ~override[t].active
  /\ IsCurrent(i)
  /\ Validated(i)
  /\ Cardinality(AudiosOf(ts)) <= 1
  /\ \E audio \in IF AudiosOf(ts) = {} THEN {NoAudio} ELSE AudiosOf(ts) :
       Open(AutomaticEnvelope(i, scope, audio))
  /\ Answered(c)

\* Mutation: an approval is good for whatever item is current.
LooseApproval(i, t, approval) == approval # NoApproval /\ approval.target = t

\* The approval is for this target of this item at this revision.
ApprovalCurrent(i, t, approval) ==
  /\ approval # NoApproval
  /\ approval.item = i /\ approval.target = t
  /\ approval.revision = revision[i]

\* A season approved by hand, its sources checked live between the read and the
\* reservation, which insists on the approval they were checked for.
ReserveManual(c, t) ==
  LET r == request[c]  i == r.item IN
  /\ r # Idle
  /\ Asked(i, r.revision)
  /\ ~Superseded(i)
  /\ t \in TargetsOf(i) /\ current[t] = i
  /\ override[t].approval \in r.approvals
  /\ ApprovalCurrent(i, t, override[t].approval)
  /\ Open(ManualEnvelope(i, t))
  /\ Answered(c)

\* The coordinator hands an open reservation to the adapter, at once or at a later start.
Dispatch(k) ==
  /\ k \in opened
  /\ reached' = reached \cup {k}
  /\ UNCHANGED <<items, validation, override, claim, opened, closed, scan, request>>

\* An outcome closes the attempt and touches nothing else.
Finish(k) ==
  /\ k \in opened
  /\ opened' = opened \ {k}
  /\ closed' = closed \cup {k}
  /\ UNCHANGED <<items, validation, override, claim, reached, scan, request>>

-----------------------------------------------------------------------------
(* The cut-over                                                            *)

\* A writer claims targets that are free or its own already.
ClaimWriter(ts, w) ==
  /\ \A t \in ts : claim[t] \in {w, NoOne}
  /\ claim' = [t \in Targets |-> IF t \in ts THEN w ELSE claim[t]]
  /\ UNCHANGED <<items, validation, override, attempts, scan, request>>

\* Mutation: only the targets an attempt writes to are looked at, and only of attempts
\* that reached the adapter.
ReachedBlocks(ts) == \E k \in opened \cap reached : Scope(k) \cap ts # {}

\* An open attempt of any item with one of these targets.
Blocks(ts) == \E k \in opened : TargetsOf(k.item) \cap ts # {}

\* Ownership moves; back to V3 only without an open attempt.
TransferWriter(ts, from, to) ==
  /\ from # to
  /\ \A t \in ts : claim[t] = from
  /\ ~(from = V4 /\ Blocks(ts))
  /\ claim' = [t \in Targets |-> IF t \in ts THEN to ELSE claim[t]]
  /\ UNCHANGED <<items, validation, override, attempts, scan, request>>

-----------------------------------------------------------------------------
ScanNext == ScanRead \/ SomeScan \/ MarkUnsure \/ MarkCurrent \/ ScanFails

ClientNext(c) ==
  \/ \E i \in Items : Read(c, i)
  \/ Forget(c)
  \/ \E action \in ReviewActions : Transition(c, action)
  \/ \E t \in Targets, active \in BOOLEAN, approve \in BOOLEAN, audio \in Audios \cup {NoAudio} :
       SetOverride(c, t, active, audio, approve)
  \/ \E scope \in Targets \cup {Whole} : ReserveApproved(c, scope) \/ ReserveAutomatic(c, scope)
  \/ \E t \in Targets : ReserveManual(c, t)

WriterNext ==
  \E ts \in (SUBSET Targets) \ {{}}, w \in Claimers :
    ClaimWriter(ts, w) \/ \E v \in {V3, V4} : TransferWriter(ts, v, w)

Next ==
  \/ ScanNext
  \/ \E c \in Clients : ClientNext(c)
  \/ \E t \in Targets : ClearOverride(t)
  \/ \E k \in opened : Dispatch(k) \/ Finish(k)
  \/ WriterNext

Spec == Init /\ [][Next]_vars

-----------------------------------------------------------------------------
(* Properties                                                              *)

\* Whatever scans replace, a live item is current for all of its targets and for no
\* other, and a superseded one for none: no plan is ever half current (record_scan).
CurrentIsWhole ==
  \A i \in Items :
    {t \in Targets : current[t] = i} = IF Superseded(i) THEN {} ELSE TargetsOf(i)

\* The mapping state and the review state agree, and an approved mapping carries the
\* approving decision of a human, through any order of reviews and scans.
StatesAgree ==
  \A i \in Items :
    /\ mapping[i] = "approved"     => review[i] = "resolved" /\ decision[i] \in Approving
    /\ mapping[i] = "rejected"     => review[i] = "rejected" /\ decision[i] = "reject"
    /\ mapping[i] = "needs_review" => review[i] \in {"open", "dismissed"}
    /\ mapping[i] = "proposed"     => review[i] = "not_required" /\ decision[i] = "none"
    /\ (mapping[i] = "superseded") = (review[i] = "superseded")

\* A client that still holds the revision of a live item knows its state: the revision
\* is a sound token for optimistic concurrency (expected_revision, everywhere).
RevisionIsToken ==
  \A c \in Clients :
    request[c] # Idle /\ request[c].revision = revision[request[c].item] =>
      request[c].view = View(request[c].item)

\* A review decision is taken, and a reservation is made, on the state the client was shown,
\* although scans and other clients act in between.
DecidesAsSeen ==
  \A i \in Items :
    decision'[i] # decision[i] =>
      \E c \in Clients :
        /\ request[c] # Idle /\ request'[c] = Idle
        /\ request[c].item = i
        /\ request[c].view = View(i)
ReservesAsSeen ==
  \A k \in opened' \ opened :
    \E c \in Clients :
      /\ request[c] # Idle /\ request'[c] = Idle
      /\ request[c].item = k.item
      /\ request[c].view = View(k.item)
ActsAsSeen == [][DecidesAsSeen /\ ReservesAsSeen]_vars

\* A manual execution is reserved only on an approval that was given for that very item
\* and revision.
ApprovalIsBound ==
  \A k \in opened \cup closed : k.approval # NoApproval =>
    k.approval.item = k.item /\ k.approval.revision = k.revision

\* While an attempt is open, V4 owns every target it writes to: neither a claim nor a
\* rollback hands one of them to V3 ("Reserved execution blocks writer rollback").
ReservedKeepsOwner == \A k \in opened : \A t \in Scope(k) : claim[t] = V4

\* A scan leaves every mapping it preserved as reviewers left it: what was approved before
\* or during the scan stays approved.
PreservedIsKept ==
  [][scan.phase = "reading" /\ scan'.phase = "unsure" =>
       \A i \in scan.preserved : mapping'[i] = mapping[i] /\ revision'[i] = revision[i]]_vars
=============================================================================
