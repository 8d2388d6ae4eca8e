--------------------------- MODULE ReviewLedgerProofs --------------------------
(***************************************************************************)
(* Proofs about ReviewLedger, for any sets of items, targets, contents and *)
(* clients, any number of attempts and any bound on the revisions.         *)
(***************************************************************************)
EXTENDS ReviewLedger, TLAPS

\* An item without a snapshot has not been touched.
Untouched ==
  \A i \in Items : ~Created(i) =>
    mapping[i] = "none" /\ review[i] = "none" /\ decision[i] = "none"

\* What holds of the items alone.
ItemsOK == TypeOK /\ CurrentIsWhole /\ StatesAgree /\ Untouched

\* A client never knows a revision that is yet to come, and what it was shown at the
\* revision it knows is what is there.
RequestOK(c) ==
  request[c] # Idle =>
    /\ Created(request[c].item)
    /\ request[c].revision <= revision[request[c].item]
    /\ request[c].revision = revision[request[c].item] =>
         request[c].view = View(request[c].item)

\* An attempt is for targets of its item; V4 owns those of an open one.
ScopeOK(k) == Created(k.item) /\ k.scope \in TargetsOf(k.item) \cup {Whole}

AttemptsOK ==
  /\ \A k \in opened \cup closed : ScopeOK(k)
  /\ ApprovalIsBound
  /\ ReservedKeepsOwner

\* What a scan preserves is live.
ScanOK ==
  scan.phase = "reading" => \A i \in scan.preserved : Created(i) /\ ~Superseded(i)

IInv == ItemsOK /\ (\A c \in Clients : RequestOK(c)) /\ AttemptsOK /\ ScanOK

-----------------------------------------------------------------------------
(* The two steps that change items                                         *)

\* The new groups and the identities they may get.
New(groups) == [{g \in groups : ~Kept(g)} -> {i \in Items : ~Created(i)}]
Injective(new) == \A g, h \in DOMAIN new : g # h => new[g] # new[h]
Added(new) == {new[g] : g \in DOMAIN new}

\* The effect of a scan on the items, read item by item.
LEMMA ScanEffect ==
  ASSUME TypeOK, NEW groups \in Scans, NEW new \in New(groups), Injective(new),
         RecordScan(groups, new)
  PROVE  /\ \A g \in DOMAIN new :
              /\ new[g] \in Items /\ ~Created(new[g])
              /\ snapshot'[new[g]] = g
              /\ mapping'[new[g]] = g.state
              /\ review'[new[g]] = FirstReview(g)
         /\ \A i \in Items \ Added(new) :
              /\ snapshot'[i] = snapshot[i]
              /\ mapping'[i] = IF i \in Gone(groups) THEN "superseded" ELSE mapping[i]
              /\ review'[i] = IF i \in Gone(groups) THEN "superseded" ELSE review[i]
         /\ \A i \in Items :
              revision'[i] = IF i \in Gone(groups) THEN revision[i] + 1 ELSE revision[i]
         /\ decision' = decision
<1>1. ASSUME NEW g \in DOMAIN new
      PROVE  new[g] \in Items /\ ~Created(new[g]) /\ new[g] \in Added(new)
  BY <1>1 DEF New, Added
<1>2. ASSUME NEW g \in DOMAIN new
      PROVE  (CHOOSE h \in DOMAIN new : new[h] = new[g]) = g
  BY <1>2 DEF Injective
<1>3. ASSUME NEW g \in DOMAIN new
      PROVE  /\ snapshot'[new[g]] = g
             /\ mapping'[new[g]] = g.state
             /\ review'[new[g]] = FirstReview(g)
  BY <1>1, <1>2, <1>3 DEF RecordScan, Added
<1>4. ASSUME NEW i \in Items \ Added(new)
      PROVE  /\ snapshot'[i] = snapshot[i]
             /\ mapping'[i] = IF i \in Gone(groups) THEN "superseded" ELSE mapping[i]
             /\ review'[i] = IF i \in Gone(groups) THEN "superseded" ELSE review[i]
  BY <1>4 DEF RecordScan, Added
<1>5. /\ \A i \in Items :
            revision'[i] = IF i \in Gone(groups) THEN revision[i] + 1 ELSE revision[i]
      /\ decision' = decision
  BY DEF RecordScan, SupersededRevision
<1> QED
  BY <1>1, <1>3, <1>4, <1>5

\* The groups of a scan are snapshots of outcomes, disjoint in their targets.
LEMMA ScanGroups ==
  ASSUME NEW groups \in Scans
  PROVE  /\ groups \subseteq Snapshots
         /\ \A g \in groups : /\ g.state \in {"proposed", "needs_review", "waiting"}
                              /\ g.targets \subseteq Targets /\ g.targets # {}
                              /\ g # NoSnapshot
         /\ \A g, h \in groups, t \in Targets :
              t \in g.targets /\ t \in h.targets => g = h
<1>1. groups \subseteq Snapshots /\ Disjoint(groups)
  BY DEF Scans
<1>2. ASSUME NEW g \in Snapshots
      PROVE  /\ g.state \in {"proposed", "needs_review", "waiting"}
             /\ g.targets \subseteq Targets /\ g.targets # {}
             /\ g # NoSnapshot
  BY <1>2, BoundsAssumption, AbsentAssumption DEF Snapshots
<1>3. ASSUME NEW g \in groups, NEW h \in groups, NEW t \in Targets,
             t \in g.targets, t \in h.targets
      PROVE  g = h
  <2>1. t \in g.targets \cap h.targets
    BY <1>3
  <2> QED
    BY <1>1, <2>1 DEF Disjoint
<1> QED
  BY <1>1, <1>2, <1>3

\* Nothing is current but an item that exists and was not superseded.
LEMMA CurrentIsLive ==
  ASSUME CurrentIsWhole, NEW t \in Targets, NEW i \in Items, current[t] = i
  PROVE  Created(i) /\ ~Superseded(i) /\ t \in snapshot[i].targets
<1>1. t \in {u \in Targets : current[u] = i}
  OBVIOUS
<1>2. t \in IF Superseded(i) THEN {} ELSE TargetsOf(i)
  BY <1>1 DEF CurrentIsWhole
<1> QED
  BY <1>2 DEF TargetsOf

\* A target of a live item points to it.
LEMMA LiveIsCurrent ==
  ASSUME TypeOK, CurrentIsWhole, NEW i \in Items, Created(i), ~Superseded(i),
         NEW t \in snapshot[i].targets
  PROVE  t \in Targets /\ current[t] = i
<1>1. t \in {u \in Targets : current[u] = i}
  BY DEF CurrentIsWhole, TargetsOf
<1> QED
  BY <1>1

\* Only what is current can go.
LEMMA GoneWasLive ==
  ASSUME TypeOK, CurrentIsWhole, NEW groups \in Scans, NEW i \in Items, i \in Gone(groups)
  PROVE  Created(i) /\ ~Superseded(i)
<1>1. \E t \in Targets : current[t] = i
  <2>1. CASE i \in Removed(groups)
    BY <2>1 DEF Removed
  <2>2. CASE i \in Replaced(groups)
    BY <2>2, ScanGroups DEF Replaced, OwnersOf, Owners
  <2> QED
    BY <2>1, <2>2 DEF Gone
<1> QED
  BY <1>1, CurrentIsLive

\* What a scan preserves is not replaced: its group is handed back, and no other group
\* can claim one of its targets.
LEMMA PreservedStays ==
  ASSUME ItemsOK, ScanOK, NEW groups \in Scans, NEW new \in New(groups),
         RecordScan(groups, new), NEW i \in scan.preserved, i \in Items
  PROVE  i \notin Added(new) /\ i \notin Gone(groups)
<1>1. Created(i) /\ ~Superseded(i) /\ snapshot[i] \in groups
  BY DEF ScanOK, RecordScan, Frozen
<1>2. i \notin Added(new)
  BY <1>1 DEF New, Added
<1>3. snapshot[i].targets \subseteq Targets /\ snapshot[i].targets # {}
  BY <1>1, ScanGroups
<1>4. \A t \in snapshot[i].targets : current[t] = i
  BY <1>1, LiveIsCurrent DEF ItemsOK
<1>5. i \notin Removed(groups)
  <2>1. {t \in Targets : current[t] = i} \subseteq UNION {g.targets : g \in groups}
    BY <1>1, CurrentIsLive DEF ItemsOK
  <2> QED
    BY <2>1 DEF Removed
<1>6. Kept(snapshot[i])
  <2>1. i # NoItem
    BY AbsentAssumption
  <2>2. OwnersOf(snapshot[i]) = {i}
    BY <1>3, <1>4, <2>1 DEF OwnersOf, Owners
  <2> QED
    BY <2>2 DEF Kept
<1>7. i \notin Replaced(groups)
  <2> SUFFICES ASSUME NEW g \in groups, ~Kept(g), i \in OwnersOf(g)
               PROVE  FALSE
    BY DEF Replaced
  <2>1. PICK t \in g.targets : current[t] = i
    BY DEF OwnersOf, Owners
  <2>2. t \in Targets
    BY ScanGroups
  <2>3. t \in snapshot[i].targets
    BY <2>1, <2>2, CurrentIsLive DEF ItemsOK
  <2>4. g = snapshot[i]
    BY <1>1, <2>2, <2>3, ScanGroups
  <2> QED
    BY <1>6, <2>4
<1> QED
  BY <1>2, <1>5, <1>7 DEF Gone

\* A scan leaves every live item current for exactly its targets.
LEMMA ScanKeepsWhole ==
  ASSUME ItemsOK, NEW groups \in Scans, NEW new \in New(groups), Injective(new),
         RecordScan(groups, new)
  PROVE  CurrentIsWhole'
<1> DEFINE taken(t) == \E g \in DOMAIN new : t \in g.targets
<1>1. DOMAIN new = {g \in groups : ~Kept(g)}
  BY DEF New
<1>2. ASSUME NEW t \in Targets, NEW g \in DOMAIN new, t \in g.targets
      PROVE  current'[t] = new[g]
  <2>1. (CHOOSE h \in DOMAIN new : t \in h.targets) = g
    BY <1>1, <1>2, ScanGroups
  <2> QED
    BY <1>2, <2>1 DEF RecordScan
<1>3. ASSUME NEW t \in Targets, ~taken(t)
      PROVE  current'[t] = IF current[t] \in Gone(groups) THEN NoItem ELSE current[t]
  BY <1>3 DEF RecordScan
<1> SUFFICES ASSUME NEW i \in Items
             PROVE  {t \in Targets : current'[t] = i}
                      = IF Superseded(i)' THEN {} ELSE TargetsOf(i)'
  BY DEF CurrentIsWhole
<1>4. CASE i \in Added(new)
  <2>1. PICK g \in DOMAIN new : new[g] = i
    BY <1>4 DEF Added
  <2>2. /\ ~Created(i)
        /\ snapshot'[i] = g /\ mapping'[i] = g.state
    BY <2>1, ScanEffect DEF ItemsOK
  <2>3. g \in groups
    BY <1>1
  <2>4. ~Superseded(i)' /\ TargetsOf(i)' = g.targets /\ g.targets \subseteq Targets
    BY <2>2, <2>3, ScanGroups DEF Superseded, TargetsOf, Created
  <2>5. ASSUME NEW t \in Targets, current'[t] = i
        PROVE  t \in g.targets
    <3>1. CASE taken(t)
      <4>1. PICK h \in DOMAIN new : t \in h.targets
        BY <3>1
      <4>2. new[h] = new[g]
        BY <1>2, <2>1, <2>5, <4>1
      <4> QED
        BY <4>1, <4>2 DEF Injective
    <3>2. CASE ~taken(t)
      <4>1. current[t] = i
        BY <1>3, <2>5, <3>2, AbsentAssumption
      <4> QED
        BY <2>2, <4>1, CurrentIsLive DEF ItemsOK
    <3> QED
      BY <3>1, <3>2
  <2>6. {t \in Targets : current'[t] = i} = g.targets
    BY <1>2, <2>1, <2>4, <2>5
  <2> QED
    BY <2>4, <2>6
<1>5. CASE i \notin Added(new) /\ i \in Gone(groups)
  <2>1. Superseded(i)'
    BY <1>5, ScanEffect DEF ItemsOK, Superseded
  <2>2. ASSUME NEW t \in Targets
        PROVE  current'[t] # i
    <3>1. CASE taken(t)
      BY <1>2, <1>5, <3>1 DEF Added
    <3>2. CASE ~taken(t)
      BY <1>3, <1>5, <3>2, AbsentAssumption
    <3> QED
      BY <3>1, <3>2
  <2>3. {t \in Targets : current'[t] = i} = {}
    BY <2>2
  <2> QED
    BY <2>1, <2>3
<1>6. CASE i \notin Added(new) /\ i \notin Gone(groups)
  <2>1. (Superseded(i)' <=> Superseded(i)) /\ TargetsOf(i)' = TargetsOf(i)
    BY <1>6, ScanEffect DEF ItemsOK, Superseded, TargetsOf, Created
  <2>2. ASSUME NEW t \in Targets
        PROVE  current'[t] = i <=> current[t] = i
    <3>1. CASE taken(t)
      <4>1. PICK g \in DOMAIN new : t \in g.targets
        BY <3>1
      <4>2. current'[t] # i
        BY <1>2, <1>6, <4>1 DEF Added
      <4>3. ASSUME current[t] = i PROVE FALSE
        <5>1. i \in OwnersOf(g)
          BY <4>1, <4>3, AbsentAssumption DEF OwnersOf, Owners
        <5>2. i \in Replaced(groups)
          BY <1>1, <5>1 DEF Replaced
        <5> QED
          BY <1>6, <5>2 DEF Gone
      <4> QED
        BY <4>2, <4>3
    <3>2. CASE ~taken(t)
      BY <1>3, <1>6, <3>2, AbsentAssumption
    <3> QED
      BY <3>1, <3>2
  <2>3. {t \in Targets : current'[t] = i} = {t \in Targets : current[t] = i}
    BY <2>2
  <2> QED
    BY <2>1, <2>3 DEF ItemsOK, CurrentIsWhole
<1> QED
  BY <1>4, <1>5, <1>6

-----------------------------------------------------------------------------
(* The types                                                               *)

\* The actions of a client, one by one.
LEMMA ClientActions ==
  ASSUME NEW c \in Clients, ClientNext(c)
  PROVE  \/ \E i \in Items : Read(c, i)
         \/ Forget(c)
         \/ \E action \in ReviewActions : Transition(c, action)
         \/ \E t \in Targets, active \in BOOLEAN, approve \in BOOLEAN,
              audio \in Audios \cup {NoAudio} : SetOverride(c, t, active, audio, approve)
         \/ \E scope \in Targets \cup {Whole} : ReserveApproved(c, scope)
         \/ \E scope \in Targets \cup {Whole} : ReserveAutomatic(c, scope)
         \/ \E t \in Targets : ReserveManual(c, t)
BY DEF ClientNext

\* Review actions lead to states of the ledger.
LEMMA ActionStates ==
  ASSUME NEW action \in ReviewActions
  PROVE  /\ action \in {"approve", "choose", "reject", "dismiss", "reopen"}
         /\ NextMapping(action) \in MappingStates \ {"none", "superseded"}
         /\ NextReview(action) \in ReviewStates \ {"none", "superseded"}
BY BoundsAssumption DEF NextMapping, NextReview, Approving, MappingStates, ReviewStates

\* A reservation that is made is of a key, by the client that asked for it.
Reserves(c, k) ==
  /\ request[c] # Idle
  /\ k.item = request[c].item /\ revision[k.item] = request[c].revision
  /\ k.revision = revision[k.item]
  /\ k \in Keys
  /\ k.scope \in TargetsOf(k.item) \cup {Whole}
  /\ k.approval # NoApproval => k.approval.item = k.item /\ k.approval.revision = k.revision
  /\ Open(k)
  /\ Answered(c)

LEMMA RequestTyped ==
  ASSUME TypeOK, NEW c \in Clients, request[c] # Idle
  PROVE  /\ request[c] \in Requests
         /\ request[c].item \in Items
         /\ request[c].revision \in Nat
         /\ revision[request[c].item] \in Nat
BY DEF TypeOK, Requests

LEMMA ReserveApprovedReserves ==
  ASSUME TypeOK, NEW c \in Clients, NEW scope \in Targets \cup {Whole},
         ReserveApproved(c, scope)
  PROVE  \E k \in Keys : Reserves(c, k)
<1> DEFINE i == request[c].item
           k == [item |-> i, revision |-> revision[i], scope |-> scope, audio |-> NoAudio,
                 approval |-> NoApproval]
<1>1. request[c] # Idle
  BY DEF ReserveApproved
<1>2. k \in Keys
  BY <1>1, RequestTyped DEF Keys
<1>3. Open(k) /\ Answered(c) /\ revision[i] = request[c].revision
  BY DEF ReserveApproved, Asked, ApprovedEnvelope, Identity
<1>4. scope \in TargetsOf(i) \cup {Whole}
  BY DEF ReserveApproved, ScopesOf
<1>5. Reserves(c, k)
  BY <1>1, <1>2, <1>3, <1>4 DEF Reserves
<1> QED
  BY <1>2, <1>5

LEMMA ReserveAutomaticReserves ==
  ASSUME TypeOK, NEW c \in Clients, NEW scope \in Targets \cup {Whole},
         ReserveAutomatic(c, scope)
  PROVE  \E k \in Keys : Reserves(c, k)
<1> DEFINE i == request[c].item
           ts == IF scope = Whole THEN TargetsOf(i) ELSE {scope}
           k(audio) == [item |-> i, revision |-> revision[i], scope |-> scope,
                        audio |-> audio, approval |-> NoApproval]
<1>1. request[c] # Idle
  BY DEF ReserveAutomatic
<1>2. ts \subseteq Targets
  BY <1>1, RequestTyped, AbsentAssumption DEF TypeOK, TargetsOf, Created, Snapshots
<1>3. AudiosOf(ts) \subseteq Audios
  BY <1>2 DEF AudiosOf, TypeOK, Overrides
<1>4. PICK audio \in Audios \cup {NoAudio} : Open(k(audio))
  BY <1>3 DEF ReserveAutomatic, AutomaticEnvelope, Identity
<1>5. Answered(c) /\ revision[i] = request[c].revision
  BY DEF ReserveAutomatic, Asked
<1>6. scope \in TargetsOf(i) \cup {Whole}
  BY DEF ReserveAutomatic, ScopesOf
<1>7. k(audio) \in Keys
  BY <1>1, RequestTyped DEF Keys
<1>8. Reserves(c, k(audio))
  BY <1>1, <1>4, <1>5, <1>6, <1>7 DEF Reserves
<1> QED
  BY <1>7, <1>8

LEMMA ReserveManualReserves ==
  ASSUME TypeOK, NEW c \in Clients, NEW t \in Targets, ReserveManual(c, t)
  PROVE  \E k \in Keys : Reserves(c, k)
<1> DEFINE i == request[c].item
           k == [item |-> i, revision |-> revision[i], scope |-> t, audio |-> NoAudio,
                 approval |-> override[t].approval]
<1>1. request[c] # Idle
  BY DEF ReserveManual
<1>2. /\ override[t].approval.item = i
      /\ override[t].approval.revision = revision[i]
  BY DEF ReserveManual, ApprovalCurrent
<1>3. override[t].approval \in Approvals \cup {NoApproval}
  BY DEF TypeOK, Overrides
<1>4. k \in Keys
  BY <1>1, <1>3, RequestTyped DEF Keys
<1>5. Open(k) /\ Answered(c) /\ revision[i] = request[c].revision /\ t \in TargetsOf(i)
  BY DEF ReserveManual, Asked, ManualEnvelope, Identity
<1>6. Reserves(c, k)
  BY <1>1, <1>2, <1>4, <1>5 DEF Reserves
<1> QED
  BY <1>4, <1>6

\* The steps of the ledger, the three kinds of reservation taken together.
Moves ==
  \/ ScanRead \/ SomeScan \/ MarkUnsure \/ MarkCurrent \/ ScanFails
  \/ \E c \in Clients, i \in Items : Read(c, i)
  \/ \E c \in Clients : Forget(c)
  \/ \E c \in Clients, action \in ReviewActions : Transition(c, action)
  \/ \E c \in Clients, t \in Targets, active \in BOOLEAN, approve \in BOOLEAN,
       audio \in Audios \cup {NoAudio} : SetOverride(c, t, active, audio, approve)
  \/ \E c \in Clients, k \in Keys : Reserves(c, k)
  \/ \E t \in Targets : ClearOverride(t)
  \/ \E k \in opened : Dispatch(k)
  \/ \E k \in opened : Finish(k)
  \/ \E ts \in SUBSET Targets, w \in {V3, V4} : ClaimWriter(ts, w)
  \/ \E ts \in SUBSET Targets, v \in {V3, V4}, w \in {V3, V4} : TransferWriter(ts, v, w)

LEMMA NextMoves ==
  ASSUME TypeOK, Next
  PROVE  Moves
<1>1. CASE ScanNext
  BY <1>1 DEF ScanNext, Moves
<1>2. ASSUME NEW c \in Clients, ClientNext(c) PROVE Moves
  <2>1. ASSUME NEW scope \in Targets \cup {Whole}, ReserveApproved(c, scope) PROVE Moves
    BY <2>1, ReserveApprovedReserves DEF Moves
  <2>2. ASSUME NEW scope \in Targets \cup {Whole}, ReserveAutomatic(c, scope) PROVE Moves
    BY <2>2, ReserveAutomaticReserves DEF Moves
  <2>3. ASSUME NEW t \in Targets, ReserveManual(c, t) PROVE Moves
    BY <2>3, ReserveManualReserves DEF Moves
  <2>4. ASSUME NEW i \in Items, Read(c, i) PROVE Moves
    BY <2>4 DEF Moves
  <2>5. ASSUME Forget(c) PROVE Moves
    BY <2>5 DEF Moves
  <2>6. ASSUME NEW action \in ReviewActions, Transition(c, action) PROVE Moves
    BY <2>6 DEF Moves
  <2>7. ASSUME NEW t \in Targets, NEW active \in BOOLEAN, NEW approve \in BOOLEAN,
               NEW audio \in Audios \cup {NoAudio}, SetOverride(c, t, active, audio, approve)
        PROVE  Moves
    BY <2>7 DEF Moves
  <2> QED
    BY <1>2, <2>1, <2>2, <2>3, <2>4, <2>5, <2>6, <2>7, ClientActions
<1>3. ASSUME NEW t \in Targets, ClearOverride(t) PROVE Moves
  BY <1>3 DEF Moves
<1>4. ASSUME NEW k \in opened, Dispatch(k) \/ Finish(k) PROVE Moves
  BY <1>4 DEF Moves
<1>5. CASE WriterNext
  BY <1>5, BoundsAssumption DEF WriterNext, Moves
<1> QED
  BY <1>1, <1>2, <1>3, <1>4, <1>5 DEF Next

LEMMA ScanTyped ==
  ASSUME TypeOK, NEW groups \in Scans, NEW new \in New(groups), Injective(new),
         RecordScan(groups, new)
  PROVE  TypeOK'
<1>1. \A g \in DOMAIN new : g \in Snapshots
  BY ScanGroups DEF New
<1>2. snapshot' \in [Items -> Snapshots \cup {NoSnapshot}]
  <2>1. ASSUME NEW i \in Items PROVE snapshot'[i] \in Snapshots \cup {NoSnapshot}
    BY <1>1, ScanEffect DEF TypeOK, Added
  <2> QED
    BY <2>1 DEF RecordScan
<1>3. mapping' \in [Items -> MappingStates]
  <2>1. ASSUME NEW i \in Added(new) PROVE mapping'[i] \in MappingStates
    <3>1. PICK g \in DOMAIN new : new[g] = i
      BY <2>1 DEF Added
    <3>2. mapping'[i] = g.state /\ g \in groups
      BY <3>1, ScanEffect DEF New
    <3> QED
      BY <3>2, ScanGroups DEF MappingStates
  <2>2. ASSUME NEW i \in Items \ Added(new) PROVE mapping'[i] \in MappingStates
    BY <2>2, ScanEffect DEF TypeOK, MappingStates
  <2> QED
    BY <2>1, <2>2 DEF RecordScan
<1>4. review' \in [Items -> ReviewStates]
  <2>1. ASSUME NEW i \in Items PROVE review'[i] \in ReviewStates
    BY ScanEffect DEF TypeOK, Added, ReviewStates, FirstReview
  <2> QED
    BY <2>1 DEF RecordScan
<1>5. revision' \in [Items -> Nat]
  BY DEF RecordScan, SupersededRevision, TypeOK
<1>6. current' \in [Targets -> Items \cup {NoItem}]
  <2>1. \A g \in DOMAIN new : new[g] \in Items
    BY ScanEffect
  <2>2. ASSUME NEW t \in Targets PROVE current'[t] \in Items \cup {NoItem}
    <3>1. CASE \E g \in DOMAIN new : t \in g.targets
      <4>1. (CHOOSE g \in DOMAIN new : t \in g.targets) \in DOMAIN new
        BY <3>1
      <4> QED
        BY <2>1, <3>1, <4>1 DEF RecordScan
    <3>2. CASE ~\E g \in DOMAIN new : t \in g.targets
      BY <3>2 DEF RecordScan, TypeOK
    <3> QED
      BY <3>1, <3>2
  <2> QED
    BY <2>2 DEF RecordScan
<1>7. scan' \in [phase : {"idle", "reading", "unsure", "current"},
                 preserved : SUBSET Items, unsure : SUBSET Items]
  BY DEF RecordScan, TypeOK
<1> QED
  BY <1>2, <1>3, <1>4, <1>5, <1>6, <1>7 DEF RecordScan, TypeOK, attempts

\* Every step keeps the types.
LEMMA TypedStep ==
  ASSUME TypeOK, [Next]_vars
  PROVE  TypeOK'
<1> USE DEF TypeOK, items, attempts
<1>1. CASE ScanRead
  BY <1>1 DEF ScanRead
<1>2. CASE SomeScan
  BY <1>2, ScanTyped DEF SomeScan, New, Injective
<1>3. CASE MarkUnsure \/ MarkCurrent \/ ScanFails
  BY <1>3 DEF MarkUnsure, MarkCurrent, ScanFails, NoScan
<1>4. ASSUME NEW c \in Clients, NEW i \in Items, Read(c, i) PROVE TypeOK'
  <2>1. View(i) \in Views
    BY DEF View, Views
  <2>2. TargetsOf(i) \subseteq Targets
    BY DEF TargetsOf, Created, Snapshots
  <2>3. {override[t].approval : t \in TargetsOf(i)} \ {NoApproval} \subseteq Approvals
    BY <2>2 DEF Overrides
  <2>4. request' \in [Clients -> Requests \cup {Idle}]
    BY <1>4, <2>1, <2>3 DEF Read, Requests
  <2> QED
    BY <1>4, <2>4 DEF Read
<1>5. ASSUME NEW c \in Clients, Forget(c) PROVE TypeOK'
  BY <1>5 DEF Forget, Answered
<1>6. ASSUME NEW c \in Clients, NEW action \in ReviewActions, Transition(c, action)
      PROVE  TypeOK'
  <2>1. mapping' \in [Items -> MappingStates] /\ review' \in [Items -> ReviewStates]
    BY <1>6, ActionStates, RequestTyped DEF Transition
  <2>2. /\ decision' \in [Items -> ReviewActions \cup {"none"}]
        /\ revision' \in [Items -> Nat]
        /\ request' \in [Clients -> Requests \cup {Idle}]
    BY <1>6, RequestTyped DEF Transition, Answered
  <2> QED
    BY <1>6, <2>1, <2>2 DEF Transition
<1>7. ASSUME NEW c \in Clients, NEW t \in Targets, NEW active \in BOOLEAN,
             NEW approve \in BOOLEAN, NEW audio \in Audios \cup {NoAudio},
             SetOverride(c, t, active, audio, approve)
      PROVE  TypeOK'
  <2> DEFINE approval == IF approve
                         THEN [item |-> request[c].item, revision |-> request[c].revision,
                               target |-> t, audio |-> audio]
                         ELSE NoApproval
  <2>1. request[c] # Idle /\ (approve => audio \in Audios)
    BY <1>7 DEF SetOverride, Admissible
  <2>2. approval \in Approvals \cup {NoApproval}
    BY <2>1, RequestTyped DEF Approvals
  <2>3. override' \in [Targets -> Overrides]
    BY <1>7, <2>2 DEF SetOverride, Overrides
  <2> QED
    BY <1>7, <2>3 DEF SetOverride, Answered
<1>8. ASSUME NEW c \in Clients, NEW k \in Keys, Reserves(c, k) PROVE TypeOK'
  BY <1>8 DEF Reserves, Open, Answered
<1>9. ASSUME NEW t \in Targets, ClearOverride(t) PROVE TypeOK'
  BY <1>9 DEF ClearOverride, NoOverride, Overrides
<1>10. ASSUME NEW k \in opened, Dispatch(k) \/ Finish(k) PROVE TypeOK'
  BY <1>10 DEF Dispatch, Finish
<1>11. ASSUME NEW ts \in SUBSET Targets, NEW w \in {V3, V4}, ClaimWriter(ts, w) PROVE TypeOK'
  BY <1>11 DEF ClaimWriter
<1>12. ASSUME NEW ts \in SUBSET Targets, NEW v \in {V3, V4}, NEW w \in {V3, V4},
              TransferWriter(ts, v, w)
       PROVE  TypeOK'
  BY <1>12 DEF TransferWriter
<1>13. CASE UNCHANGED vars
  BY <1>13 DEF vars
<1> QED
  BY <1>1, <1>2, <1>3, <1>4, <1>5, <1>6, <1>7, <1>8, <1>9, <1>10, <1>11, <1>12, <1>13,
     NextMoves DEF Moves

LEMMA InitTyped ==
  ASSUME Init
  PROVE  TypeOK
BY DEF Init, TypeOK, MappingStates, ReviewStates, NoOverride, Overrides, NoScan

\* Every variable has its type in every reachable state of the ledger.
THEOREM TypeCorrectness == Spec => []TypeOK
BY InitTyped, TypedStep, PTL DEF Spec

-----------------------------------------------------------------------------
(* The items                                                               *)

\* Only scans and review actions change items.
LEMMA ItemMoves ==
  ASSUME TypeOK, [Next]_vars
  PROVE  \/ UNCHANGED items
         \/ \E groups \in Scans : \E new \in New(groups) :
              Injective(new) /\ RecordScan(groups, new)
         \/ \E c \in Clients, action \in ReviewActions : Transition(c, action)
<1>1. CASE SomeScan
  BY <1>1 DEF SomeScan, New, Injective
<1>2. CASE ScanRead \/ MarkUnsure \/ MarkCurrent \/ ScanFails
  BY <1>2 DEF ScanRead, MarkUnsure, MarkCurrent, ScanFails
<1>3. ASSUME NEW c \in Clients, \/ \E i \in Items : Read(c, i)
                                \/ Forget(c)
      PROVE  UNCHANGED items
  BY <1>3 DEF Read, Forget
<1>4. ASSUME NEW c \in Clients, NEW t \in Targets, NEW active \in BOOLEAN,
             NEW approve \in BOOLEAN, NEW audio \in Audios \cup {NoAudio},
             SetOverride(c, t, active, audio, approve)
      PROVE  UNCHANGED items
  BY <1>4 DEF SetOverride
<1>5. ASSUME NEW c \in Clients, NEW k \in Keys, Reserves(c, k) PROVE UNCHANGED items
  BY <1>5 DEF Reserves, Open
<1>6. ASSUME NEW t \in Targets, ClearOverride(t) PROVE UNCHANGED items
  BY <1>6 DEF ClearOverride
<1>7. ASSUME NEW k \in opened, Dispatch(k) \/ Finish(k) PROVE UNCHANGED items
  BY <1>7 DEF Dispatch, Finish
<1>8. ASSUME NEW ts \in SUBSET Targets, NEW v \in {V3, V4}, NEW w \in {V3, V4},
             ClaimWriter(ts, w) \/ TransferWriter(ts, v, w)
      PROVE  UNCHANGED items
  BY <1>8 DEF ClaimWriter, TransferWriter
<1>9. CASE UNCHANGED vars
  BY <1>9 DEF vars
<1>10. CASE Next
  BY <1>1, <1>2, <1>3, <1>4, <1>5, <1>6, <1>7, <1>8, <1>10, NextMoves DEF Moves
<1> QED
  BY <1>9, <1>10

\* What a review action does, read at its item.
LEMMA TransitionEffect ==
  ASSUME TypeOK, NEW c \in Clients, NEW action \in ReviewActions, Transition(c, action)
  PROVE  LET i == request[c].item IN
         /\ request[c] # Idle /\ i \in Items
         /\ ~Superseded(i) /\ Decidable(i, action)
         /\ revision[i] = request[c].revision
         /\ mapping'[i] = NextMapping(action) /\ review'[i] = NextReview(action)
         /\ decision'[i] = action
         /\ revision'[i] = revision[i] + 1
         /\ \A j \in Items \ {i} :
              /\ mapping'[j] = mapping[j] /\ review'[j] = review[j]
              /\ decision'[j] = decision[j] /\ revision'[j] = revision[j]
         /\ snapshot' = snapshot /\ current' = current
         /\ scan' = scan
<1>1. request[c] # Idle
  BY DEF Transition
<1>2. request[c].item \in Items
  BY <1>1, RequestTyped
<1> QED
  BY <1>1, <1>2 DEF Transition, Fresh, TypeOK

\* The states of the items agree after a review action, and what is superseded stays it.
LEMMA TransitionKeepsItems ==
  ASSUME ItemsOK, NEW c \in Clients, RequestOK(c), NEW action \in ReviewActions,
         Transition(c, action)
  PROVE  CurrentIsWhole' /\ StatesAgree' /\ Untouched'
<1> DEFINE i == request[c].item
<1>1. /\ i \in Items /\ Created(i) /\ ~Superseded(i)
      /\ mapping'[i] = NextMapping(action) /\ review'[i] = NextReview(action)
      /\ decision'[i] = action
      /\ snapshot' = snapshot /\ current' = current
      /\ \A j \in Items \ {i} : /\ mapping'[j] = mapping[j] /\ review'[j] = review[j]
                                /\ decision'[j] = decision[j]
  BY TransitionEffect DEF ItemsOK, RequestOK
<1>2. NextMapping(action) # "superseded" /\ NextReview(action) # "superseded"
  BY ActionStates
<1>3. \A j \in Items : (Superseded(j)' <=> Superseded(j)) /\ TargetsOf(j)' = TargetsOf(j)
  BY <1>1, <1>2 DEF Superseded, TargetsOf, Created
<1>4. CurrentIsWhole'
  BY <1>1, <1>3 DEF ItemsOK, CurrentIsWhole
<1>5. StatesAgree'
  <2>1. /\ NextMapping(action) = "approved" =>
             NextReview(action) = "resolved" /\ action \in Approving
        /\ NextMapping(action) = "rejected" =>
             NextReview(action) = "rejected" /\ action = "reject"
        /\ NextMapping(action) = "needs_review" => NextReview(action) \in {"open", "dismissed"}
        /\ NextMapping(action) # "proposed"
    BY ActionStates DEF NextMapping, NextReview, Approving
  <2> QED
    BY <1>1, <1>2, <2>1 DEF ItemsOK, StatesAgree
<1>6. Untouched'
  BY <1>1 DEF ItemsOK, Untouched, Created
<1> QED
  BY <1>4, <1>5, <1>6

\* A new item gets states that agree, and so does what is superseded.
LEMMA ScanKeepsItems ==
  ASSUME ItemsOK, NEW groups \in Scans, NEW new \in New(groups), Injective(new),
         RecordScan(groups, new)
  PROVE  CurrentIsWhole' /\ StatesAgree' /\ Untouched'
<1>1. ASSUME NEW i \in Added(new)
      PROVE  /\ decision'[i] = "none"
             /\ \E state \in {"proposed", "needs_review", "waiting"} :
                  /\ mapping'[i] = state
                  /\ review'[i] = IF state = "needs_review" THEN "open" ELSE "not_required"
             /\ Created(i)'
  <2>1. PICK g \in DOMAIN new : new[g] = i
    BY <1>1 DEF Added
  <2>2. g \in groups /\ i \in Items
    BY <2>1 DEF New
  <2>3. /\ ~Created(i) /\ snapshot'[i] = g /\ mapping'[i] = g.state
        /\ review'[i] = FirstReview(g) /\ decision' = decision
    BY <2>1, ScanEffect DEF ItemsOK
  <2>4. decision[i] = "none"
    BY <2>2, <2>3 DEF ItemsOK, Untouched
  <2> QED
    BY <2>2, <2>3, <2>4, ScanGroups DEF FirstReview, Created
<1>2. ASSUME NEW i \in Items \ Added(new)
      PROVE  /\ snapshot'[i] = snapshot[i] /\ decision'[i] = decision[i]
             /\ \/ /\ i \in Gone(groups)
                   /\ mapping'[i] = "superseded" /\ review'[i] = "superseded"
                \/ mapping'[i] = mapping[i] /\ review'[i] = review[i]
  BY <1>2, ScanEffect DEF ItemsOK
<1>3. StatesAgree'
  BY <1>1, <1>2 DEF ItemsOK, StatesAgree
<1>4. Untouched'
  <2> SUFFICES ASSUME NEW i \in Items, ~Created(i)'
               PROVE  (mapping[i] = "none" /\ review[i] = "none" /\ decision[i] = "none")'
    BY DEF Untouched
  <2>1. i \notin Added(new)
    BY <1>1
  <2>2. ~Created(i)
    BY <1>2, <2>1 DEF Created
  <2>3. i \notin Gone(groups)
    BY <2>2, GoneWasLive DEF ItemsOK
  <2> QED
    BY <1>2, <2>1, <2>2, <2>3 DEF ItemsOK, Untouched
<1> QED
  BY <1>3, <1>4, ScanKeepsWhole

LEMMA ItemsStep ==
  ASSUME ItemsOK, \A c \in Clients : RequestOK(c), [Next]_vars
  PROVE  ItemsOK'
<1>1. TypeOK'
  BY TypedStep DEF ItemsOK
<1>2. CASE UNCHANGED items
  BY <1>1, <1>2 DEF ItemsOK, items, CurrentIsWhole, StatesAgree, Untouched, Superseded,
     TargetsOf, Created
<1>3. ASSUME NEW groups \in Scans, NEW new \in New(groups), Injective(new),
             RecordScan(groups, new)
      PROVE  ItemsOK'
  BY <1>1, <1>3, ScanKeepsItems DEF ItemsOK
<1>4. ASSUME NEW c \in Clients, NEW action \in ReviewActions, Transition(c, action)
      PROVE  ItemsOK'
  BY <1>1, <1>4, TransitionKeepsItems DEF ItemsOK
<1> QED
  BY <1>2, <1>3, <1>4, ItemMoves DEF ItemsOK

\* The revision of an item grows with every change of what clients see, and its targets
\* never change.
LEMMA ItemsGrow ==
  ASSUME ItemsOK, [Next]_vars, NEW i \in Items, Created(i)
  PROVE  /\ Created(i)' /\ TargetsOf(i)' = TargetsOf(i)
         /\ revision[i] <= revision'[i]
         /\ revision'[i] = revision[i] => View(i)' = View(i)
<1> USE DEF Created, TargetsOf, View
<1>1. revision[i] \in Nat
  BY DEF ItemsOK, TypeOK
<1>2. CASE UNCHANGED items
  BY <1>1, <1>2 DEF items
<1>3. ASSUME NEW groups \in Scans, NEW new \in New(groups), Injective(new),
             RecordScan(groups, new)
      PROVE  /\ Created(i)' /\ TargetsOf(i)' = TargetsOf(i)
             /\ revision[i] <= revision'[i]
             /\ revision'[i] = revision[i] => View(i)' = View(i)
  <2>1. i \notin Added(new)
    BY <1>3, ScanEffect DEF ItemsOK, Added
  <2>2. CASE i \in Gone(groups)
    BY <1>1, <1>3, <2>1, <2>2, ScanEffect DEF ItemsOK
  <2>3. CASE i \notin Gone(groups)
    BY <1>1, <1>3, <2>1, <2>3, ScanEffect DEF ItemsOK
  <2> QED
    BY <2>2, <2>3
<1>4. ASSUME NEW c \in Clients, NEW action \in ReviewActions, Transition(c, action)
      PROVE  /\ Created(i)' /\ TargetsOf(i)' = TargetsOf(i)
             /\ revision[i] <= revision'[i]
             /\ revision'[i] = revision[i] => View(i)' = View(i)
  <2>1. CASE i = request[c].item
    BY <1>1, <1>4, <2>1, TransitionEffect DEF ItemsOK
  <2>2. CASE i # request[c].item
    BY <1>1, <1>4, <2>2, TransitionEffect DEF ItemsOK
  <2> QED
    BY <2>1, <2>2
<1> QED
  BY <1>2, <1>3, <1>4, ItemMoves DEF ItemsOK

-----------------------------------------------------------------------------
(* The clients                                                             *)

\* A client keeps what it knows, forgets it, or reads an item anew.
LEMMA RequestMoves ==
  ASSUME TypeOK, [Next]_vars, NEW d \in Clients
  PROVE  \/ request'[d] = request[d]
         \/ request'[d] = Idle
         \/ \E i \in Items : Read(d, i)
<1> USE DEF TypeOK
<1>1. CASE ScanNext
  BY <1>1 DEF ScanNext, ScanRead, SomeScan, RecordScan, MarkUnsure, MarkCurrent, ScanFails
<1>2. ASSUME NEW c \in Clients, NEW i \in Items, Read(c, i)
      PROVE  request'[d] = request[d] \/ Read(d, i)
  BY <1>2 DEF Read
<1>3. ASSUME NEW c \in Clients, Answered(c)
      PROVE  request'[d] = request[d] \/ request'[d] = Idle
  BY <1>3 DEF Answered
<1>4. ASSUME NEW c \in Clients,
             \/ Forget(c)
             \/ \E action \in ReviewActions : Transition(c, action)
             \/ \E t \in Targets, active \in BOOLEAN, approve \in BOOLEAN,
                  audio \in Audios \cup {NoAudio} : SetOverride(c, t, active, audio, approve)
             \/ \E k \in Keys : Reserves(c, k)
      PROVE  Answered(c)
  BY <1>4 DEF Forget, Transition, SetOverride, Reserves
<1>5. ASSUME \/ \E t \in Targets : ClearOverride(t)
             \/ \E k \in opened : Dispatch(k) \/ Finish(k)
             \/ \E ts \in SUBSET Targets, w \in {V3, V4} : ClaimWriter(ts, w)
             \/ \E ts \in SUBSET Targets, v \in {V3, V4}, w \in {V3, V4} :
                  TransferWriter(ts, v, w)
      PROVE  UNCHANGED request
  BY <1>5 DEF ClearOverride, Dispatch, Finish, ClaimWriter, TransferWriter
<1>6. CASE UNCHANGED vars
  BY <1>6 DEF vars
<1>7. CASE Moves
  BY <1>1, <1>2, <1>3, <1>4, <1>5, <1>7 DEF Moves, ScanNext
<1> QED
  BY <1>6, <1>7, NextMoves

LEMMA RequestStep ==
  ASSUME ItemsOK, NEW c \in Clients, RequestOK(c), [Next]_vars
  PROVE  RequestOK(c)'
<1>1. CASE request'[c] = request[c]
  <2> SUFFICES ASSUME request[c] # Idle
               PROVE  RequestOK(c)'
    BY <1>1 DEF RequestOK
  <2>1. /\ request[c].item \in Items /\ request[c].revision \in Nat
        /\ revision[request[c].item] \in Nat
    BY RequestTyped DEF ItemsOK
  <2>2. revision'[request[c].item] \in Nat
    BY <2>1, TypedStep DEF ItemsOK, TypeOK
  <2>3. /\ Created(request[c].item)
        /\ request[c].revision <= revision[request[c].item]
        /\ request[c].revision = revision[request[c].item] =>
             request[c].view = View(request[c].item)
    BY DEF RequestOK
  <2>4. /\ Created(request[c].item)'
        /\ revision[request[c].item] <= revision'[request[c].item]
        /\ revision'[request[c].item] = revision[request[c].item] =>
             View(request[c].item)' = View(request[c].item)
    BY <1>1, <2>1, <2>3, ItemsGrow
  <2> QED
    BY <1>1, <2>1, <2>2, <2>3, <2>4 DEF RequestOK
<1>2. CASE request'[c] = Idle
  BY <1>2 DEF RequestOK
<1>3. ASSUME NEW i \in Items, Read(c, i) PROVE RequestOK(c)'
  <2>1. /\ request'[c].item = i /\ request'[c].revision = revision[i]
        /\ request'[c].view = View(i)
        /\ Created(i) /\ UNCHANGED items
    BY <1>3 DEF Read, ItemsOK, TypeOK
  <2>2. Created(i)' /\ revision'[i] = revision[i] /\ View(i)' = View(i) /\ revision[i] \in Nat
    BY <2>1 DEF items, Created, View, ItemsOK, TypeOK
  <2> QED
    BY <2>1, <2>2 DEF RequestOK
<1> QED
  BY <1>1, <1>2, <1>3, RequestMoves DEF ItemsOK

-----------------------------------------------------------------------------
(* The scan                                                                *)

LEMMA ScanStep ==
  ASSUME ItemsOK, \A c \in Clients : RequestOK(c), ScanOK, [Next]_vars
  PROVE  ScanOK'
<1> USE DEF ScanOK
<1>1. CASE ScanRead
  <2>1. ASSUME NEW i \in scan'.preserved
        PROVE  Created(i) /\ ~Superseded(i)
    <3>1. PICK t \in Targets : i \in Items /\ current[t] = i
      BY <1>1, <2>1 DEF ScanRead
    <3> QED
      BY <3>1, CurrentIsLive DEF ItemsOK
  <2> QED
    BY <1>1, <2>1 DEF ScanRead, items, Created, Superseded
<1>2. CASE SomeScan
  <2>1. scan'.phase = "unsure"
    BY <1>2 DEF SomeScan, RecordScan, ItemsOK, TypeOK
  <2> QED
    BY <2>1
<1>3. CASE MarkUnsure
  <2>1. scan'.phase = "current"
    BY <1>3 DEF MarkUnsure, ItemsOK, TypeOK
  <2> QED
    BY <2>1
<1>4. CASE MarkCurrent \/ ScanFails
  BY <1>4 DEF MarkCurrent, ScanFails, NoScan
<1>5. ASSUME UNCHANGED scan PROVE ScanOK'
  <2> SUFFICES ASSUME scan.phase = "reading", NEW i \in scan.preserved
               PROVE  Created(i)' /\ ~Superseded(i)'
    BY <1>5
  <2>1. i \in Items /\ Created(i) /\ ~Superseded(i)
    BY DEF ItemsOK, TypeOK
  <2>2. CASE UNCHANGED items
    BY <2>1, <2>2 DEF items, Created, Superseded
  <2>3. ASSUME NEW groups \in Scans, NEW new \in New(groups), RecordScan(groups, new)
        PROVE  FALSE
    BY <1>5, <2>3 DEF RecordScan, ItemsOK, TypeOK
  <2>4. ASSUME NEW c \in Clients, NEW action \in ReviewActions, Transition(c, action)
        PROVE  Created(i)' /\ ~Superseded(i)'
    <3>1. snapshot' = snapshot
      BY <2>4, TransitionEffect DEF ItemsOK
    <3>2. mapping'[i] # "superseded"
      BY <2>1, <2>4, TransitionEffect, ActionStates DEF ItemsOK, Superseded
    <3> QED
      BY <2>1, <3>1, <3>2 DEF Created, Superseded
  <2> QED
    BY <2>2, <2>3, <2>4, ItemMoves DEF ItemsOK
<1>6. ASSUME \/ \E c \in Clients, i \in Items : Read(c, i)
             \/ \E c \in Clients : Forget(c)
             \/ \E c \in Clients, action \in ReviewActions : Transition(c, action)
             \/ \E c \in Clients, t \in Targets, active \in BOOLEAN, approve \in BOOLEAN,
                  audio \in Audios \cup {NoAudio} : SetOverride(c, t, active, audio, approve)
             \/ \E c \in Clients, k \in Keys : Reserves(c, k)
      PROVE  UNCHANGED scan
  BY <1>6 DEF Read, Forget, Transition, SetOverride, Reserves, Open
<1>7. ASSUME \/ \E t \in Targets : ClearOverride(t)
             \/ \E k \in opened : Dispatch(k) \/ Finish(k)
             \/ \E ts \in SUBSET Targets, w \in {V3, V4} : ClaimWriter(ts, w)
             \/ \E ts \in SUBSET Targets, v \in {V3, V4}, w \in {V3, V4} :
                  TransferWriter(ts, v, w)
      PROVE  UNCHANGED scan
  BY <1>7 DEF ClearOverride, Dispatch, Finish, ClaimWriter, TransferWriter
<1>8. CASE UNCHANGED vars
  BY <1>5, <1>8 DEF vars
<1>9. CASE Moves
  BY <1>1, <1>2, <1>3, <1>4, <1>5, <1>6, <1>7, <1>9 DEF Moves
<1> QED
  BY <1>8, <1>9, NextMoves DEF ItemsOK

-----------------------------------------------------------------------------
(* The attempts                                                            *)

\* The scope of an attempt never changes: its item keeps its targets.
LEMMA ScopeStays ==
  ASSUME ItemsOK, [Next]_vars, NEW k \in Keys, ScopeOK(k)
  PROVE  ScopeOK(k)' /\ Scope(k)' = Scope(k) /\ Scope(k) \subseteq TargetsOf(k.item)
<1>1. k.item \in Items
  BY DEF Keys
<1>2. Created(k.item)' /\ TargetsOf(k.item)' = TargetsOf(k.item)
  BY <1>1, ItemsGrow DEF ScopeOK
<1> QED
  BY <1>2 DEF ScopeOK, Scope

LEMMA AttemptsStep ==
  ASSUME ItemsOK, \A c \in Clients : RequestOK(c), AttemptsOK, [Next]_vars
  PROVE  AttemptsOK'
<1>1. \A k \in opened \cup closed : /\ k \in Keys
                                    /\ ScopeOK(k)' /\ Scope(k)' = Scope(k)
                                    /\ Scope(k) \subseteq TargetsOf(k.item)
                                    /\ TargetsOf(k.item) \subseteq Targets
  <2>1. ASSUME NEW k \in opened \cup closed
        PROVE  k \in Keys /\ TargetsOf(k.item) \subseteq Targets
    <3>1. k \in Keys /\ k.item \in Items
      BY DEF ItemsOK, TypeOK, Keys
    <3> QED
      BY <3>1 DEF ItemsOK, TypeOK, TargetsOf, Created, Snapshots
  <2> QED
    BY <2>1, ScopeStays DEF AttemptsOK
<1>2. ASSUME UNCHANGED <<opened, closed>>,
             \A k \in opened : \A t \in Scope(k) : claim'[t] = V4
      PROVE  AttemptsOK'
  BY <1>1, <1>2 DEF AttemptsOK, ApprovalIsBound, ReservedKeepsOwner
<1>3. ASSUME UNCHANGED <<opened, closed, claim>> PROVE AttemptsOK'
  BY <1>2, <1>3 DEF AttemptsOK, ReservedKeepsOwner
<1>4. CASE ScanNext
  BY <1>3, <1>4 DEF ScanNext, ScanRead, SomeScan, RecordScan, MarkUnsure, MarkCurrent,
     ScanFails, attempts
<1>5. ASSUME \/ \E c \in Clients, i \in Items : Read(c, i)
             \/ \E c \in Clients : Forget(c)
             \/ \E c \in Clients, action \in ReviewActions : Transition(c, action)
             \/ \E c \in Clients, t \in Targets, active \in BOOLEAN, approve \in BOOLEAN,
                  audio \in Audios \cup {NoAudio} : SetOverride(c, t, active, audio, approve)
             \/ \E t \in Targets : ClearOverride(t)
      PROVE  AttemptsOK'
  BY <1>3, <1>5 DEF Read, Forget, Transition, SetOverride, ClearOverride, attempts
<1>6. ASSUME NEW c \in Clients, NEW k \in Keys, Reserves(c, k) PROVE AttemptsOK'
  <2>1. /\ opened' = opened \cup {k} /\ closed' = closed
        /\ claim' = [t \in Targets |-> IF t \in Scope(k) THEN V4 ELSE claim[t]]
        /\ UNCHANGED items
    BY <1>6 DEF Reserves, Open
  <2>2. k.item \in Items /\ k.item = request[c].item
    BY <1>6 DEF Reserves, Keys
  <2>3. ScopeOK(k) /\ Scope(k) \subseteq Targets
    <3>1. k.scope \in TargetsOf(k.item) \cup {Whole} /\ k.scope \in Targets \cup {Whole}
      BY <1>6 DEF Reserves, Keys
    <3>2. Created(k.item)
      BY <1>6 DEF Reserves, RequestOK
    <3>3. TargetsOf(k.item) \subseteq Targets
      BY <2>2 DEF ItemsOK, TypeOK, TargetsOf, Created, Snapshots
    <3> QED
      BY <3>1, <3>2, <3>3 DEF ScopeOK, Scope
  <2>4. ScopeOK(k)' /\ Scope(k)' = Scope(k)
    BY <2>3, ScopeStays
  <2>5. k.approval # NoApproval => k.approval.item = k.item /\ k.approval.revision = k.revision
    BY <1>6 DEF Reserves
  <2> QED
    BY <1>1, <2>1, <2>3, <2>4, <2>5 DEF AttemptsOK, ApprovalIsBound, ReservedKeepsOwner
<1>7. ASSUME NEW k \in opened, Dispatch(k) PROVE AttemptsOK'
  BY <1>3, <1>7 DEF Dispatch
<1>8. ASSUME NEW k \in opened, Finish(k) PROVE AttemptsOK'
  <2>1. /\ opened' = opened \ {k} /\ closed' = closed \cup {k} /\ claim' = claim
    BY <1>8 DEF Finish
  <2> QED
    BY <1>1, <2>1 DEF AttemptsOK, ApprovalIsBound, ReservedKeepsOwner
<1>9. ASSUME NEW ts \in SUBSET Targets, NEW w \in {V3, V4}, ClaimWriter(ts, w)
      PROVE  AttemptsOK'
  <2>1. /\ \A t \in ts : claim[t] \in {w, NoOne}
        /\ claim' = [t \in Targets |-> IF t \in ts THEN w ELSE claim[t]]
        /\ UNCHANGED <<opened, closed>>
    BY <1>9 DEF ClaimWriter, attempts
  <2>2. ASSUME NEW k \in opened, NEW t \in Scope(k) PROVE claim'[t] = V4
    <3>1. claim[t] = V4 /\ t \in Targets
      BY <1>1, <2>2 DEF AttemptsOK, ReservedKeepsOwner
    <3>2. V4 # NoOne
      BY AbsentAssumption
    <3> QED
      BY <2>1, <3>1, <3>2
  <2> QED
    BY <1>2, <2>1, <2>2
<1>10. ASSUME NEW ts \in SUBSET Targets, NEW v \in {V3, V4}, NEW w \in {V3, V4},
              TransferWriter(ts, v, w)
       PROVE  AttemptsOK'
  <2>1. /\ \A t \in ts : claim[t] = v
        /\ ~(v = V4 /\ Blocks(ts))
        /\ claim' = [t \in Targets |-> IF t \in ts THEN w ELSE claim[t]]
        /\ UNCHANGED <<opened, closed>>
    BY <1>10 DEF TransferWriter, attempts
  <2>2. ASSUME NEW k \in opened, NEW t \in Scope(k) PROVE claim'[t] = V4
    <3>1. claim[t] = V4 /\ t \in Targets /\ t \in TargetsOf(k.item)
      BY <1>1, <2>2 DEF AttemptsOK, ReservedKeepsOwner
    <3>2. t \notin ts
      BY <2>1, <3>1 DEF Blocks
    <3> QED
      BY <2>1, <3>1, <3>2
  <2> QED
    BY <1>2, <2>1, <2>2
<1>11. CASE UNCHANGED vars
  BY <1>3, <1>11 DEF vars, attempts
<1>12. CASE Moves
  BY <1>4, <1>5, <1>6, <1>7, <1>8, <1>9, <1>10, <1>12 DEF Moves, ScanNext
<1> QED
  BY <1>11, <1>12, NextMoves DEF ItemsOK

-----------------------------------------------------------------------------
(* The invariant and the theorems                                          *)

LEMMA InitInv ==
  ASSUME Init
  PROVE  IInv
<1>1. TypeOK
  BY InitTyped
<1>2. \A i \in Items : ~Created(i) /\ ~Superseded(i)
  BY DEF Init, Created, Superseded
<1>3. CurrentIsWhole
  <2>1. \A t \in Targets, i \in Items : current[t] # i
    BY AbsentAssumption DEF Init
  <2> QED
    BY <1>2, <2>1 DEF CurrentIsWhole, TargetsOf
<1>4. StatesAgree /\ Untouched
  BY DEF Init, StatesAgree, Untouched
<1>5. (\A c \in Clients : RequestOK(c)) /\ AttemptsOK /\ ScanOK
  BY DEF Init, RequestOK, AttemptsOK, ApprovalIsBound, ReservedKeepsOwner, ScanOK, NoScan
<1> QED
  BY <1>1, <1>3, <1>4, <1>5 DEF IInv, ItemsOK

LEMMA InvStep ==
  ASSUME IInv, [Next]_vars
  PROVE  IInv'
<1>1. ItemsOK' /\ ScanOK' /\ AttemptsOK'
  BY ItemsStep, ScanStep, AttemptsStep DEF IInv
<1>2. \A c \in Clients : RequestOK(c)'
  BY RequestStep DEF IInv
<1> QED
  BY <1>1, <1>2 DEF IInv

\* The inductive invariant holds in every reachable state.
LEMMA Invariance == Spec => []IInv
BY InitInv, InvStep, PTL DEF Spec

\* At every time each live item is current for all of its targets and no others, and
\* superseded items for none, however scans and reviews interleave.
THEOREM WholePlans == Spec => []CurrentIsWhole
<1>1. IInv => CurrentIsWhole
  BY DEF IInv, ItemsOK
<1> QED
  BY <1>1, Invariance, PTL

\* Mapping states, review states and decisions never disagree.
THEOREM StatesAlwaysAgree == Spec => []StatesAgree
<1>1. IInv => StatesAgree
  BY DEF IInv, ItemsOK
<1> QED
  BY <1>1, Invariance, PTL

\* Whoever holds the revision of an item knows its state.
THEOREM OptimisticConcurrency == Spec => []RevisionIsToken
<1>1. IInv => RevisionIsToken
  BY DEF IInv, RequestOK, RevisionIsToken
<1> QED
  BY <1>1, Invariance, PTL

\* Manual executions are bound to the approval of their item and revision.
THEOREM ManualIsBound == Spec => []ApprovalIsBound
<1>1. IInv => ApprovalIsBound
  BY DEF IInv, AttemptsOK
<1> QED
  BY <1>1, Invariance, PTL

\* V4 owns what its open attempts write to: no claim and no rollback takes it away.
THEOREM RollbackWaits == Spec => []ReservedKeepsOwner
<1>1. IInv => ReservedKeepsOwner
  BY DEF IInv, AttemptsOK
<1> QED
  BY <1>1, Invariance, PTL

\* Reviewers decide on what they were shown.
LEMMA DecisionsAreInformed == ASSUME IInv, [Next]_vars PROVE DecidesAsSeen
<1> SUFFICES ASSUME NEW i \in Items, decision'[i] # decision[i]
             PROVE  \E c \in Clients :
                      /\ request[c] # Idle /\ request'[c] = Idle
                      /\ request[c].item = i
                      /\ request[c].view = View(i)
  BY DEF DecidesAsSeen
<1>1. TypeOK /\ \A c \in Clients : RequestOK(c)
  BY DEF IInv, ItemsOK
<1>2. PICK c \in Clients, action \in ReviewActions : Transition(c, action)
  <2>1. ~UNCHANGED items
    BY DEF items
  <2>2. ASSUME NEW groups \in Scans, NEW new \in New(groups), RecordScan(groups, new)
        PROVE  FALSE
    BY <2>2 DEF RecordScan
  <2> QED
    BY <1>1, <2>1, <2>2, ItemMoves
<1>3. /\ request[c] # Idle /\ request[c].item = i
      /\ revision[i] = request[c].revision
  BY <1>1, <1>2, TransitionEffect
<1>4. request[c].view = View(i)
  BY <1>1, <1>3 DEF RequestOK
<1>5. request'[c] = Idle
  BY <1>1, <1>2 DEF Transition, Answered, TypeOK
<1> QED
  BY <1>3, <1>4, <1>5

\* Only a reservation opens an attempt.
LEMMA OpenedByReservation ==
  ASSUME TypeOK, [Next]_vars, NEW k \in opened' \ opened
  PROVE  \E c \in Clients : Reserves(c, k)
<1>1. ASSUME UNCHANGED opened PROVE FALSE
  BY <1>1
<1>2. ASSUME \/ ScanNext
             \/ \E c \in Clients, i \in Items : Read(c, i)
             \/ \E c \in Clients : Forget(c)
             \/ \E c \in Clients, action \in ReviewActions : Transition(c, action)
             \/ \E c \in Clients, t \in Targets, active \in BOOLEAN, approve \in BOOLEAN,
                  audio \in Audios \cup {NoAudio} : SetOverride(c, t, active, audio, approve)
      PROVE  UNCHANGED opened
  BY <1>2 DEF ScanNext, ScanRead, SomeScan, RecordScan, MarkUnsure, MarkCurrent, ScanFails,
     Read, Forget, Transition, SetOverride, attempts
<1>3. ASSUME \/ \E t \in Targets : ClearOverride(t)
             \/ \E j \in opened : Dispatch(j) \/ Finish(j)
             \/ \E ts \in SUBSET Targets, w \in {V3, V4} : ClaimWriter(ts, w)
             \/ \E ts \in SUBSET Targets, v \in {V3, V4}, w \in {V3, V4} :
                  TransferWriter(ts, v, w)
      PROVE  opened' \subseteq opened
  BY <1>3 DEF ClearOverride, Dispatch, Finish, ClaimWriter, TransferWriter, attempts
<1>4. ASSUME NEW c \in Clients, NEW j \in Keys, Reserves(c, j) PROVE Reserves(c, k)
  BY <1>4 DEF Reserves, Open
<1>5. CASE UNCHANGED vars
  BY <1>1, <1>5 DEF vars, attempts
<1>6. CASE Moves
  BY <1>1, <1>2, <1>3, <1>4, <1>6 DEF Moves, ScanNext
<1> QED
  BY <1>5, <1>6, NextMoves

\* Attempts are reserved for what their clients were shown.
LEMMA ReservationsAreInformed == ASSUME IInv, [Next]_vars PROVE ReservesAsSeen
<1> SUFFICES ASSUME NEW k \in opened' \ opened
             PROVE  \E c \in Clients :
                      /\ request[c] # Idle /\ request'[c] = Idle
                      /\ request[c].item = k.item
                      /\ request[c].view = View(k.item)
  BY DEF ReservesAsSeen
<1>1. TypeOK /\ \A c \in Clients : RequestOK(c)
  BY DEF IInv, ItemsOK
<1>2. PICK c \in Clients : Reserves(c, k)
  BY <1>1, OpenedByReservation
<1>3. /\ request[c] # Idle /\ request[c].item = k.item
      /\ revision[k.item] = request[c].revision
      /\ Answered(c)
  BY <1>2 DEF Reserves
<1>4. request[c].view = View(k.item)
  BY <1>1, <1>3 DEF RequestOK
<1>5. request'[c] = Idle
  BY <1>1, <1>3 DEF Answered, TypeOK
<1> QED
  BY <1>3, <1>4, <1>5

\* Decisions and reservations are for what their clients were shown.
THEOREM ActionsAreInformed == Spec => ActsAsSeen
<1>1. IInv /\ [Next]_vars => [DecidesAsSeen /\ ReservesAsSeen]_vars
  BY DecisionsAreInformed, ReservationsAreInformed
<1> QED
  BY <1>1, Invariance, PTL DEF Spec, ActsAsSeen

\* A scan leaves the mappings it preserved as reviewers left them.
THEOREM ScansPreserve == Spec => PreservedIsKept
<1> DEFINE Preserves ==
      scan.phase = "reading" /\ scan'.phase = "unsure" =>
        \A i \in scan.preserved : mapping'[i] = mapping[i] /\ revision'[i] = revision[i]
<1>1. ASSUME IInv, [Next]_vars PROVE Preserves
  <2> SUFFICES ASSUME scan.phase = "reading", scan'.phase = "unsure",
                      NEW i \in scan.preserved
               PROVE  mapping'[i] = mapping[i] /\ revision'[i] = revision[i]
    OBVIOUS
  <2>1. ItemsOK /\ ScanOK /\ i \in Items
    BY <1>1 DEF IInv, ItemsOK, TypeOK
  <2>2. CASE UNCHANGED items
    BY <2>2 DEF items
  <2>3. ASSUME NEW groups \in Scans, NEW new \in New(groups), Injective(new),
               RecordScan(groups, new)
        PROVE  mapping'[i] = mapping[i] /\ revision'[i] = revision[i]
    BY <2>1, <2>3, PreservedStays, ScanEffect DEF ItemsOK
  <2>4. ASSUME NEW c \in Clients, NEW action \in ReviewActions, Transition(c, action)
        PROVE  FALSE
    BY <2>1, <2>4, TransitionEffect DEF ItemsOK
  <2> QED
    BY <1>1, <2>1, <2>2, <2>3, <2>4, ItemMoves DEF ItemsOK
<1>2. IInv /\ [Next]_vars => [Preserves]_vars
  BY <1>1
<1> QED
  BY <1>2, Invariance, PTL DEF Spec, PreservedIsKept
=============================================================================
