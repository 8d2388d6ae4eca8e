---------------------------- MODULE OnceOnlyEffect ----------------------------
(***************************************************************************)
(* What the downstream execution of V4 promises for an execution key       *)
(* (docs/v4/downstream-execution.md, "State and error contract"): a key is *)
(* attempted once; Sonarr is told of it only while its reservation is      *)
(* open, and from then on no classified failure can close it; it completes *)
(* only after that.  An attempt may stay open for ever.  One that ends in  *)
(* an error nobody classified says nothing of what was done, but nothing   *)
(* is done any more.                                                       *)
(***************************************************************************)
CONSTANT Keys

VARIABLES
  outcome,    (* what the ledger says of each key                     *)
  announced   (* the keys whose rescan was begun                      *)

Init ==
  /\ outcome = [k \in Keys |-> "none"]
  /\ announced = {}

Open(k) ==
  /\ outcome[k] = "none"
  /\ outcome' = [outcome EXCEPT ![k] = "reserved"]
  /\ UNCHANGED announced

Announce(k) ==
  /\ outcome[k] = "reserved"
  /\ k \notin announced
  /\ announced' = announced \cup {k}
  /\ UNCHANGED outcome

Complete(k) ==
  /\ outcome[k] = "reserved"
  /\ k \in announced
  /\ outcome' = [outcome EXCEPT ![k] = "completed"]
  /\ UNCHANGED announced

Fail(k) ==
  /\ outcome[k] = "reserved"
  /\ k \notin announced
  /\ outcome' = [outcome EXCEPT ![k] = "failed"]
  /\ UNCHANGED announced

Break(k) ==
  /\ outcome[k] = "reserved"
  /\ outcome' = [outcome EXCEPT ![k] = "error"]
  /\ UNCHANGED announced

Next == \E k \in Keys : Open(k) \/ Announce(k) \/ Complete(k) \/ Fail(k) \/ Break(k)

Spec == Init /\ [][Next]_<<outcome, announced>>
=============================================================================
