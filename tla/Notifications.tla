----------------------------- MODULE Notifications -----------------------------
(***************************************************************************)
(* The delivery of notification events (src/v4/notifications.py and the    *)
(* cursor, delivery and retry rows of src/v4/application_store.py): one    *)
(* worker reads the outbox behind a durable cursor, sends each event to    *)
(* the relay, and keeps a failed one for a later attempt.                  *)
(*                                                                         *)
(* Every action is one transaction or one request; the process may die     *)
(* between any two.  The worker's own copy of the cursor always equals the *)
(* durable one while it runs, and is left out.                             *)
(***************************************************************************)
EXTENDS Naturals, Sequences, FiniteSets

CONSTANTS
  Codes,     (* the conditions an error event may report                   *)
  Window,    (* how long an error condition is not repeated                *)
  MaxTime,   (* bound on the clock                                         *)
  MaxEvents, (* bound on the length of the outbox                          *)
  Batch,     (* how many events are read at once                           *)
  Never,     (* no delivery of a condition yet                             *)
  NoCursor   (* no cursor row yet                                          *)

ASSUME LimitsAssumption ==
  /\ Window \in Nat \ {0} /\ MaxTime \in Nat /\ MaxEvents \in Nat /\ Batch \in Nat \ {0}
  /\ Never \notin Nat /\ NoCursor \notin Nat

Topics == {"error", "review"}

\* An error has a condition, its fingerprint; the other events have none.
Conditions == [topic : {"error"}, code : Codes] \cup [topic : {"review"}, code : {"review"}]
Events     == {[topic |-> c.topic, code |-> c.code, time |-> t] : c \in Conditions, t \in 0..MaxTime}

VARIABLES
  outbox,    (* the notification events, in the order of their sequence    *)
  clock,     (* the time                                                   *)
  wanted,    (* the topics the settings ask for                            *)
  cursor,    (* the sequence the worker has come to                        *)
  lastSent,  (* when each error condition was last delivered               *)
  retry,     (* whether a failed delivery waits for its next attempt       *)
  worker,    (* where the worker is                                        *)
  upto,      (* the last event of its batch                                *)
  told,      (* history: the sequences the relay has got                   *)
  latest,    (* history: the sequence of its latest message                *)
  recorded,  (* history: every delivery that was recorded, with its time   *)
  excused    (* history: events passed over, historic or not wanted        *)

durable == <<cursor, lastSent, retry>>
history == <<told, latest, recorded, excused>>
notifyVars == <<outbox, clock, wanted, cursor, lastSent, retry, worker, upto,
          told, latest, recorded, excused>>

NotifyTypeOK ==
  /\ outbox \in Seq(Events)
  /\ clock \in 0..MaxTime
  /\ wanted \subseteq Topics
  /\ cursor \in Nat \cup {NoCursor}
  /\ lastSent \in [Codes -> Nat \cup {Never}]
  /\ retry \in {"none", "waiting", "due"}
  /\ worker \in {"off", "wait", "event", "send", "record", "failed", "advance", "clear", "dead"}
  /\ upto \in Nat
  /\ told \subseteq Nat /\ latest \in Nat /\ excused \subseteq Nat
  /\ recorded \subseteq [sequence : Nat, at : Nat]

NotifyInit ==
  /\ outbox = <<>> /\ clock = 0
  /\ wanted \in SUBSET Topics
  /\ cursor = NoCursor
  /\ lastSent = [c \in Codes |-> Never]
  /\ retry = "none"
  /\ worker = "off" /\ upto = 0
  /\ told = {} /\ latest = 0 /\ recorded = {} /\ excused = {}

\* The event the worker is at.
Current == outbox[cursor + 1]

-----------------------------------------------------------------------------
(* The rest of the program                                                 *)

\* Another component commits an event: it gets the next sequence.
Raise(c) ==
  /\ Len(outbox) < MaxEvents
  /\ outbox' = Append(outbox, [topic |-> c.topic, code |-> c.code, time |-> clock])
  /\ UNCHANGED <<clock, wanted, durable, worker, upto, history>>

Toggle(topic) ==
  /\ wanted' = IF topic \in wanted THEN wanted \ {topic} ELSE wanted \cup {topic}
  /\ UNCHANGED <<outbox, clock, durable, worker, upto, history>>

Tick ==
  /\ clock < MaxTime
  /\ clock' = clock + 1
  /\ UNCHANGED <<outbox, wanted, durable, worker, upto, history>>

\* The time of the next attempt comes.
FallDue ==
  /\ retry = "waiting"
  /\ retry' = "due"
  /\ UNCHANGED <<outbox, clock, wanted, cursor, lastSent, worker, upto, history>>

-----------------------------------------------------------------------------
(* NotificationWorker                                                      *)

\* Mutation: a start takes one event back, in case it did not arrive.
RewoundCursor ==
  CASE cursor = NoCursor -> Len(outbox)
    [] cursor = 0        -> 0
    [] OTHER             -> cursor - 1

\* The first worker ever begins behind every event there is; later ones go on.
StartCursor == IF cursor = NoCursor THEN Len(outbox) ELSE cursor

Start ==
  /\ worker = "off"
  /\ cursor' = StartCursor
  /\ excused' = IF cursor = NoCursor THEN excused \cup 1..Len(outbox) ELSE excused
  /\ worker' = "wait"
  /\ UNCHANGED <<outbox, clock, wanted, lastSent, retry, upto, told, latest, recorded>>

\* The process dies, or stops between two batches.
Crash ==
  /\ worker # "off"
  /\ worker' = "off"
  /\ upto' = 0
  /\ UNCHANGED <<outbox, clock, wanted, durable, history>>

Limit(length) == IF cursor + Batch < length THEN cursor + Batch ELSE length

\* Mutation: a failed delivery that is due is not told from one that waits.
NeverAttemptable == retry = "none"

Attemptable == retry \in {"none", "due"}

\* With no attempt to wait for, the next events are read.
Poll ==
  /\ worker = "wait"
  /\ Attemptable
  /\ Len(outbox) > cursor
  /\ upto' = Limit(Len(outbox))
  /\ worker' = "event"
  /\ UNCHANGED <<outbox, clock, wanted, durable, history>>

\* A transaction outside of the delivery itself fails: nobody handles the exception, and
\* the thread ends.
Dies ==
  /\ worker \in {"wait", "event", "failed", "advance", "clear"}
  /\ worker' = "dead"
  /\ upto' = 0
  /\ UNCHANGED <<outbox, clock, wanted, durable, history>>

\* The condition was delivered within the window before the event happened.
Repeated(e) ==
  /\ e.topic = "error"
  /\ lastSent[e.code] # Never
  /\ lastSent[e.code] <= e.time
  /\ e.time < lastSent[e.code] + Window

PassOver ==
  /\ worker = "event"
  /\ Current.topic \notin wanted \/ Repeated(Current)
  /\ excused' = IF Current.topic \notin wanted THEN excused \cup {cursor + 1} ELSE excused
  /\ worker' = "advance"
  /\ UNCHANGED <<outbox, clock, wanted, durable, upto, told, latest, recorded>>

Offer ==
  /\ worker = "event"
  /\ Current.topic \in wanted /\ ~Repeated(Current)
  /\ worker' = "send"
  /\ UNCHANGED <<outbox, clock, wanted, durable, upto, history>>

Arrives == told' = told \cup {cursor + 1} /\ latest' = cursor + 1

Send ==
  /\ worker = "send"
  /\ Arrives
  /\ worker' = "record"
  /\ UNCHANGED <<outbox, clock, wanted, durable, upto, recorded, excused>>

\* The relay is not reached, or its answer is lost.
SendFails ==
  /\ worker = "send"
  /\ Arrives \/ UNCHANGED <<told, latest>>
  /\ worker' = "failed"
  /\ UNCHANGED <<outbox, clock, wanted, durable, upto, recorded, excused>>

Sent(e) == IF e.topic = "error" THEN [lastSent EXCEPT ![e.code] = clock] ELSE lastSent

\* The delivery is recorded and the retry is over; a failure to record it counts as a
\* failed delivery.
Record ==
  /\ worker = "record"
  /\ lastSent' = Sent(Current)
  /\ recorded' = recorded \cup {[sequence |-> cursor + 1, at |-> clock]}
  /\ retry' = "none"
  /\ worker' = "advance"
  /\ UNCHANGED <<outbox, clock, wanted, cursor, upto, told, latest, excused>>

RecordFails ==
  /\ worker = "record"
  /\ worker' = "failed"
  /\ UNCHANGED <<outbox, clock, wanted, durable, upto, history>>

\* Mutation: a failed event gives way to the next one.
MovingCursor == cursor' = cursor + 1

KeptCursor == UNCHANGED cursor

\* The batch is given up; its event stays the next one.
NoteFailure ==
  /\ worker = "failed"
  /\ retry' = "waiting"
  /\ KeptCursor
  /\ worker' = "wait"
  /\ upto' = 0
  /\ UNCHANGED <<outbox, clock, wanted, lastSent, history>>

Advance ==
  /\ worker = "advance"
  /\ cursor' = cursor + 1
  /\ worker' = "clear"
  /\ UNCHANGED <<outbox, clock, wanted, lastSent, retry, upto, history>>

Clear ==
  /\ worker = "clear"
  /\ retry' = "none"
  /\ IF cursor < upto THEN worker' = "event" /\ UNCHANGED upto ELSE worker' = "wait" /\ upto' = 0
  /\ UNCHANGED <<outbox, clock, wanted, cursor, lastSent, history>>

-----------------------------------------------------------------------------
WorkerStep ==
  \/ Poll \/ Dies \/ PassOver \/ Offer \/ Send \/ SendFails \/ Record \/ RecordFails
  \/ NoteFailure \/ Advance \/ Clear

NotifyNext ==
  \/ (\E c \in Conditions : Raise(c)) \/ (\E topic \in Topics : Toggle(topic)) \/ Tick \/ FallDue
  \/ Start \/ Crash
  \/ WorkerStep

NotifySpec == NotifyInit /\ [][NotifyNext]_notifyVars

\* The worker goes on; the relay can be reached, and a delivery be recorded, now and again.
NotifyFairness ==
  /\ WF_notifyVars(Poll \/ PassOver \/ Offer \/ NoteFailure \/ Advance \/ Clear)
  /\ WF_notifyVars(FallDue)
  /\ SF_notifyVars(Send) /\ SF_notifyVars(Record)

NotifyFairSpec == NotifySpec /\ NotifyFairness

-----------------------------------------------------------------------------
(* Properties                                                              *)

\* The same condition was recorded as delivered within the window before the event.
RepeatOf(n) ==
  \E r \in recorded :
    /\ outbox[r.sequence].topic = "error" /\ outbox[n].topic = "error"
    /\ outbox[r.sequence].code = outbox[n].code
    /\ r.at <= outbox[n].time /\ outbox[n].time < r.at + Window

\* No event is lost, whatever fails or crashes: behind the cursor each one was delivered,
\* was not wanted, or repeats a condition that was delivered shortly before ("Delivery
\* failures keep the cursor on the unsent event", frontend-api-contract.md:237).
NothingLost ==
  cursor # NoCursor =>
    \A n \in 1..cursor : n \in told \cup excused \/ RepeatOf(n)

\* Messages come in the order of their events: a retry or a restart may repeat the latest
\* one, and never goes back to one before it.
InOrder == [][latest' >= latest]_notifyVars

\* Every event is dealt with in the end, unless the worker is gone.
AllDealtWith ==
  \A n \in 1..MaxEvents :
    n <= Len(outbox) ~> (cursor # NoCursor /\ cursor >= n) \/ worker \in {"off", "dead"}
=============================================================================
