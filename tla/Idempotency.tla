---------------------------- MODULE Idempotency ----------------------------
(***************************************************************************)
(* Idempotent item mutations: IdempotencyRepository.reserve and fail       *)
(* (infrastructure/idempotency-repository.ts), each statement in its own   *)
(* transaction; TransactionalIdempotencyPort.complete                      *)
(* (infrastructure/transaction-ports.ts) inside the transaction of the     *)
(* mutation; and the order in which ItemService.create and update          *)
(* (catalog/item-service.ts) call them.                                    *)
(*                                                                         *)
(* A key stands for (actor, scope, key hash).  A call is one HTTP request; *)
(* a retry is another call with the same key.  The reservation token of a  *)
(* call is fresh, so the call itself names it.  Leases count the ticks     *)
(* left.  `now` is read before the statements that use it, so a comparison *)
(* with it may still see a lease as live that has meanwhile run out.       *)
(***************************************************************************)
EXTENDS Naturals, FiniteSets

CONSTANTS
  Call,        \* requests
  Key,         \* idempotency keys
  Fingerprint, \* request fingerprints
  LeaseTicks,  \* idempotencyPolicy.leaseMs, in ticks
  NoCall, NoKey, NoFingerprint

ASSUME LeaseAssumption == LeaseTicks \in Nat

ASSUME NullAssumption ==
  NoCall \notin Call /\ NoKey \notin Key /\ NoFingerprint \notin Fingerprint

VARIABLES
  record,   \* record[k]: the idempotency_records row of k
  call,     \* call[c]: how far the service has got with call c
  effect    \* history: effect[k] is the set of calls whose mutation for k committed

vars == <<record, call, effect>>

Record == [state : {"absent", "reserved", "completed", "failed"},
           print : Fingerprint \cup {NoFingerprint}, token : Call \cup {NoCall},
           lease : Nat, response : Call \cup {NoCall}]

AbsentRecord == [state |-> "absent", print |-> NoFingerprint, token |-> NoCall,
                 lease |-> 0, response |-> NoCall]

Phase == {"idle", "reading", "reclaiming", "acquired", "working", "completing",
          "failing", "answered", "gone"}

Outcome == {"none", "performed", "replayed", "conflict", "in progress", "error"}

CallState == [phase : Phase, key : Key \cup {NoKey}, print : Fingerprint \cup {NoFingerprint},
              onTime : BOOLEAN, outcome : Outcome, response : Call \cup {NoCall}]

Unsent == [phase |-> "idle", key |-> NoKey, print |-> NoFingerprint, onTime |-> FALSE,
           outcome |-> "none", response |-> NoCall]

TypeOK ==
  /\ record \in [Key -> Record]
  /\ call \in [Call -> CallState]
  /\ effect \in [Key -> SUBSET Call]

Init ==
  /\ record = [k \in Key |-> AbsentRecord]
  /\ call = [c \in Call |-> Unsent]
  /\ effect = [k \in Key |-> {}]

-----------------------------------------------------------------------------
(* The row lock a completed but uncommitted transaction holds.             *)
LockedByOther(k, c) ==
  \E d \in Call \ {c} : call[d].phase = "completing" /\ call[d].key = k

Reserved(f, c, lease) ==
  [AbsentRecord EXCEPT !.state = "reserved", !.print = f, !.token = c, !.lease = lease]

(* Where reserve's second update may take a row over.                      *)
Reclaimable(k) ==
  \/ record[k].state = "failed"
  \/ record[k].state = "reserved" /\ record[k].lease = 0

(* The where clause that complete and fail share.                          *)
Owns(c, k) == record[k].state = "reserved" /\ record[k].token = c

Goto(c, phase) == call' = [call EXCEPT ![c].phase = phase]

Answer(c, outcome, response) ==
  call' = [call EXCEPT ![c].phase = "answered", ![c].outcome = outcome,
                       ![c].response = response]

-----------------------------------------------------------------------------
(* Seeded faults: a takeover that trusts what was read before it, a replay *)
(* that ignores the fingerprint, a failure recorded without its state test *)
(* and one recorded without its token test.                                *)
ReclaimUnchecked(c, lease) ==
  LET k == call[c].key IN
  /\ call[c].phase = "reclaiming"
  /\ ~LockedByOther(k, c)
  /\ record' = [record EXCEPT ![k] = Reserved(call[c].print, c, lease)]
  /\ Goto(c, "acquired")
  /\ UNCHANGED effect

ReadIgnoringFingerprint(c) ==
  LET r == record[call[c].key] IN
  /\ call[c].phase = "reading"
  /\ \/ r.state = "completed" /\ Answer(c, "replayed", r.response)
     \/ r.state = "reserved" /\ Answer(c, "in progress", NoCall)
     \/ Reclaimable(call[c].key) /\ Goto(c, "reclaiming")
  /\ UNCHANGED <<record, effect>>

FailAnyState(c) ==
  LET k == call[c].key IN
  /\ call[c].phase = "failing"
  /\ ~LockedByOther(k, c)
  /\ record' = [record EXCEPT ![k].state = IF @ = "absent" THEN @ ELSE "failed"]
  /\ Answer(c, "error", NoCall)
  /\ UNCHANGED effect

FailAnyToken(c) ==
  LET k == call[c].key IN
  /\ call[c].phase = "failing"
  /\ ~LockedByOther(k, c)
  /\ record' = [record EXCEPT ![k].state = IF @ = "reserved" THEN "failed" ELSE @]
  /\ Answer(c, "error", NoCall)
  /\ UNCHANGED effect

-----------------------------------------------------------------------------
(* A call arrives, and reserve inserts its row or finds one there.         *)
Insert(c, k, f, lease) ==
  /\ call[c].phase = "idle"
  /\ LET sent == [Unsent EXCEPT !.key = k, !.print = f] IN
     \/ /\ record[k].state = "absent"
        /\ record' = [record EXCEPT ![k] = Reserved(f, c, lease)]
        /\ call' = [call EXCEPT ![c] = [sent EXCEPT !.phase = "acquired"]]
     \/ /\ record[k].state # "absent"
        /\ call' = [call EXCEPT ![c] = [sent EXCEPT !.phase = "reading"]]
        /\ UNCHANGED record
  /\ UNCHANGED effect

(* reserve reads the row it found and answers, or goes on to take it over. *)
Read(c) ==
  LET r == record[call[c].key] IN
  /\ call[c].phase = "reading"
  /\ \/ r.print # call[c].print /\ Answer(c, "conflict", NoCall)
     \/ /\ r.print = call[c].print
        /\ \/ r.state = "completed" /\ Answer(c, "replayed", r.response)
           \/ r.state = "reserved" /\ Answer(c, "in progress", NoCall)
           \/ Reclaimable(call[c].key) /\ Goto(c, "reclaiming")
  /\ UNCHANGED <<record, effect>>

(* reserve's compare-and-swap, on the row as it is by then.                *)
Reclaim(c, lease) ==
  LET k == call[c].key IN
  /\ call[c].phase = "reclaiming"
  /\ ~LockedByOther(k, c)
  /\ \/ /\ Reclaimable(k)
        /\ record[k].print = call[c].print
        /\ record' = [record EXCEPT ![k] = Reserved(call[c].print, c, lease)]
        /\ Goto(c, "acquired")
     \/ /\ record[k].state # "failed"
        /\ Answer(c, "in progress", NoCall)
        /\ UNCHANGED record
  /\ UNCHANGED effect

(* The transaction begins and reads the clock complete will compare with.  *)
StartTransaction(c) ==
  /\ call[c].phase = "acquired"
  /\ call' = [call EXCEPT ![c].phase = "working",
                          ![c].onTime = record[call[c].key].lease > 0]
  /\ UNCHANGED <<record, effect>>

(* complete, the last statement: it throws unless it updates its row.      *)
CompleteRecord(c) ==
  LET k == call[c].key IN
  /\ call[c].phase = "working"
  /\ ~LockedByOther(k, c)
  /\ Goto(c, IF Owns(c, k) /\ call[c].onTime THEN "completing" ELSE "failing")
  /\ UNCHANGED <<record, effect>>

(* The commit publishes the mutation and the completed row together; its   *)
(* reply may be lost, and the service then handles an error.               *)
Commit(c, replyLost) ==
  LET k == call[c].key IN
  /\ call[c].phase = "completing"
  /\ record' = [record EXCEPT ![k].state = "completed", ![k].response = c]
  /\ effect' = [effect EXCEPT ![k] = @ \cup {c}]
  /\ IF replyLost THEN Goto(c, "failing") ELSE Answer(c, "performed", c)

(* Anything that throws after the reservation rolls the transaction back.  *)
Throw(c) ==
  /\ call[c].phase \in {"acquired", "working", "completing"}
  /\ Goto(c, "failing")
  /\ UNCHANGED <<record, effect>>

(* The catch branch: fail, which may itself throw.                         *)
Fail(c) ==
  LET k == call[c].key IN
  /\ call[c].phase = "failing"
  /\ ~LockedByOther(k, c)
  /\ record' = [record EXCEPT ![k].state = IF Owns(c, k) THEN "failed" ELSE @]
  /\ Answer(c, "error", NoCall)
  /\ UNCHANGED effect

FailThrows(c) ==
  /\ call[c].phase = "failing"
  /\ Answer(c, "error", NoCall)
  /\ UNCHANGED <<record, effect>>

(* The API process dies; an open transaction is rolled back.               *)
Crash(c) ==
  /\ call[c].phase \notin {"idle", "answered", "gone"}
  /\ Goto(c, "gone")
  /\ UNCHANGED <<record, effect>>

Tick ==
  /\ \E k \in Key : record[k].lease > 0
  /\ record' = [k \in Key |->
       [record[k] EXCEPT !.lease = IF @ > 0 THEN @ - 1 ELSE 0]]
  /\ UNCHANGED <<call, effect>>

-----------------------------------------------------------------------------
Next ==
  \/ \E c \in Call, k \in Key, f \in Fingerprint, lease \in 0..LeaseTicks : Insert(c, k, f, lease)
  \/ \E c \in Call, lease \in 0..LeaseTicks : Reclaim(c, lease)
  \/ \E c \in Call, replyLost \in BOOLEAN : Commit(c, replyLost)
  \/ \E c \in Call :
       \/ Read(c) \/ StartTransaction(c) \/ CompleteRecord(c)
       \/ Throw(c) \/ Fail(c) \/ FailThrows(c) \/ Crash(c)
  \/ Tick

Spec == Init /\ [][Next]_vars

-----------------------------------------------------------------------------
(* The mutation behind a key commits at most once, whatever is retried,    *)
(* taken over, failed or lost on the way: "Duplicate idempotency key does  *)
(* not create a second Item" (IMPLEMENTATION-BLUEPRINT.md).                *)
EffectOnce == \A k \in Key : \A c, d \in effect[k] : c = d

(* What a client is told is true: its own mutation, or the one of a call   *)
(* with the same fingerprint, has committed under its key.  "A committed   *)
(* effect and its replayable result cannot diverge" (IdempotencyPort).     *)
AnswersAreTrue ==
  \A c \in Call :
    call[c].outcome \in {"performed", "replayed"} =>
      /\ call[c].response \in effect[call[c].key]
      /\ call[call[c].response].print = call[c].print

(* A live reservation ends only by a step of the call that holds it: a     *)
(* superseded call's late failure does not open its successor's key.       *)
ReservationHeld ==
  [][\A k \in Key :
       (record[k].state = "reserved" /\ record[k].lease > 0
          /\ (record'[k].state # "reserved" \/ record'[k].token # record[k].token)) =>
         call'[record[k].token] # call[record[k].token]]_vars
=============================================================================
