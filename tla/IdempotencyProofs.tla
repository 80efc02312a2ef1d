-------------------------- MODULE IdempotencyProofs --------------------------
(***************************************************************************)
(* Proofs about Idempotency for every set of calls, keys and fingerprints  *)
(* and every lease.  The invariant says who stands behind a row: the call  *)
(* its token names asked for that key with that fingerprint, a completed   *)
(* row's effect is the one of its token, and a transaction between         *)
(* complete and commit still owns its row, for it holds the row's lock.    *)
(***************************************************************************)
EXTENDS Idempotency, TLAPS

(* A call that has arrived has a key and a fingerprint.                    *)
Sent ==
  \A c \in Call : call[c].phase # "idle" =>
    call[c].key \in Key /\ call[c].print \in Fingerprint

TypeInv == TypeOK /\ Sent

(* The token of a row names a call for this key and fingerprint.           *)
TokenInv ==
  \A k \in Key : record[k].state # "absent" =>
    /\ record[k].token \in Call
    /\ call[record[k].token].phase # "idle"
    /\ call[record[k].token].key = k
    /\ call[record[k].token].print = record[k].print

(* Only a completed row has an effect, the one of its token.               *)
EffectInv ==
  \A k \in Key :
    IF record[k].state = "completed"
    THEN effect[k] = {record[k].token} /\ record[k].response = record[k].token
    ELSE effect[k] = {}

(* The row lock keeps everyone else away from a completing call's row.     *)
LockInv ==
  \A c \in Call : call[c].phase = "completing" => Owns(c, call[c].key)

(* What has been answered rests on a completed row.                        *)
AnswerInv ==
  \A c \in Call : call[c].outcome \in {"performed", "replayed"} =>
    /\ call[c].phase # "idle"
    /\ record[call[c].key].state = "completed"
    /\ record[call[c].key].print = call[c].print
    /\ call[c].response = record[call[c].key].response

IInv == TypeInv /\ TokenInv /\ EffectInv /\ LockInv /\ AnswerInv

-----------------------------------------------------------------------------
LEMMA ReservedType ==
  ASSUME NEW f \in Fingerprint, NEW c \in Call, NEW lease \in 0..LeaseTicks
  PROVE  /\ Reserved(f, c, lease) \in Record
         /\ Reserved(f, c, lease).state = "reserved"
         /\ Reserved(f, c, lease).print = f
         /\ Reserved(f, c, lease).token = c
  <1>1. lease \in Nat
    BY LeaseAssumption
  <1> QED BY <1>1 DEF Reserved, AbsentRecord, Record

(* A call that moves on keeps its key, its fingerprint and its answer.     *)
LEMMA GotoStep ==
  ASSUME TypeInv, NEW c \in Call, NEW p \in Phase \ {"idle"},
         call[c].phase # "idle", Goto(c, p)
  PROVE  /\ call' \in [Call -> CallState]
         /\ Sent'
         /\ \A d \in Call : /\ call'[d].key = call[d].key
                            /\ call'[d].print = call[d].print
                            /\ call'[d].outcome = call[d].outcome
                            /\ call'[d].response = call[d].response
         /\ \A d \in Call \ {c} : call'[d] = call[d]
         /\ call'[c].phase = p
  BY DEF TypeInv, TypeOK, Sent, CallState, Goto

LEMMA AnswerStep ==
  ASSUME TypeInv, NEW c \in Call, NEW o \in Outcome, NEW r \in Call \cup {NoCall},
         call[c].phase # "idle", Answer(c, o, r)
  PROVE  /\ call' \in [Call -> CallState]
         /\ Sent'
         /\ \A d \in Call : /\ call'[d].key = call[d].key
                            /\ call'[d].print = call[d].print
         /\ \A d \in Call \ {c} : call'[d] = call[d]
         /\ call'[c].phase = "answered"
         /\ call'[c].outcome = o
         /\ call'[c].response = r
  BY DEF TypeInv, TypeOK, Sent, CallState, Answer, Phase

-----------------------------------------------------------------------------
LEMMA InsertStep ==
  ASSUME IInv, NEW c \in Call, NEW k \in Key, NEW f \in Fingerprint,
         NEW lease \in 0..LeaseTicks, Insert(c, k, f, lease)
  PROVE  IInv'
  <1> DEFINE sent == [Unsent EXCEPT !.key = k, !.print = f]
  <1> USE DEF IInv, TypeInv
  <1>1. /\ call' \in [Call -> CallState]
        /\ \A d \in Call \ {c} : call'[d] = call[d]
        /\ call'[c].key = k /\ call'[c].print = f /\ call'[c].outcome = "none"
        /\ call'[c].phase \in {"acquired", "reading"}
    <2>1. \A p \in {"acquired", "reading"} :
            /\ [sent EXCEPT !.phase = p] \in CallState
            /\ [sent EXCEPT !.phase = p].key = k
            /\ [sent EXCEPT !.phase = p].print = f
            /\ [sent EXCEPT !.phase = p].outcome = "none"
            /\ [sent EXCEPT !.phase = p].phase = p
      BY DEF Unsent, CallState, Phase, Outcome
    <2>2. PICK p \in {"acquired", "reading"} :
            call' = [call EXCEPT ![c] = [sent EXCEPT !.phase = p]]
      BY DEF Insert
    <2> QED BY <2>1, <2>2 DEF TypeOK
  <1>2. /\ effect' = effect /\ call[c].phase = "idle"
        /\ \/ record' = record
           \/ record[k].state = "absent" /\ record' = [record EXCEPT ![k] = Reserved(f, c, lease)]
    BY DEF Insert
  <1>3. record' \in [Key -> Record]
    BY <1>2, ReservedType DEF TypeOK
  <1>4. TypeInv'
    BY <1>1, <1>2, <1>3 DEF TypeOK, Sent
  <1>5. TokenInv'
    <2> SUFFICES ASSUME NEW q \in Key, record'[q].state # "absent"
                 PROVE  /\ record'[q].token \in Call
                        /\ call'[record'[q].token].phase # "idle"
                        /\ call'[record'[q].token].key = q
                        /\ call'[record'[q].token].print = record'[q].print
      BY DEF TokenInv
    <2>1. CASE record'[q] = record[q]
      BY <1>1, <1>2, <2>1 DEF TokenInv
    <2>2. CASE record'[q] # record[q]
      <3>1. q = k /\ record'[q] = Reserved(f, c, lease)
        BY <1>2, <2>2 DEF TypeOK
      <3> QED BY <1>1, <3>1, ReservedType
    <2> QED BY <2>1, <2>2
  <1>6. \A q \in Key : record'[q] # record[q] =>
          record[q].state = "absent" /\ record'[q].state = "reserved"
    BY <1>2, ReservedType DEF TypeOK
  <1>7. EffectInv'
    BY <1>2, <1>6 DEF EffectInv
  <1>8. LockInv'
    BY <1>1, <1>2, <1>6 DEF LockInv, Owns, Sent
  <1>9. AnswerInv'
    BY <1>1, <1>2, <1>6 DEF AnswerInv, Sent
  <1> QED BY <1>4, <1>5, <1>7, <1>8, <1>9

(* A step that leaves the rows alone and answers no one positively.        *)
LEMMA QuietStep ==
  ASSUME IInv, NEW c \in Call, call[c].phase # "idle", record' = record, effect' = effect,
         \/ \E p \in Phase \ {"idle", "completing"} : Goto(c, p)
         \/ \E o \in Outcome \ {"performed", "replayed"} : Answer(c, o, NoCall)
  PROVE  IInv'
  <1> USE DEF IInv
  <1>1. /\ call' \in [Call -> CallState] /\ Sent'
        /\ \A d \in Call : /\ call'[d].key = call[d].key
                           /\ call'[d].print = call[d].print
        /\ \A d \in Call \ {c} : call'[d] = call[d]
        /\ call'[c].phase \notin {"idle", "completing"}
        /\ \/ call'[c].outcome = call[c].outcome /\ call'[c].response = call[c].response
           \/ call'[c].outcome \notin {"performed", "replayed"}
    <2>1. CASE \E p \in Phase \ {"idle", "completing"} : Goto(c, p)
      BY <2>1, GotoStep
    <2>2. CASE \E o \in Outcome \ {"performed", "replayed"} : Answer(c, o, NoCall)
      BY <2>2, AnswerStep
    <2> QED BY <2>1, <2>2
  <1>2. TypeInv'
    BY <1>1 DEF TypeInv, TypeOK
  <1>3. TokenInv'
    BY <1>1 DEF TokenInv
  <1>4. EffectInv'
    BY DEF EffectInv
  <1>5. LockInv'
    BY <1>1 DEF LockInv, Owns
  <1>6. AnswerInv'
    BY <1>1 DEF AnswerInv
  <1> QED BY <1>2, <1>3, <1>4, <1>5, <1>6

LEMMA ReadStep ==
  ASSUME IInv, NEW c \in Call, Read(c)
  PROVE  IInv'
  <1> USE DEF IInv
  <1>1. call[c].phase # "idle" /\ record' = record /\ effect' = effect
    BY DEF Read
  <1>2. CASE /\ record[call[c].key].print = call[c].print
             /\ record[call[c].key].state = "completed"
             /\ Answer(c, "replayed", record[call[c].key].response)
    <2>1. call[c].key \in Key
      BY <1>1 DEF TypeInv, Sent
    <2>2. record[call[c].key].response \in Call \cup {NoCall}
      BY <2>1 DEF TypeInv, TypeOK, Record
    <2>3. /\ call' \in [Call -> CallState] /\ Sent'
          /\ \A d \in Call : /\ call'[d].key = call[d].key
                             /\ call'[d].print = call[d].print
          /\ \A d \in Call \ {c} : call'[d] = call[d]
          /\ call'[c].phase = "answered"
          /\ call'[c].response = record[call[c].key].response
      BY <1>1, <1>2, <2>2, AnswerStep DEF Outcome
    <2>4. TypeInv'
      BY <1>1, <2>3 DEF TypeInv, TypeOK
    <2>5. TokenInv' /\ EffectInv' /\ LockInv' /\ AnswerInv'
      BY <1>1, <1>2, <2>3 DEF TokenInv, EffectInv, LockInv, Owns, AnswerInv
    <2> QED BY <2>4, <2>5
  <1>3. CASE \/ \E p \in Phase \ {"idle", "completing"} : Goto(c, p)
             \/ \E o \in Outcome \ {"performed", "replayed"} : Answer(c, o, NoCall)
    BY <1>1, <1>3, QuietStep
  <1> QED BY <1>2, <1>3 DEF Read, Phase, Outcome

(* A row that changes hands was neither completed nor about to be.         *)
LEMMA ReclaimStep ==
  ASSUME IInv, NEW c \in Call, NEW lease \in 0..LeaseTicks, Reclaim(c, lease)
  PROVE  IInv'
  <1> DEFINE k == call[c].key
  <1> USE DEF IInv
  <1>1. /\ call[c].phase = "reclaiming" /\ effect' = effect
        /\ k \in Key /\ call[c].print \in Fingerprint
        /\ ~LockedByOther(k, c)
    BY DEF Reclaim, TypeInv, Sent
  <1>2. CASE Answer(c, "in progress", NoCall) /\ record' = record
    BY <1>1, <1>2, QuietStep DEF Outcome
  <1>3. CASE /\ Reclaimable(k)
             /\ record' = [record EXCEPT ![k] = Reserved(call[c].print, c, lease)]
             /\ Goto(c, "acquired")
    <2>1. /\ call' \in [Call -> CallState] /\ Sent'
          /\ \A d \in Call : /\ call'[d].key = call[d].key
                             /\ call'[d].print = call[d].print
                             /\ call'[d].outcome = call[d].outcome
                             /\ call'[d].response = call[d].response
          /\ \A d \in Call \ {c} : call'[d] = call[d]
          /\ call'[c].phase = "acquired"
      BY <1>1, <1>3, GotoStep DEF Phase
    <2>2. /\ record' \in [Key -> Record]
          /\ \A q \in Key \ {k} : record'[q] = record[q]
          /\ record'[k].state = "reserved"
          /\ record'[k].token = c
          /\ record'[k].print = call[c].print
      BY <1>1, <1>3, ReservedType DEF TypeInv, TypeOK
    <2>3. record[k].state \in {"reserved", "failed"}
      BY <1>3 DEF Reclaimable
    <2>4. TypeInv'
      BY <1>1, <2>1, <2>2 DEF TypeInv, TypeOK
    <2>5. TokenInv'
      BY <1>1, <2>1, <2>2 DEF TokenInv
    <2>6. EffectInv'
      BY <1>1, <2>2, <2>3 DEF EffectInv
    <2>7. LockInv'
      BY <1>1, <2>1, <2>2 DEF LockInv, Owns, LockedByOther, TypeInv, Sent
    <2>8. AnswerInv'
      BY <1>1, <2>1, <2>2, <2>3 DEF AnswerInv, TypeInv, Sent
    <2> QED BY <2>4, <2>5, <2>6, <2>7, <2>8
  <1> QED BY <1>2, <1>3 DEF Reclaim

LEMMA StartTransactionStep ==
  ASSUME IInv, NEW c \in Call, StartTransaction(c)
  PROVE  IInv'
  <1> USE DEF IInv
  <1>1. /\ call[c].phase = "acquired" /\ record' = record /\ effect' = effect
        /\ call' = [call EXCEPT ![c].phase = "working",
                                ![c].onTime = record[call[c].key].lease > 0]
    BY DEF StartTransaction
  <1>2. (record[call[c].key].lease > 0) \in BOOLEAN
    OBVIOUS
  <1>3. /\ call' \in [Call -> CallState]
        /\ \A d \in Call : /\ call'[d].key = call[d].key
                           /\ call'[d].print = call[d].print
                           /\ call'[d].outcome = call[d].outcome
                           /\ call'[d].response = call[d].response
        /\ \A d \in Call \ {c} : call'[d] = call[d]
        /\ call'[c].phase = "working"
    BY <1>1, <1>2 DEF TypeInv, TypeOK, CallState, Phase
  <1>4. TypeInv'
    BY <1>1, <1>3 DEF TypeInv, TypeOK, Sent
  <1>5. TokenInv' /\ EffectInv' /\ LockInv' /\ AnswerInv'
    BY <1>1, <1>3 DEF TokenInv, EffectInv, LockInv, Owns, AnswerInv
  <1> QED BY <1>4, <1>5

LEMMA CompleteRecordStep ==
  ASSUME IInv, NEW c \in Call, CompleteRecord(c)
  PROVE  IInv'
  <1> USE DEF IInv
  <1>1. call[c].phase = "working" /\ record' = record /\ effect' = effect
    BY DEF CompleteRecord
  <1>2. CASE Goto(c, "failing")
    BY <1>1, <1>2, QuietStep DEF Phase
  <1>3. CASE Owns(c, call[c].key) /\ Goto(c, "completing")
    <2>1. /\ call' \in [Call -> CallState] /\ Sent'
          /\ \A d \in Call : /\ call'[d].key = call[d].key
                             /\ call'[d].print = call[d].print
                             /\ call'[d].outcome = call[d].outcome
                             /\ call'[d].response = call[d].response
          /\ \A d \in Call \ {c} : call'[d] = call[d]
          /\ call'[c].phase = "completing"
      BY <1>1, <1>3, GotoStep DEF Phase
    <2>2. TypeInv'
      BY <1>1, <2>1 DEF TypeInv, TypeOK
    <2>3. TokenInv' /\ EffectInv' /\ LockInv' /\ AnswerInv'
      BY <1>1, <1>3, <2>1 DEF TokenInv, EffectInv, LockInv, Owns, AnswerInv
    <2> QED BY <2>2, <2>3
  <1> QED BY <1>2, <1>3 DEF CompleteRecord

(* The committing call owns its row, so the row had no effect yet and no   *)
(* one else is between complete and commit on it.                          *)
LEMMA CommitStep ==
  ASSUME IInv, NEW c \in Call, NEW replyLost \in BOOLEAN, Commit(c, replyLost)
  PROVE  IInv'
  <1> DEFINE k == call[c].key
  <1> USE DEF IInv
  <1>1. /\ call[c].phase = "completing"
        /\ record' = [record EXCEPT ![k].state = "completed", ![k].response = c]
        /\ effect' = [effect EXCEPT ![k] = @ \cup {c}]
        /\ Goto(c, "failing") \/ Answer(c, "performed", c)
    BY DEF Commit
  <1>2. k \in Key /\ record[k].state = "reserved" /\ record[k].token = c
    BY <1>1 DEF LockInv, Owns, TypeInv, Sent
  <1>3. /\ call' \in [Call -> CallState] /\ Sent'
        /\ \A d \in Call : /\ call'[d].key = call[d].key
                           /\ call'[d].print = call[d].print
        /\ \A d \in Call \ {c} : call'[d] = call[d]
        /\ call'[c].phase \in {"failing", "answered"}
        /\ \/ call'[c].outcome = call[c].outcome
           \/ call'[c].outcome = "performed" /\ call'[c].response = c
    BY <1>1, GotoStep, AnswerStep DEF Phase, Outcome
  <1>4. /\ record' \in [Key -> Record]
        /\ \A q \in Key \ {k} : record'[q] = record[q]
        /\ record'[k].state = "completed"
        /\ record'[k].response = c
        /\ record'[k].token = c
        /\ record'[k].print = record[k].print
    BY <1>1, <1>2 DEF TypeInv, TypeOK, Record
  <1>5. /\ effect' \in [Key -> SUBSET Call]
        /\ effect'[k] = {c}
        /\ \A q \in Key \ {k} : effect'[q] = effect[q]
    BY <1>1, <1>2 DEF TypeInv, TypeOK, EffectInv
  <1>6. TypeInv'
    BY <1>3, <1>4, <1>5 DEF TypeInv, TypeOK
  <1>7. TokenInv'
    BY <1>2, <1>3, <1>4 DEF TokenInv
  <1>8. EffectInv'
    BY <1>2, <1>4, <1>5 DEF EffectInv
  <1>9. LockInv'
    BY <1>2, <1>3, <1>4 DEF LockInv, Owns, TypeInv, Sent
  <1>10. AnswerInv'
    <2>1. call[c].print = record[k].print
      BY <1>2 DEF TokenInv
    <2>2. call[c].outcome \notin {"performed", "replayed"}
      BY <1>2 DEF AnswerInv
    <2>3. \A d \in Call \ {c} : call[d].outcome \in {"performed", "replayed"} =>
            call[d].key \in Key \ {k}
      BY <1>2 DEF AnswerInv, TypeInv, Sent
    <2> QED BY <1>2, <1>3, <1>4, <2>1, <2>2, <2>3 DEF AnswerInv
  <1> QED BY <1>6, <1>7, <1>8, <1>9, <1>10

LEMMA FailStep ==
  ASSUME IInv, NEW c \in Call, Fail(c)
  PROVE  IInv'
  <1> DEFINE k == call[c].key
  <1> USE DEF IInv
  <1>1. /\ call[c].phase = "failing" /\ effect' = effect /\ ~LockedByOther(k, c)
        /\ Answer(c, "error", NoCall)
        /\ record' = [record EXCEPT ![k].state = IF Owns(c, k) THEN "failed" ELSE @]
    BY DEF Fail
  <1>2. k \in Key
    BY <1>1 DEF TypeInv, Sent
  <1>3. CASE ~Owns(c, k)
    <2>1. record' = record
      BY <1>1, <1>2, <1>3 DEF TypeInv, TypeOK, Record
    <2> QED BY <1>1, <2>1, QuietStep DEF Outcome
  <1>4. CASE Owns(c, k)
    <2>1. /\ call' \in [Call -> CallState] /\ Sent'
          /\ \A d \in Call : /\ call'[d].key = call[d].key
                             /\ call'[d].print = call[d].print
          /\ \A d \in Call \ {c} : call'[d] = call[d]
          /\ call'[c].phase = "answered"
          /\ call'[c].outcome = "error"
      BY <1>1, AnswerStep DEF Outcome
    <2>2. /\ record' \in [Key -> Record]
          /\ \A q \in Key \ {k} : record'[q] = record[q]
          /\ record'[k].state = "failed"
          /\ record'[k].token = record[k].token
          /\ record'[k].print = record[k].print
      BY <1>1, <1>2, <1>4 DEF TypeInv, TypeOK, Record
    <2>3. record[k].state = "reserved"
      BY <1>4 DEF Owns
    <2>4. TypeInv'
      BY <1>1, <2>1, <2>2 DEF TypeInv, TypeOK
    <2>5. TokenInv'
      BY <1>2, <2>1, <2>2, <2>3 DEF TokenInv
    <2>6. EffectInv'
      BY <1>1, <1>2, <2>2, <2>3 DEF EffectInv
    <2>7. LockInv'
      BY <1>1, <1>2, <2>1, <2>2 DEF LockInv, Owns, LockedByOther, TypeInv, Sent
    <2>8. AnswerInv'
      BY <1>1, <1>2, <2>1, <2>2, <2>3 DEF AnswerInv, TypeInv, Sent
    <2> QED BY <2>4, <2>5, <2>6, <2>7, <2>8
  <1> QED BY <1>3, <1>4

LEMMA TickStep ==
  ASSUME IInv, Tick
  PROVE  IInv'
  <1> USE DEF IInv
  <1>1. /\ call' = call /\ effect' = effect
        /\ record' \in [Key -> Record]
        /\ \A k \in Key : /\ record'[k].state = record[k].state
                          /\ record'[k].token = record[k].token
                          /\ record'[k].print = record[k].print
                          /\ record'[k].response = record[k].response
    <2>1. ASSUME NEW r \in Record
          PROVE  [r EXCEPT !.lease = IF @ > 0 THEN @ - 1 ELSE 0] \in Record
      <3>1. (IF r.lease > 0 THEN r.lease - 1 ELSE 0) \in Nat
        BY DEF Record
      <3> QED BY <3>1 DEF Record
    <2>2. \A k \in Key : record[k] \in Record
      BY DEF TypeInv, TypeOK
    <2>3. call' = call /\ effect' = effect /\ record' \in [Key -> Record]
      BY <2>1, <2>2 DEF Tick
    <2>4. \A k \in Key :
            record'[k] = [record[k] EXCEPT !.lease = IF @ > 0 THEN @ - 1 ELSE 0]
      BY DEF Tick
    <2> QED BY <2>2, <2>3, <2>4 DEF Record
  <1>2. TypeInv'
    BY <1>1 DEF TypeInv, TypeOK, Sent
  <1>3. TokenInv' /\ EffectInv'
    BY <1>1 DEF TokenInv, EffectInv
  <1>4. LockInv' /\ AnswerInv'
    BY <1>1 DEF LockInv, Owns, AnswerInv, TypeInv, Sent
  <1> QED BY <1>2, <1>3, <1>4

-----------------------------------------------------------------------------
LEMMA InitInv == Init => IInv
  <1> SUFFICES ASSUME Init
               PROVE  IInv
    OBVIOUS
  <1>1. AbsentRecord \in Record /\ Unsent \in CallState
    BY DEF AbsentRecord, Record, Unsent, CallState, Phase, Outcome
  <1>2. TypeInv
    BY <1>1 DEF Init, TypeInv, TypeOK, Sent, Unsent
  <1>3. TokenInv /\ EffectInv /\ LockInv /\ AnswerInv
    BY DEF Init, TokenInv, EffectInv, LockInv, AnswerInv, AbsentRecord, Unsent
  <1> QED BY <1>2, <1>3 DEF IInv

LEMMA NextInv == IInv /\ [Next]_vars => IInv'
  <1> SUFFICES ASSUME IInv, [Next]_vars
               PROVE  IInv'
    OBVIOUS
  <1>1. ASSUME NEW c \in Call, NEW k \in Key, NEW f \in Fingerprint,
               NEW lease \in 0..LeaseTicks, Insert(c, k, f, lease)
        PROVE  IInv'
    BY <1>1, InsertStep
  <1>2. ASSUME NEW c \in Call, NEW lease \in 0..LeaseTicks, Reclaim(c, lease)
        PROVE  IInv'
    BY <1>2, ReclaimStep
  <1>3. ASSUME NEW c \in Call, NEW replyLost \in BOOLEAN, Commit(c, replyLost)
        PROVE  IInv'
    BY <1>3, CommitStep
  <1>4. ASSUME NEW c \in Call, Read(c)
        PROVE  IInv'
    BY <1>4, ReadStep
  <1>5. ASSUME NEW c \in Call, StartTransaction(c)
        PROVE  IInv'
    BY <1>5, StartTransactionStep
  <1>6. ASSUME NEW c \in Call, CompleteRecord(c)
        PROVE  IInv'
    BY <1>6, CompleteRecordStep
  <1>7. ASSUME NEW c \in Call, Throw(c)
        PROVE  IInv'
    BY <1>7, QuietStep DEF Throw, Phase
  <1>8. ASSUME NEW c \in Call, Fail(c)
        PROVE  IInv'
    BY <1>8, FailStep
  <1>9. ASSUME NEW c \in Call, FailThrows(c)
        PROVE  IInv'
    BY <1>9, QuietStep DEF FailThrows, Outcome
  <1>10. ASSUME NEW c \in Call, Crash(c)
         PROVE  IInv'
    BY <1>10, QuietStep DEF Crash, Phase
  <1>11. CASE Tick
    BY <1>11, TickStep
  <1>12. CASE UNCHANGED vars
    BY <1>12 DEF vars, IInv, TypeInv, TypeOK, Sent, TokenInv, EffectInv, LockInv, Owns, AnswerInv
  <1> QED
    BY <1>1, <1>2, <1>3, <1>4, <1>5, <1>6, <1>7, <1>8, <1>9, <1>10, <1>11, <1>12 DEF Next

(* Who stands behind every row, in every reachable state.                  *)
THEOREM RowsAreOwned == Spec => []IInv
  BY InitInv, NextInv, PTL DEF Spec

(* One committed mutation per idempotency key, however many calls retry,   *)
(* take over, crash or lose their replies (reserve, complete, fail).       *)
THEOREM OneEffect == Spec => []EffectOnce
  <1>1. IInv => EffectOnce
    BY DEF IInv, EffectInv, EffectOnce
  <1> QED BY <1>1, RowsAreOwned, PTL

(* A positive answer of ItemService.create or update rests on a committed  *)
(* mutation of a call with the same fingerprint.                           *)
THEOREM TrueAnswers == Spec => []AnswersAreTrue
  <1>1. ASSUME IInv
        PROVE  AnswersAreTrue
    <2> SUFFICES ASSUME NEW c \in Call, call[c].outcome \in {"performed", "replayed"}
                 PROVE  /\ call[c].response \in effect[call[c].key]
                        /\ call[call[c].response].print = call[c].print
      BY DEF AnswersAreTrue
    <2>1. /\ call[c].key \in Key
          /\ record[call[c].key].state = "completed"
          /\ record[call[c].key].print = call[c].print
          /\ call[c].response = record[call[c].key].response
      BY <1>1 DEF IInv, AnswerInv, TypeInv, Sent
    <2> QED BY <1>1, <2>1 DEF IInv, EffectInv, TokenInv
  <1> QED BY <1>1, RowsAreOwned, PTL

(* A live reservation is ended only by the call that holds it.             *)
THEOREM HeldReservations == Spec => ReservationHeld
  <1> DEFINE Held ==
        \A k \in Key :
          (record[k].state = "reserved" /\ record[k].lease > 0
             /\ (record'[k].state # "reserved" \/ record'[k].token # record[k].token)) =>
            call'[record[k].token] # call[record[k].token]
  <1>1. ASSUME IInv, [Next]_vars
        PROVE  [Held]_vars
    <2> SUFFICES ASSUME NEW k \in Key, record[k].state = "reserved", record[k].lease > 0,
                        record'[k].state # "reserved" \/ record'[k].token # record[k].token
                 PROVE  call'[record[k].token] # call[record[k].token]
      OBVIOUS
    <2>1. record \in [Key -> Record] /\ call \in [Call -> CallState]
      BY <1>1 DEF IInv, TypeInv, TypeOK
    <2>2. record[k].lease # 0
      BY <2>1 DEF Record
    <2>3. ASSUME NEW c \in Call, NEW q \in Key, NEW f \in Fingerprint,
                 NEW lease \in 0..LeaseTicks, Insert(c, q, f, lease)
          PROVE  FALSE
      BY <2>1, <2>3 DEF Insert
    <2>4. ASSUME NEW c \in Call, NEW lease \in 0..LeaseTicks, Reclaim(c, lease)
          PROVE  FALSE
      BY <2>1, <2>2, <2>4 DEF Reclaim, Reclaimable
    <2>5. ASSUME NEW c \in Call, NEW replyLost \in BOOLEAN, Commit(c, replyLost)
          PROVE  call'[record[k].token] # call[record[k].token]
      <3>1. record[call[c].key].token = c /\ call[c].phase = "completing"
        BY <1>1, <2>5 DEF Commit, IInv, LockInv, Owns
      <3>2. call[c].key = k
        BY <2>1, <2>5 DEF Commit
      <3>3. call'[c].phase # "completing"
        BY <2>1, <2>5 DEF Commit, Goto, Answer, CallState
      <3> QED BY <3>1, <3>2, <3>3
    <2>6. ASSUME NEW c \in Call, Fail(c)
          PROVE  call'[record[k].token] # call[record[k].token]
      <3>1. /\ call[c].phase = "failing"
            /\ record' = [record EXCEPT ![call[c].key].state =
                                      IF Owns(c, call[c].key) THEN "failed" ELSE @]
        BY <2>6 DEF Fail
      <3>2. record'[k] # record[k]
        OBVIOUS
      <3>3. call[c].key = k
        BY <2>1, <3>1, <3>2
      <3>4. Owns(c, k)
        BY <2>1, <3>1, <3>2, <3>3 DEF Record
      <3>5. call'[c].phase = "answered"
        BY <2>1, <2>6 DEF Fail, Answer, CallState
      <3> QED BY <3>1, <3>4, <3>5 DEF Owns
    <2>7. CASE Tick
      BY <2>1, <2>7 DEF Tick, Record
    <2>8. CASE record' = record
      BY <2>8
    <2> QED
      BY <1>1, <2>3, <2>4, <2>5, <2>6, <2>7, <2>8
      DEF Next, vars, Read, StartTransaction, CompleteRecord, Throw, FailThrows, Crash
  <1> QED BY <1>1, RowsAreOwned, PTL DEF Spec, ReservationHeld
=============================================================================
