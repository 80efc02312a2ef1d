-------------------------- MODULE MediaServiceProofs --------------------------
(***************************************************************************)
(* Proofs about the two sides of MediaService, each by itself: MediaUpload *)
(* for every set of sessions, requests and contents, and Gallery for every *)
(* table of images and any number of calls.                                *)
(*                                                                         *)
(* The invariant of the uploads says what a request on its way may rely    *)
(* on: a finalize request past its check faces a session that will never   *)
(* be pending again, one in its transaction holds its object, and whoever  *)
(* writes a temporary file is there to remove it.                          *)
(*                                                                         *)
(* That of the gallery says what a call has read and may still count on:   *)
(* if nobody has committed since, all of it, and then no statement of its  *)
(* transaction violates an index; otherwise that a new relation is still   *)
(* new, that a known one still exists, and that an order names each image  *)
(* of the list it was checked against once.                                *)
(***************************************************************************)
EXTENDS MediaUpload, Gallery, TLAPS, FiniteSetTheorems

(* A request that has begun names its session.                             *)
Sent == \A r \in Request : request[r].phase # "idle" => request[r].session \in Session

TypeInv == TypeOK /\ Sent

(* An asset belongs to the finalized session of the request that made it.  *)
AssetInv ==
  \A r \in Request : asset[r].exists =>
    /\ asset[r].session \in Session
    /\ session[asset[r].session].state = "finalized"
    /\ request[r].phase \in {"withdrawing", "ended", "gone"}

(* Of a finalized session there is exactly one.                            *)
CountInv ==
  /\ \A s \in Session : session[s].state = "finalized" =>
       \E r \in Request : asset[r].exists /\ asset[r].session = s
  /\ \A r, q \in Request :
       asset[r].exists /\ asset[q].exists /\ asset[r].session = asset[q].session => r = q

(* A finalize request found its session received, and no session returns.  *)
ReceivedInv ==
  \A r \in Request : request[r].phase \in {"verifying", "promoting", "attaching"} =>
    session[request[r].session].state \in {"received"} \cup Closed

(* A transaction under way has its object, and a committed one is taken    *)
(* back only by its own request, which never heard of the commit.          *)
HeldInv ==
  \A r \in Request :
    /\ request[r].phase = "attaching" => object[r] # NoContent
    /\ asset[r].exists =>
         /\ object[r] # NoContent \/ (asset[r].unheard /\ request[r].phase = "ended")
         /\ request[r].phase = "withdrawing" => asset[r].unheard

Attaching(s) ==
  \E r \in Request : request[r].phase = "attaching" /\ request[r].session = s

(* NoStrayTemp, and also of a file written after another was promoted.     *)
TempInv ==
  \A s \in Session :
    temp[s] # NoContent /\ (session[s].state # "received" \/ Attaching(s)) =>
      s \in swept \cup dropped \/ Answerable(s) # {}

IInv ==
  TypeInv /\ AssetInv /\ CountInv /\ ReceivedInv /\ HeldInv /\ NoStrayObject /\ TempInv

-----------------------------------------------------------------------------
(* A request that moves on keeps its session.                              *)
LEMMA MoveOn ==
  ASSUME TypeInv, NEW r \in Request, NEW p \in Phase \ {"idle"},
         request[r].phase # "idle", GoTo(r, p)
  PROVE  /\ request' \in [Request -> RequestState]
         /\ Sent'
         /\ \A q \in Request : request'[q].session = request[q].session
         /\ \A q \in Request \ {r} : request'[q] = request[q]
         /\ request'[r].phase = p
  BY DEF TypeInv, TypeOK, Sent, RequestState, GoTo

(* Steps that change neither rows nor files, and take a request anywhere   *)
(* but into a transaction or out of one that committed.                    *)
LEMMA RequestStep ==
  ASSUME IInv, NEW r \in Request, UNCHANGED <<session, temp, object, asset, swept, dropped>>,
         request' \in [Request -> RequestState], Sent',
         \A q \in Request \ {r} : request'[q] = request[q],
         request[r].phase # "ended", request'[r].phase \notin {"idle", "attaching"},
         r \in Answerable(request[r].session) => request'[r].phase = "gone",
         request[r].phase # "idle" => request'[r].session = request[r].session,
         request'[r].phase \in {"verifying", "promoting"} =>
           session[request'[r].session].state \in {"received"} \cup Closed,
         asset[r].exists => request'[r].phase \in {"ended", "gone"},
         object[r] # NoContent =>
           asset[r].exists \/ request'[r].phase \in {"withdrawing", "gone"}
  PROVE  IInv'
  <1> USE DEF IInv
  <1>1. TypeInv'
    BY DEF TypeInv, TypeOK
  <1>2. AssetInv' /\ CountInv'
    BY DEF AssetInv, CountInv
  <1>3. ReceivedInv' /\ HeldInv' /\ NoStrayObject'
    BY DEF ReceivedInv, HeldInv, NoStrayObject
  <1>4. TempInv'
    <2> SUFFICES ASSUME NEW s \in Session, temp[s] # NoContent,
                        session[s].state # "received" \/ Attaching(s)',
                        s \notin swept \cup dropped
                 PROVE  Answerable(s)' # {}
      BY DEF TempInv
    <2>1. Attaching(s)' => Attaching(s)
      BY DEF Attaching
    <2>2. PICK q \in Answerable(s) : TRUE
      BY <2>1 DEF TempInv
    <2>3. q \in Answerable(s)'
      BY <2>2 DEF Answerable
    <2> QED BY <2>3
  <1> QED BY <1>1, <1>2, <1>3, <1>4

LEMMA RequireStep ==
  ASSUME IInv, NEW r \in Request, NEW s \in Session, NEW needed \in {"pending", "received"},
         NEW next \in {"writing", "verifying"}, NEW c \in Content \cup {NoContent},
         next = "verifying" => needed = "received",
         RequireSession(r, s, needed, next, c)
  PROVE  IInv'
  <1> USE DEF IInv
  <1> DEFINE phase == IF session[s].late THEN "failing"
                      ELSE IF session[s].state = needed THEN next ELSE "ended"
  <1>1. /\ request[r].phase = "idle"
        /\ UNCHANGED <<session, temp, object, asset, swept, dropped>>
        /\ request' \in [Request -> RequestState]
        /\ \A q \in Request \ {r} : request'[q] = request[q]
        /\ request'[r].phase = phase /\ request'[r].session = s
    BY DEF RequireSession, TypeInv, TypeOK, RequestState, Phase, SessionRow, files, sweeper
  <1>2. Sent'
    BY <1>1 DEF TypeInv, Sent
  <1>3. ~asset[r].exists /\ object[r] = NoContent
    BY <1>1 DEF AssetInv, NoStrayObject
  <1>4. r \notin Answerable(request[r].session)
    BY <1>1 DEF Answerable
  <1>5. phase = "verifying" => session[s].state = "received"
    OBVIOUS
  <1>6. phase \in {"failing", "writing", "verifying", "ended"}
    OBVIOUS
  <1> HIDE DEF phase
  <1> QED BY <1>1, <1>2, <1>3, <1>4, <1>5, <1>6, RequestStep

LEMMA VerifyStep ==
  ASSUME IInv, NEW r \in Request, Verify(r)
  PROVE  IInv'
  <1> USE DEF IInv
  <1>1. PICK p \in {"ended", "promoting", "failing"} : GoTo(r, p)
    BY DEF Verify
  <1>2. /\ request[r].phase = "verifying"
        /\ UNCHANGED <<session, temp, object, asset, swept, dropped>>
    BY DEF Verify, files, sweeper
  <1>3. /\ request' \in [Request -> RequestState] /\ Sent'
        /\ \A q \in Request \ {r} : request'[q] = request[q]
        /\ request'[r].session = request[r].session /\ request'[r].phase = p
    BY <1>1, <1>2, MoveOn DEF Phase
  <1>4. session[request[r].session].state \in {"received"} \cup Closed
    BY <1>2 DEF ReceivedInv
  <1>5. ~asset[r].exists /\ object[r] = NoContent
    BY <1>2 DEF AssetInv, NoStrayObject
  <1>6. r \notin Answerable(request[r].session)
    BY <1>2 DEF Answerable
  <1> QED BY <1>2, <1>3, <1>4, <1>5, <1>6, RequestStep

LEMMA AttachFailsStep ==
  ASSUME IInv, NEW r \in Request, AttachFails(r)
  PROVE  IInv'
  <1> USE DEF IInv
  <1>1. /\ request[r].phase = "attaching" /\ GoTo(r, "withdrawing")
        /\ UNCHANGED <<session, temp, object, asset, swept, dropped>>
    BY DEF AttachFails, files, sweeper
  <1>2. /\ request' \in [Request -> RequestState] /\ Sent'
        /\ \A q \in Request \ {r} : request'[q] = request[q]
        /\ request'[r].session = request[r].session /\ request'[r].phase = "withdrawing"
    BY <1>1, MoveOn DEF Phase
  <1>3. ~asset[r].exists /\ r \notin Answerable(request[r].session)
    BY <1>1 DEF AssetInv, Answerable
  <1> QED BY <1>1, <1>2, <1>3, RequestStep

LEMMA DieStep ==
  ASSUME IInv, NEW r \in Request, Die(r)
  PROVE  IInv'
  <1> USE DEF IInv
  <1>1. /\ request[r].phase \notin {"idle", "ended"} /\ GoTo(r, "gone")
        /\ UNCHANGED <<session, temp, object, asset, swept, dropped>>
    BY DEF Die, files, sweeper
  <1>2. /\ request' \in [Request -> RequestState] /\ Sent'
        /\ \A q \in Request \ {r} : request'[q] = request[q]
        /\ request'[r].session = request[r].session /\ request'[r].phase = "gone"
    BY <1>1, MoveOn DEF Phase
  <1> QED BY <1>1, <1>2, RequestStep

-----------------------------------------------------------------------------
(* Steps that write or remove the temporary file of one session.           *)
LEMMA TempStep ==
  ASSUME IInv, NEW r \in Request, NEW p \in {"recording", "failing", "ended"},
         NEW c \in Content \cup {NoContent},
         request[r].phase \in {"writing", "discarding", "clearing"}, GoTo(r, p),
         temp' = [temp EXCEPT ![request[r].session] = c],
         c = NoContent \/ p = "recording",
         UNCHANGED <<session, object, asset, swept, dropped>>
  PROVE  IInv'
  <1> USE DEF IInv
  <1> DEFINE s == request[r].session
  <1>1. s \in Session
    BY DEF TypeInv, Sent
  <1>2. /\ request' \in [Request -> RequestState] /\ Sent'
        /\ \A q \in Request : request'[q].session = request[q].session
        /\ \A q \in Request \ {r} : request'[q] = request[q]
        /\ request'[r].phase = p
    BY MoveOn DEF Phase
  <1>3. TypeInv'
    BY <1>1, <1>2 DEF TypeInv, TypeOK
  <1>4. AssetInv' /\ CountInv'
    BY <1>2 DEF AssetInv, CountInv
  <1>5. ReceivedInv' /\ HeldInv' /\ NoStrayObject'
    BY <1>2 DEF ReceivedInv, HeldInv, NoStrayObject
  <1>6. TempInv'
    <2> SUFFICES ASSUME NEW t \in Session, temp'[t] # NoContent,
                        session[t].state # "received" \/ Attaching(t)',
                        t \notin swept \cup dropped
                 PROVE  Answerable(t)' # {}
      BY DEF TempInv
    <2>1. CASE t = s
      <3>1. p = "recording"
        BY <2>1, <1>1 DEF TypeInv, TypeOK
      <3>2. r \in Answerable(t)'
        BY <2>1, <3>1, <1>2 DEF Answerable
      <3> QED BY <3>2
    <2>2. CASE t # s
      <3>1. temp[t] # NoContent
        BY <2>2, <1>1 DEF TypeInv, TypeOK
      <3>2. Attaching(t)' => Attaching(t)
        BY <1>2 DEF Attaching
      <3>3. PICK q \in Answerable(t) : TRUE
        BY <3>1, <3>2 DEF TempInv
      <3>4. q # r /\ q \in Answerable(t)'
        BY <2>2, <3>3, <1>2 DEF Answerable
      <3> QED BY <3>4
    <2> QED BY <2>1, <2>2
  <1> QED BY <1>3, <1>4, <1>5, <1>6

LEMMA WriteTempStep ==
  ASSUME IInv, NEW r \in Request, WriteTemp(r)
  PROVE  IInv'
  <1>1. request[r].sent \in Content \cup {NoContent}
    BY DEF IInv, TypeInv, TypeOK, RequestState
  <1> QED BY <1>1, TempStep DEF WriteTemp, sweeper

LEMMA WriteTempFailsStep ==
  ASSUME IInv, NEW r \in Request, WriteTempFails(r)
  PROVE  IInv'
  BY TempStep DEF WriteTempFails, sweeper

LEMMA RemoveTempStep ==
  ASSUME IInv, NEW r \in Request, RemoveTemp(r)
  PROVE  IInv'
  BY TempStep DEF RemoveTemp, sweeper

-----------------------------------------------------------------------------
(* Steps that change session rows, leaving the files and the assets alone: *)
(* no closed session changes and no received one becomes pending again,    *)
(* and a received one that is closed with its file is given to somebody.   *)
LEMMA SessionStep ==
  ASSUME IInv, UNCHANGED <<temp, object, asset>>,
         session' \in [Session -> SessionRow],
         request' \in [Request -> RequestState], Sent',
         swept' \subseteq Session, dropped' = dropped, swept \subseteq swept',
         \A q \in Request : request'[q].session = request[q].session,
         \A q \in Request : request'[q].phase = request[q].phase \/
           /\ request[q].phase \in {"recording", "failing"}
           /\ request'[q].phase \in {"discarding", "clearing", "ended"}
           /\ request'[q].phase = "ended" =>
                session'[request[q].session].state = "received" /\
                session[request[q].session].state = "pending",
         \A s \in Session :
           \/ session'[s].state = session[s].state
           \/ session[s].state = "none" /\ session'[s].state = "pending"
           \/ session[s].state = "pending" /\ session'[s].state = "received"
           \/ /\ session[s].state \in Open /\ session'[s].state \in {"failed", "expired"}
              /\ s \in swept' \/ \E q \in Request : /\ request[q].phase = "failing"
                                                   /\ request[q].session = s
  PROVE  IInv'
  <1> USE DEF IInv
  <1>1. TypeInv'
    BY DEF TypeInv, TypeOK
  <1>2. \A r \in Request : asset[r].exists =>
          /\ session'[asset[r].session].state = "finalized"
          /\ request'[r].phase = request[r].phase
    BY DEF AssetInv, Open
  <1>3. AssetInv'
    BY <1>2 DEF AssetInv
  <1>4. CountInv'
    BY <1>2 DEF CountInv, Open
  <1>5. \A r \in Request : request'[r].phase \in {"verifying", "promoting", "attaching"} =>
          request[r].phase = request'[r].phase /\ request[r].session \in Session
    BY DEF TypeInv, Sent
  <1>6. ReceivedInv'
    BY <1>5 DEF ReceivedInv, Open, Closed
  <1>7. HeldInv'
    BY <1>2, <1>5 DEF HeldInv
  <1>8. NoStrayObject'
    BY DEF NoStrayObject
  <1>9. TempInv'
    <2> SUFFICES ASSUME NEW s \in Session, temp[s] # NoContent,
                        session'[s].state # "received" \/ Attaching(s)',
                        s \notin swept' \cup dropped
                 PROVE  Answerable(s)' # {}
      BY DEF TempInv
    <2>1. Attaching(s)' => Attaching(s)
      BY <1>5 DEF Attaching
    <2>2. Attaching(s) => session[s].state # "pending"
      BY DEF Attaching, ReceivedInv, Closed
    <2>3. CASE Answerable(s) = {}
      <3>1. session[s].state = "received" /\ ~Attaching(s)
        BY <2>3 DEF TempInv
      <3>2. PICK q \in Request : request[q].phase = "failing" /\ request[q].session = s
        BY <2>1, <3>1 DEF Open
      <3> QED BY <2>3, <3>2 DEF Answerable
    <2>4. CASE Answerable(s) # {}
      <3>1. PICK q \in Answerable(s) : TRUE
        BY <2>4
      <3>2. ~(session[s].state = "pending" /\ session'[s].state = "received")
        BY <2>1, <2>2
      <3>3. q \in Answerable(s)'
        BY <3>1, <3>2 DEF Answerable
      <3> QED BY <3>3
    <2> QED BY <2>3, <2>4
  <1> QED BY <1>1, <1>3, <1>4, <1>6, <1>7, <1>8, <1>9

LEMMA BeginStep ==
  ASSUME IInv, NEW s \in Session, Begin(s)
  PROVE  IInv'
  <1>1. /\ UNCHANGED <<temp, object, asset, request, swept, dropped>>
        /\ session[s].state = "none" /\ session' = [session EXCEPT ![s].state = "pending"]
    BY DEF Begin, files, sweeper
  <1>2. /\ session' \in [Session -> SessionRow] /\ session'[s].state = "pending"
        /\ \A t \in Session \ {s} : session'[t] = session[t]
    BY <1>1 DEF IInv, TypeInv, TypeOK, SessionRow, Open
  <1>3. request' \in [Request -> RequestState] /\ Sent' /\ swept' \subseteq Session
    BY <1>1 DEF IInv, TypeInv, TypeOK, Sent
  <1> QED BY <1>1, <1>2, <1>3, SessionStep

LEMMA PassExpiryStep ==
  ASSUME IInv, NEW s \in Session, PassExpiry(s)
  PROVE  IInv'
  <1>1. /\ UNCHANGED <<temp, object, asset, request, swept, dropped>>
        /\ session' = [session EXCEPT ![s].late = TRUE]
    BY DEF PassExpiry, files, sweeper
  <1>2. /\ session' \in [Session -> SessionRow]
        /\ \A t \in Session : session'[t].state = session[t].state
    BY <1>1 DEF IInv, TypeInv, TypeOK, SessionRow
  <1>3. request' \in [Request -> RequestState] /\ Sent' /\ swept' \subseteq Session
    BY <1>1 DEF IInv, TypeInv, TypeOK, Sent
  <1> QED BY <1>1, <1>2, <1>3, SessionStep

LEMMA RecordReceivedStep ==
  ASSUME IInv, NEW r \in Request, RecordReceived(r)
  PROVE  IInv'
  <1> DEFINE s == request[r].session
  <1> DEFINE p == IF session[s].state = "pending" THEN "ended" ELSE "discarding"
  <1>1. /\ request[r].phase = "recording" /\ GoTo(r, p)
        /\ session' = [session EXCEPT ![s] = Advanced(s, {"pending"},
             [session[s] EXCEPT !.state = "received", !.content = request[r].sent])]
        /\ UNCHANGED <<temp, object, asset, swept, dropped>>
    BY DEF RecordReceived, files, sweeper
  <1>2. s \in Session /\ request[r].sent \in Content \cup {NoContent} /\ TypeInv
    BY <1>1 DEF IInv, TypeInv, TypeOK, RequestState, Sent
  <1>3. /\ session' \in [Session -> SessionRow]
        /\ \A t \in Session \ {s} : session'[t] = session[t]
        /\ session'[s].state = IF session[s].state = "pending" THEN "received"
                               ELSE session[s].state
    BY <1>1, <1>2 DEF TypeInv, TypeOK, SessionRow, Advanced, Open
  <1>4. p \in Phase \ {"idle"} /\ p \in {"discarding", "ended"}
    BY DEF Phase
  <1>5. /\ request' \in [Request -> RequestState] /\ Sent'
        /\ \A q \in Request : request'[q].session = request[q].session
        /\ \A q \in Request \ {r} : request'[q] = request[q]
        /\ request'[r].phase = p
    BY <1>1, <1>2, <1>4, MoveOn
  <1>6. swept' \subseteq Session
    BY <1>1 DEF IInv, TypeInv, TypeOK
  <1> QED BY <1>1, <1>2, <1>3, <1>4, <1>5, <1>6, SessionStep

LEMMA FailSessionStep ==
  ASSUME IInv, NEW r \in Request, FailSession(r)
  PROVE  IInv'
  <1> DEFINE s == request[r].session
  <1>1. /\ request[r].phase = "failing" /\ GoTo(r, "clearing")
        /\ session' = [session EXCEPT ![s] = Advanced(s, Open,
             [session[s] EXCEPT !.state = request[r].verdict])]
        /\ UNCHANGED <<temp, object, asset, swept, dropped>>
    BY DEF FailSession, files, sweeper
  <1>2. s \in Session /\ request[r].verdict \in {"failed", "expired"} /\ TypeInv
    BY <1>1 DEF IInv, TypeInv, TypeOK, RequestState, Sent
  <1>3. /\ session' \in [Session -> SessionRow]
        /\ \A t \in Session \ {s} : session'[t] = session[t]
        /\ session'[s].state = IF session[s].state \in Open THEN request[r].verdict
                               ELSE session[s].state
    BY <1>1, <1>2 DEF TypeInv, TypeOK, SessionRow, Advanced, Closed
  <1>4. /\ request' \in [Request -> RequestState] /\ Sent'
        /\ \A q \in Request : request'[q].session = request[q].session
        /\ \A q \in Request \ {r} : request'[q] = request[q]
        /\ request'[r].phase = "clearing"
    BY <1>1, <1>2, MoveOn DEF Phase
  <1>5. swept' \subseteq Session
    BY <1>1 DEF IInv, TypeInv, TypeOK
  <1> QED BY <1>1, <1>2, <1>3, <1>4, <1>5, SessionStep

LEMMA ExpireSessionsStep ==
  ASSUME IInv, ExpireSessions
  PROVE  IInv'
  <1> DEFINE overdue == {s \in Session : session[s].late /\ session[s].state \in Open}
  <1>1. /\ UNCHANGED <<temp, object, asset, request, dropped>>
        /\ swept' = swept \cup overdue
        /\ session' = [s \in Session |->
             IF s \in overdue THEN [session[s] EXCEPT !.state = "expired"] ELSE session[s]]
    BY DEF ExpireSessions, files
  <1>2. /\ session' \in [Session -> SessionRow]
        /\ \A s \in Session : \/ session'[s].state = session[s].state
                              \/ /\ session[s].state \in Open
                                 /\ session'[s].state = "expired" /\ s \in swept'
    BY <1>1 DEF IInv, TypeInv, TypeOK, SessionRow, Closed
  <1>3. request' \in [Request -> RequestState] /\ Sent' /\ swept' \subseteq Session
    BY <1>1 DEF IInv, TypeInv, TypeOK, Sent
  <1> QED BY <1>1, <1>2, <1>3, SessionStep

-----------------------------------------------------------------------------
(* A temporary file is removed by the sweep, or the sweep gives up.        *)
LEMMA SweepStep ==
  ASSUME IInv, \/ \E s \in Session : SweepTemp(s)
               \/ SweepStops
  PROVE  IInv'
  <1> USE DEF IInv
  <1>1. /\ UNCHANGED <<session, object, asset, request>>
        /\ temp' \in [Session -> Content \cup {NoContent}]
        /\ swept' \subseteq Session /\ dropped' \subseteq Session
        /\ \A t \in Session : temp'[t] # NoContent =>
             /\ temp'[t] = temp[t]
             /\ t \in swept \cup dropped => t \in swept' \cup dropped'
    BY DEF SweepTemp, SweepStops, files, TypeInv, TypeOK
  <1>2. TypeInv'
    BY <1>1 DEF TypeInv, TypeOK, Sent
  <1>3. AssetInv' /\ CountInv' /\ ReceivedInv' /\ HeldInv' /\ NoStrayObject'
    BY <1>1 DEF AssetInv, CountInv, ReceivedInv, HeldInv, NoStrayObject
  <1>4. TempInv'
    BY <1>1 DEF TempInv, Attaching, Answerable
  <1> QED BY <1>2, <1>3, <1>4

LEMMA WithdrawStep ==
  ASSUME IInv, NEW r \in Request, Withdraw(r)
  PROVE  IInv'
  <1> USE DEF IInv
  <1>1. /\ request[r].phase = "withdrawing" /\ GoTo(r, "ended")
        /\ object' = [object EXCEPT ![r] = NoContent]
        /\ UNCHANGED <<session, temp, asset, swept, dropped>>
    BY DEF Withdraw, sweeper
  <1>2. /\ request' \in [Request -> RequestState] /\ Sent'
        /\ \A q \in Request : request'[q].session = request[q].session
        /\ \A q \in Request \ {r} : request'[q] = request[q]
        /\ request'[r].phase = "ended"
    BY <1>1, MoveOn DEF Phase
  <1>3. object' \in [Request -> Content \cup {NoContent}]
        /\ \A q \in Request \ {r} : object'[q] = object[q]
        /\ object'[r] = NoContent
    BY <1>1 DEF TypeInv, TypeOK
  <1>4. TypeInv'
    BY <1>1, <1>2, <1>3 DEF TypeInv, TypeOK
  <1>5. AssetInv' /\ CountInv' /\ ReceivedInv'
    BY <1>1, <1>2 DEF AssetInv, CountInv, ReceivedInv
  <1>6. HeldInv' /\ NoStrayObject'
    BY <1>1, <1>2, <1>3 DEF HeldInv, NoStrayObject
  <1>7. TempInv'
    <2>1. \A s \in Session : /\ Attaching(s)' => Attaching(s)
                             /\ Answerable(s)' = Answerable(s)
      BY <1>1, <1>2 DEF Attaching, Answerable
    <2> QED BY <1>1, <2>1 DEF TempInv
  <1> QED BY <1>4, <1>5, <1>6, <1>7

LEMMA PromoteStep ==
  ASSUME IInv, NEW r \in Request, Promote(r)
  PROVE  IInv'
  <1> USE DEF IInv
  <1> DEFINE s == request[r].session
  <1>1. /\ request[r].phase = "promoting"
        /\ s \in Session /\ session[s].state \in {"received"} \cup Closed
        /\ ~asset[r].exists /\ object[r] = NoContent
        /\ r \notin Answerable(s)
        /\ UNCHANGED <<session, asset, swept, dropped>>
    BY DEF Promote, sweeper, TypeInv, Sent, ReceivedInv, AssetInv, NoStrayObject, Answerable
  <1>2. CASE temp[s] = NoContent
    <2>1. GoTo(r, "ended") /\ UNCHANGED <<temp, object>>
      BY <1>2 DEF Promote, files
    <2>2. /\ request' \in [Request -> RequestState] /\ Sent'
          /\ \A q \in Request \ {r} : request'[q] = request[q]
          /\ request'[r].session = s /\ request'[r].phase = "ended"
      BY <1>1, <2>1, MoveOn DEF Phase
    <2> QED BY <1>1, <2>1, <2>2, RequestStep
  <1>3. CASE temp[s] # NoContent
    <2>1. /\ GoTo(r, "attaching")
          /\ object' = [object EXCEPT ![r] = temp[s]]
          /\ temp' = [temp EXCEPT ![s] = NoContent]
      BY <1>3 DEF Promote
    <2>2. /\ request' \in [Request -> RequestState] /\ Sent'
          /\ \A q \in Request : request'[q].session = request[q].session
          /\ \A q \in Request \ {r} : request'[q] = request[q]
          /\ request'[r].phase = "attaching"
      BY <1>1, <2>1, MoveOn DEF Phase
    <2>3. /\ object' \in [Request -> Content \cup {NoContent}]
          /\ temp' \in [Session -> Content \cup {NoContent}]
          /\ object'[r] # NoContent /\ \A q \in Request \ {r} : object'[q] = object[q]
          /\ temp'[s] = NoContent /\ \A t \in Session \ {s} : temp'[t] = temp[t]
      BY <1>1, <1>3, <2>1 DEF TypeInv, TypeOK
    <2>4. TypeInv'
      BY <1>1, <2>2, <2>3 DEF TypeInv, TypeOK
    <2>5. AssetInv' /\ CountInv' /\ ReceivedInv'
      BY <1>1, <2>2 DEF AssetInv, CountInv, ReceivedInv
    <2>6. HeldInv' /\ NoStrayObject'
      BY <1>1, <2>2, <2>3 DEF HeldInv, NoStrayObject
    <2>7. TempInv'
      <3>1. \A t \in Session \ {s} : /\ Attaching(t)' => Attaching(t)
                                     /\ Answerable(t)' = Answerable(t)
        BY <1>1, <2>2 DEF Attaching, Answerable
      <3> QED BY <1>1, <2>3, <3>1 DEF TempInv
    <2> QED BY <2>4, <2>5, <2>6, <2>7
  <1> QED BY <1>2, <1>3

(* The commit: the session was still open, so it had no asset yet.         *)
LEMMA CommitStep ==
  ASSUME IInv, NEW r \in Request, Attach(r), session[request[r].session].state = "received"
  PROVE  IInv'
  <1> USE DEF IInv
  <1> DEFINE s == request[r].session
  <1>0. PICK lost \in BOOLEAN :
          /\ asset' = [asset EXCEPT ![r] = [exists |-> TRUE, session |-> s,
                                            content |-> request[r].seen, unheard |-> lost]]
          /\ GoTo(r, IF ~lost THEN "ended" ELSE "withdrawing")
    BY DEF Attach
  <1> DEFINE row == [exists |-> TRUE, session |-> s, content |-> request[r].seen,
                     unheard |-> lost]
  <1>1. PICK p \in {"ended", "withdrawing"} :
          GoTo(r, p) /\ (p = "withdrawing" => lost)
    BY <1>0
  <1>2. /\ request[r].phase = "attaching" /\ s \in Session
        /\ request[r].seen \in Content \cup {NoContent}
        /\ session' = [session EXCEPT ![s] = [session[s] EXCEPT !.state = "finalized"]]
        /\ asset' = [asset EXCEPT ![r] = row]
        /\ UNCHANGED <<temp, object, swept, dropped>>
    BY <1>0 DEF Attach, Advanced, files, sweeper, TypeInv, TypeOK, RequestState, Sent
  <1>3. /\ request' \in [Request -> RequestState] /\ Sent'
        /\ \A q \in Request : request'[q].session = request[q].session
        /\ \A q \in Request \ {r} : request'[q] = request[q]
        /\ request'[r].phase = p
    BY <1>1, <1>2, MoveOn DEF Phase
  <1>4. /\ session' \in [Session -> SessionRow] /\ session'[s].state = "finalized"
        /\ \A t \in Session \ {s} : session'[t] = session[t]
    BY <1>2 DEF TypeInv, TypeOK, SessionRow, Closed
  <1>5. /\ asset' \in [Request -> AssetRow] /\ asset'[r] = row
        /\ \A q \in Request \ {r} : asset'[q] = asset[q]
    BY <1>2 DEF TypeInv, TypeOK, AssetRow
  <1>6. \A q \in Request : asset[q].exists => asset[q].session # s
    BY DEF AssetInv
  <1>7. TypeInv'
    BY <1>2, <1>3, <1>4, <1>5 DEF TypeInv, TypeOK
  <1>8. AssetInv'
    BY <1>2, <1>3, <1>4, <1>5, <1>6 DEF AssetInv
  <1>9. CountInv'
    <2>1. ASSUME NEW t \in Session, session'[t].state = "finalized"
          PROVE  \E q \in Request : asset'[q].exists /\ asset'[q].session = t
      <3>1. CASE t = s
        BY <1>5, <3>1
      <3>2. CASE t # s
        <4>1. PICK q \in Request : asset[q].exists /\ asset[q].session = t
          BY <1>4, <2>1, <3>2 DEF CountInv
        <4>2. q # r
          BY <1>2, <4>1 DEF AssetInv
        <4> QED BY <1>5, <4>1, <4>2
      <3> QED BY <3>1, <3>2
    <2>2. ASSUME NEW q1 \in Request, NEW q2 \in Request, asset'[q1].exists, asset'[q2].exists,
                 asset'[q1].session = asset'[q2].session
          PROVE  q1 = q2
      BY <1>5, <1>6, <2>2 DEF CountInv
    <2> QED BY <2>1, <2>2 DEF CountInv
  <1>10. ReceivedInv'
    BY <1>2, <1>3, <1>4 DEF ReceivedInv, Closed
  <1>11. HeldInv' /\ NoStrayObject'
    BY <1>1, <1>2, <1>3, <1>5 DEF HeldInv, NoStrayObject
  <1>12. TempInv'
    <2>1. /\ \A t \in Session : Answerable(t)' = Answerable(t) /\ (Attaching(t)' => Attaching(t))
          /\ Attaching(s)
      BY <1>1, <1>2, <1>3 DEF Answerable, Attaching
    <2> QED BY <1>2, <1>4, <2>1 DEF TempInv
  <1> QED BY <1>7, <1>8, <1>9, <1>10, <1>11, <1>12

LEMMA AttachStep ==
  ASSUME IInv, NEW r \in Request, Attach(r)
  PROVE  IInv'
  <1> USE DEF IInv
  <1> DEFINE s == request[r].session
  <1>1. CASE session[s].state # "received"
    <2>1. /\ request[r].phase = "attaching" /\ s \in Session /\ GoTo(r, "withdrawing")
          /\ UNCHANGED <<temp, object, asset, swept, dropped>>
          /\ session' = [session EXCEPT ![s] = session[s]]
      BY <1>1 DEF Attach, Advanced, files, sweeper, TypeInv, Sent
    <2>2. session' = session
      BY <2>1 DEF TypeInv, TypeOK
    <2>3. /\ request' \in [Request -> RequestState] /\ Sent'
          /\ \A q \in Request \ {r} : request'[q] = request[q]
          /\ request'[r].session = s /\ request'[r].phase = "withdrawing"
      BY <2>1, MoveOn DEF Phase
    <2>4. ~asset[r].exists /\ r \notin Answerable(s)
      BY <2>1 DEF AssetInv, Answerable
    <2> QED BY <2>1, <2>2, <2>3, <2>4, RequestStep
  <1> QED BY <1>1, CommitStep

-----------------------------------------------------------------------------
LEMMA InitIInv == Init => IInv
  <1> SUFFICES ASSUME Init PROVE IInv
    OBVIOUS
  <1>1. TypeInv
    BY DEF Init, TypeInv, TypeOK, Sent, SessionRow, AssetRow, RequestState, NoAsset, Unsent, Phase
  <1>2. AssetInv /\ CountInv /\ ReceivedInv /\ HeldInv /\ NoStrayObject /\ TempInv
    BY DEF Init, AssetInv, CountInv, ReceivedInv, HeldInv, NoStrayObject, TempInv, NoAsset, Unsent
  <1> QED BY <1>1, <1>2 DEF IInv

LEMMA NextIInv == IInv /\ [Next]_vars => IInv'
  <1> SUFFICES ASSUME IInv, [Next]_vars PROVE IInv'
    OBVIOUS
  <1>1. CASE UNCHANGED vars
    BY <1>1 DEF vars, IInv, TypeInv, TypeOK, Sent, AssetInv, CountInv, ReceivedInv, HeldInv,
                NoStrayObject, TempInv, Attaching, Answerable
  <1>2. ASSUME NEW r \in Request, Continue(r) PROVE IInv'
    BY <1>2, WriteTempStep, WriteTempFailsStep, RecordReceivedStep, RemoveTempStep,
       FailSessionStep, VerifyStep, PromoteStep, AttachStep, AttachFailsStep, WithdrawStep
    DEF Continue
  <1>3. ASSUME NEW r \in Request, NEW s \in Session, FinalizeUpload(r, s) PROVE IInv'
    BY <1>3, RequireStep DEF FinalizeUpload
  <1>4. ASSUME NEW r \in Request, NEW s \in Session, NEW c \in Content, ReceiveContent(r, s, c)
        PROVE IInv'
    BY <1>4, RequireStep DEF ReceiveContent
  <1>5. ASSUME NEW r \in Request, Die(r) PROVE IInv'
    BY <1>5, DieStep
  <1>6. ASSUME NEW s \in Session, Begin(s) \/ PassExpiry(s) \/ SweepTemp(s) PROVE IInv'
    BY <1>6, BeginStep, PassExpiryStep, SweepStep
  <1>7. CASE ExpireSessions
    BY <1>7, ExpireSessionsStep
  <1>8. CASE SweepStops
    BY <1>8, SweepStep
  <1> QED BY <1>1, <1>2, <1>3, <1>4, <1>5, <1>6, <1>7, <1>8 DEF Next, Enter

(* The tables, the files and the requests keep their types, and the whole  *)
(* invariant holds: every request on its way may rely on what it has seen. *)
THEOREM Correctness == Spec => []IInv
  BY InitIInv, NextIInv, PTL DEF Spec

THEOREM TypeCorrect == Spec => []TypeOK
  <1>1. IInv => TypeOK
    BY DEF IInv, TypeInv
  <1> QED BY <1>1, Correctness, PTL

(* Overlapping finalize requests, expiry and failures leave one asset per  *)
(* finalized upload and none of any other, lost replies or not.            *)
THEOREM UploadSafety == Spec => []OneAssetPerUpload
  <1>1. IInv => OneAssetPerUpload
    <2> SUFFICES ASSUME IInv, NEW s \in Session
                 PROVE  /\ session[s].state = "finalized" <=> AssetsOf(s) # {}
                        /\ \A r, q \in AssetsOf(s) : r = q
      BY DEF OneAssetPerUpload
    <2>1. session[s].state = "finalized" => AssetsOf(s) # {}
      BY DEF IInv, CountInv, AssetsOf
    <2>2. AssetsOf(s) # {} => session[s].state = "finalized"
      BY DEF IInv, AssetInv, AssetsOf
    <2>3. \A r, q \in AssetsOf(s) : r = q
      BY DEF IInv, CountInv, AssetsOf
    <2> QED BY <2>1, <2>2, <2>3
  <1> QED BY <1>1, Correctness, PTL

(* No asset loses its file to any clean-up but that of the request that    *)
(* made it, and to that one only when the reply of its commit was lost.    *)
THEOREM ObjectSafety == Spec => []AssetHasObject
  <1>1. IInv => AssetHasObject
    BY DEF IInv, HeldInv, AssetHasObject
  <1> QED BY <1>1, Correctness, PTL

(* An object without a row is a live or a dead request's.                  *)
THEOREM ObjectsAccounted == Spec => []NoStrayObject
  <1>1. IInv => NoStrayObject
    BY DEF IInv
  <1> QED BY <1>1, Correctness, PTL

(* A temporary file that awaits no finalize is somebody's to remove.       *)
THEOREM TempsAccounted == Spec => []NoStrayTemp
  <1>1. IInv => NoStrayTemp
    BY DEF IInv, TempInv, NoStrayTemp
  <1> QED BY <1>1, Correctness, PTL

(* A closed session stays what it is: advanceSession is guarded by the     *)
(* state, and the sweep's statement by the open states.                    *)
THEOREM Finality == Spec => ClosedIsFinal
  <1> DEFINE Final == \A s \in Session :
                        session[s].state \in Closed => session'[s].state = session[s].state
  <1>1. ASSUME IInv, [Next]_vars PROVE Final
    <2> SUFFICES ASSUME NEW s \in Session, session[s].state \in Closed
                 PROVE  session'[s].state = session[s].state
      OBVIOUS
    <2> USE <1>1 DEF IInv, TypeInv, TypeOK, Closed
    <2>1. CASE UNCHANGED session
      BY <2>1
    <2>2. ASSUME NEW t \in Session, Begin(t) \/ PassExpiry(t)
          PROVE  session'[s].state = session[s].state
      BY <2>2 DEF Begin, PassExpiry, SessionRow
    <2>3. CASE ExpireSessions
      BY <2>3 DEF ExpireSessions, Open
    <2>4. ASSUME NEW r \in Request, RecordReceived(r) \/ FailSession(r) \/ Attach(r)
          PROVE  session'[s].state = session[s].state
      BY <2>4 DEF RecordReceived, FailSession, Attach, Advanced, Open
    <2>5. \A r \in Request : Continue(r) =>
            UNCHANGED session \/ RecordReceived(r) \/ FailSession(r) \/ Attach(r)
      BY DEF Continue, WriteTemp, WriteTempFails, RemoveTemp, Verify, Promote, AttachFails, Withdraw
    <2>6. Enter \/ SweepStops \/ (\E r \in Request : Die(r)) \/ (\E t \in Session : SweepTemp(t))
            => UNCHANGED session
      BY DEF Enter, FinalizeUpload, ReceiveContent, RequireSession, SweepStops, Die, SweepTemp
    <2>7. CASE Next
      <3>1. CASE \E t \in Session : Begin(t) \/ PassExpiry(t) \/ SweepTemp(t)
        BY <2>1, <2>2, <2>6, <3>1
      <3>2. CASE \E r \in Request : Continue(r) \/ Die(r)
        BY <2>1, <2>4, <2>5, <2>6, <3>2
      <3> QED BY <2>1, <2>3, <2>6, <2>7, <3>1, <3>2 DEF Next
    <2> QED BY <1>1, <2>1, <2>7 DEF vars
  <1>2. IInv /\ [Next]_vars => [Final]_vars
    BY <1>1
  <1>3. Spec => [][Final]_vars
    BY <1>2, Correctness, PTL DEF Spec
  <1> QED BY <1>3 DEF ClosedIsFinal
-----------------------------------------------------------------------------
(* The way of the bytes.  Whatever a session's temporary file, its row, a  *)
(* finalize request, an object or an asset holds was sent for that session.*)
Streams(s) == {request[p].sent : p \in ContentRequests(s)}

SourceOfSessions ==
  \A s \in Session :
    /\ temp[s] \in Streams(s) \cup {NoContent}
    /\ session[s].state = "received" => session[s].content \in Streams(s)

SourceOfRequests ==
  \A r \in Request :
    /\ request[r].phase = "idle" => request[r].sent = NoContent
    /\ request[r].phase \in {"writing", "recording"} => request[r].sent # NoContent
    /\ request[r].phase \in {"verifying", "promoting", "attaching"} =>
         request[r].seen \in Streams(request[r].session)
    /\ request[r].phase \in {"promoting", "attaching"} =>
         Streams(request[r].session) \cap RightSignature # {}
    /\ request[r].phase = "attaching" => object[r] \in Streams(request[r].session)

SourceOfAssets ==
  \A r \in Request : asset[r].exists =>
    /\ object[r] \in Streams(asset[r].session) \cup {NoContent}
    /\ asset[r].content \in Streams(asset[r].session)
    /\ Streams(asset[r].session) \cap RightSignature # {}

SourceInv == SourceOfSessions /\ SourceOfRequests /\ SourceOfAssets

(* What a step may do with bytes: requests keep what they were given, ...  *)
KeepsRequests ==
  \A q \in Request :
    \/ request[q].phase = "idle"
    \/ /\ request'[q].phase # "idle" /\ request'[q].session = request[q].session
       /\ request'[q].sent = request[q].sent /\ request'[q].seen = request[q].seen

(* ... a file is a request's stream or gone, a recorded row a request's, ... *)
MovesBytes ==
  \A s \in Session :
    /\ \/ temp'[s] \in {temp[s], NoContent}
       \/ \E q \in Request : /\ request[q].phase = "writing" /\ request[q].session = s
                             /\ temp'[s] = request[q].sent
    /\ session'[s].state = "received" =>
         \/ session[s].state = "received" /\ session'[s].content = session[s].content
         \/ \E q \in Request : /\ request[q].phase = "recording" /\ request[q].session = s
                               /\ session'[s].content = request[q].sent

(* ... each phase is entered with what it relies on, ...                   *)
EntersPhases ==
  \A q \in Request :
    /\ request'[q].phase = "idle" => request'[q] = request[q]
    /\ request'[q].phase = "writing" =>
         request'[q] = request[q] \/ request'[q].sent # NoContent
    /\ request'[q].phase = "recording" => request[q].phase \in {"writing", "recording"}
    /\ request'[q].phase = "verifying" =>
         \/ request'[q] = request[q]
         \/ /\ request'[q].session \in Session
            /\ session[request'[q].session].state = "received"
            /\ request'[q].seen = session[request'[q].session].content
    /\ request'[q].phase = "promoting" =>
         \/ request'[q] = request[q]
         \/ /\ request[q].phase = "verifying"
            /\ temp[request[q].session] \in RightSignature
    /\ request'[q].phase = "attaching" =>
         \/ request'[q] = request[q] /\ object'[q] = object[q]
         \/ /\ request[q].phase = "promoting" /\ object'[q] # NoContent
            /\ object'[q] = temp[request[q].session]

(* ... and an asset that exists keeps its object or is made with it, or is *)
(* left without.                                                           *)
MakesAssets ==
  \A q \in Request : asset'[q].exists =>
    /\ object'[q] \in {object[q], NoContent}
    /\ \/ asset'[q] = asset[q]
       \/ /\ request[q].phase = "attaching"
          /\ asset'[q].session = request[q].session /\ asset'[q].content = request[q].seen

Lawful == KeepsRequests /\ MovesBytes /\ EntersPhases /\ MakesAssets

(* A request that moves on keeps all it was given.                         *)
LEMMA MoveOnKeeps ==
  ASSUME TypeInv, NEW r \in Request, NEW p \in Phase \ {"idle"},
         request[r].phase # "idle", GoTo(r, p)
  PROVE  /\ KeepsRequests
         /\ \A q \in Request \ {r} : request'[q] = request[q]
         /\ request'[r].phase = p
  BY DEF TypeInv, TypeOK, RequestState, GoTo, KeepsRequests

(* A request that begins: it finds its session, and takes what it finds.   *)
LEMMA EnterLawful ==
  ASSUME IInv, NEW r \in Request, NEW s \in Session, NEW needed \in {"pending", "received"},
         NEW next \in {"writing", "verifying"}, NEW c \in Content \cup {NoContent},
         next = "verifying" => needed = "received",
         next = "writing" => c # NoContent,
         RequireSession(r, s, needed, next, c)
  PROVE  Lawful
  <1> DEFINE phase == IF session[s].late THEN "failing"
                      ELSE IF session[s].state = needed THEN next ELSE "ended"
  <1>1. /\ request[r].phase = "idle"
        /\ UNCHANGED <<session, temp, object, asset, swept, dropped>>
        /\ \A q \in Request \ {r} : request'[q] = request[q]
        /\ request'[r].phase = phase /\ request'[r].session = s
        /\ request'[r].sent = c /\ request'[r].seen = session[s].content
    BY DEF RequireSession, IInv, TypeInv, TypeOK, files, sweeper
  <1>2. /\ phase \in {"failing", "ended", "writing", "verifying"}
        /\ phase \in {"writing", "verifying"} => phase = next /\ session[s].state = needed
    OBVIOUS
  <1> HIDE DEF phase
  <1>3. KeepsRequests /\ MovesBytes
    BY <1>1 DEF KeepsRequests, MovesBytes
  <1>4. EntersPhases
    BY <1>1, <1>2 DEF EntersPhases
  <1>5. MakesAssets
    BY <1>1 DEF MakesAssets
  <1> QED BY <1>3, <1>4, <1>5 DEF Lawful
(* A request that moves on without touching bytes or entering a phase that *)
(* relies on them.                                                         *)
LEMMA MoveLawful ==
  ASSUME IInv, NEW r \in Request, NEW p \in Phase \ {"idle", "writing", "recording", "verifying",
                                                     "promoting", "attaching"},
         request[r].phase # "idle", GoTo(r, p),
         \A s \in Session : temp'[s] \in {temp[s], NoContent},
         \A s \in Session : session'[s].state = "received" => session'[s] = session[s],
         \A q \in Request : asset'[q].exists =>
           object'[q] \in {object[q], NoContent} /\ asset'[q] = asset[q],
         \A q \in Request \ {r} : object'[q] = object[q]
  PROVE  Lawful
  <1>1. /\ KeepsRequests
        /\ \A q \in Request \ {r} : request'[q] = request[q]
        /\ request'[r].phase = p
    BY MoveOnKeeps DEF IInv
  <1>2. MovesBytes
    BY DEF MovesBytes
  <1>3. EntersPhases
    BY <1>1 DEF EntersPhases
  <1>4. MakesAssets
    BY DEF MakesAssets
  <1> QED BY <1>1, <1>2, <1>3, <1>4 DEF Lawful

LEMMA ContinueLawful ==
  ASSUME IInv, NEW r \in Request, Continue(r)
  PROVE  Lawful
  <1> DEFINE s == request[r].session
  <1> USE DEF IInv, files, sweeper
  <1>1. ASSUME WriteTemp(r) PROVE Lawful
    <2>1. /\ KeepsRequests
          /\ \A q \in Request \ {r} : request'[q] = request[q]
          /\ request'[r].phase = "recording"
      BY <1>1, MoveOnKeeps DEF WriteTemp, Phase
    <2>2. MovesBytes
      BY <1>1 DEF WriteTemp, MovesBytes, TypeInv, TypeOK
    <2>3. EntersPhases /\ MakesAssets
      BY <1>1, <2>1 DEF WriteTemp, EntersPhases, MakesAssets
    <2> QED BY <2>1, <2>2, <2>3 DEF Lawful
  <1>2. ASSUME WriteTempFails(r) \/ RemoveTemp(r) PROVE Lawful
    <2>1. PICK p \in {"failing", "ended"} : GoTo(r, p)
      BY <1>2 DEF WriteTempFails, RemoveTemp
    <2>2. /\ request[r].phase # "idle" /\ UNCHANGED <<session, object, asset>>
          /\ \A t \in Session : temp'[t] \in {temp[t], NoContent}
      BY <1>2 DEF WriteTempFails, RemoveTemp, TypeInv, TypeOK
    <2> QED BY <2>1, <2>2, MoveLawful DEF Phase
  <1>3. ASSUME RecordReceived(r) PROVE Lawful
    <2>1. PICK p \in {"discarding", "ended"} : GoTo(r, p)
      BY <1>3 DEF RecordReceived
    <2>2. request[r].phase = "recording" /\ s \in Session /\ UNCHANGED <<temp, object, asset>>
      BY <1>3 DEF RecordReceived, TypeInv, Sent
    <2>3. /\ KeepsRequests
          /\ \A q \in Request \ {r} : request'[q] = request[q]
          /\ request'[r].phase = p
      BY <2>1, <2>2, MoveOnKeeps DEF Phase
    <2>4. /\ \A t \in Session \ {s} : session'[t] = session[t]
          /\ \/ session'[s] = session[s]
             \/ session'[s].content = request[r].sent
      BY <1>3, <2>2 DEF RecordReceived, Advanced, TypeInv, TypeOK, SessionRow
    <2>5. MovesBytes
      BY <2>2, <2>4 DEF MovesBytes
    <2>6. EntersPhases /\ MakesAssets
      BY <2>2, <2>3 DEF EntersPhases, MakesAssets
    <2> QED BY <2>3, <2>5, <2>6 DEF Lawful
  <1>4. ASSUME FailSession(r) PROVE Lawful
    <2>1. /\ request[r].phase = "failing" /\ GoTo(r, "clearing")
          /\ s \in Session /\ UNCHANGED <<temp, object, asset>>
          /\ request[r].verdict \in {"failed", "expired"}
      BY <1>4 DEF FailSession, TypeInv, TypeOK, Sent, RequestState
    <2>2. \A t \in Session : session'[t].state = "received" => session'[t] = session[t]
      BY <1>4, <2>1 DEF FailSession, Advanced, TypeInv, TypeOK, SessionRow
    <2> QED BY <2>1, <2>2, MoveLawful DEF Phase
  <1>5. ASSUME Verify(r) PROVE Lawful
    <2>1. PICK p \in {"ended", "promoting", "failing"} :
            GoTo(r, p) /\ (p = "promoting" => temp[s] \in RightSignature)
      BY <1>5 DEF Verify
    <2>2. request[r].phase = "verifying" /\ UNCHANGED <<session, temp, object, asset>>
      BY <1>5 DEF Verify
    <2>3. /\ KeepsRequests
          /\ \A q \in Request \ {r} : request'[q] = request[q]
          /\ request'[r].phase = p
      BY <2>1, <2>2, MoveOnKeeps DEF Phase
    <2>4. MovesBytes /\ MakesAssets
      BY <2>2 DEF MovesBytes, MakesAssets
    <2>5. EntersPhases
      BY <2>1, <2>2, <2>3 DEF EntersPhases
    <2> QED BY <2>3, <2>4, <2>5 DEF Lawful
  <1>6. ASSUME Promote(r) PROVE Lawful
    <2>1. request[r].phase = "promoting" /\ s \in Session /\ UNCHANGED <<session, asset>>
      BY <1>6 DEF Promote, TypeInv, Sent
    <2>2. CASE temp[s] = NoContent
      BY <1>6, <2>1, <2>2, MoveLawful DEF Promote, Phase
    <2>3. CASE temp[s] # NoContent
      <3>1. /\ GoTo(r, "attaching")
            /\ object' = [object EXCEPT ![r] = temp[s]]
            /\ temp' = [temp EXCEPT ![s] = NoContent]
        BY <1>6, <2>3 DEF Promote
      <3>2. /\ KeepsRequests
            /\ \A q \in Request \ {r} : request'[q] = request[q]
            /\ request'[r].phase = "attaching"
        BY <2>1, <3>1, MoveOnKeeps DEF Phase
      <3>3. object'[r] = temp[s] /\ \A q \in Request \ {r} : object'[q] = object[q]
        BY <3>1 DEF TypeInv, TypeOK
      <3>4. MovesBytes
        BY <2>1, <3>1 DEF MovesBytes, TypeInv, TypeOK
      <3>5. EntersPhases
        BY <2>1, <2>3, <3>2, <3>3 DEF EntersPhases
      <3>6. MakesAssets
        BY <2>1, <3>3 DEF MakesAssets, AssetInv
      <3> QED BY <3>2, <3>4, <3>5, <3>6 DEF Lawful
    <2> QED BY <2>2, <2>3
  <1>7. ASSUME Attach(r) PROVE Lawful
    <2>1. PICK p \in {"ended", "withdrawing"} : GoTo(r, p)
      BY <1>7 DEF Attach
    <2>2. request[r].phase = "attaching" /\ s \in Session /\ UNCHANGED <<temp, object>>
      BY <1>7 DEF Attach, TypeInv, Sent
    <2>3. \A t \in Session : session'[t].state = "received" => session'[t] = session[t]
      BY <1>7, <2>2 DEF Attach, Advanced, TypeInv, TypeOK, SessionRow
    <2>4. \/ asset' = asset
          \/ \E lost \in BOOLEAN :
               asset' = [asset EXCEPT ![r] = [exists |-> TRUE, session |-> s,
                                              content |-> request[r].seen, unheard |-> lost]]
      BY <1>7 DEF Attach
    <2>5. /\ KeepsRequests
          /\ \A q \in Request \ {r} : request'[q] = request[q]
          /\ request'[r].phase = p
      BY <2>1, <2>2, MoveOnKeeps DEF Phase
    <2>6. MovesBytes
      BY <2>2, <2>3 DEF MovesBytes
    <2>7. EntersPhases
      BY <2>2, <2>5 DEF EntersPhases
    <2>8. MakesAssets
      BY <2>2, <2>4 DEF MakesAssets, TypeInv, TypeOK
    <2> QED BY <2>5, <2>6, <2>7, <2>8 DEF Lawful
  <1>8. ASSUME AttachFails(r) PROVE Lawful
    BY <1>8, MoveLawful DEF AttachFails, Phase
  <1>9. ASSUME Withdraw(r) PROVE Lawful
    <2>1. /\ request[r].phase = "withdrawing" /\ GoTo(r, "ended")
          /\ UNCHANGED <<session, temp, asset>>
          /\ \A q \in Request \ {r} : object'[q] = object[q]
          /\ object'[r] = NoContent
      BY <1>9 DEF Withdraw, TypeInv, TypeOK
    <2> QED BY <2>1, MoveLawful DEF Phase
  <1> QED BY <1>1, <1>2, <1>3, <1>4, <1>5, <1>6, <1>7, <1>8, <1>9 DEF Continue

LEMMA NextLawful == IInv /\ [Next]_vars => Lawful
  <1> SUFFICES ASSUME IInv, [Next]_vars PROVE Lawful
    OBVIOUS
  <1>1. ASSUME NEW r \in Request, NEW s \in Session, FinalizeUpload(r, s) PROVE Lawful
    BY <1>1, EnterLawful DEF FinalizeUpload
  <1>2. ASSUME NEW r \in Request, NEW s \in Session, NEW c \in Content, ReceiveContent(r, s, c)
        PROVE  Lawful
    BY <1>2, EnterLawful, NullAssumption DEF ReceiveContent
  <1>3. ASSUME NEW r \in Request, Die(r) PROVE Lawful
    BY <1>3, MoveLawful DEF Die, Phase, files
  <1>4. CASE UNCHANGED <<object, asset, request>>
             /\ \A s \in Session : /\ temp'[s] \in {temp[s], NoContent}
                                   /\ session'[s].state = "received" =>
                                        session[s].state = "received" /\
                                        session'[s].content = session[s].content
    <2>1. KeepsRequests /\ MovesBytes
      BY <1>4 DEF KeepsRequests, MovesBytes
    <2>2. EntersPhases /\ MakesAssets
      BY <1>4 DEF EntersPhases, MakesAssets
    <2> QED BY <2>1, <2>2 DEF Lawful
  <1>5. CASE UNCHANGED vars
    BY <1>4, <1>5 DEF vars
  <1>6. ASSUME NEW s \in Session, Begin(s) \/ PassExpiry(s) PROVE Lawful
    BY <1>4, <1>6 DEF Begin, PassExpiry, files, IInv, TypeInv, TypeOK, SessionRow
  <1>7. CASE ExpireSessions
    BY <1>4, <1>7 DEF ExpireSessions, files, IInv, TypeInv, TypeOK, SessionRow
  <1>8. ASSUME NEW s \in Session, SweepTemp(s) PROVE Lawful
    BY <1>4, <1>8 DEF SweepTemp, IInv, TypeInv, TypeOK
  <1>9. CASE SweepStops
    BY <1>4, <1>9 DEF SweepStops, files
  <1> QED BY <1>1, <1>2, <1>3, <1>5, <1>6, <1>7, <1>8, <1>9, ContinueLawful DEF Next, Enter

(* Nobody takes back what he has sent.                                     *)
LEMMA StreamsGrow ==
  ASSUME TypeInv, SourceInv, KeepsRequests, NEW s
  PROVE  Streams(s) \subseteq Streams(s)'
  <1> SUFFICES ASSUME NEW p \in ContentRequests(s)
               PROVE  request[p].sent \in Streams(s)'
    BY DEF Streams
  <1>1. request[p].phase # "idle"
    BY DEF ContentRequests, SourceInv, SourceOfRequests
  <1>2. request'[p].session = request[p].session /\ request'[p].sent = request[p].sent
    BY <1>1 DEF ContentRequests, KeepsRequests
  <1>3. p \in ContentRequests(s)'
    BY <1>2 DEF ContentRequests
  <1> QED BY <1>2, <1>3 DEF Streams

LEMMA NextSourceInv == IInv /\ SourceInv /\ Lawful => SourceInv'
  <1> SUFFICES ASSUME IInv, SourceInv, Lawful PROVE SourceInv'
    OBVIOUS
  <1> USE DEF IInv, Lawful, SourceInv
  <1>1. \A s : Streams(s) \subseteq Streams(s)'
    BY StreamsGrow
  <1>2. ASSUME NEW q \in Request, request[q].phase \in {"writing", "recording"}
        PROVE  request[q].sent \in Streams(request[q].session)
    BY <1>2 DEF SourceOfRequests, Streams, ContentRequests
  <1>3. SourceOfSessions'
    <2>1. ASSUME NEW s \in Session PROVE temp'[s] \in Streams(s)' \cup {NoContent}
      BY <1>1, <1>2 DEF MovesBytes, SourceOfSessions
    <2>2. ASSUME NEW s \in Session, session'[s].state = "received"
          PROVE  session'[s].content \in Streams(s)'
      BY <1>1, <1>2, <2>2 DEF MovesBytes, SourceOfSessions
    <2> QED BY <2>1, <2>2 DEF SourceOfSessions
  <1>4. ASSUME NEW q \in Request, request[q].phase # "idle"
        PROVE  /\ request'[q].session = request[q].session
               /\ request'[q].sent = request[q].sent /\ request'[q].seen = request[q].seen
    BY <1>4 DEF KeepsRequests
  <1>5. SourceOfRequests'
    <2> SUFFICES ASSUME NEW q \in Request
          PROVE  /\ request'[q].phase = "idle" => request'[q].sent = NoContent
                 /\ request'[q].phase \in {"writing", "recording"} => request'[q].sent # NoContent
                 /\ request'[q].phase \in {"verifying", "promoting", "attaching"} =>
                      request'[q].seen \in Streams(request[q].session)'
                 /\ request'[q].phase \in {"promoting", "attaching"} =>
                      Streams(request[q].session)' \cap RightSignature # {}
                 /\ request'[q].phase = "attaching" => object'[q] \in Streams(request[q].session)'
      BY DEF SourceOfRequests
    <2>1. request'[q].phase = "idle" => request'[q].sent = NoContent
      BY DEF EntersPhases, SourceOfRequests
    <2>2. request'[q].phase \in {"writing", "recording"} => request'[q].sent # NoContent
      BY <1>4 DEF EntersPhases, SourceOfRequests
    <2>3. CASE request'[q].phase = "verifying"
      BY <1>1, <2>3 DEF EntersPhases, SourceOfRequests, SourceOfSessions
    <2>4. CASE request'[q].phase = "promoting"
      <3>1. CASE request'[q] = request[q]
        BY <1>1, <2>4, <3>1 DEF SourceOfRequests
      <3>2. CASE request[q].phase = "verifying" /\ temp[request[q].session] \in RightSignature
        <4>1. request[q].session \in Session
          BY <3>2 DEF TypeInv, Sent
        <4>2. temp[request[q].session] \in Streams(request[q].session)
          BY <3>2, <4>1, ContentAssumption, NullAssumption DEF SourceOfSessions
        <4> QED BY <1>1, <1>4, <2>4, <3>2, <4>2 DEF SourceOfRequests
      <3> QED BY <2>4, <3>1, <3>2 DEF EntersPhases
    <2>5. CASE request'[q].phase = "attaching"
      <3>1. CASE request'[q] = request[q] /\ object'[q] = object[q]
        BY <1>1, <2>5, <3>1 DEF SourceOfRequests
      <3>2. CASE /\ request[q].phase = "promoting" /\ object'[q] # NoContent
                 /\ object'[q] = temp[request[q].session]
        <4>1. request[q].session \in Session
          BY <3>2 DEF TypeInv, Sent
        <4>2. object'[q] \in Streams(request[q].session)
          BY <3>2, <4>1 DEF SourceOfSessions
        <4> QED BY <1>1, <1>4, <2>5, <3>2, <4>2 DEF SourceOfRequests
      <3> QED BY <2>5, <3>1, <3>2 DEF EntersPhases
    <2> QED BY <2>1, <2>2, <2>3, <2>4, <2>5
  <1>6. SourceOfAssets'
    <2> SUFFICES ASSUME NEW q \in Request, asset'[q].exists
          PROVE  /\ object'[q] \in Streams(asset[q].session)' \cup {NoContent}
                 /\ asset'[q].content \in Streams(asset[q].session)'
                 /\ Streams(asset[q].session)' \cap RightSignature # {}
      BY DEF SourceOfAssets
    <2>1. object'[q] \in {object[q], NoContent}
      BY DEF MakesAssets
    <2>2. CASE asset'[q] = asset[q]
      BY <1>1, <2>1, <2>2 DEF SourceOfAssets
    <2>3. CASE /\ request[q].phase = "attaching"
               /\ asset'[q].session = request[q].session /\ asset'[q].content = request[q].seen
      BY <1>1, <2>1, <2>3 DEF SourceOfRequests
    <2> QED BY <2>2, <2>3 DEF MakesAssets
  <1> QED BY <1>3, <1>5, <1>6

(* Every byte has its way: what the temporary files, the rows, the finalize *)
(* requests and the assets hold was sent for their session, and an asset   *)
(* is made only where a stream with the right signature was sent.          *)
THEOREM BytesAreSent == Spec => []SourceInv
  <1>1. Init => SourceInv
    BY DEF Init, SourceInv, SourceOfSessions, SourceOfRequests, SourceOfAssets, NoAsset, Unsent
  <1>2. IInv /\ SourceInv /\ [Next]_vars => SourceInv'
    BY NextLawful, NextSourceInv
  <1> QED BY <1>1, <1>2, Correctness, PTL DEF Spec

(* Unless two content requests overlapped, the file an asset has is the one *)
(* its row describes and finalizeUpload verified: verification, the rename *)
(* and the transaction read the temporary key, the row and the request at  *)
(* different times, and whoever else is at work, they see one stream.      *)
THEOREM ObjectFaithful == Spec => []ObjectIsAsVerified
  <1>1. SourceInv => ObjectIsAsVerified
    <2> SUFFICES ASSUME SourceInv, NEW r \in Request, asset[r].exists, object[r] # NoContent,
                        \A p, q \in ContentRequests(asset[r].session) : p = q
                 PROVE  object[r] = asset[r].content /\ object[r] \in RightSignature
      BY DEF ObjectIsAsVerified
    <2>1. \A c, d \in Streams(asset[r].session) : c = d
      BY DEF Streams
    <2> QED BY <2>1 DEF SourceInv, SourceOfAssets
  <1> QED BY <1>1, BytesAreSent, PTL

-----------------------------------------------------------------------------
(* What may be asked for.                                                  *)
LEMMA AskTyped ==
  ASSUME NEW ask \in Ask
  PROVE  /\ ask.op \in {"attach", "reorder", "setPrimary", "detach"}
         /\ ask.op = "attach" => ask.id \in Relation /\ ask.role \in Role
         /\ ask.op = "reorder" => ask.order \in Seq(Relation)
         /\ ask.op \in {"setPrimary", "detach"} => ask.id \in Relation
  <1>1. ask \in Attachments \cup Reorders \cup Promotions \cup Detachments
    BY AskAssumption
  <1> QED BY <1>1 DEF Attachments, Reorders, Promotions, Detachments

(* A list without repetitions is as long as its set is large.              *)
LEMMA LengthOfOrder ==
  ASSUME NEW S, NEW order \in Seq(S), IsInjective(order)
  PROVE  /\ IsFiniteSet(ToSet(order))
         /\ Cardinality(ToSet(order)) = Len(order)
  <1>1. /\ Len(order) \in Nat
        /\ DOMAIN order = 1..Len(order)
        /\ order \in [1..Len(order) -> S]
    OBVIOUS
  <1>2. order \in [1..Len(order) -> ToSet(order)]
    BY <1>1 DEF ToSet
  <1>3. order \in Bijection(1..Len(order), ToSet(order))
    BY <1>1, <1>2 DEF Bijection, Injection, Surjection, ToSet
  <1>4. ExistsBijection(1..Len(order), ToSet(order))
    BY <1>3 DEF ExistsBijection
  <1>5. IsFiniteSet(1..Len(order)) /\ Cardinality(1..Len(order)) = Len(order)
    BY <1>1, FS_Interval
  <1> QED BY <1>4, <1>5, FS_Bijection

(* A listing names the whole gallery once, its last row at the end.        *)
LEMMA Listed ==
  ASSUME NEW table \in [Relation -> Row], NEW gallery \in Listings(table)
  PROVE  /\ gallery \in Seq(Relation)
         /\ ToSet(gallery) = Active(table, "gallery")
         /\ Len(gallery) = Cardinality(Active(table, "gallery"))
         /\ NextPosition(table, gallery) \in Nat
         /\ \A x \in Active(table, "gallery") :
              table[x].position < NextPosition(table, gallery)
  <1> DEFINE A == Active(table, "gallery")
             n == Cardinality(A)
  <1>1. A \subseteq Relation
    BY DEF Active
  <1>2. IsFiniteSet(A) /\ n \in Nat
    BY <1>1, RelationAssumption, FS_Subset, FS_CardinalityType
  <1>3. /\ gallery \in [1..n -> A]
        /\ \A i, j \in 1..n : i # j => gallery[i] # gallery[j]
        /\ \A j, k \in DOMAIN gallery :
             j <= k => table[gallery[j]].position <= table[gallery[k]].position
    BY DEF Listings, SetToSeqs
  <1> HIDE DEF A, n
  <1>4. gallery \in Seq(A) /\ Len(gallery) = n /\ gallery \in Seq(Relation)
    BY <1>1, <1>2, <1>3
  <1>5. gallery \in Injection(1..n, A)
    BY <1>3 DEF Injection, IsInjective
  <1>6. IsFiniteSet(1..n) /\ Cardinality(1..n) = n
    BY <1>2, FS_Interval
  <1>7. gallery \in Surjection(1..n, A)
    BY <1>2, <1>5, <1>6, FS_Injection DEF n
  <1>8. ToSet(gallery) = A
    BY <1>3, <1>7 DEF ToSet, Surjection
  <1>9. \A x \in A : table[x].position \in Nat
    BY <1>1 DEF Row
  <1>10. NextPosition(table, gallery) \in Nat
         /\ \A x \in A : table[x].position < NextPosition(table, gallery)
    <2>1. CASE gallery = <<>>
      <3>1. A = {}
        BY <1>8, <2>1 DEF ToSet
      <3> QED BY <2>1, <3>1 DEF NextPosition
    <2>2. CASE gallery # <<>>
      <3>1. n \in 1..n /\ Last(gallery) = gallery[n] /\ gallery[n] \in A
        BY <1>2, <1>3, <1>4, <2>2 DEF Last
      <3>2. NextPosition(table, gallery) = table[gallery[n]].position + 1
        BY <2>2, <3>1 DEF NextPosition
      <3>3. ASSUME NEW x \in A PROVE table[x].position <= table[gallery[n]].position
        <4>1. PICK j \in 1..n : x = gallery[j]
          BY <1>3, <1>8 DEF ToSet
        <4> QED BY <1>2, <1>3, <3>1, <4>1
      <3> QED BY <1>9, <3>1, <3>2, <3>3
    <2> QED BY <2>1, <2>2
  <1> QED BY <1>4, <1>8, <1>10 DEF A, n
-----------------------------------------------------------------------------
(* The inductive invariant.  What a call that has read counts on when      *)
(* `table` is committed: whoever commits in between, a new relation stays  *)
(* new until it is inserted, and a known one is known.                     *)
Kept(c, table) ==
  /\ c.ask \in Ask
  /\ c.ask.op = "attach" => table[c.ask.id].state = "absent"
  /\ c.ask.op = "reorder" => /\ ValidOrder(c.ask.order, c.gallery)
                             /\ Len(c.ask.order) = Len(c.gallery)
  /\ c.ask.op = "setPrimary" => /\ c.found.state = "active"
                                /\ c.found.role \in {"gallery", "container_photo"}
                                /\ table[c.ask.id].state # "absent"
  /\ c.ask.op = "detach" => table[c.ask.id].state # "absent"

(* What it counts on as long as nobody has.                                *)
Current(c, table) ==
  /\ c.ask.op = "attach" => \A x \in Active(table, "gallery") : table[x].position < c.place
  /\ c.ask.op = "reorder" => ToSet(c.gallery) = Active(table, "gallery")
  /\ c.ask.op = "setPrimary" => table[c.ask.id] = c.found

OwnIds == \A e, f \in Edit :
  /\ edit[e].phase = "read" /\ edit[e].ask.op = "attach"
  /\ edit[f].phase = "read" /\ edit[f].ask.op = "attach"
  /\ edit[e].ask.id = edit[f].ask.id
  => e = f

GalleryInv ==
  /\ GalleryTypeOK
  /\ Unique(relation)
  /\ OwnIds
  /\ \A e \in Edit : edit[e].phase = "read" =>
       /\ Kept(edit[e], relation)
       /\ ~edit[e].beside => Current(edit[e], relation)

-----------------------------------------------------------------------------
(* The end of a call: its own row is cleared, the others may lose no more  *)
(* than that they are alone.                                               *)
LEMMA Ended ==
  ASSUME GalleryTypeOK, NEW e \in Edit, NEW phase \in {"done", "clashed"}, Ends(e, phase)
  PROVE  /\ edit' \in [Edit -> Call]
         /\ edit'[e].phase = phase
         /\ \A f \in Edit : f # e =>
              /\ edit'[f].phase = edit[f].phase
              /\ edit'[f].ask = edit[f].ask
              /\ edit'[f].found = edit[f].found
              /\ edit'[f].place = edit[f].place
              /\ edit'[f].gallery = edit[f].gallery
              /\ edit[f].phase = "read" /\ ~edit'[f].beside
                   => ~edit[f].beside /\ relation' = relation
  <1>1. [NewCall EXCEPT !.phase = phase] \in Call
    <2>0. <<>> \in Seq(Relation)
      OBVIOUS
    <2>1. PICK none \in Seq(Relation) : none = <<>>
      BY <2>0, Zenon
    <2>2. PICK row \in Row : row = NoRow
      BY DEF NoRow, Row, Role
    <2>3. NewCall = [phase |-> "new", ask |-> NoAsk, found |-> row, place |-> 0,
                     gallery |-> none, beside |-> FALSE]
      BY <2>1, <2>2, Zenon DEF NewCall
    <2> QED BY <2>3 DEF Call
  <1>2. ASSUME NEW f \in Edit, f # e
        PROVE  /\ edit'[f] = [edit[f] EXCEPT !.beside =
                                @ \/ (edit[f].phase = "read" /\ relation' # relation)]
               /\ edit'[f] \in Call
               /\ edit[f] \in Call
    <2>1. edit[f] \in Call
      BY DEF GalleryTypeOK
    <2>2. edit'[f] = [edit[f] EXCEPT !.beside =
                                @ \/ (edit[f].phase = "read" /\ relation' # relation)]
      BY <1>2 DEF Ends
    <2> QED BY <2>1, <2>2 DEF Call
  <1>3. edit'[e] = [NewCall EXCEPT !.phase = phase] /\ edit'[e] \in Call
    BY <1>1 DEF Ends
  <1>4. edit' \in [Edit -> Call]
    BY <1>2, <1>3 DEF Ends
  <1>5. edit'[e].phase = phase
    BY <1>3 DEF NewCall
  <1>6. ASSUME NEW f \in Edit, f # e
        PROVE  /\ edit'[f].phase = edit[f].phase
               /\ edit'[f].ask = edit[f].ask
               /\ edit'[f].found = edit[f].found
               /\ edit'[f].place = edit[f].place
               /\ edit'[f].gallery = edit[f].gallery
               /\ edit[f].phase = "read" /\ ~edit'[f].beside
                    => ~edit[f].beside /\ relation' = relation
    BY <1>2, <1>6 DEF Call
  <1> QED BY <1>4, <1>5, <1>6

(* Any end of a call that forgets no relation and brings in none but the   *)
(* one it inserts leaves the others what they count on.                    *)
LEMMA EndKeeps ==
  ASSUME GalleryInv, NEW e \in Edit, NEW phase \in {"done", "clashed"}, Ends(e, phase),
         edit[e].phase = "read",
         relation' \in [Relation -> Row], Unique(relation'),
         \A x \in Relation : relation[x].state # "absent" => relation'[x].state # "absent",
         \A x \in Relation : relation[x].state = "absent" =>
           \/ relation'[x].state = "absent"
           \/ edit[e].ask.op = "attach" /\ edit[e].ask.id = x
  PROVE  GalleryInv'
  <1>1. GalleryTypeOK'
    BY Ended DEF GalleryInv, GalleryTypeOK
  <1>2. OwnIds'
    BY Ended DEF GalleryInv, OwnIds
  <1>3. ASSUME NEW f \in Edit, edit'[f].phase = "read"
        PROVE  /\ Kept(edit'[f], relation')
               /\ ~edit'[f].beside => Current(edit'[f], relation')
    <2>1. f # e /\ edit[f].phase = "read"
      BY <1>3, Ended DEF GalleryInv
    <2>2. /\ edit'[f].ask = edit[f].ask
          /\ edit'[f].found = edit[f].found
          /\ edit'[f].place = edit[f].place
          /\ edit'[f].gallery = edit[f].gallery
          /\ ~edit'[f].beside => ~edit[f].beside /\ relation' = relation
      BY <2>1, Ended DEF GalleryInv
    <2>3. Kept(edit[f], relation) /\ (~edit[f].beside => Current(edit[f], relation))
      BY <2>1 DEF GalleryInv
    <2>4. edit[f].ask \in Ask
      BY <2>3 DEF Kept
    <2>5. edit[f].ask.op \in {"attach", "setPrimary", "detach"} => edit[f].ask.id \in Relation
      BY <2>4, AskTyped
    <2>6. edit[e].ask.op = "attach" /\ edit[f].ask.op = "attach"
            => edit[e].ask.id # edit[f].ask.id
      BY <2>1 DEF GalleryInv, OwnIds
    <2>7. Kept(edit'[f], relation')
      BY <2>2, <2>3, <2>5, <2>6 DEF Kept
    <2>8. ~edit'[f].beside => Current(edit'[f], relation')
      BY <2>2, <2>3 DEF Current
    <2> QED BY <2>7, <2>8
  <1> QED BY <1>1, <1>2, <1>3 DEF GalleryInv

(* A call that has just read.                                              *)
LEMMA ReadKeeps ==
  ASSUME GalleryInv, NEW e \in Edit, NEW ask \in Ask, NEW found \in Row, NEW place \in Nat,
         NEW gallery \in Seq(Relation), Reads(e, ask, found, place, gallery),
         NEW c, c = [phase |-> "read", ask |-> ask, found |-> found, place |-> place,
                     gallery |-> gallery, beside |-> FALSE],
         Kept(c, relation), Current(c, relation),
         ask.op = "attach" =>
           \A f \in Edit : edit[f].phase = "read" /\ edit[f].ask.op = "attach"
                             => edit[f].ask.id # ask.id
  PROVE  GalleryInv'
  <1>1. edit' = [edit EXCEPT ![e] = c] /\ relation' = relation
    BY DEF Reads
  <1>2. c \in Call
    BY DEF Call
  <1>3. edit' \in [Edit -> Call] /\ edit'[e] = c /\ \A f \in Edit : f # e => edit'[f] = edit[f]
    BY <1>1, <1>2 DEF GalleryInv, GalleryTypeOK
  <1>4. GalleryTypeOK'
    BY <1>1, <1>3 DEF GalleryInv, GalleryTypeOK
  <1>5. OwnIds'
    <2>1. c.ask = ask
      OBVIOUS
    <2> QED BY <1>3, <2>1 DEF GalleryInv, OwnIds
  <1>6. \A f \in Edit : edit'[f].phase = "read" =>
          /\ Kept(edit'[f], relation)
          /\ ~edit'[f].beside => Current(edit'[f], relation)
    BY <1>3 DEF GalleryInv
  <1>7. Unique(relation)
    BY DEF GalleryInv
  <1> QED BY <1>1, <1>4, <1>5, <1>6, <1>7 DEF GalleryInv
-----------------------------------------------------------------------------
(* The reads.                                                              *)
LEMMA ReadAttachStep ==
  ASSUME GalleryInv, NEW e \in Edit, NEW ask \in Ask, ReadAttach(e, ask)
  PROVE  GalleryInv' /\ relation' = relation
  <1>1. PICK gallery \in Listings(relation) :
          Reads(e, ask, NoRow, NextPosition(relation, gallery), <<>>)
    BY DEF ReadAttach
  <1>2. relation \in [Relation -> Row]
    BY DEF GalleryInv, GalleryTypeOK
  <1>3. PICK place \in Nat : /\ place = NextPosition(relation, gallery)
                             /\ \A x \in Active(relation, "gallery") : relation[x].position < place
    BY <1>2, Listed
  <1>4. PICK none \in Seq(Relation) : none = <<>>
    <2>1. <<>> \in Seq(Relation)
      OBVIOUS
    <2> QED BY <2>1, Zenon
  <1>5. PICK row \in Row : row = NoRow
    BY DEF NoRow, Row, Role
  <1>6. PICK c : c = [phase |-> "read", ask |-> ask, found |-> row, place |-> place,
                      gallery |-> none, beside |-> FALSE]
    OBVIOUS
  <1>7. Reads(e, ask, row, place, none)
    BY <1>1, <1>3, <1>4, <1>5
  <1>8. Kept(c, relation) /\ Current(c, relation)
    BY <1>3, <1>6 DEF ReadAttach, Kept, Current
  <1>9. GalleryInv'
    BY <1>6, <1>7, <1>8, ReadKeeps DEF ReadAttach
  <1> QED BY <1>7, <1>9 DEF Reads

LEMMA ReadReorderStep ==
  ASSUME GalleryInv, NEW e \in Edit, NEW ask \in Ask, ReadReorder(e, ask)
  PROVE  GalleryInv' /\ relation' = relation
  <1>1. PICK gallery \in Listings(relation) :
          ValidOrder(ask.order, gallery) /\ Reads(e, ask, NoRow, 0, gallery)
    BY DEF ReadReorder
  <1>2. relation \in [Relation -> Row] /\ ask.op = "reorder"
    BY DEF GalleryInv, GalleryTypeOK, ReadReorder
  <1>3. /\ gallery \in Seq(Relation)
        /\ ToSet(gallery) = Active(relation, "gallery")
        /\ Len(gallery) = Cardinality(ToSet(gallery))
    BY <1>2, Listed
  <1>4. Len(ask.order) = Len(gallery)
    BY <1>1, <1>2, <1>3, AskTyped, LengthOfOrder DEF ValidOrder
  <1>5. PICK row \in Row : row = NoRow
    BY DEF NoRow, Row, Role
  <1>6. PICK c : c = [phase |-> "read", ask |-> ask, found |-> row, place |-> 0,
                      gallery |-> gallery, beside |-> FALSE]
    OBVIOUS
  <1>7. Reads(e, ask, row, 0, gallery)
    BY <1>1, <1>5
  <1>8. Kept(c, relation) /\ Current(c, relation)
    BY <1>1, <1>2, <1>3, <1>4, <1>6 DEF Kept, Current
  <1>9. GalleryInv'
    BY <1>2, <1>3, <1>6, <1>7, <1>8, ReadKeeps
  <1> QED BY <1>7, <1>9 DEF Reads

LEMMA ReadRelationStep ==
  ASSUME GalleryInv, NEW e \in Edit, NEW ask \in Ask, ReadRelation(e, ask)
  PROVE  GalleryInv' /\ relation' = relation
  <1>1. /\ relation \in [Relation -> Row]
        /\ ask.op \in {"setPrimary", "detach"} /\ ask.id \in Relation
        /\ relation[ask.id].state = "active"
        /\ ask.op = "setPrimary" => relation[ask.id].role # "primary"
        /\ Reads(e, ask, relation[ask.id], 0, <<>>)
    BY AskTyped DEF GalleryInv, GalleryTypeOK, ReadRelation, Usable
  <1>2. PICK none \in Seq(Relation) : none = <<>>
    <2>1. <<>> \in Seq(Relation)
      OBVIOUS
    <2> QED BY <2>1, Zenon
  <1>3. PICK row \in Row : row = relation[ask.id]
    BY <1>1
  <1>4. PICK c : c = [phase |-> "read", ask |-> ask, found |-> row, place |-> 0,
                      gallery |-> none, beside |-> FALSE]
    OBVIOUS
  <1>5. Reads(e, ask, row, 0, none)
    BY <1>1, <1>2, <1>3
  <1>6. row.role \in Role
    BY DEF Row
  <1>7. Kept(c, relation) /\ Current(c, relation)
    BY <1>1, <1>3, <1>4, <1>6 DEF Kept, Current, Role
  <1>8. GalleryInv'
    BY <1>1, <1>4, <1>5, <1>7, ReadKeeps
  <1> QED BY <1>5, <1>8 DEF Reads

-----------------------------------------------------------------------------
(* What the statements make of a table.                                    *)
LEMMA InsertedRows ==
  ASSUME NEW table \in [Relation -> Row], NEW id \in Relation,
         NEW role \in Role, NEW position \in Nat
  PROVE  LET t == Inserted(table, id, role, position)
         IN  /\ t \in [Relation -> Row]
             /\ t[id].state = "active" /\ t[id].role = role /\ t[id].position = position
             /\ \A x \in Relation : x # id => t[x] = table[x]
  BY DEF Inserted, Row

LEMMA PositionedRows ==
  ASSUME NEW table \in [Relation -> Row], NEW id \in Relation, NEW position \in Nat
  PROVE  LET t == Positioned(table, id, position)
         IN  /\ t \in [Relation -> Row]
             /\ t[id].state = table[id].state /\ t[id].role = table[id].role
             /\ t[id].position = position
             /\ \A x \in Relation : x # id => t[x] = table[x]
  BY DEF Positioned, Row

LEMMA PromotedRows ==
  ASSUME NEW table \in [Relation -> Row], NEW id \in Relation
  PROVE  LET t == Promoted(table, id)
         IN  /\ t \in [Relation -> Row]
             /\ t[id].state = table[id].state /\ t[id].role = "primary"
             /\ \A x \in Relation : x # id => t[x] = table[x]
  BY DEF Promoted, Row, Role

LEMMA DemotedRows ==
  ASSUME NEW table \in [Relation -> Row], NEW position \in Nat
  PROVE  LET t == Demoted(table, position)
         IN  /\ t \in [Relation -> Row]
             /\ \A x \in Relation : t[x].state = table[x].state
             /\ \A x \in Relation : x \in Active(table, "primary") =>
                  t[x].role = "gallery" /\ t[x].position = position
             /\ \A x \in Relation : x \notin Active(table, "primary") => t[x] = table[x]
  BY DEF Demoted, Row, Role

(* The first k rows of a list.                                             *)
First(list, k) == {list[j] : j \in 1..k}

(* In t they stand in their order from `from` on; all else is as in table. *)
PutInOrder(t, table, list, from, k) ==
  /\ t \in [Relation -> Row]
  /\ \A x \in Relation : t[x].state = table[x].state /\ t[x].role = table[x].role
  /\ \A x \in Relation : x \notin First(list, k) => t[x] = table[x]
  /\ \A x \in Relation : x \in First(list, k) =>
       \E j \in 1..k : list[j] = x /\ t[x].position = from + j - 1

LEMMA PlacedRows ==
  ASSUME NEW table \in [Relation -> Row], NEW list \in Seq(Relation), NEW from \in Nat,
         NEW k \in 0..Len(list), NEW t, t = Placed(table, list, from, k)
  PROVE  PutInOrder(t, table, list, from, k)
  <1>1. ASSUME NEW x \in Relation, x \notin First(list, k)
        PROVE  t[x] = table[x]
    BY <1>1 DEF Placed, First
  <1>2. ASSUME NEW x \in Relation, x \in First(list, k)
        PROVE  \E j \in 1..k : list[j] = x /\ t[x] = [table[x] EXCEPT !.position = from + j - 1]
    <2>1. \E j \in 1..k : list[j] = x
      BY <1>2 DEF First
    <2>2. PICK j : j = CHOOSE i \in 1..k : list[i] = x
      OBVIOUS
    <2>3. j \in 1..k /\ list[j] = x
      BY <2>1, <2>2
    <2>4. t[x] = [table[x] EXCEPT !.position = from + j - 1]
      BY <2>1, <2>2 DEF Placed
    <2> QED BY <2>3, <2>4
  <1>3. ASSUME NEW x \in Relation
        PROVE  /\ t[x] \in Row
               /\ t[x].state = table[x].state /\ t[x].role = table[x].role
               /\ x \in First(list, k) =>
                    \E j \in 1..k : list[j] = x /\ t[x].position = from + j - 1
    <2>1. CASE x \notin First(list, k)
      BY <1>1, <2>1
    <2>2. CASE x \in First(list, k)
      <3>1. PICK j \in 1..k : list[j] = x /\ t[x] = [table[x] EXCEPT !.position = from + j - 1]
        BY <1>2, <2>2
      <3>2. from + j - 1 \in Nat /\ table[x] \in Row
        OBVIOUS
      <3>3. /\ t[x] \in Row
            /\ t[x].state = table[x].state /\ t[x].role = table[x].role
            /\ t[x].position = from + j - 1
        BY <3>1, <3>2 DEF Row
      <3> QED BY <3>1, <3>3
    <2> QED BY <2>1, <2>2
  <1>4. t \in [Relation -> Row]
    <2>1. t = [x \in Relation |-> t[x]]
      BY DEF Placed
    <2> QED BY <1>3, <2>1
  <1> QED BY <1>1, <1>3, <1>4 DEF PutInOrder
-----------------------------------------------------------------------------
(* What the transactions make of it, and that none of their statements     *)
(* violates an index of a table nobody else has written since the reads.   *)
LEMMA AttachedTables ==
  ASSUME NEW table \in [Relation -> Row], NEW ask \in Ask, ask.op = "attach", NEW place \in Nat
  PROVE  LET tables == Attached(table, ask, place)
             last   == Last(tables)
         IN  /\ Len(tables) \in DOMAIN tables
             /\ last \in [Relation -> Row]
             /\ last[ask.id].state = "active" /\ last[ask.id].role = ask.role
             /\ \A x \in Relation : x # ask.id => last[x].state = table[x].state
             /\ \A x \in Relation : x # ask.id =>
                  last[x] = table[x] \/ (x \in Active(table, "primary") /\ ask.role = "primary")
  <1>1. ask.id \in Relation /\ ask.role \in Role
    BY AskTyped
  <1>2. CASE ask.role # "primary"
    <2>1. PICK at \in Nat : at = IF ask.role = "gallery" THEN place ELSE 0
      OBVIOUS
    <2>2. PICK t : t = Inserted(table, ask.id, ask.role, at)
      OBVIOUS
    <2>3. Attached(table, ask, place) = <<t>>
      BY <1>2, <2>1, <2>2 DEF Attached
    <2> QED BY <1>1, <1>2, <2>2, <2>3, InsertedRows DEF Last
  <1>3. CASE ask.role = "primary"
    <2>1. PICK d \in [Relation -> Row] : d = Demoted(table, place)
      BY DemotedRows
    <2>2. PICK t : t = Inserted(d, ask.id, "primary", 0)
      OBVIOUS
    <2>3. Attached(table, ask, place) = <<d, t>>
      BY <1>3, <2>1, <2>2 DEF Attached
    <2>4. /\ t \in [Relation -> Row]
          /\ t[ask.id].state = "active" /\ t[ask.id].role = "primary"
          /\ \A x \in Relation : x # ask.id => t[x] = d[x]
      BY <1>1, <2>2, InsertedRows DEF Role
    <2>5. \A x \in Relation : /\ d[x].state = table[x].state
                              /\ d[x] = table[x] \/ x \in Active(table, "primary")
      BY <2>1, DemotedRows
    <2> QED BY <1>3, <2>3, <2>4, <2>5 DEF Last
  <1> QED BY <1>1, <1>2, <1>3

(* A primary demoted to a free place leaves the indexes as they were, and  *)
(* a new primary as well where there is none.                              *)
DemotedTo(d, table, position) ==
  /\ \A x \in Relation : d[x].state = table[x].state
  /\ \A x \in Relation : x \in Active(table, "primary") =>
       d[x].role = "gallery" /\ d[x].position = position
  /\ \A x \in Relation : x \notin Active(table, "primary") => d[x] = table[x]

LEMMA DemotedUnique ==
  ASSUME NEW table, Unique(table), NEW position, NEW d, DemotedTo(d, table, position),
         \/ Active(table, "primary") = {}
         \/ \A x \in Active(table, "gallery") : table[x].position # position
  PROVE  Unique(d) /\ Active(d, "primary") = {}
  <1>1. Active(d, "primary") = {}
    BY DEF Active, DemotedTo
  <1>2. \A role \in Role : \A x \in Active(d, role) :
          \/ x \in Active(table, role) /\ d[x] = table[x]
          \/ /\ x \in Active(table, "primary") /\ role = "gallery"
             /\ d[x].position = position
    BY DEF Active, DemotedTo
  <1>3. ASSUME NEW role \in Role, NEW x \in Active(d, role), NEW y \in Active(d, role),
               d[x].position = d[y].position
        PROVE  x = y
    BY <1>2, <1>3 DEF Unique
  <1> QED BY <1>1, <1>3 DEF Unique

LEMMA PrimaryUnique ==
  ASSUME NEW d, Unique(d), Active(d, "primary") = {}, NEW id \in Relation, NEW t,
         t[id].role = "primary", \A x \in Relation : x # id => t[x] = d[x]
  PROVE  Unique(t)
  <1>1. \A x \in Active(t, "primary") : x = id
    BY DEF Active
  <1>2. \A role \in Role : \A x \in Active(t, role) :
          \/ x \in Active(d, role) /\ t[x] = d[x]
          \/ x = id /\ role = "primary"
    BY DEF Active
  <1>3. ASSUME NEW role \in Role, NEW x \in Active(t, role), NEW y \in Active(t, role),
               t[x].position = t[y].position
        PROVE  x = y
    BY <1>1, <1>2, <1>3 DEF Unique
  <1> QED BY <1>1, <1>3 DEF Unique

LEMMA AttachedUnique ==
  ASSUME NEW table \in [Relation -> Row], NEW ask \in Ask, ask.op = "attach", NEW place \in Nat,
         Unique(table), table[ask.id].state = "absent",
         \A x \in Active(table, "gallery") : table[x].position < place,
         ask.role = "container_photo" =>
           \A x \in Active(table, "container_photo") : table[x].position # 0
  PROVE  \A k \in DOMAIN Attached(table, ask, place) : Unique(Attached(table, ask, place)[k])
  <1>1. ask.id \in Relation /\ ask.role \in Role
    BY AskTyped
  <1>2. \A x \in Relation : table[x].position \in Nat
    BY DEF Row
  <1>3. CASE ask.role # "primary"
    <2>0. PICK at \in Nat : at = IF ask.role = "gallery" THEN place ELSE 0
      OBVIOUS
    <2>1. PICK t : t = Inserted(table, ask.id, ask.role, at)
      OBVIOUS
    <2>2. Attached(table, ask, place) = <<t>>
      BY <1>3, <2>0, <2>1 DEF Attached
    <2>3. /\ t[ask.id].role = ask.role /\ t[ask.id].position = at
          /\ \A x \in Relation : x # ask.id => t[x] = table[x]
      BY <1>1, <2>1, InsertedRows
    <2>4. /\ \A x \in Active(t, "primary") : x \in Active(table, "primary")
          /\ \A role \in Role : \A x \in Active(t, role) : x # ask.id =>
               x \in Active(table, role) /\ t[x] = table[x]
          /\ \A role \in Role : ask.id \in Active(t, role) => role = ask.role
      BY <1>3, <2>3 DEF Active
    <2>5. \A x \in Active(table, ask.role) : table[x].position # at
      BY <1>1, <1>2, <1>3, <2>0 DEF Active, Role
    <2>6. ASSUME NEW role \in Role, NEW x \in Active(t, role), NEW y \in Active(t, role),
                 t[x].position = t[y].position
          PROVE  x = y
      BY <2>3, <2>4, <2>5, <2>6 DEF Unique
    <2>7. Unique(t)
      BY <2>4, <2>6 DEF Unique
    <2> QED BY <2>2, <2>7
  <1>4. CASE ask.role = "primary"
    <2>1. PICK d \in [Relation -> Row] : d = Demoted(table, place)
      BY DemotedRows
    <2>2. PICK t : t = Inserted(d, ask.id, "primary", 0)
      OBVIOUS
    <2>3. Attached(table, ask, place) = <<d, t>>
      BY <1>4, <2>1, <2>2 DEF Attached
    <2>4. /\ \A x \in Relation : d[x].state = table[x].state
          /\ \A x \in Relation : x \in Active(table, "primary") =>
               d[x].role = "gallery" /\ d[x].position = place
          /\ \A x \in Relation : x \notin Active(table, "primary") => d[x] = table[x]
      BY <2>1, DemotedRows
    <2>5. Unique(d) /\ Active(d, "primary") = {}
      <3>1. \A x \in Active(table, "gallery") : table[x].position # place
        BY <1>2 DEF Active
      <3>2. DemotedTo(d, table, place)
        BY <2>4 DEF DemotedTo
      <3> QED BY <3>1, <3>2, DemotedUnique
    <2>6. /\ t[ask.id].role = "primary"
          /\ \A x \in Relation : x # ask.id => t[x] = d[x]
      BY <1>1, <2>2, InsertedRows DEF Role
    <2>7. Unique(t)
      BY <1>1, <2>5, <2>6, PrimaryUnique
    <2> QED BY <2>3, <2>5, <2>7
  <1> QED BY <1>3, <1>4

LEMMA PromotingTables ==
  ASSUME NEW table \in [Relation -> Row], NEW id \in Relation, NEW from \in Nat
  PROVE  LET tables == Promoting(table, id, from)
             last   == Last(tables)
         IN  /\ Len(tables) \in DOMAIN tables
             /\ last \in [Relation -> Row]
             /\ \A x \in Relation : last[x].state = table[x].state
             /\ last[id].role = "primary"
             /\ \A x \in Relation : x # id => last[x] = table[x] \/ x \in Active(table, "primary")
  <1>1. from + Parking \in Nat
    BY ParkingAssumption
  <1>2. PICK p \in [Relation -> Row] : p = Positioned(table, id, from + Parking)
    BY <1>1, PositionedRows
  <1>3. PICK d \in [Relation -> Row] : d = Demoted(p, from)
    BY DemotedRows
  <1>4. PICK t : t = Promoted(d, id)
    OBVIOUS
  <1>5. Promoting(table, id, from) = <<p, d, t>>
    BY <1>2, <1>3, <1>4 DEF Promoting
  <1>6. p[id].state = table[id].state /\ \A x \in Relation : x # id => p[x] = table[x]
    BY <1>1, <1>2, PositionedRows
  <1>7. \A x \in Relation : /\ d[x].state = p[x].state
                            /\ d[x] = p[x] \/ x \in Active(p, "primary")
    BY <1>3, DemotedRows
  <1>8. /\ t \in [Relation -> Row]
        /\ t[id].state = d[id].state /\ t[id].role = "primary"
        /\ \A x \in Relation : x # id => t[x] = d[x]
    BY <1>4, PromotedRows
  <1>9. \A x \in Relation : x # id /\ x \in Active(p, "primary") => x \in Active(table, "primary")
    BY <1>6 DEF Active
  <1> QED BY <1>5, <1>6, <1>7, <1>8, <1>9 DEF Last

LEMMA PromotingUnique ==
  ASSUME NEW table \in [Relation -> Row], NEW id \in Relation, NEW role \in Role \ {"primary"},
         id \in Active(table, role), Unique(table),
         \A x \in Relation : table[x].position < Parking,
         \/ role = "gallery" \/ Active(table, "primary") = {}
         \/ \A x \in Active(table, "gallery") : table[x].position # table[id].position
  PROVE  LET tables == Promoting(table, id, table[id].position)
         IN  \A k \in DOMAIN tables : Unique(tables[k])
  <1>1. table[id].state = "active" /\ table[id].role = role
    BY DEF Active
  <1>2. PICK from \in Nat : from = table[id].position
    BY DEF Row
  <1>3. from + Parking \in Nat /\ Parking \in Nat /\ \A x \in Relation : table[x].position \in Nat
    BY ParkingAssumption DEF Row
  <1>4. PICK p \in [Relation -> Row] : p = Positioned(table, id, from + Parking)
    BY <1>3, PositionedRows
  <1>5. PICK d \in [Relation -> Row] : d = Demoted(p, from)
    BY DemotedRows
  <1>6. PICK t : t = Promoted(d, id)
    OBVIOUS
  <1>7. Promoting(table, id, table[id].position) = <<p, d, t>>
    BY <1>2, <1>4, <1>5, <1>6 DEF Promoting
  <1>8. /\ p[id].state = "active" /\ p[id].role = role /\ p[id].position = from + Parking
        /\ \A x \in Relation : x # id => p[x] = table[x]
    BY <1>1, <1>3, <1>4, PositionedRows
  <1>9. \A q : Active(p, q) = Active(table, q)
    BY <1>1, <1>8 DEF Active
  <1>10. \A x \in Relation : x # id => p[x].position < from + Parking
    BY <1>2, <1>3, <1>8
  <1>11. Unique(p)
    <2>1. ASSUME NEW q \in Role, NEW x \in Active(table, q), NEW y \in Active(table, q),
                 p[x].position = p[y].position
          PROVE  x = y
      <3>1. x \in Relation /\ y \in Relation
        BY DEF Active
      <3>2. \A z \in Relation : p[z].position \in Nat
        BY DEF Row
      <3>3. CASE x # id /\ y # id
        BY <1>8, <2>1, <3>1, <3>3 DEF Unique
      <3>4. CASE x = id /\ y # id
        BY <1>3, <1>8, <1>10, <2>1, <3>1, <3>2, <3>4
      <3>5. CASE y = id /\ x # id
        BY <1>3, <1>8, <1>10, <2>1, <3>1, <3>2, <3>5
      <3> QED BY <3>3, <3>4, <3>5
    <2> QED BY <1>9, <2>1 DEF Unique
  <1>12. \/ Active(p, "primary") = {}
         \/ \A x \in Active(p, "gallery") : p[x].position # from
    <2>1. CASE Active(table, "primary") = {}
      BY <1>9, <2>1
    <2>2. CASE Active(table, "primary") # {}
      <3>1. ASSUME NEW x \in Active(table, "gallery") PROVE p[x].position # from
        <4>1. x \in Relation
          BY DEF Active
        <4>2. CASE x = id
          BY <1>3, <1>8, <4>2, ParkingAssumption
        <4>3. CASE x # id
          <5>1. table[x].position # from
            BY <1>2, <2>2, <4>3 DEF Unique, Role
          <5> QED BY <1>8, <4>1, <4>3, <5>1
        <4> QED BY <4>2, <4>3
      <3> QED BY <1>9, <3>1
    <2> QED BY <2>1, <2>2
  <1>13. DemotedTo(d, p, from)
    BY <1>5, DemotedRows DEF DemotedTo
  <1>14. Unique(d) /\ Active(d, "primary") = {}
    BY <1>11, <1>12, <1>13, DemotedUnique
  <1>15. /\ t[id].role = "primary"
         /\ \A x \in Relation : x # id => t[x] = d[x]
    BY <1>6, PromotedRows
  <1>16. Unique(t)
    BY <1>14, <1>15, PrimaryUnique
  <1> QED BY <1>7, <1>11, <1>14, <1>16
(* A pass over a list keeps the index if no row it has not reached yet     *)
(* stands where it puts the others.                                        *)
LEMMA PlacedUnique ==
  ASSUME NEW table \in [Relation -> Row], Unique(table), NEW list \in Seq(Relation),
         NEW from \in Nat, NEW k \in 0..Len(list),
         First(list, k) \subseteq Active(table, "gallery"),
         \A x \in Active(table, "gallery") : x \notin First(list, k) =>
           table[x].position < from \/ table[x].position >= from + k
  PROVE  Unique(Placed(table, list, from, k))
  <1>0. PICK t : t = Placed(table, list, from, k)
    OBVIOUS
  <1>1. /\ \A x \in Relation : t[x].state = table[x].state /\ t[x].role = table[x].role
        /\ \A x \in Relation : x \notin First(list, k) => t[x] = table[x]
        /\ \A x \in Relation : x \in First(list, k) =>
             \E j \in 1..k : list[j] = x /\ t[x].position = from + j - 1
    <2>1. PutInOrder(t, table, list, from, k)
      BY <1>0, PlacedRows
    <2> QED BY <2>1 DEF PutInOrder
  <1>2. (\A x \in Relation : table[x].position \in Nat) /\ k \in Nat
    BY DEF Row
  <1>3. \A role : Active(t, role) = Active(table, role)
    BY <1>1 DEF Active
  <1>4. ASSUME NEW x \in Active(table, "gallery"), NEW y \in Active(table, "gallery"),
               t[x].position = t[y].position
        PROVE  x = y
    <2>1. x \in Relation /\ y \in Relation
      BY DEF Active
    <2>2. CASE x \in First(list, k) /\ y \in First(list, k)
      <3>1. PICK i \in 1..k : list[i] = x /\ t[x].position = from + i - 1
        BY <1>1, <2>1, <2>2
      <3>2. PICK j \in 1..k : list[j] = y /\ t[y].position = from + j - 1
        BY <1>1, <2>1, <2>2
      <3>3. from + i - 1 = from + j - 1
        BY <1>4, <3>1, <3>2, Zenon
      <3>4. i = j
        BY <1>2, <3>3
      <3> QED BY <3>1, <3>2, <3>4
    <2>3. CASE x \notin First(list, k) /\ y \notin First(list, k)
      BY <1>1, <1>4, <2>1, <2>3 DEF Unique, Role
    <2>4. ASSUME NEW a \in Active(table, "gallery"), NEW b \in Active(table, "gallery"),
                 a \in First(list, k), b \notin First(list, k)
          PROVE  t[a].position # t[b].position
      <3>1. a \in Relation /\ b \in Relation
        BY DEF Active
      <3>2. PICK j \in 1..k : t[a].position = from + j - 1
        BY <1>1, <2>4, <3>1
      <3>3. t[b].position = table[b].position
        BY <1>1, <2>4, <3>1
      <3> QED BY <1>2, <2>4, <3>1, <3>2, <3>3
    <2> QED BY <1>4, <2>2, <2>3, <2>4
  <1>5. ASSUME NEW role \in Role \ {"gallery"}, NEW x \in Active(table, role),
               NEW y \in Active(table, role), t[x].position = t[y].position
        PROVE  x = y
    <2>1. /\ x \in Relation /\ x \notin First(list, k)
          /\ y \in Relation /\ y \notin First(list, k)
      BY DEF Active
    <2> QED BY <1>1, <1>5, <2>1 DEF Unique
  <1>6. Unique(t)
    BY <1>3, <1>4, <1>5 DEF Unique
  <1> QED BY <1>0, <1>6

(* A whole list is put at `from` or above, and nothing else moves.         *)
Relisted(t, table, list, from) ==
  /\ t \in [Relation -> Row]
  /\ \A x \in Relation : t[x].state = table[x].state /\ t[x].role = table[x].role
  /\ \A x \in Relation : x \notin ToSet(list) => t[x] = table[x]
  /\ \A x \in Relation : x \in ToSet(list) => t[x].position \in Nat /\ t[x].position >= from

LEMMA PlacedList ==
  ASSUME NEW table \in [Relation -> Row], NEW list \in Seq(Relation), NEW from \in Nat,
         NEW t, t = Placed(table, list, from, Len(list))
  PROVE  Relisted(t, table, list, from)
  <1>1. PICK k \in 0..Len(list) : k = Len(list)
    OBVIOUS
  <1>2. First(list, k) = ToSet(list)
    BY <1>1 DEF First, ToSet
  <1>3. t = Placed(table, list, from, k)
    BY <1>1
  <1>4. PutInOrder(t, table, list, from, k)
    BY <1>3, PlacedRows
  <1>5. ASSUME NEW x \in Relation, x \in First(list, k)
        PROVE  t[x].position \in Nat /\ t[x].position >= from
    <2>1. PICK j \in 1..k : t[x].position = from + j - 1
      BY <1>4, <1>5 DEF PutInOrder
    <2> QED BY <2>1
  <1> QED BY <1>2, <1>4, <1>5 DEF PutInOrder, Relisted

LEMMA ReorderingTables ==
  ASSUME NEW table \in [Relation -> Row], NEW order \in Seq(Relation), NEW gallery \in Seq(Relation),
         ValidOrder(order, gallery), Len(order) = Len(gallery)
  PROVE  LET tables == Reordering(table, order, gallery)
             last   == Last(tables)
         IN  /\ Len(tables) \in DOMAIN tables
             /\ last \in [Relation -> Row]
             /\ \A x \in Relation : last[x].state = table[x].state /\ last[x].role = table[x].role
             /\ \A x \in Relation : x \notin ToSet(order) => last[x] = table[x]
  <1> DEFINE n == Len(gallery)
             Parked(k) == Placed(table, gallery, n + Parking, k)
             F(k) == IF k <= n THEN Parked(k) ELSE Placed(Parked(n), order, 0, k - n)
  <1>1. n \in Nat /\ n + Parking \in Nat /\ n > 0 /\ Len(order) = n
    <2>1. order # <<>>
      BY DEF ValidOrder
    <2> QED BY <2>1, ParkingAssumption
  <1>2. Reordering(table, order, gallery) = [k \in 1..(n + n) |-> F(k)]
    BY <1>1 DEF Reordering
  <1>3. PICK p : p = Parked(n)
    OBVIOUS
  <1>4. Relisted(p, table, gallery, n + Parking)
    BY <1>1, <1>3, PlacedList
  <1>5. PICK t : t = Placed(p, order, 0, n)
    OBVIOUS
  <1>6. Relisted(t, p, order, 0)
    <2>1. 0 \in Nat /\ p \in [Relation -> Row] /\ t = Placed(p, order, 0, Len(order))
      BY <1>1, <1>4, <1>5 DEF Relisted
    <2> QED BY <2>1, PlacedList
  <1>7. ToSet(gallery) = ToSet(order)
    BY DEF ValidOrder
  <1>8. F(n + n) = t
    BY <1>1, <1>3, <1>5
  <1> HIDE DEF F
  <1>9. PICK tables : tables = [k \in 1..(n + n) |-> F(k)]
    OBVIOUS
  <1>10. Len(tables) = n + n /\ DOMAIN tables = 1..(n + n) /\ tables[n + n] = F(n + n)
    BY <1>1, <1>9
  <1>11. Len(tables) \in DOMAIN tables /\ Last(tables) = t
    BY <1>1, <1>8, <1>10 DEF Last
  <1>12. /\ t \in [Relation -> Row]
         /\ \A x \in Relation : t[x].state = table[x].state /\ t[x].role = table[x].role
         /\ \A x \in Relation : x \notin ToSet(order) => t[x] = table[x]
    BY <1>4, <1>6, <1>7 DEF Relisted
  <1> QED BY <1>2, <1>9, <1>11, <1>12

LEMMA ReorderingUnique ==
  ASSUME NEW table \in [Relation -> Row], NEW order \in Seq(Relation), NEW gallery \in Seq(Relation),
         ValidOrder(order, gallery), Len(order) = Len(gallery),
         ToSet(gallery) = Active(table, "gallery"), Unique(table),
         \A x \in Relation : table[x].position < Parking
  PROVE  LET tables == Reordering(table, order, gallery)
         IN  \A k \in DOMAIN tables : Unique(tables[k])
  <1> DEFINE n == Len(gallery)
             Parked(k) == Placed(table, gallery, n + Parking, k)
  <1>1. n \in Nat /\ Parking \in Nat /\ Len(order) = n
    BY ParkingAssumption
  <1>2. \A x \in Relation : table[x].position \in Nat
    BY DEF Row
  <1>3. ASSUME NEW k \in 0..n PROVE Unique(Parked(k))
    <2>1. \A x \in Active(table, "gallery") : table[x].position < n + Parking
      BY <1>1, <1>2 DEF Active
    <2>2. n + Parking \in Nat
      BY <1>1
    <2> HIDE DEF n
    <2>3. k \in 0..Len(gallery)
      BY DEF n
    <2>4. First(gallery, k) \subseteq Active(table, "gallery")
      BY <2>3 DEF First, ToSet
    <2> QED BY <2>1, <2>2, <2>3, <2>4, PlacedUnique
  <1>4. PICK p : p = Parked(n)
    OBVIOUS
  <1>5. Unique(p)
    BY <1>1, <1>3, <1>4
  <1>6. Relisted(p, table, gallery, n + Parking)
    <2>1. n + Parking \in Nat
      BY <1>1
    <2> QED BY <1>4, <2>1, PlacedList
  <1>7. /\ p \in [Relation -> Row]
        /\ \A x \in Relation : p[x].state = table[x].state /\ p[x].role = table[x].role
        /\ \A x \in Relation : x \in ToSet(gallery) =>
             p[x].position \in Nat /\ p[x].position >= n + Parking
    BY <1>6 DEF Relisted
  <1>8. Active(p, "gallery") = Active(table, "gallery")
    BY <1>7 DEF Active
  <1>9. \A x \in Active(p, "gallery") : p[x].position \in Nat /\ p[x].position >= n
    <2>1. \A x \in Active(p, "gallery") : x \in Relation /\ x \in ToSet(gallery)
      BY <1>8 DEF Active
    <2> QED BY <1>1, <1>7, <2>1
  <1>10. ASSUME NEW k \in 0..n PROVE Unique(Placed(p, order, 0, k))
    <2>1. \A x \in Active(p, "gallery") : p[x].position >= 0 + k
      BY <1>1, <1>9
    <2>2. k \in 0..Len(order)
      BY <1>1
    <2>3. ToSet(order) = Active(p, "gallery")
      BY <1>8 DEF ValidOrder
    <2>4. First(order, k) \subseteq Active(p, "gallery")
      BY <2>2, <2>3 DEF First, ToSet
    <2> QED BY <1>5, <1>7, <2>1, <2>2, <2>4, PlacedUnique
  <1> DEFINE F(k) == IF k <= n THEN Parked(k) ELSE Placed(Parked(n), order, 0, k - n)
  <1>11. Reordering(table, order, gallery) = [k \in 1..(n + n) |-> F(k)]
    BY <1>1 DEF Reordering
  <1>12. ASSUME NEW k \in 1..(n + n) PROVE Unique(F(k))
    <2>1. CASE k <= n
      BY <1>1, <1>3, <2>1
    <2>2. CASE ~(k <= n)
      <3>1. k - n \in 0..n
        BY <1>1, <2>2
      <3> QED BY <1>4, <1>10, <2>2, <3>1
    <2> QED BY <2>1, <2>2
  <1> HIDE DEF F
  <1> QED BY <1>11, <1>12
-----------------------------------------------------------------------------
(* What the three properties say of one step.                              *)
KeepsPrimary ==
  Active(relation, "primary") # {} /\ Active(relation', "primary") = {}
    => \E e \in Edit :
         \/ Commits(e, "detach") /\ edit[e].ask.id \in Active(relation, "primary")
         \/ /\ Commits(e, "setPrimary")
            /\ edit[e].found.state = "active"
            /\ relation[edit[e].ask.id].state = "archived"

KeepsOrder ==
  \A x, y \in Active(relation, "gallery") \cap Active(relation', "gallery") :
    relation[x].position < relation[y].position /\ relation'[x].position > relation'[y].position
      => \E e \in Edit :
           LET named == ToSet(edit[e].ask.order)
           IN  /\ Commits(e, "reorder")
               /\ {x, y} \cap named # {}
               /\ {x, y} \cap ToSet(edit[e].gallery) \subseteq named

Excused(e) ==
  \/ edit[e].beside
  \/ \E x \in Relation : relation[x].position >= Parking
  \/ SecondContainerPhoto(e) \/ DemotionOntoAnother(e)

ClashesCaused ==
  \A e \in Edit :
    edit[e].phase = "read" /\ edit'[e].phase = "clashed" => Excused(e)

Held == GalleryInv' /\ KeepsPrimary /\ KeepsOrder /\ ClashesCaused

(* A step that leaves the table alone changes neither its primary nor its  *)
(* order, and one that leaves every gallery position alone not its order.  *)
LEMMA SameTable ==
  ASSUME GalleryInv, relation' = relation
  PROVE  KeepsPrimary /\ KeepsOrder
  <1>1. KeepsPrimary
    BY DEF KeepsPrimary
  <1>2. \A x \in Relation : relation[x].position \in Nat
    BY DEF GalleryInv, GalleryTypeOK, Row
  <1>3. KeepsOrder
    BY <1>2 DEF KeepsOrder, Active
  <1> QED BY <1>1, <1>3

LEMMA SamePositions ==
  ASSUME GalleryInv,
         \A x \in Active(relation, "gallery") \cap Active(relation', "gallery") :
           relation'[x].position = relation[x].position
  PROVE  KeepsOrder
  <1>1. \A x \in Relation : relation[x].position \in Nat
    BY DEF GalleryInv, GalleryTypeOK, Row
  <1>2. \A x \in Active(relation, "gallery") : x \in Relation
    BY DEF Active
  <1> QED BY <1>1, <1>2 DEF KeepsOrder

(* Only the call that ends can clash, and it does by one of its tables.    *)
LEMMA OnlyItClashes ==
  ASSUME GalleryInv, NEW e \in Edit, NEW phase \in {"done", "clashed"}, Ends(e, phase),
         phase = "clashed" => Excused(e)
  PROVE  ClashesCaused
  <1>1. edit'[e].phase = phase /\ \A f \in Edit : f # e => edit'[f].phase = edit[f].phase
    BY Ended DEF GalleryInv
  <1> QED BY <1>1 DEF ClashesCaused

LEMMA Executed ==
  ASSUME NEW e \in Edit, NEW tables, Execute(e, tables), Len(tables) \in DOMAIN tables
  PROVE  \/ relation' = Last(tables) /\ Unique(relation') /\ Ends(e, "done")
         \/ /\ relation' = relation /\ Ends(e, "clashed")
            /\ ~ \A k \in DOMAIN tables : Unique(tables[k])
  <1>1. CASE \A k \in DOMAIN tables : Unique(tables[k])
    BY <1>1 DEF Execute, Last
  <1>2. CASE ~ \A k \in DOMAIN tables : Unique(tables[k])
    BY <1>2 DEF Execute
  <1> QED BY <1>1, <1>2

(* A transaction that fails by an index changes nothing, and is excused.   *)
LEMMA ClashStep ==
  ASSUME GalleryInv, NEW e \in Edit, edit[e].phase = "read", relation' = relation,
         Ends(e, "clashed"), Excused(e)
  PROVE  Held
  <1>1. KeepsPrimary /\ KeepsOrder
    BY SameTable
  <1>2. ClashesCaused
    BY OnlyItClashes
  <1>3. relation' \in [Relation -> Row] /\ Unique(relation')
    BY DEF GalleryInv, GalleryTypeOK
  <1>4. GalleryInv'
    BY <1>3, EndKeeps
  <1> QED BY <1>1, <1>2, <1>4 DEF Held

(* What a call may count on when it writes.                                *)
LEMMA ReadFacts ==
  ASSUME GalleryInv, NEW e \in Edit, edit[e].phase = "read"
  PROVE  /\ relation \in [Relation -> Row] /\ Unique(relation)
         /\ edit[e] \in Call /\ edit[e].ask \in Ask
         /\ Kept(edit[e], relation)
         /\ ~edit[e].beside => Current(edit[e], relation)
  BY DEF GalleryInv, GalleryTypeOK, Kept

LEMMA Spacious ==
  ASSUME GalleryInv, ~ \E x \in Relation : relation[x].position >= Parking
  PROVE  \A x \in Relation : relation[x].position < Parking
  BY ParkingAssumption DEF GalleryInv, GalleryTypeOK, Row

LEMMA AttachImageStep ==
  ASSUME GalleryInv, NEW e \in Edit, AttachImage(e)
  PROVE  Held
  <1>1. edit[e].phase = "read" /\ edit[e].ask.op = "attach"
    BY DEF AttachImage
  <1>2. PICK ask \in Ask : ask = edit[e].ask
    BY <1>1, ReadFacts
  <1>3. PICK place \in Nat : place = edit[e].place
    BY <1>1, ReadFacts DEF Call
  <1>4. /\ relation \in [Relation -> Row] /\ Unique(relation)
        /\ ask.op = "attach" /\ ask.id \in Relation /\ relation[ask.id].state = "absent"
    BY <1>1, <1>2, ReadFacts, AskTyped DEF Kept
  <1>5. PICK tables : tables = Attached(relation, ask, place)
    OBVIOUS
  <1>6. Execute(e, tables)
    BY <1>2, <1>3, <1>5 DEF AttachImage
  <1>7. PICK last : last = Last(tables)
    OBVIOUS
  <1>8. /\ Len(tables) \in DOMAIN tables
        /\ last \in [Relation -> Row]
        /\ last[ask.id].state = "active" /\ last[ask.id].role = ask.role
        /\ \A x \in Relation : x # ask.id => last[x].state = relation[x].state
        /\ \A x \in Relation : x # ask.id =>
             last[x] = relation[x] \/ (x \in Active(relation, "primary") /\ ask.role = "primary")
    BY <1>4, <1>5, <1>7, AttachedTables
  <1>9. CASE relation' = last /\ Unique(relation') /\ Ends(e, "done")
    <2>1. GalleryInv'
      BY <1>1, <1>2, <1>8, <1>9, EndKeeps
    <2>2. KeepsPrimary
      <3>1. CASE ask.role = "primary"
        BY <1>4, <1>8, <1>9, <3>1 DEF KeepsPrimary, Active
      <3>2. CASE ask.role # "primary"
        <4>1. \A x \in Active(relation, "primary") : x \in Active(relation', "primary")
          BY <1>4, <1>8, <1>9, <3>2 DEF Active
        <4> QED BY <4>1 DEF KeepsPrimary
      <3> QED BY <3>1, <3>2
    <2>3. KeepsOrder
      <3>1. \A x \in Active(relation, "gallery") : relation'[x] = relation[x]
        BY <1>4, <1>8, <1>9 DEF Active
      <3> QED BY <3>1, SamePositions
    <2>4. ClashesCaused
      BY <1>9, OnlyItClashes
    <2> QED BY <2>1, <2>2, <2>3, <2>4 DEF Held
  <1>10. CASE /\ relation' = relation /\ Ends(e, "clashed")
              /\ ~ \A k \in DOMAIN tables : Unique(tables[k])
    <2>1. ASSUME ~Excused(e) PROVE FALSE
      <3>1. \A x \in Active(relation, "gallery") : relation[x].position < place
        BY <1>1, <1>3, <2>1, ReadFacts DEF Current, Excused
      <3>2. ask.role = "container_photo" =>
              \A x \in Active(relation, "container_photo") : relation[x].position # 0
        BY <1>1, <1>2, <2>1 DEF Excused, SecondContainerPhoto
      <3>3. \A k \in DOMAIN tables : Unique(tables[k])
        BY <1>4, <1>5, <3>1, <3>2, AttachedUnique
      <3> QED BY <1>10, <3>3
    <2> QED BY <1>1, <1>10, <2>1, ClashStep
  <1> QED BY <1>6, <1>7, <1>8, <1>9, <1>10, Executed
LEMMA ReorderStep ==
  ASSUME GalleryInv, NEW e \in Edit, Reorder(e)
  PROVE  Held
  <1>1. edit[e].phase = "read" /\ edit[e].ask.op = "reorder"
    BY DEF Reorder
  <1>2. PICK gallery \in Seq(Relation) : gallery = edit[e].gallery
    BY <1>1, ReadFacts DEF Call
  <1>3. PICK order \in Seq(Relation) : order = edit[e].ask.order
    BY <1>1, ReadFacts, AskTyped
  <1>4. /\ relation \in [Relation -> Row] /\ Unique(relation)
        /\ ValidOrder(order, gallery) /\ Len(order) = Len(gallery)
    BY <1>1, <1>2, <1>3, ReadFacts DEF Kept
  <1>5. PICK tables : tables = Reordering(relation, order, gallery)
    OBVIOUS
  <1>6. Execute(e, tables)
    BY <1>2, <1>3, <1>5 DEF Reorder
  <1>7. PICK last : last = Last(tables)
    OBVIOUS
  <1>8. /\ Len(tables) \in DOMAIN tables
        /\ last \in [Relation -> Row]
        /\ \A x \in Relation : last[x].state = relation[x].state /\ last[x].role = relation[x].role
        /\ \A x \in Relation : x \notin ToSet(order) => last[x] = relation[x]
    BY <1>4, <1>5, <1>7, ReorderingTables
  <1>9. CASE relation' = last /\ Unique(relation') /\ Ends(e, "done")
    <2>1. GalleryInv'
      BY <1>1, <1>8, <1>9, EndKeeps
    <2>2. KeepsPrimary
      <3>1. Active(relation', "primary") = Active(relation, "primary")
        BY <1>8, <1>9 DEF Active
      <3> QED BY <3>1 DEF KeepsPrimary
    <2>3. KeepsOrder
      <3> SUFFICES ASSUME NEW x \in Active(relation, "gallery"), NEW y \in Active(relation, "gallery"),
                          relation[x].position < relation[y].position,
                          relation'[x].position > relation'[y].position
                   PROVE  LET named == ToSet(edit[e].ask.order)
                          IN  /\ Commits(e, "reorder")
                              /\ {x, y} \cap named # {}
                              /\ {x, y} \cap ToSet(edit[e].gallery) \subseteq named
        BY DEF KeepsOrder
      <3>1. Commits(e, "reorder")
        BY <1>1, <1>9, Ended DEF Commits, GalleryInv
      <3>2. x \in Relation /\ y \in Relation
        BY DEF Active
      <3>3. \A z \in Relation : relation[z].position \in Nat
        BY <1>4 DEF Row
      <3>4. ASSUME x \notin ToSet(order), y \notin ToSet(order) PROVE FALSE
        BY <1>8, <1>9, <3>2, <3>3, <3>4
      <3>5. ToSet(gallery) = ToSet(order)
        BY <1>4 DEF ValidOrder
      <3> QED BY <1>2, <1>3, <3>1, <3>4, <3>5
    <2>4. ClashesCaused
      BY <1>9, OnlyItClashes
    <2> QED BY <2>1, <2>2, <2>3, <2>4 DEF Held
  <1>10. CASE /\ relation' = relation /\ Ends(e, "clashed")
              /\ ~ \A k \in DOMAIN tables : Unique(tables[k])
    <2>1. ASSUME ~Excused(e) PROVE FALSE
      <3>1. ToSet(gallery) = Active(relation, "gallery")
        BY <1>1, <1>2, <2>1, ReadFacts DEF Current, Excused
      <3>2. \A k \in DOMAIN tables : Unique(tables[k])
        BY <1>4, <1>5, <2>1, <3>1, Spacious, ReorderingUnique DEF Excused
      <3> QED BY <1>10, <3>2
    <2> QED BY <1>1, <1>10, <2>1, ClashStep
  <1> QED BY <1>6, <1>7, <1>8, <1>9, <1>10, Executed

LEMMA SetPrimaryStep ==
  ASSUME GalleryInv, NEW e \in Edit, SetPrimary(e)
  PROVE  Held
  <1>1. edit[e].phase = "read" /\ edit[e].ask.op = "setPrimary"
    BY DEF SetPrimary
  <1>2. PICK id \in Relation : id = edit[e].ask.id
    BY <1>1, ReadFacts, AskTyped
  <1>3. PICK from \in Nat : from = edit[e].found.position
    BY <1>1, ReadFacts DEF Call, Row
  <1>4. /\ relation \in [Relation -> Row] /\ Unique(relation)
        /\ edit[e].found.state = "active"
        /\ edit[e].found.role \in {"gallery", "container_photo"}
        /\ relation[id].state # "absent"
    BY <1>1, <1>2, ReadFacts DEF Kept
  <1>5. PICK tables : tables = Promoting(relation, id, from)
    OBVIOUS
  <1>6. Execute(e, tables)
    BY <1>2, <1>3, <1>5 DEF SetPrimary
  <1>7. PICK last : last = Last(tables)
    OBVIOUS
  <1>8. /\ Len(tables) \in DOMAIN tables
        /\ last \in [Relation -> Row]
        /\ \A x \in Relation : last[x].state = relation[x].state
        /\ last[id].role = "primary"
        /\ \A x \in Relation : x # id =>
             last[x] = relation[x] \/ x \in Active(relation, "primary")
    BY <1>4, <1>5, <1>7, PromotingTables
  <1>9. CASE relation' = last /\ Unique(relation') /\ Ends(e, "done")
    <2>1. GalleryInv'
      BY <1>1, <1>8, <1>9, EndKeeps
    <2>2. KeepsPrimary
      <3>1. CASE relation[id].state = "active"
        <4>1. id \in Active(relation', "primary")
          BY <1>8, <1>9, <3>1 DEF Active
        <4> QED BY <4>1 DEF KeepsPrimary
      <3>2. CASE relation[id].state = "archived"
        <4>1. Commits(e, "setPrimary")
          BY <1>1, <1>9, Ended DEF Commits, GalleryInv
        <4> QED BY <1>2, <1>4, <3>2, <4>1 DEF KeepsPrimary
      <3>3. relation[id].state \in {"active", "archived"}
        BY <1>4 DEF Row
      <3> QED BY <3>1, <3>2, <3>3
    <2>3. KeepsOrder
      <3>1. \A x \in Active(relation, "gallery") \cap Active(relation', "gallery") :
              relation'[x] = relation[x]
        BY <1>8, <1>9 DEF Active
      <3> QED BY <3>1, SamePositions
    <2>4. ClashesCaused
      BY <1>9, OnlyItClashes
    <2> QED BY <2>1, <2>2, <2>3, <2>4 DEF Held
  <1>10. CASE /\ relation' = relation /\ Ends(e, "clashed")
              /\ ~ \A k \in DOMAIN tables : Unique(tables[k])
    <2>1. ASSUME ~Excused(e) PROVE FALSE
      <3>1. relation[id] = edit[e].found
        BY <1>1, <1>2, <2>1, ReadFacts DEF Current, Excused
      <3>2. PICK role \in Role \ {"primary"} : role = edit[e].found.role
        BY <1>4 DEF Role
      <3>3. id \in Active(relation, role) /\ from = relation[id].position
        BY <1>3, <1>4, <3>1, <3>2 DEF Active
      <3>4. \/ role = "gallery" \/ Active(relation, "primary") = {}
            \/ \A x \in Active(relation, "gallery") : relation[x].position # relation[id].position
        BY <1>1, <1>4, <2>1, <3>1, <3>2 DEF Excused, DemotionOntoAnother
      <3>5. \A x \in Relation : relation[x].position < Parking
        BY <2>1, Spacious DEF Excused
      <3>6. \A k \in DOMAIN tables : Unique(tables[k])
        BY <1>4, <1>5, <3>3, <3>4, <3>5, PromotingUnique
      <3> QED BY <1>10, <3>6
    <2> QED BY <1>1, <1>10, <2>1, ClashStep
  <1> QED BY <1>6, <1>7, <1>8, <1>9, <1>10, Executed

LEMMA DetachStep ==
  ASSUME GalleryInv, NEW e \in Edit, Detach(e)
  PROVE  Held
  <1>1. edit[e].phase = "read" /\ edit[e].ask.op = "detach" /\ Ends(e, "done")
    BY DEF Detach
  <1>2. PICK id \in Relation : id = edit[e].ask.id
    BY <1>1, ReadFacts, AskTyped
  <1>3. /\ relation \in [Relation -> Row] /\ Unique(relation)
        /\ relation[id].state # "absent"
    BY <1>1, <1>2, ReadFacts DEF Kept
  <1>4. relation' = [relation EXCEPT ![id].state = "archived"]
    BY <1>2 DEF Detach
  <1>5. /\ relation' \in [Relation -> Row]
        /\ relation'[id].state = "archived"
        /\ \A x \in Relation : x # id => relation'[x] = relation[x]
    BY <1>3, <1>4 DEF Row
  <1>6. \A role : Active(relation', role) = Active(relation, role) \ {id}
    BY <1>5 DEF Active
  <1>7. Unique(relation')
    <2>1. \A role : \A x \in Active(relation', role) :
            x \in Active(relation, role) /\ relation'[x] = relation[x]
      BY <1>5, <1>6 DEF Active
    <2> QED BY <1>3, <1>6, <2>1 DEF Unique
  <1>8. GalleryInv'
    BY <1>1, <1>3, <1>5, <1>7, EndKeeps
  <1>9. KeepsPrimary
    <2>1. Commits(e, "detach")
      BY <1>1, Ended DEF Commits, GalleryInv
    <2>2. CASE id \in Active(relation, "primary")
      BY <1>2, <2>1, <2>2 DEF KeepsPrimary
    <2>3. CASE id \notin Active(relation, "primary")
      BY <1>6, <2>3 DEF KeepsPrimary
    <2> QED BY <2>2, <2>3
  <1>10. KeepsOrder
    <2>1. \A x \in Active(relation, "gallery") \cap Active(relation', "gallery") :
            relation'[x] = relation[x]
      BY <1>5, <1>6 DEF Active
    <2> QED BY <2>1, SamePositions
  <1>11. ClashesCaused
    BY <1>1, OnlyItClashes
  <1> QED BY <1>8, <1>9, <1>10, <1>11 DEF Held

LEMMA AbortStep ==
  ASSUME GalleryInv, NEW e \in Edit, Abort(e)
  PROVE  Held
  <1>1. edit[e].phase = "read" /\ Ends(e, "done") /\ relation' = relation
    BY DEF Abort
  <1>2. relation' \in [Relation -> Row] /\ Unique(relation')
    BY <1>1 DEF GalleryInv, GalleryTypeOK
  <1>3. GalleryInv'
    BY <1>1, <1>2, EndKeeps
  <1> QED BY <1>1, <1>3, SameTable, OnlyItClashes DEF Held

(* A read ends no call.                                                    *)
LEMMA ReadStep ==
  ASSUME GalleryInv, NEW e \in Edit, NEW ask \in Ask,
         ReadAttach(e, ask) \/ ReadReorder(e, ask) \/ ReadRelation(e, ask)
  PROVE  Held
  <1>1. GalleryInv' /\ relation' = relation
    BY ReadAttachStep, ReadReorderStep, ReadRelationStep
  <1>2. PICK found, place, gallery : Reads(e, ask, found, place, gallery)
    BY DEF ReadAttach, ReadReorder, ReadRelation
  <1>3. PICK c : c = [phase |-> "read", ask |-> ask, found |-> found, place |-> place,
                      gallery |-> gallery, beside |-> FALSE]
    OBVIOUS
  <1>4. edit' = [edit EXCEPT ![e] = c] /\ c.phase = "read"
    BY <1>2, <1>3 DEF Reads
  <1>5. ClashesCaused
    BY <1>4 DEF ClashesCaused, GalleryInv, GalleryTypeOK
  <1> QED BY <1>1, <1>5, SameTable DEF Held

LEMMA GalleryStep ==
  ASSUME GalleryInv, [GalleryNext]_galleryVars
  PROVE  GalleryInv' /\ [KeepsPrimary /\ KeepsOrder /\ ClashesCaused]_galleryVars
  <1>1. CASE UNCHANGED galleryVars
    <2>1. GalleryInv'
      BY <1>1 DEF galleryVars, GalleryInv, GalleryTypeOK, OwnIds
    <2> QED BY <1>1, <2>1
  <1>2. CASE GalleryNext
    <2>1. PICK e \in Edit :
            \/ \E ask \in Ask : ReadAttach(e, ask) \/ ReadReorder(e, ask) \/ ReadRelation(e, ask)
            \/ AttachImage(e) \/ Reorder(e) \/ SetPrimary(e) \/ Detach(e) \/ Abort(e)
      BY <1>2 DEF GalleryNext
    <2>2. Held
      BY <2>1, ReadStep, AttachImageStep, ReorderStep, SetPrimaryStep, DetachStep, AbortStep
    <2> QED BY <2>2 DEF Held
  <1> QED BY <1>1, <1>2

(* The gallery's tables and calls are well typed, no unique index is ever  *)
(* violated, and what a call has read is still so unless somebody has      *)
(* committed beside it.                                                    *)
THEOREM GalleryInvariant == GallerySpec => []GalleryInv
  <1>1. GalleryInit => GalleryInv
    <2> SUFFICES ASSUME GalleryInit PROVE GalleryInv
      OBVIOUS
    <2>1. relation \in [Relation -> Row] /\ Unique(relation)
      BY BeginningAssumption DEF GalleryInit
    <2>2. NewCall \in Call /\ NewCall.phase = "new"
      <3>0. <<>> \in Seq(Relation)
        OBVIOUS
      <3>1. PICK none \in Seq(Relation) : none = <<>>
        BY <3>0, Zenon
      <3>2. PICK row \in Row : row = NoRow
        BY DEF NoRow, Row, Role
      <3>3. NewCall = [phase |-> "new", ask |-> NoAsk, found |-> row, place |-> 0,
                       gallery |-> none, beside |-> FALSE]
        BY <3>1, <3>2, Zenon DEF NewCall
      <3> QED BY <3>3 DEF Call
    <2>3. edit \in [Edit -> Call] /\ \A e \in Edit : edit[e].phase = "new"
      BY <2>2 DEF GalleryInit
    <2> QED BY <2>1, <2>3 DEF GalleryInv, GalleryTypeOK, OwnIds
  <1>2. GalleryInv /\ [GalleryNext]_galleryVars => GalleryInv'
    BY GalleryStep
  <1> QED BY <1>1, <1>2, PTL DEF GallerySpec

(* An item keeps its primary image, for any number of images and calls,    *)
(* but for the two ways to lose it that PrimaryKept names.                 *)
THEOREM PrimaryStays == GallerySpec => PrimaryKept
  <1>1. GalleryInv /\ [GalleryNext]_galleryVars => [KeepsPrimary]_galleryVars
    BY GalleryStep
  <1>2. GallerySpec => [][KeepsPrimary]_galleryVars
    BY <1>1, GalleryInvariant, PTL DEF GallerySpec
  <1> QED BY <1>2 DEF PrimaryKept, KeepsPrimary

(* Nothing but a reordering that names one of them exchanges two images.   *)
THEOREM OrderStays == GallerySpec => OrderOnlyByReorder
  <1>1. GalleryInv /\ [GalleryNext]_galleryVars => [KeepsOrder]_galleryVars
    BY GalleryStep
  <1>2. GallerySpec => [][KeepsOrder]_galleryVars
    BY <1>1, GalleryInvariant, PTL DEF GallerySpec
  <1> QED BY <1>2 DEF OrderOnlyByReorder, KeepsOrder

(* A call that fails by an index was overlapped, however long the gallery, *)
(* or met a position that has reached the parking range, or brought or     *)
(* promoted a container photo onto a place that was taken.                 *)
THEOREM ClashesHaveCause == GallerySpec => ClashHasCause
  <1>1. GalleryInv /\ [GalleryNext]_galleryVars => [ClashesCaused]_galleryVars
    BY GalleryStep
  <1>2. GallerySpec => [][ClashesCaused]_galleryVars
    BY <1>1, GalleryInvariant, PTL DEF GallerySpec
  <1> QED BY <1>2 DEF ClashHasCause, ClashesCaused, Excused
=============================================================================
