---------------------------- MODULE MediaUpload ----------------------------
(***************************************************************************)
(* Uploads: MediaService.beginUpload, receiveContent, finalizeUpload and   *)
(* expireSessions (media/media-service.ts) over the rows of upload_sessions*)
(* and media_assets (media/media-repository.ts) and the files of           *)
(* LocalMediaStorage (media/media-storage.ts).                             *)
(*                                                                         *)
(* Every await ends a step: rows and files change one after the other, and *)
(* other requests run in between.  A finalize request draws a fresh asset  *)
(* id, so the request names its asset and the asset's file.  Contents      *)
(* stand for byte streams; the checksum of a session is its content.       *)
(* Requests of another actor change nothing and are left out.              *)
(***************************************************************************)
EXTENDS Naturals, FiniteSets

CONSTANTS
  Session,        \* upload sessions, and their temporary keys
  Request,        \* content and finalize requests
  Content,        \* what may be sent
  RightSize,      \* contents of the declared size
  RightSignature, \* contents whose first bytes agree with the declared type
  NoContent, NoSession

ASSUME ContentAssumption == RightSize \subseteq Content /\ RightSignature \subseteq Content

ASSUME NullAssumption == NoContent \notin Content /\ NoSession \notin Session

VARIABLES
  session, \* the upload_sessions rows, and whether their time has passed
  temp,    \* temp[s]: the file under the temporary key of s
  object,  \* object[r]: the file under the storage key of asset r
  asset,   \* the media_assets rows
  request, \* how far each request has got
  swept,   \* sessions expireSessions has marked and not yet cleaned up after
  dropped  \* history: sessions whose cleanup died with its process or threw

vars == <<session, temp, object, asset, request, swept, dropped>>

Open == {"pending", "received"}
Closed == {"finalized", "failed", "expired"}

SessionRow == [state : {"none"} \cup Open \cup Closed, content : Content \cup {NoContent},
               late : BOOLEAN]

(* unheard is history: the reply of the transaction that wrote the row was *)
(* lost, so its request takes it to have failed.                           *)
AssetRow == [exists : BOOLEAN, session : Session \cup {NoSession},
             content : Content \cup {NoContent}, unheard : BOOLEAN]

Phase == {"idle", "writing", "recording", "discarding", "verifying", "promoting", "attaching",
          "withdrawing", "failing", "clearing", "ended", "gone"}

(* sent is the stream of a content request, seen the checksum a finalize   *)
(* request found in the session, verdict the state a failing request gives *)
(* the session.                                                            *)
RequestState == [phase : Phase, session : Session \cup {NoSession},
                 sent : Content \cup {NoContent}, seen : Content \cup {NoContent},
                 verdict : {"failed", "expired"}]

TypeOK ==
  /\ session \in [Session -> SessionRow]
  /\ temp \in [Session -> Content \cup {NoContent}]
  /\ object \in [Request -> Content \cup {NoContent}]
  /\ asset \in [Request -> AssetRow]
  /\ request \in [Request -> RequestState]
  /\ swept \subseteq Session
  /\ dropped \subseteq Session

NoAsset == [exists |-> FALSE, session |-> NoSession, content |-> NoContent, unheard |-> FALSE]

Unsent == [phase |-> "idle", session |-> NoSession, sent |-> NoContent, seen |-> NoContent,
           verdict |-> "failed"]

Init ==
  /\ session = [s \in Session |-> [state |-> "none", content |-> NoContent, late |-> FALSE]]
  /\ temp = [s \in Session |-> NoContent]
  /\ object = [r \in Request |-> NoContent]
  /\ asset = [r \in Request |-> NoAsset]
  /\ request = [r \in Request |-> Unsent]
  /\ swept = {}
  /\ dropped = {}

(* advanceSession: the row of s after an update guarded by its state.      *)
Advanced(s, from, change) ==
  IF session[s].state \in from THEN change ELSE session[s]

GoTo(r, phase) == request' = [request EXCEPT ![r].phase = phase]

files == <<temp, object>>
sweeper == <<swept, dropped>>

(***************************************************************************)
(* beginUpload, and the passing of the session's time.                     *)
(***************************************************************************)
Begin(s) ==
  /\ session[s].state = "none"
  /\ session' = [session EXCEPT ![s].state = "pending"]
  /\ UNCHANGED <<files, asset, request, sweeper>>

PassExpiry(s) ==
  /\ session[s].state # "none" /\ ~session[s].late
  /\ session' = [session EXCEPT ![s].late = TRUE]
  /\ UNCHANGED <<files, asset, request, sweeper>>

(* requireOwnSession: a late session is failed whatever its state, any     *)
(* other must be in the needed state; then the request goes to phase next. *)
RequireSession(r, s, needed, next, sent) ==
  /\ request[r].phase = "idle"
  /\ session[s].state # "none"
  /\ request' = [request EXCEPT ![r] =
       [phase |-> IF session[s].late THEN "failing"
                  ELSE IF session[s].state = needed THEN next ELSE "ended",
        session |-> s, sent |-> sent, seen |-> session[s].content,
        verdict |-> IF session[s].late THEN "expired" ELSE "failed"]]
  /\ UNCHANGED <<session, files, asset, sweeper>>

(***************************************************************************)
(* receiveContent                                                          *)
(***************************************************************************)
ReceiveContent(r, s, c) == RequireSession(r, s, "pending", "writing", c)

(* writeTemp: the staging file is renamed over the session's temporary key.*)
WriteTemp(r) ==
  /\ request[r].phase = "writing"
  /\ temp' = [temp EXCEPT ![request[r].session] = request[r].sent]
  /\ GoTo(r, "recording")
  /\ UNCHANGED <<session, object, asset, sweeper>>

(* writeTemp fails (too long a stream, a broken one, a full disk): it      *)
(* removes the file under the key as well, and the session is failed.      *)
WriteTempFails(r) ==
  /\ request[r].phase = "writing"
  /\ temp' = [temp EXCEPT ![request[r].session] = NoContent]
  /\ GoTo(r, "failing")
  /\ UNCHANGED <<session, object, asset, sweeper>>

(* Seeded fault: the content request that lost leaves its file behind.     *)
RecordReceivedOnly(r) ==
  LET s == request[r].session IN
  /\ request[r].phase = "recording"
  /\ session' = [session EXCEPT ![s] = Advanced(s, {"pending"},
       [session[s] EXCEPT !.state = "received", !.content = request[r].sent])]
  /\ GoTo(r, "ended")
  /\ UNCHANGED <<files, asset, sweeper>>

RecordReceived(r) ==
  LET s == request[r].session IN
  /\ request[r].phase = "recording"
  /\ session' = [session EXCEPT ![s] = Advanced(s, {"pending"},
       [session[s] EXCEPT !.state = "received", !.content = request[r].sent])]
  /\ GoTo(r, IF session[s].state = "pending" THEN "ended" ELSE "discarding")
  /\ UNCHANGED <<files, asset, sweeper>>

(* The content request that lost removes the file, and so does the second  *)
(* half of failSession.                                                    *)
RemoveTemp(r) ==
  /\ request[r].phase \in {"discarding", "clearing"}
  /\ temp' = [temp EXCEPT ![request[r].session] = NoContent]
  /\ GoTo(r, "ended")
  /\ UNCHANGED <<session, object, asset, sweeper>>

(* failSession: an open session is closed, then its file is removed.       *)
FailSession(r) ==
  LET s == request[r].session IN
  /\ request[r].phase = "failing"
  /\ session' = [session EXCEPT ![s] = Advanced(s, Open,
       [session[s] EXCEPT !.state = request[r].verdict])]
  /\ GoTo(r, "clearing")
  /\ UNCHANGED <<files, asset, sweeper>>

(***************************************************************************)
(* finalizeUpload                                                          *)
(***************************************************************************)
FinalizeUpload(r, s) == RequireSession(r, s, "received", "verifying", NoContent)

(* Seeded fault: the first bytes are not compared with the declared type.  *)
VerifySizeOnly(r) ==
  /\ request[r].phase = "verifying"
  /\ \E stated \in {"none", "right", "wrong"} :
       GoTo(r, IF temp[request[r].session] = NoContent THEN "ended"
               ELSE IF request[r].seen \in RightSize /\ stated # "wrong"
                    THEN "promoting" ELSE "failing")
  /\ UNCHANGED <<session, files, asset, sweeper>>

(* readSignature throws when the file is missing; verifyReceivedUpload     *)
(* compares the row's size, the file's first bytes, and the checksum the   *)
(* client may state with the row's.                                        *)
Verify(r) ==
  LET s == request[r].session
      fits == request[r].seen \in RightSize /\ temp[s] \in RightSignature
  IN
  /\ request[r].phase = "verifying"
  /\ \E stated \in {"none", "right", "wrong"} :
       GoTo(r, IF temp[s] = NoContent THEN "ended"
               ELSE IF fits /\ stated # "wrong" THEN "promoting" ELSE "failing")
  /\ UNCHANGED <<session, files, asset, sweeper>>

(* Seeded fault: a missing file does not stop the promotion.               *)
PromoteLeniently(r) ==
  LET s == request[r].session IN
  /\ request[r].phase = "promoting"
  /\ object' = [object EXCEPT ![r] = temp[s]]
  /\ temp' = [temp EXCEPT ![s] = NoContent]
  /\ GoTo(r, "attaching")
  /\ UNCHANGED <<session, asset, sweeper>>

(* promote renames the file, or throws when it is gone: the call stands    *)
(* before the try block, so nothing else is done.                          *)
Promote(r) ==
  LET s == request[r].session IN
  /\ request[r].phase = "promoting"
  /\ IF temp[s] = NoContent
       THEN GoTo(r, "ended") /\ UNCHANGED files
       ELSE /\ object' = [object EXCEPT ![r] = temp[s]]
            /\ temp' = [temp EXCEPT ![s] = NoContent]
            /\ GoTo(r, "attaching")
  /\ UNCHANGED <<session, asset, sweeper>>

(* Seeded fault: the transaction commits although the session was not advanced. *)
AttachAnyway(r) ==
  LET s == request[r].session IN
  /\ request[r].phase = "attaching"
  /\ session' = [session EXCEPT ![s] = Advanced(s, {"received"},
       [session[s] EXCEPT !.state = "finalized"])]
  /\ asset' = [asset EXCEPT ![r] = [exists |-> TRUE, session |-> s,
                                     content |-> request[r].seen, unheard |-> FALSE]]
  /\ GoTo(r, "ended")
  /\ UNCHANGED <<files, sweeper>>

(* The transaction: the asset row and the closing of the session, or, when *)
(* the session is no longer open, nothing.  The reply of a commit may be   *)
(* lost, and the catch block, which cannot tell, takes it for a failure.   *)
Attach(r) ==
  LET s == request[r].session
      completes == session[s].state = "received"
  IN
  /\ request[r].phase = "attaching"
  /\ session' = [session EXCEPT ![s] = Advanced(s, {"received"},
       [session[s] EXCEPT !.state = "finalized"])]
  /\ \E lost \in BOOLEAN :
       /\ asset' = IF completes
                     THEN [asset EXCEPT ![r] = [exists |-> TRUE, session |-> s,
                                                content |-> request[r].seen, unheard |-> lost]]
                     ELSE asset
       /\ GoTo(r, IF completes /\ ~lost THEN "ended" ELSE "withdrawing")
  /\ UNCHANGED <<files, sweeper>>

(* Seeded fault: the failure of the transaction is not caught.             *)
AttachFailsQuietly(r) ==
  /\ request[r].phase = "attaching"
  /\ GoTo(r, "ended")
  /\ UNCHANGED <<session, files, asset, sweeper>>

(* The transaction is rolled back for another reason.                      *)
AttachFails(r) ==
  /\ request[r].phase = "attaching"
  /\ GoTo(r, "withdrawing")
  /\ UNCHANGED <<session, files, asset, sweeper>>

Withdraw(r) ==
  /\ request[r].phase = "withdrawing"
  /\ object' = [object EXCEPT ![r] = NoContent]
  /\ GoTo(r, "ended")
  /\ UNCHANGED <<session, temp, asset, sweeper>>

(* The process dies, or a call of the database or the file system throws   *)
(* where nothing catches it.                                               *)
Die(r) ==
  /\ request[r].phase \notin {"idle", "ended", "gone"}
  /\ GoTo(r, "gone")
  /\ UNCHANGED <<session, files, asset, sweeper>>

(***************************************************************************)
(* expireSessions: one statement closes every late open session, then the  *)
(* files are removed one by one.                                           *)
(***************************************************************************)
(* Seeded fault: only the sessions that have received nothing are expired. *)
ExpirePendingSessions ==
  LET overdue == {s \in Session : session[s].late /\ session[s].state = "pending"} IN
  /\ overdue # {}
  /\ session' = [s \in Session |->
       IF s \in overdue THEN [session[s] EXCEPT !.state = "expired"] ELSE session[s]]
  /\ swept' = swept \cup overdue
  /\ UNCHANGED <<files, asset, request, dropped>>

ExpireSessions ==
  LET overdue == {s \in Session : session[s].late /\ session[s].state \in Open} IN
  /\ overdue # {}
  /\ session' = [s \in Session |->
       IF s \in overdue THEN [session[s] EXCEPT !.state = "expired"] ELSE session[s]]
  /\ swept' = swept \cup overdue
  /\ UNCHANGED <<files, asset, request, dropped>>

SweepTemp(s) ==
  /\ s \in swept
  /\ temp' = [temp EXCEPT ![s] = NoContent]
  /\ swept' = swept \ {s}
  /\ UNCHANGED <<session, object, asset, request, dropped>>

(* The worker dies, or a removal throws and ends the loop.                 *)
SweepStops ==
  /\ swept # {}
  /\ dropped' = dropped \cup swept
  /\ swept' = {}
  /\ UNCHANGED <<session, files, asset, request>>

-----------------------------------------------------------------------------
Enter ==
  \E r \in Request, s \in Session :
    \/ FinalizeUpload(r, s)
    \/ \E c \in Content : ReceiveContent(r, s, c)

Continue(r) ==
  \/ WriteTemp(r) \/ WriteTempFails(r) \/ RecordReceived(r) \/ RemoveTemp(r) \/ FailSession(r)
  \/ Verify(r) \/ Promote(r) \/ Attach(r) \/ AttachFails(r) \/ Withdraw(r)

Next ==
  \/ \E s \in Session : Begin(s) \/ PassExpiry(s) \/ SweepTemp(s)
  \/ Enter
  \/ \E r \in Request : Continue(r) \/ Die(r)
  \/ ExpireSessions
  \/ SweepStops

(* Time passes, and the worker calls expireSessions again and again        *)
(* (jobs/background-runtime.ts).  Of requests nothing is assumed.          *)
Fairness ==
  /\ \A s \in Session : WF_vars(PassExpiry(s))
  /\ WF_vars(ExpireSessions)

Spec == Init /\ [][Next]_vars /\ Fairness

-----------------------------------------------------------------------------
AssetsOf(s) == {r \in Request : asset[r].exists /\ asset[r].session = s}

(* A session is finalized exactly when it has its asset, and it never has  *)
(* two: of finalize requests that overlap, each other and the expiry, at   *)
(* most one commits (advanceSession inside the transaction).               *)
OneAssetPerUpload ==
  \A s \in Session :
    /\ session[s].state = "finalized" <=> AssetsOf(s) # {}
    /\ \A r, q \in AssetsOf(s) : r = q

(* Promote before the transaction, remove in its catch: an asset that      *)
(* exists has its file, but for one case.  The request that made the asset *)
(* takes the file away itself when the reply of its commit was lost, and   *)
(* it is the only one that ever does, of all the clean-ups there are.      *)
AssetHasObject ==
  \A r \in Request : asset[r].exists =>
    object[r] # NoContent \/ (asset[r].unheard /\ request[r].phase = "ended")

(* Storage holds no object that no row references, but for a request still *)
(* at work or one that died before it could clean up (the comment of       *)
(* finalizeUpload).                                                        *)
NoStrayObject ==
  \A r \in Request :
    object[r] # NoContent =>
      asset[r].exists \/ request[r].phase \in {"attaching", "withdrawing", "gone"}

Answerable(s) ==
  {r \in Request : /\ request[r].session = s
                   /\ request[r].phase \in {"recording", "discarding", "failing", "clearing",
                                            "gone"}}

(* The temporary file of a session that is not waiting to be finalized is  *)
(* somebody's to remove: of a request under way, of the sweep, or, for     *)
(* want of either, of one that died.                                       *)
NoStrayTemp ==
  \A s \in Session :
    temp[s] # NoContent /\ session[s].state # "received" =>
      s \in swept \cup dropped \/ Answerable(s) # {}

(* A session that is finalized, failed or expired stays what it is,        *)
(* whichever late request still holds its old row.                         *)
ClosedIsFinal ==
  [][\A s \in Session :
       session[s].state \in Closed => session'[s].state = session[s].state]_vars

(* Whatever becomes of its requests, an upload session ends.               *)
SessionsClose ==
  \A s \in Session : session[s].state \in Open ~> session[s].state \in Closed

(* The file of an asset, while it has one, is the one whose size and       *)
(* checksum the row states, with the signature finalizeUpload verified,    *)
(* unless the session had let in another content request before the first  *)
(* was recorded: that one replaces the file of the shared temporary key,   *)
(* and nothing reads it again ("the asset row, its relation and the        *)
(* promoted object exist together", media-service.ts).                     *)
ContentRequests(s) == {r \in Request : request[r].session = s /\ request[r].sent # NoContent}

ObjectIsAsVerified ==
  \A r \in Request : asset[r].exists /\ object[r] # NoContent =>
    \/ object[r] = asset[r].content /\ object[r] \in RightSignature
    \/ \E p, q \in ContentRequests(asset[r].session) : p # q
=============================================================================
