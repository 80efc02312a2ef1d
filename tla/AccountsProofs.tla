--------------------------- MODULE AccountsProofs ---------------------------
(***************************************************************************)
(* Proofs about Accounts for every set of addresses, sessions, invitations *)
(* and calls.  The invariant says what the table lock is good for: what a  *)
(* call has decided under it still holds when it writes (DecidedInv).      *)
(***************************************************************************)
EXTENDS Accounts, TLAPS

Locking == {"update", "archive", "issue", "accept", "bootstrap"}
Unsigned == {"signIn", "bootstrap", "accept"}

Acting(r) == request[r].phase \in {"authenticated", "ready", "locked", "decided"}

(* The call may learn of a row committed beside it, and nothing else.      *)
SameCall(q) ==
  /\ request'[q].phase = request[q].phase /\ request'[q].ask = request[q].ask
  /\ request'[q].actor = request[q].actor /\ request'[q].role = request[q].role
  /\ request'[q].expected = request[q].expected /\ request'[q].fresh = request[q].fresh

SomeAccount == \E e \in Email : account[e].state # "none"

(* Rows in use name addresses, and an invitation has an inviter.           *)
RowInv ==
  /\ \A s \in Session : session[s].state = "live" => session[s].user \in Email
  /\ \A i \in Invitation :
       invitation[i].state # "unused" => invitation[i].email \in Email /\ SomeAccount
  /\ \A e \in Email : account[e].state = "none" => ~account[e].invited

(* A call at work has an ask, and an actor unless it needs none.           *)
CallInv ==
  \A r \in Request : Acting(r) =>
    /\ request[r].ask \in Ask
    /\ request[r].ask.op \notin Unsigned => request[r].actor \in Email /\ SomeAccount

(* Whoever is past the table lock holds it.                                *)
LockInv ==
  \A r \in Request :
    /\ request[r].phase = "locked" => request[r].ask.op \in Locking
    /\ request[r].phase = "decided" => request[r].ask.op \in Locking \cup {"revokeInvitation"}
    /\ request[r].phase \in {"locked", "decided"} /\ request[r].ask.op \in Locking => lock = r

(* What was found under the lock still holds.                              *)
DecidedInv ==
  \A r \in Request :
    request[r].phase = "decided" /\ request[r].ask.op \in Locking => Allowed(request[r])

TypeInv == TypeOK /\ RowInv /\ CallInv
IInv == TypeInv /\ LockInv /\ DecidedInv

-----------------------------------------------------------------------------
(* An ask has the fields its operation calls for.                          *)
LEMMA AskFields ==
  ASSUME NEW ask \in Ask
  PROVE  /\ ask # NoAsk
         /\ ask.op \in {"signIn", "bootstrap"} => ask.email \in Email
         /\ ask.op = "accept" => ask.invitation \in Invitation
         /\ ask.op = "update" => /\ ask.email \in Email /\ ask.role \in Role
                                 /\ ask.state \in {"kept", "active", "disabled"}
         /\ ask.op = "archive" => ask.email \in Email
         /\ ask.op = "issue" => ask.email \in Email /\ ask.role \in Role
         /\ ask.op = "revokeInvitation" => ask.invitation \in Invitation
         /\ ask.op = "endSession" => ask.session \in Session
         /\ ask.op = "locale" => ask.locale \in Locale
         /\ ask.op \notin Unsigned => ask.by \in Session
  BY AskAssumption
  DEF SignIns, Bootstraps, Acceptances, Updates, Archivings, Issues, Revocations, Endings,
      Locales, NoAsk, Unsigned

(* A call that moves on keeps what it asks for and what it has read.       *)
LEMMA GotoStep ==
  ASSUME TypeOK, NEW r \in Request,
         NEW phase \in {"authenticated", "ready", "locked", "decided", "done"}, Goto(r, phase)
  PROVE  /\ request' \in [Request -> Call]
         /\ request'[r] = [request[r] EXCEPT !.phase = phase]
         /\ \A q \in Request \ {r} : request'[q] = request[q]
  BY DEF TypeOK, Goto, Call

(* A call that commits a row ends, and the others may learn of the row.    *)
LEMMA CommitsStep ==
  ASSUME TypeOK, NEW r \in Request, NEW row \in Session \cup Invitation, NEW e,
         NEW revokers, Commits(r, row, e, revokers)
  PROVE  /\ request' \in [Request -> Call]
         /\ request'[r].phase = "done"
         /\ \A q \in Request \ {r} : SameCall(q)
  <1>1. ASSUME NEW q \in Request
        PROVE  request'[q] \in Call
    <2>1. request[q] \in Call
      BY DEF TypeOK
    <2>2. [request[q] EXCEPT !.phase = "done"] \in Call
      BY <2>1 DEF Call
    <2>3. [request[q] EXCEPT !.young = @ \cup {row}] \in Call
      BY <2>1 DEF Call
    <2> QED BY <2>1, <2>2, <2>3 DEF Commits
  <1>2. request' \in [Request -> Call]
    BY <1>1 DEF Commits
  <1>3. request'[r].phase = "done"
    BY DEF Commits, TypeOK, Call
  <1>4. ASSUME NEW q \in Request \ {r}
        PROVE  SameCall(q)
    BY DEF Commits, SameCall, TypeOK, Call
  <1> QED BY <1>2, <1>3, <1>4

(* A call that begins is a new one with what it has read.                  *)
LEMMA BegunType ==
  ASSUME NEW ask \in Ask, NEW phase \in {"ready", "authenticated"},
         NEW actor \in Email \cup {NoEmail}, NEW role \in Role, NEW locale \in Locale,
         NEW expected \in Nat, NEW fresh \in BOOLEAN
  PROVE  /\ [NewCall EXCEPT !.ask = ask, !.phase = phase] \in Call
         /\ [NewCall EXCEPT !.ask = ask, !.phase = phase, !.fresh = fresh] \in Call
         /\ [NewCall EXCEPT !.ask = ask, !.phase = phase, !.actor = actor, !.role = role,
                            !.locale = locale, !.expected = expected] \in Call
  BY DEF NewCall, Call, Role, Locale

(* A call that begins has read what it says.                               *)
LEMMA BeginType ==
  ASSUME TypeInv, NEW r \in Request, NEW ask \in Ask, Start(r, ask) \/ Authenticate(r, ask)
  PROVE  TypeOK'
  <1>1. CASE Start(r, ask)
    <2>1. PICK c \in Call : request' = [request EXCEPT ![r] = c]
      <3>1. Open(ask.invitation) \in BOOLEAN
        BY DEF Open
      <3>2. [NewCall EXCEPT !.ask = ask, !.phase = "ready"] \in Call
        BY BegunType DEF Role, Locale
      <3>3. [NewCall EXCEPT !.ask = ask, !.phase = "ready", !.fresh = Open(ask.invitation)]
              \in Call
        BY <3>1, BegunType DEF Role, Locale
      <3> QED BY <1>1, <3>2, <3>3 DEF Start
    <2>2. request' \in [Request -> Call]
      BY <2>1 DEF TypeInv, TypeOK
    <2> QED BY <1>1, <2>2 DEF Start, TypeInv, TypeOK
  <1>2. CASE Authenticate(r, ask)
    <2>1. ask \in Ask /\ ask.by \in Session
      BY <1>2, AskFields DEF Authenticate, Unsigned
    <2>2. CASE Usable(ask.by)
      <3>1. session[ask.by].user \in Email
        BY <2>1, <2>2 DEF TypeInv, RowInv, Usable
      <3>2. account[session[ask.by].user] \in Account
        BY <3>1 DEF TypeInv, TypeOK
      <3>3. ExpectedBy(ask) \in Nat
        BY <2>1, AskFields DEF ExpectedBy, TypeInv, TypeOK, Account
      <3>4. PICK c \in Call : request' = [request EXCEPT ![r] = c]
        <4>1. [NewCall EXCEPT !.ask = ask, !.phase = "authenticated",
                              !.actor = session[ask.by].user,
                              !.role = account[session[ask.by].user].role,
                              !.locale = account[session[ask.by].user].locale,
                              !.expected = ExpectedBy(ask)] \in Call
          <5>1. /\ account[session[ask.by].user].role \in Role
                /\ account[session[ask.by].user].locale \in Locale
            BY <3>2 DEF Account
          <5> QED BY <3>1, <3>3, <5>1, BegunType
        <4> QED BY <1>2, <2>2, <4>1 DEF Authenticate
      <3>5. request' \in [Request -> Call]
        BY <3>4 DEF TypeInv, TypeOK
      <3> QED BY <1>2, <2>2, <3>5 DEF Authenticate, TypeInv, TypeOK
    <2>3. CASE ~Usable(ask.by)
      <3>1. session' \in [Session -> SessionRow]
        BY <1>2, <2>1, <2>3 DEF Authenticate, TypeInv, TypeOK, SessionRow
      <3>2. request' \in [Request -> Call]
        BY <1>2, <2>3, GotoStep DEF Authenticate, TypeInv
      <3> QED BY <1>2, <2>3, <3>1, <3>2 DEF Authenticate, TypeInv, TypeOK
    <2> QED BY <2>2, <2>3
  <1> QED BY <1>1, <1>2

LEMMA CreatedType ==
  ASSUME NEW role \in Role, NEW invited \in BOOLEAN
  PROVE  Created(role, invited) \in Account
  BY DEF Created, Account, Locale

LEMMA RevokedType ==
  ASSUME TypeOK, NEW e \in Email
  PROVE  RevokedOf(e) \in [Session -> SessionRow]
  BY DEF RevokedOf, TypeOK, SessionRow

LEMMA SupersededType ==
  ASSUME TypeOK, NEW e \in Email
  PROVE  Superseded(e) \in [Invitation -> InvitationRow]
  BY DEF Superseded, TypeOK, InvitationRow

(* The writes of the locked transactions.                                  *)
LEMMA WriteType ==
  ASSUME TypeInv, LockInv, DecidedInv, NEW r \in Request, Write(r)
  PROVE  TypeOK'
  <1> DEFINE ask == request[r].ask
  <1>1. ask \in Ask /\ ask.op \in Locking /\ Allowed(request[r])
    BY DEF Write, Update, Archive, Issue, Accept, Bootstrap, Locking, TypeInv, CallInv,
           Acting, DecidedInv
  <1>2. request' \in [Request -> Call]
    BY GotoStep, CommitsStep
    DEF Write, Update, Archive, Issue, Accept, Bootstrap, Ends, TypeInv
  <1>3. lock' \in Request \cup {NoRequest}
    BY DEF Write, Update, Archive, Issue, Accept, Bootstrap, Ends, Commits, TypeInv, TypeOK
  <1>4. CASE Update(r)
    <2>1. ask.email \in Email /\ ask.role \in Role /\ ask.state \in {"kept", "active", "disabled"}
      BY <1>1, <1>4, AskFields DEF Update
    <2>2. account' \in [Email -> Account]
      <3>1. account[ask.email] \in Account
        BY <2>1 DEF TypeInv, TypeOK
      <3>2. (IF ask.state = "kept" THEN account[ask.email].state ELSE ask.state)
              \in {"none", "active", "disabled", "archived"}
        BY <2>1, <3>1 DEF Account
      <3> QED BY <1>4, <2>1, <3>1, <3>2 DEF Update, TypeInv, TypeOK, Account
    <2>3. session' \in [Session -> SessionRow]
      BY <1>4, <2>1, RevokedType DEF Update, TypeInv, TypeOK
    <2>4. changes' \in [Email -> Nat]
      BY <1>4, <2>1 DEF Update, TypeInv, TypeOK
    <2> QED BY <1>2, <1>3, <1>4, <2>2, <2>3, <2>4 DEF Update, TypeInv, TypeOK
  <1>5. CASE Archive(r)
    <2>1. ask.email \in Email
      BY <1>1, <1>5, AskFields DEF Archive
    <2>2. account' \in [Email -> Account]
      BY <1>5, <2>1 DEF Archive, TypeInv, TypeOK, Account
    <2>3. session' \in [Session -> SessionRow]
      BY <1>5, <2>1, RevokedType DEF Archive, TypeInv, TypeOK
    <2>4. changes' \in [Email -> Nat]
      BY <1>5, <2>1 DEF Archive, TypeInv, TypeOK
    <2> QED BY <1>2, <1>3, <1>5, <2>2, <2>3, <2>4 DEF Archive, TypeInv, TypeOK
  <1>6. CASE Issue(r)
    <2>1. ask.email \in Email /\ ask.role \in Role
      BY <1>1, <1>6, AskFields DEF Issue
    <2>2. invitation' \in [Invitation -> InvitationRow]
      BY <1>6, <2>1, SupersededType DEF Issue, TypeInv, UnusedInvitation, InvitationRow
    <2> QED BY <1>2, <1>3, <1>6, <2>2 DEF Issue, TypeInv, TypeOK
  <1>7. CASE Accept(r)
    <2>1. ask.invitation \in Invitation
      BY <1>1, <1>7, AskFields DEF Accept
    <2>2. invitation[ask.invitation].state = "pending"
      BY <1>1, <1>7 DEF Accept, Allowed, AcceptAllowed
    <2>3. /\ invitation[ask.invitation].email \in Email
          /\ invitation[ask.invitation].role \in Role
      BY <2>1, <2>2 DEF TypeInv, RowInv, TypeOK, InvitationRow
    <2>4. account' \in [Email -> Account]
      BY <1>7, <2>3, CreatedType DEF Accept, TypeInv, TypeOK
    <2>5. invitation' \in [Invitation -> InvitationRow]
      BY <1>7, <2>1 DEF Accept, TypeInv, TypeOK, InvitationRow
    <2> QED BY <1>2, <1>3, <1>7, <2>4, <2>5 DEF Accept, TypeInv, TypeOK
  <1>8. CASE Bootstrap(r)
    <2>1. ask.email \in Email
      BY <1>1, <1>8, AskFields DEF Bootstrap
    <2>2. account' \in [Email -> Account]
      BY <1>8, <2>1, CreatedType DEF Bootstrap, TypeInv, TypeOK, Role
    <2> QED BY <1>2, <1>3, <1>8, <2>2 DEF Bootstrap, TypeInv, TypeOK
  <1> QED BY <1>4, <1>5, <1>6, <1>7, <1>8 DEF Write

(* Everything else moves a call on and changes at most one row.            *)
LEMMA OtherType ==
  ASSUME TypeInv, NEW r \in Request,
         \/ Touch(r) \/ Lock(r) \/ Decide(r) \/ IssueSession(r) \/ EndSession(r)
         \/ UpdateLocale(r) \/ ReadInvitation(r) \/ RevokeInvitation(r)
         \/ RefusedAsTooYoung(r)
  PROVE  TypeOK'
  <1> DEFINE ask == request[r].ask
  <1> USE DEF TypeInv
  <1>1. Acting(r) /\ ask \in Ask
    BY DEF Touch, Lock, Decide, IssueSession, EndSession, UpdateLocale, ReadInvitation,
           RevokeInvitation, RefusedAsTooYoung, CallInv, Acting
  <1>2. request' \in [Request -> Call]
    BY GotoStep, CommitsStep
    DEF Touch, Lock, Decide, Ends, IssueSession, EndSession, UpdateLocale,
        ReadInvitation, RevokeInvitation, RefusedAsTooYoung
  <1>3. CASE Touch(r) \/ Lock(r) \/ Decide(r) \/ ReadInvitation(r) \/ RefusedAsTooYoung(r)
    BY <1>2, <1>3 DEF Touch, Lock, Decide, Ends, ReadInvitation, RefusedAsTooYoung, TypeOK
  <1>4. CASE IssueSession(r)
    <2>1. ask.email \in Email
      BY <1>1, <1>4, AskFields DEF IssueSession
    <2>2. session' \in [Session -> SessionRow]
      <3>1. PICK s \in Session : session' = [session EXCEPT ![s] =
               [UnusedSession EXCEPT !.state = "live", !.user = ask.email,
                                     !.since = changes[ask.email]]]
        BY <1>4 DEF IssueSession
      <3>2. [UnusedSession EXCEPT !.state = "live", !.user = ask.email,
                                  !.since = changes[ask.email]] \in SessionRow
        BY <2>1 DEF TypeOK, SessionRow, UnusedSession
      <3> QED BY <3>1, <3>2 DEF TypeOK
    <2> QED BY <1>2, <1>4, <2>2 DEF IssueSession, Commits, TypeOK
  <1>5. CASE EndSession(r)
    <2>1. ask.session \in Session
      BY <1>1, <1>5, AskFields DEF EndSession
    <2>2. session' \in [Session -> SessionRow]
      BY <1>5, <2>1 DEF EndSession, TypeOK, SessionRow
    <2> QED BY <1>2, <1>5, <2>2 DEF EndSession, TypeOK
  <1>6. CASE UpdateLocale(r)
    <2>1. ask.locale \in Locale
      BY <1>1, <1>6, AskFields DEF UpdateLocale
    <2>2. request[r].actor \in Email
      BY <1>1, <1>6 DEF UpdateLocale, CallInv, Unsigned
    <2>3. account' \in [Email -> Account]
      BY <1>6, <2>1, <2>2 DEF UpdateLocale, TypeOK, Account
    <2> QED BY <1>2, <1>6, <2>3 DEF UpdateLocale, TypeOK
  <1>7. CASE RevokeInvitation(r)
    <2>1. ask.invitation \in Invitation
      BY <1>1, <1>7, AskFields DEF RevokeInvitation
    <2>2. invitation' \in [Invitation -> InvitationRow]
      BY <1>7, <2>1 DEF RevokeInvitation, TypeOK, InvitationRow
    <2> QED BY <1>2, <1>7, <2>2 DEF RevokeInvitation, TypeOK
  <1> QED BY <1>3, <1>4, <1>5, <1>6, <1>7

LEMMA ExpireType ==
  ASSUME TypeInv, Expire
  PROVE  TypeOK'
  <1> USE DEF TypeInv, TypeOK
  <1>1. CASE \E s \in Session : /\ session' = [session EXCEPT ![s].expired = TRUE]
                                /\ UNCHANGED invitation
    <2>1. session' \in [Session -> SessionRow]
      BY <1>1 DEF SessionRow
    <2> QED BY <1>1, <2>1 DEF Expire
  <1>2. CASE \E i \in Invitation : /\ invitation' = [invitation EXCEPT ![i].expired = TRUE]
                                   /\ UNCHANGED session
    <2>1. invitation' \in [Invitation -> InvitationRow]
      BY <1>2 DEF InvitationRow
    <2> QED BY <1>2, <2>1 DEF Expire
  <1> QED BY <1>1, <1>2 DEF Expire

LEMMA TypeStep ==
  ASSUME TypeInv, LockInv, DecidedInv, [Next]_vars
  PROVE  TypeOK'
  <1>1. CASE UNCHANGED vars
    BY <1>1 DEF vars, TypeInv, TypeOK
  <1>2. ASSUME NEW r \in Request, NEW ask \in Ask, Start(r, ask) \/ Authenticate(r, ask)
        PROVE  TypeOK'
    BY <1>2, BeginType
  <1>3. ASSUME NEW r \in Request, Write(r)
        PROVE  TypeOK'
    BY <1>3, WriteType
  <1>4. ASSUME NEW r \in Request,
               \/ Touch(r) \/ Lock(r) \/ Decide(r) \/ IssueSession(r) \/ EndSession(r)
               \/ UpdateLocale(r) \/ ReadInvitation(r) \/ RevokeInvitation(r)
               \/ RefusedAsTooYoung(r)
        PROVE  TypeOK'
    BY <1>4, OtherType
  <1>5. CASE Expire
    BY <1>5, ExpireType
  <1> QED BY <1>1, <1>2, <1>3, <1>4, <1>5 DEF Next

-----------------------------------------------------------------------------
(* Whoever writes has decided, on what still holds, and holds the lock.    *)
LEMMA WriterHoldsLock ==
  ASSUME TypeInv, LockInv, DecidedInv, NEW r \in Request, Write(r)
  PROVE  /\ request[r].phase = "decided"
         /\ request[r].ask \in Ask
         /\ request[r].ask.op \in Locking
         /\ Allowed(request[r])
         /\ lock = r
  BY DEF Write, Update, Archive, Issue, Accept, Bootstrap, Locking, TypeInv, CallInv,
         Acting, DecidedInv, LockInv

(* Accounts change by these calls alone, and none of them comes to nothing. *)
LEMMA AccountEffect ==
  ASSUME TypeInv, LockInv, DecidedInv, [Next]_vars
  PROVE  \/ account' = account
         \/ \E r \in Request : Update(r) \/ Archive(r) \/ Accept(r) \/ Bootstrap(r)
                               \/ UpdateLocale(r)
  BY DEF Next, vars, Start, Authenticate, Touch, Lock, Decide, Write, Issue, IssueSession,
         EndSession, ReadInvitation, RevokeInvitation, RefusedAsTooYoung, Expire

(* Which row a writing call creates or changes, and how.                   *)
LEMMA UpdateEffect ==
  ASSUME TypeInv, LockInv, DecidedInv, NEW r \in Request, Update(r)
  PROVE  LET ask == request[r].ask
         IN  /\ UpdateAllowed(request[r])
             /\ ask.email \in Email
             /\ ask.state \in {"kept", "active", "disabled"}
             /\ account[ask.email].state \in {"active", "disabled"}
             /\ account'[ask.email].state =
                  IF ask.state = "kept" THEN account[ask.email].state ELSE ask.state
             /\ account'[ask.email].role = ask.role
             /\ account'[ask.email].invited = account[ask.email].invited
             /\ \A e \in Email \ {ask.email} : account'[e] = account[e]
  <1> DEFINE ask == request[r].ask
  <1>1. /\ UpdateAllowed(request[r]) /\ ask.email \in Email
        /\ ask.state \in {"kept", "active", "disabled"}
    BY WriterHoldsLock, AskFields DEF Write, Update, Allowed
  <1> QED BY <1>1 DEF Update, UpdateAllowed, TypeInv, TypeOK, Account

LEMMA ArchiveEffect ==
  ASSUME TypeInv, LockInv, DecidedInv, NEW r \in Request, Archive(r)
  PROVE  LET ask == request[r].ask
         IN  /\ ArchiveAllowed(request[r])
             /\ ask.email \in Email
             /\ account[ask.email].state \in {"active", "disabled"}
             /\ account'[ask.email].state = "archived"
             /\ account'[ask.email].role = account[ask.email].role
             /\ account'[ask.email].invited = account[ask.email].invited
             /\ \A e \in Email \ {ask.email} : account'[e] = account[e]
  <1> DEFINE ask == request[r].ask
  <1>1. ArchiveAllowed(request[r]) /\ ask.email \in Email
    BY WriterHoldsLock, AskFields DEF Write, Archive, Allowed
  <1> QED BY <1>1 DEF Archive, ArchiveAllowed, TypeInv, TypeOK, Account

LEMMA AcceptEffect ==
  ASSUME TypeInv, LockInv, DecidedInv, NEW r \in Request, Accept(r)
  PROVE  LET i == request[r].ask.invitation
             e == invitation[i].email
         IN  /\ i \in Invitation
             /\ invitation[i].state = "pending"
             /\ e \in Email
             /\ account[e].state = "none"
             /\ account'[e].state = "active"
             /\ account'[e].invited
             /\ \A f \in Email \ {e} : account'[f] = account[f]
  <1> DEFINE i == request[r].ask.invitation
             e == invitation[i].email
  <1>1. AcceptAllowed(request[r]) /\ i \in Invitation
    BY WriterHoldsLock, AskFields DEF Write, Accept, Allowed
  <1>2. e \in Email
    BY <1>1 DEF AcceptAllowed, TypeInv, RowInv
  <1>3. account' = [account EXCEPT ![e] = Created(invitation[i].role, TRUE)]
    BY DEF Accept
  <1> QED BY <1>1, <1>2, <1>3 DEF AcceptAllowed, Created, TypeInv, TypeOK

LEMMA BootstrapEffect ==
  ASSUME TypeInv, LockInv, DecidedInv, NEW r \in Request, Bootstrap(r)
  PROVE  LET e == request[r].ask.email
         IN  /\ e \in Email
             /\ \A f \in Email : account[f].state = "none"
             /\ account'[e].state = "active" /\ account'[e].role = "owner"
             /\ ~account'[e].invited
             /\ \A f \in Email \ {e} : account'[f] = account[f]
  <1> DEFINE e == request[r].ask.email
  <1>1. e \in Email /\ \A f \in Email : account[f].state = "none"
    BY WriterHoldsLock, AskFields DEF Write, Bootstrap, Allowed
  <1>2. account' = [account EXCEPT ![e] = Created("owner", FALSE)]
    BY DEF Bootstrap
  <1> QED BY <1>1, <1>2 DEF Created, TypeInv, TypeOK

LEMMA LocaleKeepsRoles ==
  ASSUME TypeInv, NEW r \in Request, UpdateLocale(r), NEW e \in Email
  PROVE  /\ account'[e].state = account[e].state
         /\ account'[e].role = account[e].role
         /\ account'[e].invited = account[e].invited
  BY DEF UpdateLocale, TypeInv, TypeOK, Account

(* Nobody is deleted, and nobody becomes invited but by an acceptance.     *)
LEMMA AccountsStay ==
  ASSUME TypeInv, LockInv, DecidedInv, [Next]_vars, NEW e \in Email
  PROVE  /\ account[e].state # "none" =>
              account'[e].state # "none" /\ account'[e].invited = account[e].invited
         /\ account'[e].state = "none" => account'[e] = account[e]
  <1>1. CASE account' = account
    BY <1>1
  <1>2. ASSUME NEW r \in Request, Update(r) \/ Archive(r)
        PROVE  /\ account[e].state # "none" =>
                    account'[e].state # "none" /\ account'[e].invited = account[e].invited
               /\ account'[e].state = "none" => account'[e] = account[e]
    BY <1>2, UpdateEffect, ArchiveEffect
  <1>4. ASSUME NEW r \in Request, Accept(r) \/ Bootstrap(r)
        PROVE  /\ account[e].state # "none" =>
                    account'[e].state # "none" /\ account'[e].invited = account[e].invited
               /\ account'[e].state = "none" => account'[e] = account[e]
    BY <1>4, AcceptEffect, BootstrapEffect
  <1>3. CASE \E r \in Request : UpdateLocale(r)
    <2>1. PICK r \in Request : UpdateLocale(r)
      BY <1>3
    <2>2. account'[e].state = "none" => account'[e] = account[e]
      BY <2>1 DEF UpdateLocale, TypeInv, TypeOK, Account
    <2> QED BY <2>1, <2>2, LocaleKeepsRoles
  <1> QED BY <1>1, <1>2, <1>3, <1>4, AccountEffect

-----------------------------------------------------------------------------
(* What a step does to the rows of sessions and invitations.               *)
LEMMA SessionEffect ==
  ASSUME TypeInv, LockInv, DecidedInv, [Next]_vars, NEW s \in Session,
         session'[s].state = "live"
  PROVE  \/ /\ session[s].state = "live"
            /\ session'[s].user = session[s].user
            /\ session'[s].since = session[s].since
         \/ \E r \in Request :
              /\ IssueSession(r)
              /\ request[r].ask.email \in Email
              /\ session'[s].user = request[r].ask.email
              /\ session'[s].since = changes[request[r].ask.email]
  <1> USE DEF TypeInv, TypeOK
  <1>1. CASE session' = session
    BY <1>1
  <1>2. ASSUME NEW r \in Request, NEW ask \in Ask, Authenticate(r, ask), session' # session
        PROVE  /\ session[s].state = "live"
               /\ session'[s].user = session[s].user
               /\ session'[s].since = session[s].since
    BY <1>2 DEF Authenticate, SessionRow
  <1>3. ASSUME NEW r \in Request, Update(r) \/ Archive(r)
        PROVE  /\ session[s].state = "live"
               /\ session'[s].user = session[s].user
               /\ session'[s].since = session[s].since
    BY <1>3 DEF Update, Archive, RevokedOf, SessionRow
  <1>4. ASSUME NEW r \in Request, IssueSession(r)
        PROVE  \/ /\ session[s].state = "live"
                  /\ session'[s].user = session[s].user
                  /\ session'[s].since = session[s].since
               \/ /\ request[r].ask.email \in Email
                  /\ session'[s].user = request[r].ask.email
                  /\ session'[s].since = changes[request[r].ask.email]
    <2>1. request[r].ask.email \in Email
      BY <1>4, AskFields DEF IssueSession, CallInv, Acting
    <2>2. PICK t \in Session : session' = [session EXCEPT ![t] =
             [UnusedSession EXCEPT !.state = "live", !.user = request[r].ask.email,
                                   !.since = changes[request[r].ask.email]]]
      BY <1>4 DEF IssueSession
    <2> QED BY <2>1, <2>2 DEF UnusedSession
  <1>5. ASSUME NEW r \in Request, EndSession(r)
        PROVE  /\ session[s].state = "live"
               /\ session'[s].user = session[s].user
               /\ session'[s].since = session[s].since
    BY <1>5 DEF EndSession, SessionRow
  <1>6. CASE Expire
    BY <1>6 DEF Expire, SessionRow
  <1>7. \/ session' = session \/ Expire
        \/ \E r \in Request :
             \/ Update(r) \/ Archive(r) \/ IssueSession(r) \/ EndSession(r)
             \/ \E ask \in Ask : Authenticate(r, ask)
    BY DEF Next, vars, Start, Touch, Lock, Decide, Write, Issue, Accept, Bootstrap,
           UpdateLocale, ReadInvitation, RevokeInvitation, RefusedAsTooYoung
  <1> QED BY <1>1, <1>2, <1>3, <1>4, <1>5, <1>6, <1>7

LEMMA InvitationEffect ==
  ASSUME TypeInv, LockInv, DecidedInv, [Next]_vars, NEW i \in Invitation
  PROVE  \/ /\ invitation'[i].state = invitation[i].state
            /\ invitation'[i].email = invitation[i].email
            /\ invitation[i].expired => invitation'[i].expired
         \/ /\ invitation[i].state = "pending" /\ invitation'[i].state = "revoked"
            /\ invitation'[i].email = invitation[i].email
            /\ \E r \in Request :
                 Issue(r) \/ (RevokeInvitation(r) /\ i = request[r].ask.invitation)
         \/ \E r \in Request :
              /\ Issue(r)
              /\ request[r].ask.email \in Email
              /\ invitation[i].state = "unused" /\ invitation'[i].state = "pending"
              /\ invitation'[i].email = request[r].ask.email
         \/ \E r \in Request :
              /\ Accept(r) /\ i = request[r].ask.invitation
              /\ invitation[i].state = "pending" /\ invitation'[i].state = "accepted"
              /\ invitation'[i].email = invitation[i].email
  <1> USE DEF TypeInv, TypeOK
  <1>1. CASE invitation' = invitation
    BY <1>1
  <1>2. ASSUME NEW r \in Request, Issue(r)
        PROVE  \/ /\ invitation'[i].state = invitation[i].state
                  /\ invitation'[i].email = invitation[i].email
                  /\ invitation[i].expired => invitation'[i].expired
               \/ /\ invitation[i].state = "pending" /\ invitation'[i].state = "revoked"
                  /\ invitation'[i].email = invitation[i].email
               \/ /\ request[r].ask.email \in Email
                  /\ invitation[i].state = "unused" /\ invitation'[i].state = "pending"
                  /\ invitation'[i].email = request[r].ask.email
    <2> DEFINE ask == request[r].ask
    <2>1. ask.email \in Email
      BY <1>2, AskFields DEF Issue, CallInv, Acting
    <2>2. PICK j \in Invitation :
            /\ invitation[j].state = "unused"
            /\ invitation' = [Superseded(ask.email) EXCEPT ![j] =
                 [UnusedInvitation EXCEPT !.state = "pending", !.email = ask.email,
                                          !.role = ask.role]]
      BY <1>2 DEF Issue
    <2>3. Superseded(ask.email) \in [Invitation -> InvitationRow]
      BY <2>1, SupersededType
    <2>4. CASE i = j
      BY <2>1, <2>2, <2>3, <2>4 DEF UnusedInvitation
    <2>5. CASE i # j
      <3>1. invitation'[i] = Superseded(ask.email)[i]
        BY <2>2, <2>3, <2>5
      <3> QED BY <3>1 DEF Superseded, Open, InvitationRow
    <2> QED BY <2>4, <2>5
  <1>3. ASSUME NEW r \in Request, Accept(r)
        PROVE  \/ invitation'[i] = invitation[i]
               \/ /\ i = request[r].ask.invitation
                  /\ invitation[i].state = "pending" /\ invitation'[i].state = "accepted"
                  /\ invitation'[i].email = invitation[i].email
    <2> DEFINE j == request[r].ask.invitation
    <2>1. invitation' = [invitation EXCEPT ![j].state = "accepted"]
      BY <1>3 DEF Accept
    <2>2. j \in Invitation /\ invitation[j].state = "pending"
      BY <1>3, AcceptEffect
    <2>3. invitation \in [Invitation -> InvitationRow]
      OBVIOUS
    <2> HIDE DEF TypeInv, TypeOK, j
    <2>4. CASE i = j
      BY <2>1, <2>2, <2>3, <2>4 DEF InvitationRow, j
    <2>5. CASE i # j
      BY <2>1, <2>2, <2>3, <2>5
    <2> QED BY <2>4, <2>5
  <1>4. ASSUME NEW r \in Request, RevokeInvitation(r)
        PROVE  \/ invitation'[i] = invitation[i]
               \/ /\ i = request[r].ask.invitation
                  /\ invitation[i].state = "pending" /\ invitation'[i].state = "revoked"
                  /\ invitation'[i].email = invitation[i].email
    BY <1>4 DEF RevokeInvitation, InvitationRow
  <1>5. CASE Expire
    BY <1>5 DEF Expire, InvitationRow
  <1>6. \/ invitation' = invitation \/ Expire
        \/ \E r \in Request : Issue(r) \/ Accept(r) \/ RevokeInvitation(r)
    BY DEF Next, vars, Start, Authenticate, Touch, Lock, Decide, Write, Update, Archive,
           Bootstrap, IssueSession, EndSession, UpdateLocale, ReadInvitation,
           RefusedAsTooYoung
  <1>7. CASE \E r \in Request : Issue(r)
    BY <1>2, <1>7
  <1>8. CASE \E r \in Request : Accept(r)
    BY <1>3, <1>8
  <1>9. CASE \E r \in Request : RevokeInvitation(r)
    BY <1>4, <1>9
  <1> QED BY <1>1, <1>5, <1>6, <1>7, <1>8, <1>9

(* What a step does to a call: it begins, ends, or moves on one phase.     *)
LEMMA CallEffect ==
  ASSUME TypeInv, LockInv, DecidedInv, [Next]_vars, NEW q \in Request
  PROVE  \/ SameCall(q)
         \/ request'[q].phase = "done"
         \/ /\ request'[q].phase \in {"ready", "authenticated"}
            /\ request'[q].ask \in Ask
            /\ request'[q].ask.op \notin Unsigned => request'[q].actor \in Email /\ SomeAccount
         \/ /\ Touch(q) \/ Lock(q) \/ Decide(q) \/ ReadInvitation(q)
            /\ \E phase \in {"ready", "locked", "decided"} :
                 request'[q] = [request[q] EXCEPT !.phase = phase]
  <1> DEFINE Moved ==
        /\ Touch(q) \/ Lock(q) \/ Decide(q) \/ ReadInvitation(q)
        /\ \E phase \in {"ready", "locked", "decided"} :
             request'[q] = [request[q] EXCEPT !.phase = phase]
  <1>1. CASE request' = request
    BY <1>1 DEF SameCall
  <1>12. request'[q] = request[q] => SameCall(q)
    BY DEF SameCall
  <1>2. ASSUME NEW r \in Request, NEW ask \in Ask, Start(r, ask)
        PROVE  \/ request'[q] = request[q]
               \/ /\ request'[q].phase = "ready"
                  /\ request'[q].ask = ask
                  /\ ask.op \in Unsigned
    BY <1>2 DEF Start, NewCall, Unsigned, TypeInv, TypeOK
  <1>3. ASSUME NEW r \in Request, NEW ask \in Ask, Authenticate(r, ask)
        PROVE  \/ request'[q] = request[q]
               \/ request'[q].phase = "done"
               \/ /\ request'[q].phase = "authenticated"
                  /\ request'[q].ask = ask
                  /\ request'[q].actor \in Email /\ SomeAccount
    <2>1. ask.by \in Session
      BY <1>3, AskFields DEF Authenticate, Unsigned
    <2>2. CASE Usable(ask.by)
      <3>1. session[ask.by].user \in Email /\ SomeAccount
        BY <2>1, <2>2 DEF Usable, TypeInv, RowInv, SomeAccount
      <3> DEFINE c == [NewCall EXCEPT !.ask = ask, !.phase = "authenticated",
                                      !.actor = session[ask.by].user,
                                      !.role = account[session[ask.by].user].role,
                                      !.locale = account[session[ask.by].user].locale,
                                      !.expected = ExpectedBy(ask)]
      <3>2. request' = [request EXCEPT ![r] = c]
        BY <1>3, <2>2 DEF Authenticate
      <3>3. c.phase = "authenticated" /\ c.ask = ask /\ c.actor = session[ask.by].user
        BY DEF NewCall
      <3>4. request'[q] = request[q] \/ request'[q] = c
        BY <3>2 DEF TypeInv, TypeOK
      <3> QED BY <3>1, <3>3, <3>4
    <2>3. CASE ~Usable(ask.by)
      BY <1>3, <2>3, GotoStep DEF Authenticate, TypeInv, TypeOK, Call
    <2> QED BY <2>2, <2>3
  <1>4. ASSUME NEW r \in Request, Touch(r) \/ Lock(r) \/ Decide(r) \/ ReadInvitation(r)
        PROVE  request'[q] = request[q] \/ request'[q].phase = "done" \/ Moved
    <2>1. \E phase \in {"ready", "locked", "decided", "done"} : Goto(r, phase)
      BY <1>4 DEF Touch, Lock, Decide, ReadInvitation, Ends
    <2>2. PICK phase \in {"ready", "locked", "decided", "done"} : Goto(r, phase)
      BY <2>1
    <2>3. /\ request'[r] = [request[r] EXCEPT !.phase = phase]
          /\ q # r => request'[q] = request[q]
      BY <2>2, GotoStep DEF TypeInv
    <2>4. request[r] \in Call
      BY DEF TypeInv, TypeOK
    <2>5. CASE phase = "done"
      BY <2>3, <2>4, <2>5 DEF Call
    <2>6. CASE phase \in {"ready", "locked", "decided"}
      BY <1>4, <2>3, <2>6
    <2> QED BY <2>5, <2>6
  <1>5. ASSUME NEW r \in Request,
               \/ Write(r) \/ EndSession(r) \/ UpdateLocale(r)
               \/ RevokeInvitation(r) \/ RefusedAsTooYoung(r), ~Issue(r)
        PROVE  request'[q] = request[q] \/ request'[q].phase = "done"
    <2>1. Goto(r, "done")
      BY <1>5 DEF Write, Update, Archive, Accept, Bootstrap, Ends,
                  EndSession, UpdateLocale, RevokeInvitation, RefusedAsTooYoung
    <2> QED BY <2>1, GotoStep DEF TypeInv, TypeOK, Call
  <1>11. ASSUME NEW r \in Request, Issue(r) \/ IssueSession(r)
         PROVE  SameCall(q) \/ request'[q].phase = "done"
    <2>1. \E row \in Session \cup Invitation : \E e, revokers : Commits(r, row, e, revokers)
      BY <1>11 DEF Issue, IssueSession
    <2> QED BY <2>1, CommitsStep DEF TypeInv
  <1>6. CASE UNCHANGED vars \/ Expire
    BY <1>6, <1>12 DEF vars, Expire
  <1>7. CASE \E r \in Request, ask \in Ask : Start(r, ask)
    <2>1. PICK r \in Request, ask \in Ask : Start(r, ask)
      BY <1>7
    <2> QED BY <1>2, <1>12, <2>1
  <1>8. CASE \E r \in Request, ask \in Ask : Authenticate(r, ask)
    <2>1. PICK r \in Request, ask \in Ask : Authenticate(r, ask)
      BY <1>8
    <2> QED BY <1>3, <1>12, <2>1
  <1>9. CASE \E r \in Request : Touch(r) \/ Lock(r) \/ Decide(r) \/ ReadInvitation(r)
    BY <1>4, <1>9, <1>12
  <1>10. CASE \E r \in Request : \/ Write(r) \/ IssueSession(r) \/ EndSession(r)
                                 \/ UpdateLocale(r) \/ RevokeInvitation(r)
                                 \/ RefusedAsTooYoung(r)
    BY <1>5, <1>10, <1>11, <1>12
  <1> QED BY <1>6, <1>7, <1>8, <1>9, <1>10 DEF Next

-----------------------------------------------------------------------------
LEMMA SomeAccountStays ==
  ASSUME TypeInv, LockInv, DecidedInv, [Next]_vars, SomeAccount
  PROVE  SomeAccount'
  BY AccountsStay DEF SomeAccount

LEMMA RowStep ==
  ASSUME TypeInv, LockInv, DecidedInv, [Next]_vars
  PROVE  RowInv'
  <1>1. ASSUME NEW s \in Session, session'[s].state = "live"
        PROVE  session'[s].user \in Email
    BY <1>1, SessionEffect DEF TypeInv, RowInv
  <1>2. ASSUME NEW i \in Invitation, invitation'[i].state # "unused"
        PROVE  invitation'[i].email \in Email /\ SomeAccount'
    <2>1. CASE invitation[i].state # "unused"
      BY <2>1, InvitationEffect, SomeAccountStays DEF TypeInv, RowInv
    <2>2. CASE invitation[i].state = "unused"
      <3>1. PICK r \in Request : /\ Issue(r)
                                 /\ request[r].ask.email \in Email
                                 /\ invitation'[i].email = request[r].ask.email
        BY <1>2, <2>2, InvitationEffect
      <3>2. SomeAccount
        BY <3>1 DEF Issue, TypeInv, CallInv, Acting, Unsigned
      <3> QED BY <3>1, <3>2, SomeAccountStays
    <2> QED BY <2>1, <2>2
  <1>3. ASSUME NEW e \in Email, account'[e].state = "none"
        PROVE  ~account'[e].invited
    BY <1>3, AccountsStay DEF TypeInv, RowInv
  <1> QED BY <1>1, <1>2, <1>3 DEF RowInv

LEMMA CallStep ==
  ASSUME TypeInv, LockInv, DecidedInv, [Next]_vars
  PROVE  CallInv'
  <1> SUFFICES ASSUME NEW q \in Request, Acting(q)'
               PROVE  /\ request'[q].ask \in Ask
                      /\ request'[q].ask.op \notin Unsigned =>
                           request'[q].actor \in Email /\ SomeAccount'
    BY DEF CallInv
  <1>1. request[q] \in Call
    BY DEF TypeInv, TypeOK
  <1>2. CASE SameCall(q)
    BY <1>2, SomeAccountStays DEF SameCall, Acting, TypeInv, CallInv
  <1>3. CASE /\ request'[q].ask \in Ask
             /\ request'[q].ask.op \notin Unsigned =>
                  request'[q].actor \in Email /\ SomeAccount
    BY <1>3, SomeAccountStays
  <1>4. CASE /\ Touch(q) \/ Lock(q) \/ Decide(q) \/ ReadInvitation(q)
             /\ \E phase \in {"ready", "locked", "decided"} :
                  request'[q] = [request[q] EXCEPT !.phase = phase]
    <2>1. Acting(q)
      BY <1>4 DEF Acting, Touch, Lock, Decide, ReadInvitation
    <2>2. request'[q].ask = request[q].ask /\ request'[q].actor = request[q].actor
      BY <1>1, <1>4 DEF Call
    <2> QED BY <2>1, <2>2, SomeAccountStays DEF TypeInv, CallInv
  <1>5. request'[q].phase # "done"
    BY DEF Acting
  <1> QED BY <1>2, <1>3, <1>4, <1>5, CallEffect

(* A transaction that ends gives back its own lock alone.                  *)
LEMMA LockEffect ==
  ASSUME TypeInv, LockInv, DecidedInv, [Next]_vars, NEW q \in Request, lock = q
  PROVE  lock' = q \/ request'[q].phase = "done"
  <1>1. CASE lock' = lock
    BY <1>1
  <1>2. ASSUME NEW r \in Request, Ends(r)
        PROVE  lock' = q \/ request'[q].phase = "done"
    BY <1>2, GotoStep DEF Ends, TypeInv, TypeOK, Call
  <1>5. ASSUME NEW r \in Request, Issue(r) \/ IssueSession(r)
        PROVE  lock' = q \/ request'[q].phase = "done"
    <2>1. \E row \in Session \cup Invitation : \E e, revokers : Commits(r, row, e, revokers)
      BY <1>5 DEF Issue, IssueSession
    <2>2. request'[r].phase = "done"
      BY <2>1, CommitsStep DEF TypeInv
    <2>3. lock' = IF lock = r THEN NoRequest ELSE lock
      BY <2>1 DEF Commits
    <2> QED BY <2>2, <2>3
  <1>3. ASSUME NEW r \in Request, Lock(r)
        PROVE  FALSE
    BY <1>3, NullAssumption DEF Lock, UsersUnlocked
  <1>4. \/ lock' = lock
        \/ \E r \in Request : Ends(r) \/ Lock(r) \/ Issue(r) \/ IssueSession(r)
    BY DEF Next, vars, Start, Authenticate, Touch, Decide, Write, Update, Archive,
           Accept, Bootstrap, EndSession, UpdateLocale, ReadInvitation,
           RevokeInvitation, RefusedAsTooYoung, Expire
  <1> QED BY <1>1, <1>2, <1>3, <1>4, <1>5

LEMMA LockStep ==
  ASSUME TypeInv, LockInv, DecidedInv, [Next]_vars
  PROVE  LockInv'
  <1> SUFFICES ASSUME NEW q \in Request, request'[q].phase \in {"locked", "decided"}
               PROVE  /\ request'[q].phase = "locked" => request'[q].ask.op \in Locking
                      /\ request'[q].phase = "decided" =>
                           request'[q].ask.op \in Locking \cup {"revokeInvitation"}
                      /\ request'[q].ask.op \in Locking => lock' = q
    BY DEF LockInv
  <1>1. request[q] \in Call
    BY DEF TypeInv, TypeOK
  <1>2. CASE SameCall(q)
    BY <1>2, LockEffect DEF SameCall, LockInv
  <1>3. ASSUME NEW phase \in {"ready", "locked", "decided"},
               request'[q] = [request[q] EXCEPT !.phase = phase],
               Touch(q) \/ Lock(q) \/ Decide(q) \/ ReadInvitation(q)
        PROVE  /\ request'[q].phase = "locked" => request'[q].ask.op \in Locking
               /\ request'[q].phase = "decided" =>
                    request'[q].ask.op \in Locking \cup {"revokeInvitation"}
               /\ request'[q].ask.op \in Locking => lock' = q
    <2>1. request'[q].phase = phase /\ request'[q].ask = request[q].ask
      BY <1>1, <1>3 DEF Call
    <2>2. CASE Touch(q)
      BY <2>1, <2>2, GotoStep DEF Touch, TypeInv, Call
    <2>3. CASE Lock(q)
      <3>1. phase = "locked"
        BY <2>1, <2>3, GotoStep, <1>1 DEF Lock, TypeInv, Call
      <3> QED BY <2>1, <2>3, <3>1 DEF Lock, Locking
    <2>4. CASE Decide(q)
      <3>1. request[q].ask.op \in Locking /\ lock = q
        BY <2>4 DEF Decide, LockInv
      <3>2. lock' = q
        BY <2>1, <3>1, LockEffect
      <3> QED BY <2>1, <3>1, <3>2
    <2>5. CASE ReadInvitation(q)
      <3>1. phase # "locked"
        BY <2>1, <2>5, GotoStep, <1>1 DEF ReadInvitation, TypeInv, Call
      <3> QED BY <2>1, <2>5, <3>1 DEF ReadInvitation, Locking
    <2> QED BY <1>3, <2>2, <2>3, <2>4, <2>5
  <1> QED BY <1>2, <1>3, CallEffect

(* What a call has found while it holds the lock, no other call changes.   *)
LEMMA AllowedStays ==
  ASSUME TypeInv, LockInv, DecidedInv, [Next]_vars, NEW q \in Request,
         request[q].phase = "decided", request[q].ask.op \in Locking, SameCall(q)
  PROVE  Allowed(request[q])'
  <1> DEFINE ask == request[q].ask
  <1>1. lock = q /\ Allowed(request[q]) /\ ask \in Ask
    BY DEF LockInv, DecidedInv, TypeInv, CallInv, Acting
  <1>2. ASSUME NEW r \in Request, Write(r)
        PROVE  FALSE
    <2>1. r = q
      BY <1>1, <1>2, WriterHoldsLock
    <2>2. CASE Issue(r)
      BY <1>1, <2>1, <2>2, CommitsStep DEF Issue, SameCall, TypeInv
    <2>3. CASE ~Issue(r)
      <3>1. Goto(r, "done")
        BY <1>2, <2>3 DEF Write, Update, Archive, Accept, Bootstrap, Ends
      <3> QED BY <2>1, <3>1, GotoStep DEF SameCall, TypeInv, TypeOK, Call
    <2> QED BY <2>2, <2>3
  <1>3. account' = account
    <2>1. ASSUME NEW r \in Request, UpdateLocale(r)
          PROVE  FALSE
      BY <1>1, <2>1, NullAssumption DEF UpdateLocale, UsersUnlocked
    <2> QED BY <1>2, <2>1, AccountEffect DEF Write
  <1>4. CASE ask.op = "accept"
    <2>1. ask.invitation \in Invitation
      BY <1>1, <1>4, AskFields
    <2>2. AcceptAllowed(request[q])
      BY <1>1, <1>4 DEF Allowed
    <2>3. ASSUME NEW r \in Request, RevokeInvitation(r)
          PROVE  FALSE
      BY <1>1, <1>4, <2>3, NullAssumption DEF RevokeInvitation, InvitationsUnlocked
    <2>4. /\ invitation'[ask.invitation].state = invitation[ask.invitation].state
          /\ invitation'[ask.invitation].email = invitation[ask.invitation].email
      BY <1>2, <2>1, <2>2, <2>3, InvitationEffect DEF Write, AcceptAllowed
    <2>5. AcceptAllowed(request[q])'
      BY <1>3, <2>2, <2>4 DEF SameCall, AcceptAllowed
    <2> QED BY <1>4, <2>5 DEF SameCall, Allowed
  <1>5. CASE ask.op # "accept"
    BY <1>1, <1>3, <1>5 DEF SameCall, Allowed, UpdateAllowed, ArchiveAllowed, AnotherOwner,
                            ActiveOwner, Locking
  <1> QED BY <1>4, <1>5

LEMMA DecidedStep ==
  ASSUME TypeInv, LockInv, DecidedInv, [Next]_vars
  PROVE  DecidedInv'
  <1> SUFFICES ASSUME NEW q \in Request, request'[q].phase = "decided",
                      request'[q].ask.op \in Locking
               PROVE  Allowed(request[q])'
    BY DEF DecidedInv
  <1>1. request[q] \in Call
    BY DEF TypeInv, TypeOK
  <1>2. CASE SameCall(q)
    BY <1>2, AllowedStays DEF SameCall
  <1>3. ASSUME NEW phase \in {"ready", "locked", "decided"},
               request'[q] = [request[q] EXCEPT !.phase = phase],
               Touch(q) \/ Lock(q) \/ Decide(q) \/ ReadInvitation(q)
        PROVE  Allowed(request[q])'
    <2>1. request'[q].ask = request[q].ask /\ phase = "decided"
      BY <1>1, <1>3 DEF Call
    <2>2. Decide(q)
      BY <1>1, <1>3, <2>1, GotoStep DEF Touch, Lock, ReadInvitation, Locking, TypeInv, Call
    <2>3. Allowed(request[q])
      BY <1>1, <1>3, <2>1, <2>2, GotoStep DEF Decide, Ends, TypeInv, Call
    <2>4. /\ request'[q].expected = request[q].expected
          /\ request'[q].role = request[q].role
          /\ request'[q].fresh = request[q].fresh
      BY <1>1, <1>3 DEF Call
    <2>5. account' = account /\ invitation' = invitation
      BY <2>2 DEF Decide
    <2> QED BY <2>1, <2>3, <2>4, <2>5
            DEF Allowed, UpdateAllowed, ArchiveAllowed, AcceptAllowed, AnotherOwner, ActiveOwner
  <1> QED BY <1>2, <1>3, CallEffect

LEMMA InitInv ==
  ASSUME Init
  PROVE  IInv
  <1>1. \A r \in Request : request[r] = NewCall
    BY DEF Init
  <1>2. TypeOK
    <2>1. NewCall \in Call
      BY DEF NewCall, Call, Role, Locale
    <2>2. UnusedInvitation \in InvitationRow
      BY DEF UnusedInvitation, InvitationRow, Role
    <2> QED BY <2>1, <2>2, BeginningAssumption DEF Init, TypeOK
  <1>3. RowInv
    BY BeginningAssumption DEF Init, RowInv, UnusedInvitation
  <1>4. CallInv /\ LockInv /\ DecidedInv
    BY <1>1 DEF CallInv, LockInv, DecidedInv, Acting, NewCall
  <1> QED BY <1>2, <1>3, <1>4 DEF IInv, TypeInv

LEMMA InvStep ==
  ASSUME IInv, [Next]_vars
  PROVE  IInv'
  BY TypeStep, RowStep, CallStep, LockStep, DecidedStep DEF IInv, TypeInv

(* The tables keep their types, rows in use name addresses, and whatever a *)
(* call has decided under the table lock still holds when it writes.       *)
THEOREM LockedDecisions == Spec => []IInv
  BY InitInv, InvStep, PTL DEF Spec

(* Every row and every call has its type.                                  *)
THEOREM AccountsTyped == Spec => []TypeOK
  <1>1. IInv => TypeOK
    BY DEF IInv, TypeInv
  <1> QED BY <1>1, LockedDecisions, PTL

-----------------------------------------------------------------------------
(* A locked change never takes the last active owner.                      *)
LEMMA OwnerStep ==
  ASSUME IInv, OwnerRemains, [Next]_vars
  PROVE  OwnerRemains'
  <1> USE DEF IInv
  <1> SUFFICES ASSUME SomeAccount'
               PROVE  \E e \in Email : ActiveOwner(e)'
    BY DEF OwnerRemains, SomeAccount
  <1>1. CASE account' = account
    BY <1>1 DEF OwnerRemains, ActiveOwner, SomeAccount
  <1>2. ASSUME NEW r \in Request, Update(r)
        PROVE  \E e \in Email : ActiveOwner(e)'
    <2> DEFINE e == request[r].ask.email
    <2>1. /\ UpdateAllowed(request[r]) /\ e \in Email
          /\ account[e].state \in {"active", "disabled"}
          /\ account'[e].state = IF request[r].ask.state = "kept" THEN account[e].state
                                 ELSE request[r].ask.state
          /\ account'[e].role = request[r].ask.role
          /\ request[r].ask.state \in {"kept", "active", "disabled"}
          /\ \A f \in Email \ {e} : account'[f] = account[f]
      BY <1>2, UpdateEffect
    <2>2. CASE \E f \in Email \ {e} : ActiveOwner(f)
      BY <2>1, <2>2 DEF ActiveOwner
    <2>3. CASE ~\E f \in Email \ {e} : ActiveOwner(f)
      <3>1. ActiveOwner(e)
        BY <2>1, <2>3 DEF OwnerRemains
      <3>2. request[r].ask.role = "owner" /\ request[r].ask.state # "disabled"
        BY <2>1, <2>3, <3>1 DEF UpdateAllowed, AnotherOwner, ActiveOwner
      <3> QED BY <2>1, <3>1, <3>2 DEF ActiveOwner
    <2> QED BY <2>2, <2>3
  <1>3. ASSUME NEW r \in Request, Archive(r)
        PROVE  \E e \in Email : ActiveOwner(e)'
    <2> DEFINE e == request[r].ask.email
    <2>1. /\ ArchiveAllowed(request[r]) /\ e \in Email
          /\ account[e].state \in {"active", "disabled"}
          /\ \A f \in Email \ {e} : account'[f] = account[f]
      BY <1>3, ArchiveEffect
    <2>2. \E f \in Email \ {e} : ActiveOwner(f)
      <3>1. PICK f \in Email : ActiveOwner(f)
        BY <2>1 DEF OwnerRemains
      <3>2. CASE f = e
        BY <2>1, <3>1, <3>2 DEF ArchiveAllowed, AnotherOwner, ActiveOwner
      <3> QED BY <3>1, <3>2
    <2> QED BY <2>1, <2>2 DEF ActiveOwner
  <1>4. ASSUME NEW r \in Request, Accept(r)
        PROVE  \E e \in Email : ActiveOwner(e)'
    <2> DEFINE i == request[r].ask.invitation
               e == invitation[i].email
    <2>1. /\ i \in Invitation /\ invitation[i].state = "pending"
          /\ e \in Email /\ account[e].state = "none"
          /\ \A f \in Email \ {e} : account'[f] = account[f]
      BY <1>4, AcceptEffect
    <2>2. SomeAccount
      BY <2>1 DEF TypeInv, RowInv
    <2>3. PICK f \in Email : ActiveOwner(f)
      BY <2>2 DEF SomeAccount, OwnerRemains
    <2>4. f # e
      BY <2>1, <2>3 DEF ActiveOwner
    <2> QED BY <2>1, <2>3, <2>4 DEF ActiveOwner
  <1>5. ASSUME NEW r \in Request, Bootstrap(r)
        PROVE  \E e \in Email : ActiveOwner(e)'
    BY <1>5, BootstrapEffect DEF ActiveOwner
  <1>6. ASSUME NEW r \in Request, UpdateLocale(r)
        PROVE  \E e \in Email : ActiveOwner(e)'
    <2>1. \A e \in Email : /\ account'[e].state = account[e].state
                           /\ account'[e].role = account[e].role
      BY <1>6, LocaleKeepsRoles
    <2>2. SomeAccount
      BY <2>1 DEF SomeAccount
    <2> QED BY <2>1, <2>2 DEF SomeAccount, OwnerRemains, ActiveOwner
  <1> QED BY <1>1, <1>2, <1>3, <1>4, <1>5, <1>6, AccountEffect

(* From the first account on there is an active owner, whatever any number *)
(* of owners and administrators do to each other at the same time.         *)
THEOREM LastOwnerStays == Spec => []OwnerRemains
  <1>1. Init => OwnerRemains
    BY BeginningAssumption DEF Init, OwnerRemains, ActiveOwner
  <1> QED BY <1>1, OwnerStep, LockedDecisions, PTL DEF Spec

-----------------------------------------------------------------------------
(* Who is counted as changed has no live session left.                     *)
LEMMA ChangeEffect ==
  ASSUME IInv, [Next]_vars, NEW e \in Email, changes'[e] # changes[e]
  PROVE  session' = RevokedOf(e)
  <1> USE DEF IInv, TypeInv, TypeOK
  <1>1. PICK r \in Request : Update(r) \/ Archive(r)
    BY DEF Next, vars, Start, Authenticate, Touch, Lock, Decide, Write, Issue, Accept,
           Bootstrap, IssueSession, EndSession, UpdateLocale, ReadInvitation,
           RevokeInvitation, RefusedAsTooYoung, Expire
  <1>2. CASE Update(r)
    BY <1>2 DEF Update, EndsSessions
  <1>3. CASE Archive(r)
    BY <1>3 DEF Archive
  <1> QED BY <1>1, <1>2, <1>3

LEMMA RevocationStep ==
  ASSUME IInv, RevocationComplete, [Next]_vars
  PROVE  RevocationComplete'
  <1> USE DEF IInv, TypeInv, TypeOK
  <1> SUFFICES ASSUME NEW s \in Session, session'[s].state = "live"
               PROVE  session'[s].since = changes'[session'[s].user]
    BY DEF RevocationComplete
  <1>1. CASE /\ session[s].state = "live"
             /\ session'[s].user = session[s].user
             /\ session'[s].since = session[s].since
    <2> DEFINE e == session[s].user
    <2>1. e \in Email /\ session[s].since = changes[e]
      BY <1>1 DEF RevocationComplete, RowInv
    <2>2. changes'[e] = changes[e]
      <3> SUFFICES ASSUME changes'[e] # changes[e]
                   PROVE  FALSE
        OBVIOUS
      <3>1. session' = RevokedOf(e)
        BY <2>1, ChangeEffect
      <3>2. session'[s].state = "revoked"
        BY <1>1, <3>1 DEF RevokedOf, SessionRow
      <3> QED BY <3>2
    <2> QED BY <1>1, <2>1, <2>2
  <1>2. CASE \E r \in Request :
               /\ IssueSession(r)
               /\ session'[s].user = request[r].ask.email
               /\ session'[s].since = changes[request[r].ask.email]
    BY <1>2 DEF IssueSession
  <1> QED BY <1>1, <1>2, SessionEffect

(* A change of role, a disabling and an archiving leave the account no     *)
(* session of before, whatever signs in or authenticates beside them.      *)
THEOREM ChangesEndSessions == Spec => []RevocationComplete
  <1>1. Init => RevocationComplete
    BY BeginningAssumption DEF Init, RevocationComplete
  <1> QED BY <1>1, RevocationStep, LockedDecisions, PTL DEF Spec

-----------------------------------------------------------------------------
(* Issuing leaves open what it adds and what is of another address.        *)
LEMMA IssueEffect ==
  ASSUME IInv, NEW r \in Request, Issue(r)
  PROVE  \E k \in Invitation :
           /\ invitation'[k].email = request[r].ask.email
           /\ \A i \in Invitation \ {k} :
                Open(i)' => /\ Open(i)
                            /\ invitation'[i].email = invitation[i].email
                            /\ invitation[i].email # request[r].ask.email
  <1> USE DEF IInv, TypeInv, TypeOK
  <1> DEFINE ask == request[r].ask
  <1>1. ask.email \in Email
    BY AskFields DEF Issue, CallInv, Acting
  <1>2. PICK k \in Invitation :
          invitation' = [Superseded(ask.email) EXCEPT ![k] =
            [UnusedInvitation EXCEPT !.state = "pending", !.email = ask.email,
                                     !.role = ask.role]]
    BY DEF Issue
  <1>3. Superseded(ask.email) \in [Invitation -> InvitationRow]
    BY <1>1, SupersededType
  <1>4. invitation'[k].email = ask.email
    BY <1>2, <1>3 DEF UnusedInvitation
  <1>5. ASSUME NEW i \in Invitation \ {k}, Open(i)'
        PROVE  /\ Open(i)
               /\ invitation'[i].email = invitation[i].email
               /\ invitation[i].email # ask.email
    <2>1. invitation'[i] = Superseded(ask.email)[i]
      BY <1>2, <1>3
    <2> QED BY <1>5, <2>1 DEF Superseded, Open, InvitationRow
  <1> QED BY <1>4, <1>5

LEMMA OpenStep ==
  ASSUME IInv, OneOpenInvitation, [Next]_vars
  PROVE  OneOpenInvitation'
  <1>1. ASSUME NEW r \in Request, Issue(r)
        PROVE  OneOpenInvitation'
    BY <1>1, IssueEffect DEF OneOpenInvitation
  <1>2. CASE ~\E r \in Request : Issue(r)
    <2>1. ASSUME NEW i \in Invitation, Open(i)'
          PROVE  Open(i) /\ invitation'[i].email = invitation[i].email
      <3>1. invitation[i].expired \in BOOLEAN /\ invitation'[i].expired \in BOOLEAN
        BY InvStep DEF IInv, TypeInv, TypeOK, InvitationRow
      <3> QED BY <1>2, <2>1, <3>1, InvitationEffect DEF IInv, Open
    <2> QED BY <2>1 DEF OneOpenInvitation
  <1> QED BY <1>1, <1>2

(* Two administrators who invite the same address leave one invitation     *)
(* that can still be accepted.                                             *)
THEOREM LastInvitationCounts == Spec => []OneOpenInvitation
  <1>1. Init => OneOpenInvitation
    BY DEF Init, OneOpenInvitation, Open, UnusedInvitation
  <1> QED BY <1>1, OpenStep, LockedDecisions, PTL DEF Spec

-----------------------------------------------------------------------------
(* Only an acceptance creates an invited account, and consumes its         *)
(* invitation with it.                                                     *)
LEMMA InvitedEffect ==
  ASSUME IInv, [Next]_vars, NEW e \in Email, account'[e].invited, ~account[e].invited
  PROVE  /\ account[e].state = "none"
         /\ \E i \in Invitation :
              /\ invitation[i].email = e
              /\ invitation' = [invitation EXCEPT ![i].state = "accepted"]
  <1> USE DEF IInv
  <1>1. account[e].state = "none" /\ account'[e] # account[e]
    BY AccountsStay
  <1>2. ASSUME NEW r \in Request, Update(r) \/ Archive(r) \/ Bootstrap(r) \/ UpdateLocale(r)
        PROVE  FALSE
    BY <1>1, <1>2, UpdateEffect, ArchiveEffect, BootstrapEffect, LocaleKeepsRoles
  <1>3. ASSUME NEW r \in Request, Accept(r)
        PROVE  \E i \in Invitation :
                 /\ invitation[i].email = e
                 /\ invitation' = [invitation EXCEPT ![i].state = "accepted"]
    BY <1>1, <1>3, AcceptEffect DEF Accept
  <1> QED BY <1>1, <1>2, <1>3, AccountEffect

(* An invitation is accepted once, with the account of its address.        *)
LEMMA AcceptedEffect ==
  ASSUME IInv, [Next]_vars, NEW i \in Invitation, invitation'[i].state = "accepted"
  PROVE  /\ invitation'[i].email = invitation[i].email
         /\ invitation[i].email \in Email
         /\ \/ invitation[i].state = "accepted"
            \/ /\ account[invitation[i].email].state = "none"
               /\ account'[invitation[i].email].invited
  <1> USE DEF IInv
  <1>1. CASE /\ invitation[i].state = "accepted"
             /\ invitation'[i].email = invitation[i].email
    BY <1>1 DEF TypeInv, RowInv
  <1>2. ASSUME NEW r \in Request, Accept(r), i = request[r].ask.invitation,
               invitation'[i].email = invitation[i].email
        PROVE  /\ invitation[i].email \in Email
               /\ account[invitation[i].email].state = "none"
               /\ account'[invitation[i].email].invited
    BY <1>2, AcceptEffect
  <1> QED BY <1>1, <1>2, InvitationEffect

LEMMA AcceptedStep ==
  ASSUME IInv, AcceptedOnce, [Next]_vars
  PROVE  AcceptedOnce'
  <1> USE DEF IInv
  <1>1. ASSUME NEW i \in Invitation, invitation'[i].state = "accepted"
        PROVE  account'[invitation'[i].email].invited
    <2> DEFINE e == invitation[i].email
    <2>1. CASE invitation[i].state = "accepted"
      <3>1. e \in Email /\ account[e].invited /\ invitation'[i].email = e
        BY <1>1, <2>1, AcceptedEffect DEF AcceptedOnce
      <3>2. account[e].state # "none"
        BY <3>1 DEF TypeInv, RowInv
      <3> QED BY <3>1, <3>2, AccountsStay
    <2>2. CASE invitation[i].state # "accepted"
      BY <1>1, <2>2, AcceptedEffect
    <2> QED BY <2>1, <2>2
  <1>2. ASSUME NEW e \in Email, account'[e].invited
        PROVE  \E i \in Invitation :
                 /\ invitation'[i].state = "accepted" /\ invitation'[i].email = e
                 /\ \A j \in Invitation \ {i} :
                      ~(invitation'[j].state = "accepted" /\ invitation'[j].email = e)
    <2>1. CASE account[e].invited
      <3>1. PICK i \in Invitation :
              /\ invitation[i].state = "accepted" /\ invitation[i].email = e
              /\ \A j \in Invitation \ {i} :
                   ~(invitation[j].state = "accepted" /\ invitation[j].email = e)
        BY <2>1 DEF AcceptedOnce
      <3>2. invitation'[i].state = "accepted" /\ invitation'[i].email = e
        BY <3>1, InvitationEffect
      <3>3. account[e].state # "none"
        BY <2>1 DEF TypeInv, RowInv
      <3>4. \A j \in Invitation \ {i} :
              ~(invitation'[j].state = "accepted" /\ invitation'[j].email = e)
        BY <3>1, <3>3, AcceptedEffect
      <3> QED BY <3>2, <3>4
    <2>2. CASE ~account[e].invited
      <3>1. PICK i \in Invitation :
              /\ invitation[i].email = e
              /\ invitation' = [invitation EXCEPT ![i].state = "accepted"]
        BY <1>2, <2>2, InvitedEffect
      <3>2. invitation'[i].state = "accepted" /\ invitation'[i].email = e
        BY <3>1 DEF TypeInv, TypeOK, InvitationRow
      <3>3. \A j \in Invitation \ {i} :
              ~(invitation'[j].state = "accepted" /\ invitation'[j].email = e)
        <4> SUFFICES ASSUME NEW j \in Invitation \ {i}, invitation'[j].state = "accepted",
                            invitation'[j].email = e
                     PROVE  FALSE
          OBVIOUS
        <4>1. invitation[j].state = "accepted" /\ invitation[j].email = e
          BY <3>1 DEF TypeInv, TypeOK
        <4> QED BY <2>2, <4>1 DEF AcceptedOnce
      <3> QED BY <3>2, <3>3
    <2> QED BY <2>1, <2>2
  <1> QED BY <1>1, <1>2 DEF AcceptedOnce

(* However many accept an invitation, or revoke it meanwhile, it makes one *)
(* account, and no account is made by two.                                 *)
THEOREM AcceptedExactlyOnce == Spec => []AcceptedOnce
  <1>1. Init => AcceptedOnce
    BY BeginningAssumption DEF Init, AcceptedOnce, UnusedInvitation
  <1> QED BY <1>1, AcceptedStep, LockedDecisions, PTL DEF Spec

(* No change of an account is overwritten by an administrator who had not  *)
(* seen it.                                                                *)
THEOREM ChangesAreSeen == Spec => NoLostChange
  <1> DEFINE Seen ==
        \A e \in Email :
          (account[e].state # "none"
             /\ <<account[e].role, account[e].state>> # <<account'[e].role, account'[e].state>>) =>
          \E r \in Request :
            /\ request[r].phase = "decided"
            /\ request[r].ask.op \in {"update", "archive"}
            /\ request[r].ask.email = e
            /\ request[r].expected = account[e].version
  <1>1. ASSUME IInv, [Next]_vars
        PROVE  [Seen]_vars
    <2> USE <1>1 DEF IInv
    <2> SUFFICES ASSUME NEW e \in Email, account[e].state # "none",
                        <<account[e].role, account[e].state>>
                          # <<account'[e].role, account'[e].state>>
                 PROVE  \E r \in Request :
                          /\ request[r].phase = "decided"
                          /\ request[r].ask.op \in {"update", "archive"}
                          /\ request[r].ask.email = e
                          /\ request[r].expected = account[e].version
      OBVIOUS
    <2>1. \/ account'[e].role # account[e].role
          \/ account'[e].state # account[e].state
      OBVIOUS
    <2>2. ASSUME NEW r \in Request, Update(r)
          PROVE  /\ request[r].phase = "decided"
                 /\ request[r].ask.op \in {"update", "archive"}
                 /\ request[r].ask.email = e
                 /\ request[r].expected = account[e].version
      <3>1. request[r].ask.email = e /\ UpdateAllowed(request[r])
        BY <2>1, <2>2, UpdateEffect
      <3> QED BY <2>2, <3>1 DEF Update, UpdateAllowed
    <2>3. ASSUME NEW r \in Request, Archive(r)
          PROVE  /\ request[r].phase = "decided"
                 /\ request[r].ask.op \in {"update", "archive"}
                 /\ request[r].ask.email = e
                 /\ request[r].expected = account[e].version
      <3>1. request[r].ask.email = e /\ ArchiveAllowed(request[r])
        BY <2>1, <2>3, ArchiveEffect
      <3> QED BY <2>3, <3>1 DEF Archive, ArchiveAllowed
    <2>4. ASSUME NEW r \in Request, Accept(r)
          PROVE  FALSE
      BY <2>1, <2>4, AcceptEffect
    <2>5. ASSUME NEW r \in Request, Bootstrap(r)
          PROVE  FALSE
      BY <2>1, <2>5, BootstrapEffect
    <2>6. ASSUME NEW r \in Request, UpdateLocale(r)
          PROVE  FALSE
      BY <2>1, <2>6, LocaleKeepsRoles
    <2>7. CASE account' = account
      BY <2>1, <2>7
    <2> QED BY <2>2, <2>3, <2>4, <2>5, <2>6, <2>7, AccountEffect
  <1> QED BY <1>1, LockedDecisions, PTL DEF Spec, NoLostChange
=============================================================================
