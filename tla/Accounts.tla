------------------------------ MODULE Accounts ------------------------------
(***************************************************************************)
(* Accounts, invitations and sessions of one installation:                 *)
(* auth/session-service.ts, auth/administration-service.ts and             *)
(* auth/first-owner-bootstrap.ts.                                          *)
(*                                                                         *)
(* An account is identified with its unique normalized e-mail address.     *)
(* A request is one call of a service method: it authenticates its session *)
(* (outside any transaction), and an administrative one then runs a        *)
(* transaction under `lock table users in share row exclusive mode`, which *)
(* holds off every other writer of the table but no writer of sessions.    *)
(* Passwords and tokens are taken to be right; time only passes for what   *)
(* can expire, in any order.                                               *)
(***************************************************************************)
EXTENDS Naturals, FiniteSets

CONSTANTS
  Email,          \* normalized addresses, each an account that may exist
  Session,        \* ids of session rows
  Invitation,     \* ids of invitation rows
  Request,        \* calls, each made once
  Ask,            \* what a call may ask for
  FirstAccounts,  \* tables of accounts an execution may begin with
  FirstSessions,  \* and the sessions table that goes with each
  NoEmail, NoSession, NoRequest

ASSUME NullAssumption ==
  /\ NoEmail \notin Email
  /\ NoSession \notin Session
  /\ NoRequest \notin Request

VARIABLES
  account,     \* account[e]: the users row of address e
  session,     \* session[s]: the sessions row s
  invitation,  \* invitation[i]: the invitations row i
  request,     \* request[r]: where call r stands
  lock,        \* the request that holds the users table, or NoRequest
  changes      \* history: role changes, disablings and archivings of e

vars == <<account, session, invitation, request, lock, changes>>

Role == {"viewer", "editor", "admin", "owner"}

Locale == {"en", "uk"}

(* An archived row is also disabled.                                       *)
Account == [state : {"none", "active", "disabled", "archived"}, role : Role,
            version : Nat, locale : Locale, invited : BOOLEAN]

(* `since` is a history variable: changes[user] when the row was committed. *)
SessionRow == [state : {"unused", "live", "revoked"}, user : Email \cup {NoEmail},
               expired : BOOLEAN, since : Nat]

InvitationRow == [state : {"unused", "pending", "accepted", "revoked"},
                  email : Email \cup {NoEmail}, role : Role, expired : BOOLEAN]

SignIns     == [op : {"signIn"}, email : Email]
Bootstraps  == [op : {"bootstrap"}, email : Email]
Acceptances == [op : {"accept"}, invitation : Invitation]
Updates     == [op : {"update"}, by : Session, email : Email, role : Role,
                state : {"kept", "active", "disabled"}, confirmed : BOOLEAN]
Archivings  == [op : {"archive"}, by : Session, email : Email, confirmed : BOOLEAN]
Issues      == [op : {"issue"}, by : Session, email : Email, role : Role]
Revocations == [op : {"revokeInvitation"}, by : Session, invitation : Invitation]
Endings     == [op : {"endSession"}, by : Session, session : Session]
Locales     == [op : {"locale"}, by : Session, locale : Locale]

ASSUME AskAssumption ==
  Ask \subseteq SignIns \cup Bootstraps \cup Acceptances \cup Updates \cup Archivings
                  \cup Issues \cup Revocations \cup Endings \cup Locales

NoAsk == [op |-> "none"]

(* `expected` is the version the client last read.  A call reads its `now` *)
(* before its transaction: `fresh` is whether the invitation it accepts was *)
(* unexpired then, `young` are the rows it is to revoke that were committed *)
(* since, and may have been created later than that.                       *)
Call == [phase : {"new", "authenticated", "ready", "locked", "decided", "done"},
         ask : Ask \cup {NoAsk}, actor : Email \cup {NoEmail}, role : Role,
         locale : Locale, expected : Nat, fresh : BOOLEAN,
         young : SUBSET (Session \cup Invitation)]

NewCall == [phase |-> "new", ask |-> NoAsk, actor |-> NoEmail, role |-> "viewer",
            locale |-> "en", expected |-> 0, fresh |-> FALSE, young |-> {}]

NoAccount == [state |-> "none", role |-> "viewer", version |-> 0,
              locale |-> "en", invited |-> FALSE]

UnusedSession == [state |-> "unused", user |-> NoEmail, expired |-> FALSE, since |-> 0]

UnusedInvitation ==
  [state |-> "unused", email |-> NoEmail, role |-> "viewer", expired |-> FALSE]

TypeOK ==
  /\ account \in [Email -> Account]
  /\ session \in [Session -> SessionRow]
  /\ invitation \in [Invitation -> InvitationRow]
  /\ request \in [Request -> Call]
  /\ lock \in Request \cup {NoRequest}
  /\ changes \in [Email -> Nat]

ActiveOwner(e) == account[e].state = "active" /\ account[e].role = "owner"

(* An installation has an active owner from its first account on, and the  *)
(* accounts of before are not those of the invitations modelled.           *)
ASSUME BeginningAssumption ==
  \A first \in FirstAccounts :
    /\ first \in [Email -> Account]
    /\ \A e \in Email :
         /\ ~first[e].invited
         /\ first[e].state # "none" =>
              \E f \in Email : first[f].state = "active" /\ first[f].role = "owner"
    /\ FirstSessions[first] \in [Session -> SessionRow]
    /\ \A s \in Session :
         FirstSessions[first][s].state = "live" =>
           FirstSessions[first][s].user \in Email /\ FirstSessions[first][s].since = 0

Init ==
  /\ account \in FirstAccounts
  /\ session = FirstSessions[account]
  /\ invitation = [i \in Invitation |-> UnusedInvitation]
  /\ request = [r \in Request |-> NewCall]
  /\ lock = NoRequest
  /\ changes = [e \in Email |-> 0]

-----------------------------------------------------------------------------
(* Authorization, with the default grants of the admin role.               *)
CanManageUsers(role) == role \in {"owner", "admin"}

CanManageRole(actor, target) ==
  actor = "owner" \/ (actor = "admin" /\ target # "owner")

Usable(s) ==
  /\ session[s].state = "live"
  /\ ~session[s].expired
  /\ account[session[s].user].state = "active"

Open(i) == invitation[i].state = "pending" /\ ~invitation[i].expired

Goto(r, phase) == request' = [request EXCEPT ![r].phase = phase]

(* The call ends; a transaction it had open is rolled back or committed.   *)
Ends(r) ==
  /\ Goto(r, "done")
  /\ lock' = IF lock = r THEN NoRequest ELSE lock

(* The call ends with `row` committed, of address e: the other calls that  *)
(* are to revoke the rows of e may have read an earlier `now`.             *)
Commits(r, row, e, revokers) ==
  /\ request' = [q \in Request |->
       IF q = r THEN [request[q] EXCEPT !.phase = "done"]
       ELSE IF /\ request[q].phase \in {"ready", "locked", "decided"}
               /\ request[q].ask.op \in revokers /\ request[q].ask.email = e
            THEN [request[q] EXCEPT !.young = @ \cup {row}] ELSE request[q]]
  /\ lock' = IF lock = r THEN NoRequest ELSE lock

(* Writers of users wait for whoever locked the table.                     *)
UsersUnlocked == lock = NoRequest

(* issueInvitation and acceptInvitation lock invitations as well.          *)
InvitationsUnlocked ==
  lock # NoRequest => request[lock].ask.op \notin {"issue", "accept"}

-----------------------------------------------------------------------------
(* The calls that carry no session: signIn reads the account, and its      *)
(* password check follows; acceptInvitation and the bootstrap hash a       *)
(* password before they read anything.                                     *)
Start(r, ask) ==
  /\ request[r].phase = "new"
  /\ \/ /\ ask.op = "signIn"
        /\ account[ask.email].state = "active"
        /\ request' = [request EXCEPT ![r] = [NewCall EXCEPT !.ask = ask, !.phase = "ready"]]
     \/ /\ ask.op = "bootstrap"
        /\ request' = [request EXCEPT ![r] = [NewCall EXCEPT !.ask = ask, !.phase = "ready"]]
     \/ /\ ask.op = "accept"
        /\ request' = [request EXCEPT ![r] =
             [NewCall EXCEPT !.ask = ask, !.phase = "ready", !.fresh = Open(ask.invitation)]]
  /\ UNCHANGED <<account, session, invitation, lock, changes>>

ExpectedBy(ask) ==
  IF ask.op \in {"update", "archive"} THEN account[ask.email].version ELSE 0

(* SessionService.authenticate reads the session with its user; one that   *)
(* cannot be used is revoked.                                              *)
Authenticate(r, ask) ==
  /\ request[r].phase = "new"
  /\ ask.op \notin {"signIn", "bootstrap", "accept"}
  /\ session[ask.by].state # "unused"
  /\ IF Usable(ask.by)
     THEN /\ request' = [request EXCEPT ![r] =
               [NewCall EXCEPT !.ask = ask, !.phase = "authenticated",
                               !.actor = session[ask.by].user,
                               !.role = account[session[ask.by].user].role,
                               !.locale = account[session[ask.by].user].locale,
                               !.expected = ExpectedBy(ask)]]
          /\ UNCHANGED session
     ELSE /\ session' = [session EXCEPT ![ask.by].state = "revoked"]
          /\ Goto(r, "done")
  /\ UNCHANGED <<account, invitation, lock, changes>>

Permitted(ask, role) ==
  /\ ask.op \in {"update", "archive", "issue", "revokeInvitation"} => CanManageUsers(role)
  /\ ask.op = "issue" => CanManageRole(role, ask.role)

(* The guarded touch of the session, and the checks that need no row: the  *)
(* role is the one authenticate read.                                      *)
Touch(r) ==
  LET c == request[r]
      s == c.ask.by
  IN
  /\ c.phase = "authenticated"
  /\ Goto(r, IF session[s].state = "live" /\ ~session[s].expired /\ Permitted(c.ask, c.role)
             THEN "ready" ELSE "done")
  /\ UNCHANGED <<account, session, invitation, lock, changes>>

-----------------------------------------------------------------------------
(* Seeded fault: the lock is asked for in a mode that excludes nobody.     *)
LockShared(r) ==
  /\ request[r].phase = "ready"
  /\ request[r].ask.op \in {"update", "archive", "issue", "accept", "bootstrap"}
  /\ lock' = r
  /\ Goto(r, "locked")
  /\ UNCHANGED <<account, session, invitation, changes>>

(* `lock table users (, invitations) in share row exclusive mode`.         *)
Lock(r) ==
  /\ request[r].phase = "ready"
  /\ request[r].ask.op \in {"update", "archive", "issue", "accept", "bootstrap"}
  /\ UsersUnlocked
  /\ lock' = r
  /\ Goto(r, "locked")
  /\ UNCHANGED <<account, session, invitation, changes>>

(* requireAnotherOwner.                                                    *)
AnotherOwner(e) == \E f \in Email \ {e} : ActiveOwner(f)

(* The checks of updateUser on the row it read.                            *)
UpdateAllowed(c) ==
  LET row     == account[c.ask.email]
      affects == row.role = "owner" /\ (c.ask.role # "owner" \/ c.ask.state = "disabled")
  IN
  /\ row.state \in {"active", "disabled"}
  /\ row.version = c.expected
  /\ CanManageRole(c.role, row.role)
  /\ CanManageRole(c.role, c.ask.role)
  /\ affects => /\ c.role = "owner" /\ c.ask.confirmed
                /\ AnotherOwner(c.ask.email)

(* The checks of archiveUser.                                              *)
ArchiveAllowed(c) ==
  LET row == account[c.ask.email] IN
  /\ row.state \in {"active", "disabled"}
  /\ row.version = c.expected
  /\ CanManageRole(c.role, row.role)
  /\ row.role = "owner" => /\ c.role = "owner" /\ c.ask.confirmed
                           /\ AnotherOwner(c.ask.email)

(* The checks of acceptInvitation; its `now` is older than its reads.      *)
AcceptAllowed(c) ==
  LET row == invitation[c.ask.invitation] IN
  /\ row.state = "pending" /\ c.fresh
  /\ account[row.email].state = "none"

Allowed(c) ==
  CASE c.ask.op = "update"    -> UpdateAllowed(c)
    [] c.ask.op = "archive"   -> ArchiveAllowed(c)
    [] c.ask.op = "issue"     -> account[c.ask.email].state = "none"
    [] c.ask.op = "accept"    -> AcceptAllowed(c)
    [] c.ask.op = "bootstrap" -> \A e \in Email : account[e].state = "none"

(* The reads of a locked transaction; a refusal rolls it back.             *)
Decide(r) ==
  /\ request[r].phase = "locked"
  /\ IF Allowed(request[r]) THEN Goto(r, "decided") /\ UNCHANGED lock ELSE Ends(r)
  /\ UNCHANGED <<account, session, invitation, changes>>

-----------------------------------------------------------------------------
(* Seeded fault: only a change of role ends the account's sessions.        *)
EndsSessionsOnRoleOnly(row, ask) == ask.role # row.role

EndsSessions(row, ask) == ask.state = "disabled" \/ ask.role # row.role

RevokedOf(e) ==
  [s \in Session |-> IF session[s].state = "live" /\ session[s].user = e
                     THEN [session[s] EXCEPT !.state = "revoked"] ELSE session[s]]

(* updateUser writes, ends the sessions and commits.  A status left out is *)
(* kept, and a role left out is the one of the version the call names.     *)
Update(r) ==
  LET ask == request[r].ask
      row == account[ask.email]
  IN
  /\ request[r].phase = "decided" /\ ask.op = "update"
  /\ account' = [account EXCEPT ![ask.email].role = ask.role, ![ask.email].version = @ + 1,
                                ![ask.email].state =
                                  IF ask.state = "kept" THEN @ ELSE ask.state]
  /\ session' = IF EndsSessions(row, ask) THEN RevokedOf(ask.email) ELSE session
  /\ changes' = IF ask.state = "disabled" \/ ask.role # row.role
                THEN [changes EXCEPT ![ask.email] = @ + 1] ELSE changes
  /\ Ends(r)
  /\ UNCHANGED invitation

(* archiveUser writes, ends the sessions and commits.                      *)
Archive(r) ==
  LET ask == request[r].ask IN
  /\ request[r].phase = "decided" /\ ask.op = "archive"
  /\ account' = [account EXCEPT ![ask.email].state = "archived", ![ask.email].version = @ + 1]
  /\ session' = RevokedOf(ask.email)
  /\ changes' = [changes EXCEPT ![ask.email] = @ + 1]
  /\ Ends(r)
  /\ UNCHANGED invitation

(* Seeded fault: an earlier invitation of the address is left open.        *)
SupersededNone(e) == invitation

(* issueInvitation revokes what is still open for the address.  Whether an *)
(* invitation has expired is judged by a `now` from before the lock, so    *)
(* one that has just expired may be revoked too, which nothing tells apart. *)
Superseded(e) ==
  [i \in Invitation |-> IF Open(i) /\ invitation[i].email = e
                        THEN [invitation[i] EXCEPT !.state = "revoked"] ELSE invitation[i]]

Issue(r) ==
  LET ask == request[r].ask IN
  /\ request[r].phase = "decided" /\ ask.op = "issue"
  /\ \E i \in Invitation :
       /\ invitation[i].state = "unused"
       /\ invitation' = [Superseded(ask.email) EXCEPT ![i] =
            [UnusedInvitation EXCEPT !.state = "pending", !.email = ask.email, !.role = ask.role]]
       /\ Commits(r, i, ask.email, {"issue"})
  /\ UNCHANGED <<account, session, changes>>

(* What is revoked carries the call's `now`, and the tables refuse rows    *)
(* revoked before they were created (sessions_revoked_at_check and         *)
(* invitations_revoked_at_check): the transaction fails with all it wrote. *)
RefusedAsTooYoung(r) ==
  LET c == request[r] IN
  /\ c.phase = "decided"
  /\ \/ /\ \/ c.ask.op = "archive"
           \/ c.ask.op = "update" /\ EndsSessions(account[c.ask.email], c.ask)
        /\ \E s \in c.young \cap Session : session[s].state = "live"
     \/ /\ c.ask.op = "issue"
        /\ \E i \in c.young \cap Invitation : invitation[i].state = "pending"
  /\ Ends(r)
  /\ UNCHANGED <<account, session, invitation, changes>>

Created(role, invited) ==
  [state |-> "active", role |-> role, version |-> 1,
   locale |-> "en", invited |-> invited]

(* acceptInvitation creates the account and consumes the invitation.       *)
Accept(r) ==
  LET i == request[r].ask.invitation IN
  /\ request[r].phase = "decided" /\ request[r].ask.op = "accept"
  /\ account' = [account EXCEPT ![invitation[i].email] = Created(invitation[i].role, TRUE)]
  /\ invitation' = [invitation EXCEPT ![i].state = "accepted"]
  /\ Ends(r)
  /\ UNCHANGED <<session, changes>>

(* bootstrapFirstOwner.                                                    *)
Bootstrap(r) ==
  LET e == request[r].ask.email IN
  /\ request[r].phase = "decided" /\ request[r].ask.op = "bootstrap"
  /\ account' = [account EXCEPT ![e] = Created("owner", FALSE)]
  /\ Ends(r)
  /\ UNCHANGED <<session, invitation, changes>>

-----------------------------------------------------------------------------
(* signIn's transaction inserts the session and then updates the account:  *)
(* the update waits for a lock on users, and the account is not looked at  *)
(* again.                                                                  *)
IssueSession(r) ==
  LET e == request[r].ask.email IN
  /\ request[r].phase = "ready" /\ request[r].ask.op = "signIn"
  /\ UsersUnlocked
  /\ \E s \in Session :
       /\ session[s].state = "unused"
       /\ session' = [session EXCEPT ![s] =
            [UnusedSession EXCEPT !.state = "live", !.user = e, !.since = changes[e]]]
       /\ Commits(r, s, e, {"update", "archive"})
  /\ UNCHANGED <<account, invitation, changes>>

(* revokeCurrent and revokeOwned.                                          *)
EndSession(r) ==
  LET c == request[r] IN
  /\ c.phase = "ready" /\ c.ask.op = "endSession"
  /\ IF session[c.ask.session].state = "live" /\ session[c.ask.session].user = c.actor
     THEN session' = [session EXCEPT ![c.ask.session].state = "revoked"]
     ELSE UNCHANGED session
  /\ Goto(r, "done")
  /\ UNCHANGED <<account, invitation, lock, changes>>

(* updateLocale: nothing to do, or an update from the language read.  The  *)
(* version it bumps is the one administrators name.                        *)
UpdateLocale(r) ==
  LET c == request[r]
      e == c.actor
  IN
  /\ c.phase = "ready" /\ c.ask.op = "locale"
  /\ UsersUnlocked
  /\ account' = IF c.locale # c.ask.locale /\ account[e].state = "active"
                    /\ account[e].locale = c.locale
                THEN [account EXCEPT ![e].locale = c.ask.locale, ![e].version = @ + 1]
                ELSE account
  /\ Goto(r, "done")
  /\ UNCHANGED <<session, invitation, lock, changes>>

(* revokeInvitation takes no lock: it reads and checks the invitation ...  *)
ReadInvitation(r) ==
  LET c == request[r]
      i == c.ask.invitation
  IN
  /\ c.phase = "ready" /\ c.ask.op = "revokeInvitation"
  /\ Goto(r, IF invitation[i].state = "pending" /\ CanManageRole(c.role, invitation[i].role)
             THEN "decided" ELSE "done")
  /\ UNCHANGED <<account, session, invitation, lock, changes>>

(* Seeded fault: the update trusts the read.                               *)
RevokeInvitationUnguarded(r) ==
  LET i == request[r].ask.invitation IN
  /\ request[r].phase = "decided" /\ request[r].ask.op = "revokeInvitation"
  /\ InvitationsUnlocked
  /\ invitation' = [invitation EXCEPT ![i].state = "revoked"]
  /\ Goto(r, "done")
  /\ UNCHANGED <<account, session, lock, changes>>

(* ... and its update only takes an invitation that is still pending.      *)
RevokeInvitation(r) ==
  LET i == request[r].ask.invitation IN
  /\ request[r].phase = "decided" /\ request[r].ask.op = "revokeInvitation"
  /\ InvitationsUnlocked
  /\ invitation' = IF invitation[i].state = "pending"
                   THEN [invitation EXCEPT ![i].state = "revoked"] ELSE invitation
  /\ Goto(r, "done")
  /\ UNCHANGED <<account, session, lock, changes>>

(* Time passes: a session or an invitation expires.                        *)
Expire ==
  /\ \/ \E s \in Session :
          /\ session[s].state = "live" /\ ~session[s].expired
          /\ session' = [session EXCEPT ![s].expired = TRUE]
          /\ UNCHANGED invitation
     \/ \E i \in Invitation :
          /\ Open(i)
          /\ invitation' = [invitation EXCEPT ![i].expired = TRUE]
          /\ UNCHANGED session
  /\ UNCHANGED <<account, request, lock, changes>>

Write(r) ==
  \/ Update(r) \/ Archive(r) \/ Issue(r) \/ Accept(r) \/ Bootstrap(r)

Next ==
  \/ \E r \in Request :
       \/ \E ask \in Ask : Start(r, ask) \/ Authenticate(r, ask)
       \/ Touch(r)
       \/ Lock(r)
       \/ Decide(r)
       \/ Write(r)
       \/ RefusedAsTooYoung(r)
       \/ IssueSession(r)
       \/ EndSession(r)
       \/ UpdateLocale(r)
       \/ ReadInvitation(r)
       \/ RevokeInvitation(r)
  \/ Expire

Spec == Init /\ [][Next]_vars

-----------------------------------------------------------------------------
(* From the first account on there is an active owner, whatever owners do  *)
(* to each other at the same time: "The last active Owner cannot be        *)
(* removed or demoted" (requireAnotherOwner).                              *)
OwnerRemains ==
  (\E e \in Email : account[e].state # "none") => \E e \in Email : ActiveOwner(e)

(* At most one invitation of an address can still be accepted: issuing     *)
(* another one revokes the earlier one, also when two are issued at once.  *)
OneOpenInvitation ==
  \A i, j \in Invitation :
    (Open(i) /\ Open(j) /\ invitation[i].email = invitation[j].email) => i = j

(* One acceptance made each invited account and each acceptance made one:  *)
(* an invitation accepted twice, or revoked beside its acceptance, would   *)
(* leave an account and its invitation at odds.                            *)
AcceptedOnce ==
  /\ \A i \in Invitation :
       invitation[i].state = "accepted" => account[invitation[i].email].invited
  /\ \A e \in Email :
       account[e].invited =>
         \E i \in Invitation :
           /\ invitation[i].state = "accepted" /\ invitation[i].email = e
           /\ \A j \in Invitation \ {i} :
                ~(invitation[j].state = "accepted" /\ invitation[j].email = e)

(* A change of role, a disabling and an archiving end every session the    *)
(* account had: a live session was committed after the last of them, also  *)
(* when the account has been enabled again since.                          *)
RevocationComplete ==
  \A s \in Session : session[s].state = "live" => session[s].since = changes[session[s].user]

(* An account changes hands only from the version the administrator saw:   *)
(* no change between that read and the write is overwritten.               *)
NoLostChange ==
  [][\A e \in Email :
       (account[e].state # "none"
          /\ <<account[e].role, account[e].state>> # <<account'[e].role, account'[e].state>>) =>
       \E r \in Request :
         /\ request[r].phase = "decided"
         /\ request[r].ask.op \in {"update", "archive"}
         /\ request[r].ask.email = e
         /\ request[r].expected = account[e].version]_vars
=============================================================================
