---------------------------- MODULE MCAccounts ----------------------------
(* A small instance of Accounts for TLC.                                   *)
EXTENDS Accounts, TLC

CONSTANTS e1, e2, e3, s1, s2, s3, i1, i2, r1, r2, r3

Owner  == Created("owner", FALSE)
Admin  == Created("admin", FALSE)
Live(e) == [UnusedSession EXCEPT !.state = "live", !.user = e]

(* Nobody yet, two owners, or an owner and an admin.                       *)
Nobody    == [e \in Email |-> NoAccount]
TwoOwners == [Nobody EXCEPT ![e1] = Owner, ![e2] = Owner]
WithAdmin == [Nobody EXCEPT ![e1] = Owner, ![e2] = Admin]

Tables == {Nobody, TwoOwners, WithAdmin}

NoSessions  == [s \in Session |-> UnusedSession]
OneEach     == [NoSessions EXCEPT ![s1] = Live(e1), ![s2] = Live(e2)]
SessionsOf  == [a \in Tables |-> IF a = Nobody THEN NoSessions ELSE OneEach]

Asks ==
  {[op |-> "signIn", email |-> e] : e \in {e1, e2}}
  \cup {[op |-> "bootstrap", email |-> e] : e \in {e1, e2}}
  \cup {[op |-> "accept", invitation |-> i] : i \in Invitation}
  \cup {[op |-> "update", by |-> s1, email |-> e2, role |-> "editor", state |-> "active",
         confirmed |-> TRUE],
        [op |-> "update", by |-> s2, email |-> e1, role |-> "owner", state |-> "disabled",
         confirmed |-> TRUE],
        [op |-> "update", by |-> s2, email |-> e1, role |-> "owner", state |-> "active",
         confirmed |-> TRUE],
        [op |-> "update", by |-> s2, email |-> e1, role |-> "editor", state |-> "kept",
         confirmed |-> TRUE],
        [op |-> "update", by |-> s2, email |-> e2, role |-> "owner", state |-> "active",
         confirmed |-> FALSE],
        [op |-> "archive", by |-> s1, email |-> e1, confirmed |-> TRUE],
        [op |-> "archive", by |-> s2, email |-> e1, confirmed |-> TRUE]}
  \cup {[op |-> "issue", by |-> s, email |-> e3, role |-> "owner"] : s \in {s1, s2}}
  \cup {[op |-> "revokeInvitation", by |-> s1, invitation |-> i] : i \in Invitation}
  \cup {[op |-> "endSession", by |-> s1, session |-> s] : s \in {s1, s3}}
  \cup {[op |-> "locale", by |-> s2, locale |-> "uk"]}

(* Calls and invitation ids are interchangeable.                           *)
Symmetry == Permutations(Request) \cup Permutations(Invitation)
=============================================================================
