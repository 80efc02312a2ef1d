\* Three calls over three addresses: two administrators, and a sign-in, an
\* acceptance or a third change between them.
CONSTANTS
  e1 = e1
  e2 = e2
  e3 = e3
  s1 = s1
  s2 = s2
  s3 = s3
  i1 = i1
  i2 = i2
  r1 = r1
  r2 = r2
  r3 = r3
  Email = {e1, e2, e3}
  Session = {s1, s2, s3}
  Invitation = {i1, i2}
  Request = {r1, r2, r3}
  Ask <- Asks
  FirstAccounts <- Tables
  FirstSessions <- SessionsOf
  NoEmail = NoEmail
  NoSession = NoSession
  NoRequest = NoRequest
SPECIFICATION Spec
SYMMETRY Symmetry
INVARIANTS
  OwnerRemains
  OneOpenInvitation
  AcceptedOnce
  RevocationComplete
PROPERTY NoLostChange
\* Every call is answered once.
CHECK_DEADLOCK FALSE
