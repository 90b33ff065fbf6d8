SPECIFICATION UnionSpec
CONSTANTS
  Users = {u1, u2}
  Emails = {e1}
  Rooms = {r1, r2}
  Tokens = {t1}
  Invites = {i1}
  Handlers = {h1, h2}
  None = None
  Skips = {TRUE, FALSE}
  Requests = {h1, h2}
  SessionTokens = {s1, s2}
  FirstToken = s1
  Pictures = {p1}
  Guests = {g1}
  Me = me
  MaxPasswords = 2
  MaxRequests = 3
  NoUser = NoUser
  NoWork = NoWork
  NoToken = NoToken
SYMMETRY UnionSymmetry
CHECK_DEADLOCK FALSE
INVARIANTS
  ServiceTypeOK RoomIsOwned ModsWereInvited OldTokensEnd NothingLeft
PROPERTIES
  OwnershipIsKept SessionsStayEnded
