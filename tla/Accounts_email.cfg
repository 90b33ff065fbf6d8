SPECIFICATION Spec
CONSTANTS
  Users = {u1, u2}
  Emails = {e1}
  Rooms = {r1, r2}
  Tokens = {t1, t2}
  Invites = {i1}
  Handlers = {h1, h2}
  None = None
  Skips = {FALSE}
INVARIANT OneOwnerPerEmail
