CONSTANTS
  Requests = {r1, r2}
  Names = {ann, ben}
  Passwords = {p, q}
  OldTokens = {s1, s2}
  Address = mail
  MaxFaults = 1
  Chats = {c1, c2}
  Grants = 1
  Refreshes = 1
  Rotations = {"always", "never"}
SYMMETRY Symmetric
SPECIFICATION MCSpec
INVARIANT DeletionSucceeds
CHECK_DEADLOCK FALSE
