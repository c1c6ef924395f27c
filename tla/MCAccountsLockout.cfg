\* login_max_failed_attempts = 3, as in config.py.
SPECIFICATION Spec
CONSTANTS
  Users = {u1}
  admin = admin
  seller = seller
  Roles = {admin}
  RoleLists <- GivenOrTaken
  Tokens = {t1, t2}
  Slots = {s1}
  MaxFailedAttempts = 3
  None = None
INVARIANT LockedAfterFailures
CHECK_DEADLOCK FALSE
