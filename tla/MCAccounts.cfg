\* Two requests at a time, two refresh tokens, two roles.
SPECIFICATION Spec
CONSTANTS
  Users = {u1}
  admin = admin
  seller = seller
  Roles = {admin, seller}
  RoleLists <- OneOrTheOther
  Tokens = {t1, t2}
  Slots = {s1, s2}
  MaxFailedAttempts = 1
  None = None
INVARIANT RolesAsAsked
PROPERTIES SpentTokensAreRefused PrivilegesEnd
CHECK_DEADLOCK FALSE
