SPECIFICATION Spec
SYMMETRY Symmetry
CONSTANTS
  w1 = w1
  w2 = w2
  e1 = e1
  e2 = e2
  None = None
  Workers = {w1, w2}
  Emails = {e1, e2}
  UserIds = {1, 2}
  Tokens = {1, 2}
  NewRoles = {"ADMIN"}
  RoleNames = {"USER_ROLE_ADMIN", "USER"}
INVARIANTS
  TypeOK
  EmailsIdentifyUsers
  AnswersMatchStores
  RefreshRevokesOld
  NoRefreshAfterLogout
