SPECIFICATION Spec
CONSTANTS
  Workers = {w1}
  UserIds = {u1, u2}
  RoleIds = {r1, r2, r3}
  LinkIds = {l1}
  DocumentIds = {d1}
  Emails = {"staff", "superadmin"}
  Names = {"ADMIN", "SUPER_ADMIN"}
  SeedRoles <- MCSeedRoles
  SeedUsers <- MCSeedUsers
  Statuses = {"ACTIVE", "DISABLED"}
  MaxTokens = 1
  None = None
SYMMETRY Symmetry
CONSTRAINT OneConcern
ACTION_CONSTRAINTS
  SeedBetweenRequests
  OneChange
INVARIANTS
  StaffInv
  SeedConverges
PROPERTIES
  HoldersKeepARole
  SuperAdminRulesKept
