SPECIFICATION Spec
CONSTANTS
  admin = admin
  notario = notario
  clerk = clerk
  newcomer = newcomer
  Super = Super
  Notary = Notary
  Archivist = Archivist
  Spare = Spare
  NULL = NULL
  Users = {admin, notario, clerk, newcomer}
  Roles = {Super, Notary, Archivist, Spare}
  Requests = {r1, r2}
  Operations = {"create", "update", "remove", "assign", "revoke", "createRole", "updateRole", "removeRole"}
  MaxRoleIds = 1
  InitialType <- OfficeTypes
  InitialRoles <- OfficeRoles
SYMMETRY Symmetry
INVARIANTS TypeOK RolelessExplained DeletedRoleUnheld
PROPERTIES NoEscalation SuperAdminProtected UpdateReplaces
