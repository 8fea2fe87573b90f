-------------------------- MODULE MCAccessControl --------------------------
(***************************************************************************)
(* Instances of AccessControl for TLC: an office with a super              *)
(* administrator, a NOTARIO, one more user and a role nobody holds.        *)
(***************************************************************************)
EXTENDS AccessControl, TLC

CONSTANTS admin, notario, clerk, newcomer, Super, Notary, Archivist, Spare

OfficeTypes == (Super :> SUPER_ADMIN) @@ (Notary :> NOTARIO) @@ (Archivist :> 3)
OfficeRoles == (admin :> {Super}) @@ (notario :> {Notary}) @@ (clerk :> {Archivist})

Symmetry == Permutations(Requests)
=============================================================================
