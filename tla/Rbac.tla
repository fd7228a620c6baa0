-------------------------------- MODULE Rbac --------------------------------
(***************************************************************************)
(* Role-based access control of the bc-forge contracts                     *)
(* (contracts/admin/src/rbac.rs and the role half of privilege.rs).        *)
(*                                                                         *)
(* The admin crate is a library: it is linked into every contract and      *)
(* keeps its state in that contract's own storage.  This module is that    *)
(* state and the operations on it; the contracts that link the library     *)
(* EXTEND this module and add their own state and actions.                 *)
(*                                                                         *)
(* A call that returns an error or panics is rolled back by the host, so a *)
(* failing call changes nothing and is not an action here: an action is a  *)
(* call that succeeds, and its guard is the conjunction of the conditions  *)
(* that do not return early.                                               *)
(***************************************************************************)
EXTENDS Naturals, Sequences

CONSTANTS
    Addr,        \* the non-zero addresses; every entry point rejects the zero one
    NoAdmin,     \* "AdminKey::Admin is not set"
    RolesInPlay  \* the roles grant_role, revoke_role and renounce_role are called with

Role == {"Admin", "Minter", "SuperAdmin", "Pauser"}

ASSUME RbacAssumption == NoAdmin \notin Addr /\ RolesInPlay \subseteq Role

VARIABLES
    admin,  \* AdminKey::Admin: the configured admin, or NoAdmin
    roles,  \* AdminKey::RoleMask: the roles whose bit is set, per address
    pool    \* AdminKey::AdminPool; <<>> when it was never set

rbacVars == <<admin, roles, pool>>

RbacTypeOK ==
    /\ admin \in Addr \cup {NoAdmin}
    /\ roles \in [Addr -> SUBSET Role]
    /\ pool \in Seq(Addr)

RbacInit ==
    /\ admin = NoAdmin
    /\ roles = [a \in Addr |-> {}]
    /\ pool = <<>>

----------------------------------------------------------------------------
(* Queries *)

Members(s) == {s[i] : i \in DOMAIN s}

\* has_admin, which every contract's ensure_initialized asks
HasAdmin == admin # NoAdmin

\* has_role: the Admin bit implies every other role
HasRole(r, a) == r \in roles[a] \/ "Admin" \in roles[a]

\* is_admin_or_pauser reads the raw mask
IsAdminOrPauser(a) == roles[a] \cap {"Admin", "Pauser"} # {}

\* get_admin_pool: an unset pool is the admin alone
AdminPool == CASE pool # <<>>             -> pool
               [] pool = <<>> /\ HasAdmin -> <<admin>>
               [] OTHER                   -> <<>>

\* is_last_super_admin
IsLastSuperAdmin(a) ==
    /\ HasRole("SuperAdmin", a)
    /\ admin = a
    /\ \A m \in Members(AdminPool) \ {a} :
            roles[m] \cap {"Admin", "SuperAdmin"} = {}

\* the guard of renounce_role for SuperAdmin: only raw SuperAdmin bits count
OtherSuperAdmin(c) ==
    \/ admin # c
    \/ \E m \in Members(AdminPool) \ {c} : "SuperAdmin" \in roles[m]

----------------------------------------------------------------------------
(* Operations *)

\* Mutant: the old admin keeps the Admin bit
SetAdminKeeping(a) ==
    /\ "Admin" \notin roles[a]
    /\ admin' = a
    /\ roles' = [roles EXCEPT ![a] = @ \cup {"Admin"}]
    /\ pool' = pool

\* set_admin: clear the old admin's bit, then _grant_role, which panics when
\* the new admin already holds the Admin role.
SetAdmin(a) ==
    LET cleared == [x \in Addr |-> IF x = admin THEN roles[x] \ {"Admin"}
                                                ELSE roles[x]]
    IN  /\ "Admin" \notin cleared[a]
        /\ admin' = a
        /\ roles' = [cleared EXCEPT ![a] = @ \cup {"Admin"}]
        /\ pool' = pool

\* grant_role and _grant_role: granting a held role panics
GrantRole(c, r, a) ==
    /\ HasAdmin
    /\ HasRole("SuperAdmin", c)
    /\ r \notin roles[a]
    /\ roles' = [roles EXCEPT ![a] = @ \cup {r}]
    /\ UNCHANGED <<admin, pool>>

\* revoke_role and _revoke_role
RevokeRole(c, r, a) ==
    /\ HasAdmin
    /\ HasRole("SuperAdmin", c)
    /\ ~(r = "SuperAdmin" /\ IsLastSuperAdmin(a))
    /\ r \in roles[a]
    /\ roles' = [roles EXCEPT ![a] = @ \ {r}]
    /\ UNCHANGED <<admin, pool>>

\* renounce_role: only a directly granted role can be dropped
RenounceRole(c, r) ==
    /\ HasAdmin
    /\ r = "SuperAdmin" => OtherSuperAdmin(c)
    /\ r \in roles[c]
    /\ roles' = [roles EXCEPT ![c] = @ \ {r}]
    /\ UNCHANGED <<admin, pool>>
=============================================================================
