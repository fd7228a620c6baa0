----------------------------- MODULE Privilege -----------------------------
(***************************************************************************)
(* The privileged-action timelock (contracts/admin/src/privilege.rs) where *)
(* it takes effect: the token's set_fee_config and transfer_ownership, and *)
(* the role calls that run beside them (grant_role, revoke_role,           *)
(* renounce_role, set_admin_pool).                                         *)
(*                                                                         *)
(* TransferOwnership(a) is represented by the address a, and the action    *)
(* SetFeeConfig, which carries no configuration in the code either, by the *)
(* constant SetFeeConfigAction.                                            *)
(***************************************************************************)
EXTENDS Rbac, Integers

CONSTANTS
    SetFeeConfigAction,  \* PrivilegeAction::SetFeeConfig
    PrivilegeDelay,      \* PRIVILEGE_ACTION_DELAY_SECS
    Fees,                \* the configurations set_fee_config is called with,
                         \* each by the smaller of base_fee and max_fee
    PoolsInPlay,         \* the pools set_admin_pool is called with
    MaxNow,              \* bound on the ledger timestamp
    MaxProposed          \* bound on the proposals per action

PrivAction == Addr \cup {SetFeeConfigAction}

ASSUME PrivilegeAssumption ==
    /\ SetFeeConfigAction \notin Addr
    /\ PrivilegeDelay \in Nat \ {0}
    /\ Fees \subseteq Int
    /\ PoolsInPlay \subseteq Seq(Addr)
    /\ MaxNow \in Nat /\ MaxProposed \in Nat

VARIABLES
    proposal,  \* AdminKey::PrivilegeProposal(action): [state, at] where at is
               \* executable_at; state is "none" before the first submission
    fee,       \* DataKey::FeeConfig; -1 before the first set_fee_config
    clock,     \* the host's ledger timestamp
    proposed,  \* history: how often each action was proposed,
    effected,  \* ... took effect,
    cancelled  \* ... and was cancelled

history == <<proposed, effected, cancelled>>
privilegeVars == <<rbacVars, proposal, fee, clock, history>>

PrivilegeTypeOK ==
    /\ RbacTypeOK
    /\ proposal \in [PrivAction -> [state : {"none", "live", "executed", "cancelled"}, at : Nat]]
    /\ fee \in Int
    /\ clock \in Nat
    /\ proposed \in [PrivAction -> Nat]
    /\ effected \in [PrivAction -> Nat]
    /\ cancelled \in [PrivAction -> Nat]

PrivilegeInit ==
    /\ RbacInit
    /\ proposal = [p \in PrivAction |-> [state |-> "none", at |-> 0]]
    /\ fee = -1
    /\ clock = 0
    /\ proposed = [p \in PrivAction |-> 0]
    /\ effected = [p \in PrivAction |-> 0]
    /\ cancelled = [p \in PrivAction |-> 0]

----------------------------------------------------------------------------
(* The timelock *)

Live(p) == proposal[p].state = "live"

\* initialize
InitializeToken(a) ==
    /\ ~HasAdmin
    /\ SetAdmin(a)
    /\ UNCHANGED <<proposal, fee, clock, history>>

\* propose_privilege_action: rejected while a live proposal of this action
\* exists; a consumed one is replaced
Propose(c, p) ==
    /\ HasAdmin /\ HasRole("Admin", c)
    /\ ~Live(p)
    /\ proposed[p] < MaxProposed
    /\ proposal' = [proposal EXCEPT ![p] = [state |-> "live", at |-> clock + PrivilegeDelay]]
    /\ proposed' = [proposed EXCEPT ![p] = @ + 1]
    /\ UNCHANGED <<rbacVars, fee, clock, effected, cancelled>>

\* cancel_privilege_action: any holder of the Admin role, not the submitter only
Cancel(c, p) ==
    /\ HasAdmin /\ HasRole("Admin", c)
    /\ Live(p)
    /\ proposal' = [proposal EXCEPT ![p].state = "cancelled"]
    /\ cancelled' = [cancelled EXCEPT ![p] = @ + 1]
    /\ UNCHANGED <<rbacVars, fee, clock, proposed, effected>>

\* Mutant: one second early
ConsumeEarly(p) ==
    /\ Live(p) /\ clock + 1 >= proposal[p].at
    /\ proposal' = [proposal EXCEPT ![p].state = "executed"]
    /\ effected' = [effected EXCEPT ![p] = @ + 1]
    /\ UNCHANGED <<proposed, cancelled>>

\* Mutant: does not mark the proposal executed
ConsumeKeeping(p) ==
    /\ Live(p) /\ clock >= proposal[p].at
    /\ proposal' = proposal
    /\ effected' = [effected EXCEPT ![p] = @ + 1]
    /\ UNCHANGED <<proposed, cancelled>>

\* consume_privilege_proposal, called at the point of effect
Consume(p) ==
    /\ Live(p) /\ clock >= proposal[p].at
    /\ proposal' = [proposal EXCEPT ![p].state = "executed"]
    /\ effected' = [effected EXCEPT ![p] = @ + 1]
    /\ UNCHANGED <<proposed, cancelled>>

SetFeeConfig(c, cfg) ==
    /\ HasAdmin /\ HasRole("Admin", c)
    /\ cfg >= 0
    /\ Consume(SetFeeConfigAction)
    /\ fee' = cfg
    /\ UNCHANGED <<rbacVars, clock>>

\* transfer_ownership: the configured admin must hold the Admin role and sign
TransferOwnership(a) ==
    /\ HasAdmin /\ HasRole("Admin", admin)
    /\ Consume(a)
    /\ SetAdmin(a)
    /\ UNCHANGED <<fee, clock>>

----------------------------------------------------------------------------
(* The calls beside it *)

GovernRole(c, r, a) ==
    /\ GrantRole(c, r, a) \/ RevokeRole(c, r, a)
    /\ UNCHANGED <<proposal, fee, clock, history>>

DropRole(c, r) ==
    /\ RenounceRole(c, r)
    /\ UNCHANGED <<proposal, fee, clock, history>>

\* set_admin_pool: signed by the configured admin.  The threshold it also
\* stores has no bearing here; Multisig models it.
RotateAdminPool(p) ==
    /\ HasAdmin
    /\ p # <<>>
    /\ pool' = p
    /\ UNCHANGED <<admin, roles, proposal, fee, clock, history>>

Tick ==
    /\ clock < MaxNow
    /\ clock' = clock + 1
    /\ UNCHANGED <<rbacVars, proposal, fee, history>>

PrivilegeNext ==
    \/ \E a \in Addr : InitializeToken(a) \/ TransferOwnership(a)
    \/ \E c \in Addr, p \in PrivAction : Propose(c, p) \/ Cancel(c, p)
    \/ \E c \in Addr, cfg \in Fees : SetFeeConfig(c, cfg)
    \/ \E c, a \in Addr, r \in RolesInPlay : GovernRole(c, r, a)
    \/ \E c \in Addr, r \in RolesInPlay : DropRole(c, r)
    \/ \E p \in PoolsInPlay : RotateAdminPool(p)
    \/ Tick

PrivilegeSpec == PrivilegeInit /\ [][PrivilegeNext]_privilegeVars

----------------------------------------------------------------------------
(* Properties *)

\* Every submission is accounted for: it has taken effect once, was cancelled
\* once, or is the one that is still live.  No proposal is used twice, revived
\* or silently replaced (privilege.rs, "so the same proposal cannot be reused").
ProposalsAccounted ==
    \A p \in PrivAction :
        proposed[p] = effected[p] + cancelled[p] + (IF Live(p) THEN 1 ELSE 0)

\* The effects of an action are at least PrivilegeDelay apart, and so is the
\* first from the start: each one waits out the full delay of its own proposal,
\* however often the action was cancelled and proposed again.
EffectsAreSpaced == \A p \in PrivAction : effected[p] * PrivilegeDelay <= clock

\* A proposal whose delay has passed cannot be withdrawn by the passing of
\* time or by role changes: it stays live until it is cancelled or used.
LiveUntilConsumed ==
    [][\A p \in PrivAction :
          Live(p) /\ ~Live(p)' =>
             \/ effected'[p] = effected[p] + 1 /\ clock >= proposal[p].at
             \/ cancelled'[p] = cancelled[p] + 1]_privilegeVars

\* Ownership moves only to an address that was proposed, and never while that
\* address's proposal is inside its delay; the old admin loses the Admin bit.
OwnershipMoves ==
    [][HasAdmin /\ admin' # admin =>
          /\ effected'[admin'] = effected[admin'] + 1
          /\ "Admin" \notin roles'[admin]
          /\ "Admin" \in roles'[admin']]_privilegeVars

\* A live proposal lies a whole delay behind everything its action has done:
\* what makes EffectsAreSpaced inductive.
LiveWaits ==
    \A p \in PrivAction : Live(p) => effected[p] * PrivilegeDelay + PrivilegeDelay <= proposal[p].at

\* The inductive invariant: every submission is live, cancelled once or used
\* once, and effects wait out the delay of their own proposal, whatever is
\* cancelled and proposed again in between.
IndInv == PrivilegeTypeOK /\ ProposalsAccounted /\ LiveWaits /\ EffectsAreSpaced
=============================================================================
