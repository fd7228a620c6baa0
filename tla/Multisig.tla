------------------------------ MODULE Multisig ------------------------------
(***************************************************************************)
(* Multi-signature governance (contracts/admin/src/multisig.rs): the admin *)
(* pool and its threshold, the legacy proposals that gate WASM upgrades    *)
(* and role grants, their expiry, timelock and cancellation, and the two   *)
(* ways an upgrade is executed.                                            *)
(*                                                                         *)
(* Proposal ids are positions in the sequence props (the code counts from  *)
(* 0).  An approval list never holds a duplicate (approve_proposal refuses *)
(* one), so it is a set here and its length a cardinality.                 *)
(***************************************************************************)
EXTENDS Rbac, Integers, FiniteSets

CONSTANTS
    Founders,       \* who may be the admin given to initialize
    Grantees,       \* whom role proposals name
    Pools,          \* the <<pool, threshold>> pairs set_admin_pool is called with
    Expiry,         \* PROPOSAL_EXPIRY_LEDGERS (600 in the code)
    Delay,          \* TIMELOCK_DELAY_SECS (86400 in the code)
    SecsPerLedger,  \* how far the host's clock moves per ledger
    NoGrant,        \* a proposal without a RoleGrantProposal entry
    MaxProps,       \* bound on the number of proposals
    MaxSeq          \* bound on the ledger sequence number

ASSUME MultisigAssumption ==
    /\ Founders \subseteq Addr /\ Grantees \subseteq Addr
    /\ \A p \in Pools : p[1] \in Seq(Addr) /\ p[2] \in Nat
    /\ Expiry \in Nat \ {0} /\ Delay \in Nat \ {0} /\ SecsPerLedger \in Nat
    /\ MaxProps \in Nat /\ MaxSeq \in Nat

VARIABLES
    threshold,  \* AdminKey::Threshold; 1 when it was never set
    props,      \* AdminKey::Proposal(id) with its ProposalTimelock and RoleGrantProposal
    seq,        \* the host's ledger sequence number
    now,        \* the host's ledger timestamp
    done        \* history: what executions did, [upgrades, grants, marks]

clockVars == <<seq, now>>
vars == <<rbacVars, threshold, props, clockVars, done>>

Grant == [role : RolesInPlay, target : Addr]

Proposal == [creator   : Addr,
             approvals : SUBSET Addr,
             executed  : BOOLEAN,
             cancelled : BOOLEAN,
             expiry    : Nat,    \* expiry_ledger
             unlock    : Nat,    \* ProposalTimelock; 0 when absent
             grant     : Grant \cup {NoGrant}]

Done == [upgrades : Nat, grants : Nat, marks : Nat]

TypeOK ==
    /\ RbacTypeOK
    /\ threshold \in Nat
    /\ props \in Seq(Proposal)
    /\ seq \in Nat /\ now \in Nat
    /\ done \in Done

Init ==
    /\ RbacInit
    /\ threshold = 1
    /\ props = <<>>
    /\ seq = 0 /\ now = 0
    /\ done = [upgrades |-> 0, grants |-> 0, marks |-> 0]

----------------------------------------------------------------------------
(* Helpers *)

InPool(a) == a \in Members(AdminPool)

\* is_proposal_ready compares with the threshold of now
Ready(p) == Cardinality(p.approvals) >= threshold

\* _proposal_expired
Expired(p) == seq > p.expiry

Settled(p) == p.executed \/ p.cancelled

\* _start_timelock_if_quorate: the unlock time is written once
TimelockStarted(p) ==
    IF p.unlock = 0 /\ Ready(p) THEN [p EXCEPT !.unlock = now + Delay] ELSE p

Executed(i) == [props EXCEPT ![i].executed = TRUE]

----------------------------------------------------------------------------
(* Setting up *)

Initialize(a) ==
    /\ ~HasAdmin
    /\ SetAdmin(a)
    /\ UNCHANGED <<threshold, props, clockVars, done>>

\* set_admin_pool: signed by the configured admin
SetAdminPool(p, t) ==
    /\ HasAdmin
    /\ t > 0 /\ t <= Len(p)
    /\ pool' = p
    /\ threshold' = t
    /\ UNCHANGED <<admin, roles, props, clockVars, done>>

----------------------------------------------------------------------------
(* Proposing and voting *)

\* create_proposal: the creator's approval is recorded and may be the quorum
Create(c, g) ==
    /\ HasAdmin /\ InPool(c)
    /\ Len(props) < MaxProps
    /\ props' = Append(props,
            TimelockStarted([creator |-> c, approvals |-> {c}, executed |-> FALSE,
                             cancelled |-> FALSE, expiry |-> seq + Expiry,
                             unlock |-> 0, grant |-> g]))
    /\ UNCHANGED <<rbacVars, threshold, clockVars, done>>

\* create_role_proposal checks the target before it creates the proposal
CreateRole(c, r, a) ==
    /\ r # "Admin"
    /\ ~HasRole(r, a)
    /\ Create(c, [role |-> r, target |-> a])

\* Mutant: forgets the executed and cancelled flags
ApproveSettled(a, i) ==
    /\ HasAdmin /\ InPool(a)
    /\ a \notin props[i].approvals
    /\ props' = [props EXCEPT ![i] =
            TimelockStarted([props[i] EXCEPT !.approvals = @ \cup {a}])]
    /\ UNCHANGED <<rbacVars, threshold, clockVars, done>>

\* approve_proposal: the expiry is not checked
Approve(a, i) ==
    /\ HasAdmin /\ InPool(a)
    /\ ~Settled(props[i])
    /\ a \notin props[i].approvals
    /\ props' = [props EXCEPT ![i] =
            TimelockStarted([props[i] EXCEPT !.approvals = @ \cup {a}])]
    /\ UNCHANGED <<rbacVars, threshold, clockVars, done>>

\* cancel_legacy_proposal removes the RoleGrantProposal entry too
CancelLegacy(c, i) ==
    /\ c = props[i].creator
    /\ ~Settled(props[i]) /\ ~Expired(props[i])
    /\ props' = [props EXCEPT ![i].cancelled = TRUE, ![i].grant = NoGrant]
    /\ UNCHANGED <<rbacVars, threshold, clockVars, done>>

----------------------------------------------------------------------------
(* Executing *)

\* What mark_executed, execute_role_proposal and execute_upgrade all check
MayExecute(p) == ~Settled(p) /\ ~Expired(p) /\ Ready(p)

MarkExecuted(i) ==
    /\ HasAdmin
    /\ props[i].grant = NoGrant
    /\ MayExecute(props[i])
    /\ props' = Executed(i)
    /\ done' = [done EXCEPT !.marks = @ + 1]
    /\ UNCHANGED <<rbacVars, threshold, clockVars>>

\* execute_role_proposal: no timelock; _grant_role panics on a held role
ExecuteRole(e, i) ==
    /\ InPool(e) /\ HasRole("SuperAdmin", e)
    /\ MayExecute(props[i])
    /\ props[i].grant # NoGrant
    /\ GrantRole(e, props[i].grant.role, props[i].grant.target)
    /\ props' = Executed(i)
    /\ done' = [done EXCEPT !.grants = @ + 1]
    /\ UNCHANGED <<threshold, clockVars>>

\* Mutant: a timelock that was started is enough
TimelockStartedEver(p) == p.unlock # 0

\* require_timelock_expired: an absent entry is an error too
TimelockExpired(p) == p.unlock # 0 /\ now >= p.unlock

\* execute_upgrade, and execute_upgrade_batch with a list of one
ExecuteUpgrade(e, i) ==
    /\ InPool(e)
    /\ MayExecute(props[i])
    /\ TimelockExpired(props[i])
    /\ props' = Executed(i)
    /\ done' = [done EXCEPT !.upgrades = @ + 1]
    /\ UNCHANGED <<rbacVars, threshold, clockVars>>

\* execute_upgrade_batch with two ids: the second sees the effects of the
\* first, and an error of either undoes both
ExecuteUpgradeBatch(e, i, j) ==
    /\ InPool(e)
    /\ i # j
    /\ \A k \in {i, j} : MayExecute(props[k]) /\ TimelockExpired(props[k])
    /\ props' = [props EXCEPT ![i].executed = TRUE, ![j].executed = TRUE]
    /\ done' = [done EXCEPT !.upgrades = @ + 2]
    /\ UNCHANGED <<rbacVars, threshold, clockVars>>

\* Mutant: does not look at the executed flag either
EmergencyExecuteAgain(e, i) ==
    /\ InPool(e)
    /\ Cardinality(props[i].approvals) = Len(AdminPool)
    /\ props' = Executed(i)
    /\ done' = [done EXCEPT !.upgrades = @ + 1]
    /\ UNCHANGED <<rbacVars, threshold, clockVars>>

\* emergency_execute_upgrade: no timelock, and neither the cancelled flag nor
\* the expiry is checked; the approvals are compared with the pool by length
EmergencyExecute(e, i) ==
    /\ InPool(e)
    /\ ~props[i].executed
    /\ Cardinality(props[i].approvals) = Len(AdminPool)
    /\ props' = Executed(i)
    /\ done' = [done EXCEPT !.upgrades = @ + 1]
    /\ UNCHANGED <<rbacVars, threshold, clockVars>>

----------------------------------------------------------------------------

CloseLedger ==
    /\ seq < MaxSeq
    /\ seq' = seq + 1
    /\ now' = now + SecsPerLedger
    /\ UNCHANGED <<rbacVars, threshold, props, done>>

OnProposal(a, i) ==
    \/ Approve(a, i)
    \/ CancelLegacy(a, i)
    \/ ExecuteRole(a, i)
    \/ ExecuteUpgrade(a, i)
    \/ EmergencyExecute(a, i)

Next ==
    \/ \E a \in Founders : Initialize(a)
    \/ \E a \in Addr : Create(a, NoGrant)
    \/ \E p \in Pools : SetAdminPool(p[1], p[2])
    \/ \E c \in Addr, a \in Grantees, r \in RolesInPlay : CreateRole(c, r, a)
    \/ \E a \in Addr, i \in DOMAIN props : OnProposal(a, i)
    \/ \E a \in Addr, i, j \in DOMAIN props : ExecuteUpgradeBatch(a, i, j)
    \/ \E i \in DOMAIN props : MarkExecuted(i)
    \/ CloseLedger

Spec == Init /\ [][Next]_vars

----------------------------------------------------------------------------
(* Properties *)

\* Every execution consumes one proposal of its own: whatever the mix of
\* upgrades, batches, emergencies, role grants and marks, nothing is executed
\* twice ("One-shot per proposal", execute_upgrade).
OneShot ==
    done.upgrades + done.grants + done.marks
        = Cardinality({i \in DOMAIN props : props[i].executed})

\* A settled proposal collects no more approvals, an executed one is final, and
\* a clock once started is never moved, by votes or by changes of the pool or the
\* threshold (approve_proposal, mark_executed, _start_timelock_if_quorate).
ProposalsMoveForward ==
    [][\A i \in DOMAIN props :
          /\ Settled(props[i]) => props'[i].approvals = props[i].approvals
          /\ props[i].executed => props'[i] = props[i]
          /\ props[i].unlock # 0 => props'[i].unlock = props[i].unlock]_vars

\* No code is installed before the proposal is Delay old, however the pool and
\* the threshold change, except with as many approvals as the pool has members
\* (execute_upgrade, execute_upgrade_batch; emergency_execute_upgrade).
UpgradesWait ==
    [][\A i \in DOMAIN props :
          ~props[i].executed /\ props'[i].executed /\ done'.upgrades > done.upgrades =>
              \/ now >= (props[i].expiry - Expiry) * SecsPerLedger + Delay
              \/ Cardinality(props[i].approvals) = Len(AdminPool)]_vars

\* A role other than the first admin's comes from an executed role proposal
\* that named it; a cancelled role proposal never grants (execute_role_proposal
\* is the only grant in this module).
GrantsComeFromProposals ==
    \A a \in Addr : \A r \in roles[a] :
        \/ a = admin /\ r = "Admin"
        \/ \E i \in DOMAIN props :
              props[i].executed /\ props[i].grant = [role |-> r, target |-> a]

\* The host's clock follows its ledgers, a proposal expires Expiry ledgers after
\* it was made, and a timelock that runs was set no earlier than Delay after that
\* ledger (create_proposal, _start_timelock_if_quorate).
ClocksRun ==
    /\ now = seq * SecsPerLedger
    /\ \A i \in DOMAIN props :
          LET made == props[i].expiry - Expiry
          IN  /\ made \in 0..seq
              /\ props[i].unlock # 0 => props[i].unlock >= made * SecsPerLedger + Delay

\* Whatever path executes a proposal, it takes effect once, and no role comes
\* from anywhere else.  This is the module's inductive invariant.
ExecutedAsProposed == TypeOK /\ OneShot /\ GrantsComeFromProposals /\ ClocksRun
=============================================================================
