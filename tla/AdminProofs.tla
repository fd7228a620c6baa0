---------------------------- MODULE AdminProofs ----------------------------
(***************************************************************************)
(* Proofs about the two delays of the admin crate.  First the              *)
(* privileged-action timelock, for every set of addresses and every delay; *)
(* then multi-signature governance, for every set of signers, every        *)
(* rotation of the pool and its threshold, every expiry and delay, and any *)
(* number of proposals.                                                    *)
(***************************************************************************)
EXTENDS Privilege, Multisig, FiniteSetTheorems, TLAPS

States == {"none", "live", "executed", "cancelled"}

----------------------------------------------------------------------------
(* What each operation does to one action p *)

\* What a step leaves as it was
TimelockSame == UNCHANGED <<proposal, clock, history>>

\* Multiplying a successor
LEMMA NextMultiple ==
    ASSUME NEW m \in Nat, NEW d \in Nat
    PROVE  (m + 1) * d = m * d + d
OBVIOUS

\* Settling a proposal changes its state only.
LEMMA SettledType ==
    ASSUME PrivilegeTypeOK, NEW p \in PrivAction, NEW s \in States
    PROVE  LET new == [proposal EXCEPT ![p].state = s]
           IN  /\ new \in [PrivAction -> [state : States, at : Nat]]
               /\ new[p].state = s
               /\ \A q \in PrivAction : q # p => new[q] = proposal[q]
<1>1. proposal \in [PrivAction -> [state : States, at : Nat]]
  BY DEF PrivilegeTypeOK, States
<1>2. proposal[p] \in [state : States, at : Nat]
  BY <1>1
<1>3. /\ [proposal[p] EXCEPT !.state = s] \in [state : States, at : Nat]
      /\ [proposal[p] EXCEPT !.state = s].state = s
  BY <1>2
<1> QED
  BY <1>1, <1>3

\* A submission keeps the inductive invariant: the new proposal waits from now.
LEMMA ProposeInv ==
    ASSUME IndInv, NEW c \in Addr, NEW p \in PrivAction, Propose(c, p)
    PROVE  IndInv'
<1>1. PrivilegeDelay \in Nat /\ clock \in Nat
  BY PrivilegeAssumption DEF IndInv, PrivilegeTypeOK
<1>2. proposal' = [proposal EXCEPT ![p] = [state |-> "live", at |-> clock + PrivilegeDelay]]
      /\ proposed' = [proposed EXCEPT ![p] = @ + 1]
      /\ UNCHANGED <<rbacVars, fee, clock, effected, cancelled>> /\ ~Live(p)
  BY DEF Propose
<1>3. PrivilegeTypeOK'
  BY <1>1, <1>2 DEF IndInv, PrivilegeTypeOK, RbacTypeOK, rbacVars
<1>4. ASSUME NEW q \in PrivAction
      PROVE  /\ proposed'[q] = effected'[q] + cancelled'[q] + (IF Live(q)' THEN 1 ELSE 0)
             /\ Live(q)' => effected'[q] * PrivilegeDelay + PrivilegeDelay <= proposal'[q].at
             /\ effected'[q] * PrivilegeDelay <= clock'
  <2>1. /\ proposed[q] = effected[q] + cancelled[q] + (IF Live(q) THEN 1 ELSE 0)
        /\ Live(q) => effected[q] * PrivilegeDelay + PrivilegeDelay <= proposal[q].at
        /\ effected[q] * PrivilegeDelay <= clock
    BY DEF IndInv, ProposalsAccounted, LiveWaits, EffectsAreSpaced
  <2>2. effected[q] \in Nat /\ cancelled[q] \in Nat /\ proposed[q] \in Nat
        /\ effected[q] * PrivilegeDelay \in Nat
    BY <1>1 DEF IndInv, PrivilegeTypeOK
  <2>3. CASE q = p
    <3>1. Live(q)' /\ proposal'[q].at = clock + PrivilegeDelay /\ proposed'[q] = proposed[q] + 1
      BY <1>2, <2>3 DEF IndInv, PrivilegeTypeOK, Live
    <3> QED
      BY <1>1, <1>2, <2>1, <2>2, <2>3, <3>1
  <2>4. CASE q # p
    <3>1. proposal'[q] = proposal[q] /\ proposed'[q] = proposed[q]
      BY <1>2, <2>4 DEF IndInv, PrivilegeTypeOK
    <3> QED
      BY <1>2, <2>1, <3>1 DEF Live
  <2> QED
    BY <2>3, <2>4
<1> QED
  BY <1>3, <1>4 DEF IndInv, ProposalsAccounted, LiveWaits, EffectsAreSpaced

\* A cancellation keeps the inductive invariant.
LEMMA CancelInv ==
    ASSUME IndInv, NEW c \in Addr, NEW p \in PrivAction, Cancel(c, p)
    PROVE  IndInv'
<1>1. proposal' = [proposal EXCEPT ![p].state = "cancelled"] /\ Live(p)
      /\ cancelled' = [cancelled EXCEPT ![p] = @ + 1]
      /\ UNCHANGED <<rbacVars, fee, clock, proposed, effected>>
  BY DEF Cancel
<1>2. /\ proposal' \in [PrivAction -> [state : States, at : Nat]]
      /\ proposal'[p].state = "cancelled"
      /\ \A q \in PrivAction : q # p => proposal'[q] = proposal[q]
  BY <1>1, SettledType DEF IndInv, States
<1>0. PrivilegeTypeOK'
  <2>1. cancelled' \in [PrivAction -> Nat]
    BY <1>1 DEF IndInv, PrivilegeTypeOK
  <2>2. RbacTypeOK' /\ UNCHANGED <<fee, clock, proposed, effected>>
    BY <1>1 DEF IndInv, PrivilegeTypeOK, RbacTypeOK, rbacVars
  <2> QED
    BY <1>2, <2>1, <2>2 DEF IndInv, PrivilegeTypeOK, States
<1>3. ASSUME NEW q \in PrivAction
      PROVE  /\ proposed'[q] = effected'[q] + cancelled'[q] + (IF Live(q)' THEN 1 ELSE 0)
             /\ Live(q)' => effected'[q] * PrivilegeDelay + PrivilegeDelay <= proposal'[q].at
             /\ effected'[q] * PrivilegeDelay <= clock'
  <2>1. /\ proposed[q] = effected[q] + cancelled[q] + (IF Live(q) THEN 1 ELSE 0)
        /\ Live(q) => effected[q] * PrivilegeDelay + PrivilegeDelay <= proposal[q].at
        /\ effected[q] * PrivilegeDelay <= clock
    BY DEF IndInv, ProposalsAccounted, LiveWaits, EffectsAreSpaced
  <2>2. effected[q] \in Nat /\ cancelled[q] \in Nat /\ proposed[q] \in Nat
    BY DEF IndInv, PrivilegeTypeOK
  <2>3. CASE q = p
    <3>1. ~Live(q)' /\ cancelled'[q] = cancelled[q] + 1 /\ Live(q)
      BY <1>1, <1>2, <2>3 DEF IndInv, PrivilegeTypeOK, Live
    <3> QED
      BY <1>1, <2>1, <2>2, <3>1
  <2>4. CASE q # p
    <3>1. proposal'[q] = proposal[q] /\ cancelled'[q] = cancelled[q]
      BY <1>1, <1>2, <2>4 DEF IndInv, PrivilegeTypeOK
    <3> QED
      BY <1>1, <2>1, <3>1 DEF Live
  <2> QED
    BY <2>3, <2>4
<1> QED
  BY <1>0, <1>3 DEF IndInv, ProposalsAccounted, LiveWaits, EffectsAreSpaced

\* Using a proposal up keeps everything but the types of the rest, which the
\* callers of consume_privilege_proposal change.
LEMMA ConsumeInv ==
    ASSUME IndInv, NEW p \in PrivAction, Consume(p), clock' = clock
    PROVE  /\ proposal' \in [PrivAction -> [state : States, at : Nat]]
           /\ effected' \in [PrivAction -> Nat]
           /\ ProposalsAccounted' /\ LiveWaits' /\ EffectsAreSpaced'
<1>1. proposal' = [proposal EXCEPT ![p].state = "executed"]
      /\ effected' = [effected EXCEPT ![p] = @ + 1]
      /\ UNCHANGED <<proposed, cancelled>> /\ Live(p) /\ clock >= proposal[p].at
  BY DEF Consume
<1>2. PrivilegeDelay \in Nat /\ clock \in Nat
  BY PrivilegeAssumption DEF IndInv, PrivilegeTypeOK
<1>3. /\ proposal' \in [PrivAction -> [state : States, at : Nat]]
      /\ proposal'[p].state = "executed"
      /\ \A q \in PrivAction : q # p => proposal'[q] = proposal[q]
  BY <1>1, SettledType DEF IndInv, States
<1>5. effected' \in [PrivAction -> Nat]
  BY <1>1 DEF IndInv, PrivilegeTypeOK
<1>4. ASSUME NEW q \in PrivAction
      PROVE  /\ proposed'[q] = effected'[q] + cancelled'[q] + (IF Live(q)' THEN 1 ELSE 0)
             /\ Live(q)' => effected'[q] * PrivilegeDelay + PrivilegeDelay <= proposal'[q].at
             /\ effected'[q] * PrivilegeDelay <= clock'
  <2>1. /\ proposed[q] = effected[q] + cancelled[q] + (IF Live(q) THEN 1 ELSE 0)
        /\ Live(q) => effected[q] * PrivilegeDelay + PrivilegeDelay <= proposal[q].at
        /\ effected[q] * PrivilegeDelay <= clock
    BY DEF IndInv, ProposalsAccounted, LiveWaits, EffectsAreSpaced
  <2>2. effected[q] \in Nat /\ cancelled[q] \in Nat /\ proposed[q] \in Nat
        /\ effected[q] * PrivilegeDelay \in Nat /\ proposal[q].at \in Nat
    BY <1>2 DEF IndInv, PrivilegeTypeOK
  <2>3. CASE q = p
    <3>1. ~Live(q)' /\ effected'[q] = effected[q] + 1 /\ Live(q)
      BY <1>1, <1>3, <2>3 DEF IndInv, PrivilegeTypeOK, Live
    <3>2. effected'[q] * PrivilegeDelay = effected[q] * PrivilegeDelay + PrivilegeDelay
      BY <1>2, <2>2, <3>1, NextMultiple
    <3> QED
      BY <1>1, <1>2, <2>1, <2>2, <2>3, <3>1, <3>2
  <2>4. CASE q # p
    <3>1. proposal'[q] = proposal[q] /\ effected'[q] = effected[q]
      BY <1>1, <1>3, <2>4 DEF IndInv, PrivilegeTypeOK
    <3> QED
      BY <1>1, <2>1, <3>1 DEF Live
  <2> QED
    BY <2>3, <2>4
<1> QED
  BY <1>3, <1>4, <1>5 DEF ProposalsAccounted, LiveWaits, EffectsAreSpaced

\* Steps outside the timelock keep the invariant when they keep the types.
LEMMA SameInv ==
    ASSUME IndInv, PrivilegeTypeOK', TimelockSame
    PROVE  IndInv'
BY DEF IndInv, TimelockSame, history, ProposalsAccounted, LiveWaits, EffectsAreSpaced, Live

----------------------------------------------------------------------------
(* The invariant *)

\* The inductive invariant holds initially.
LEMMA IndInvInit == PrivilegeInit => IndInv
<1> SUFFICES ASSUME PrivilegeInit PROVE IndInv
  OBVIOUS
<1>1. PrivilegeDelay \in Nat
  BY PrivilegeAssumption
<1>2. PrivilegeTypeOK
  BY DEF PrivilegeInit, PrivilegeTypeOK, RbacInit, RbacTypeOK, Role
<1>3. \A p \in PrivAction : ~Live(p)
  BY DEF PrivilegeInit, Live
<1> QED
  BY <1>1, <1>2, <1>3 DEF PrivilegeInit, IndInv, ProposalsAccounted, LiveWaits, EffectsAreSpaced

\* Every step keeps the inductive invariant.
LEMMA IndInvStep == IndInv /\ [PrivilegeNext]_privilegeVars => IndInv'
<1> SUFFICES ASSUME IndInv, [PrivilegeNext]_privilegeVars PROVE IndInv'
  OBVIOUS
<1> USE DEF TimelockSame
<1>1. ASSUME NEW a \in Addr, InitializeToken(a) PROVE IndInv'
  <2>1. RbacTypeOK'
    BY <1>1 DEF IndInv, PrivilegeTypeOK, InitializeToken, RbacTypeOK, SetAdmin, Role
  <2> QED
    BY <1>1, <2>1, SameInv DEF IndInv, PrivilegeTypeOK, InitializeToken, history
<1>2. ASSUME NEW a \in Addr, TransferOwnership(a) PROVE IndInv'
  <2>1. RbacTypeOK'
    BY <1>2 DEF IndInv, PrivilegeTypeOK, TransferOwnership, RbacTypeOK, SetAdmin, Role
  <2>2. a \in PrivAction /\ Consume(a) /\ clock' = clock /\ fee' = fee
    BY <1>2 DEF PrivAction, TransferOwnership
  <2>3. proposed' = proposed /\ cancelled' = cancelled
    BY <2>2 DEF Consume
  <2> QED
    BY <2>1, <2>2, <2>3, ConsumeInv DEF IndInv, PrivilegeTypeOK, States
<1>3. ASSUME NEW c \in Addr, NEW cfg \in Fees, SetFeeConfig(c, cfg) PROVE IndInv'
  <2>1. SetFeeConfigAction \in PrivAction /\ Consume(SetFeeConfigAction)
        /\ clock' = clock /\ fee' \in Int /\ UNCHANGED rbacVars
    BY <1>3, PrivilegeAssumption DEF PrivAction, SetFeeConfig
  <2>2. proposed' = proposed /\ cancelled' = cancelled
    BY <2>1 DEF Consume
  <2>3. RbacTypeOK'
    BY <2>1 DEF IndInv, PrivilegeTypeOK, RbacTypeOK, rbacVars
  <2> QED
    BY <2>1, <2>2, <2>3, ConsumeInv DEF IndInv, PrivilegeTypeOK, States
<1>4. ASSUME NEW c \in Addr, NEW a \in Addr, NEW r \in RolesInPlay,
             GovernRole(c, r, a)
      PROVE  IndInv'
  <2>1. RbacTypeOK'
    <3>1. r \in Role /\ RbacTypeOK
      BY <1>4, RbacAssumption DEF IndInv, PrivilegeTypeOK
    <3>2. CASE GrantRole(c, r, a)
      BY <1>4, <3>1, <3>2 DEF RbacTypeOK, GrantRole
    <3>3. CASE RevokeRole(c, r, a)
      BY <1>4, <3>1, <3>3 DEF RbacTypeOK, RevokeRole
    <3> QED
      BY <1>4, <3>2, <3>3 DEF GovernRole
  <2> QED
    BY <1>4, <2>1, SameInv DEF IndInv, PrivilegeTypeOK, GovernRole, history
<1>5. ASSUME NEW c \in Addr, NEW r \in RolesInPlay, DropRole(c, r)
      PROVE  IndInv'
  <2>1. RbacTypeOK'
    BY <1>5, RbacAssumption DEF IndInv, PrivilegeTypeOK, DropRole, RbacTypeOK, RenounceRole
  <2> QED
    BY <1>5, <2>1, SameInv DEF IndInv, PrivilegeTypeOK, DropRole, history
<1>6. ASSUME NEW p \in PoolsInPlay, RotateAdminPool(p) PROVE IndInv'
  <2>1. RbacTypeOK'
    BY <1>6, PrivilegeAssumption DEF IndInv, PrivilegeTypeOK, RbacTypeOK, RotateAdminPool
  <2> QED
    BY <1>6, <2>1, SameInv DEF IndInv, PrivilegeTypeOK, RotateAdminPool, history
<1>7. CASE Tick
  <2>1. clock' = clock + 1 /\ UNCHANGED <<rbacVars, proposal, fee, history>> /\ clock \in Nat
    BY <1>7 DEF Tick, IndInv, PrivilegeTypeOK
  <2>2. PrivilegeTypeOK'
    BY <2>1 DEF IndInv, PrivilegeTypeOK, RbacTypeOK, rbacVars, history
  <2>3. \A p \in PrivAction : effected[p] * PrivilegeDelay <= clock /\ effected[p] * PrivilegeDelay \in Nat
    BY PrivilegeAssumption DEF IndInv, PrivilegeTypeOK, EffectsAreSpaced
  <2>4. EffectsAreSpaced'
    BY <2>1, <2>3 DEF EffectsAreSpaced, history
  <2> QED
    BY <2>1, <2>2, <2>4 DEF IndInv, ProposalsAccounted, LiveWaits, Live, history
<1>8. CASE UNCHANGED privilegeVars
  <2>1. PrivilegeTypeOK'
    BY <1>8 DEF IndInv, PrivilegeTypeOK, RbacTypeOK, privilegeVars, rbacVars, history
  <2> QED
    BY <1>8, <2>1, SameInv DEF privilegeVars
<1> QED
  BY <1>1, <1>2, <1>3, <1>4, <1>5, <1>6, <1>7, <1>8, ProposeInv, CancelInv DEF PrivilegeNext

\* The inductive invariant holds in every reachable state.
THEOREM IndInvHolds == PrivilegeSpec => []IndInv
BY IndInvInit, IndInvStep, PTL DEF PrivilegeSpec

\* Type correctness of the timelock's state.
THEOREM PrivilegeTypeCorrect == PrivilegeSpec => []PrivilegeTypeOK
<1>1. IndInv => PrivilegeTypeOK
  BY DEF IndInv
<1> QED
  BY <1>1, IndInvHolds, PTL

\* No submission is used twice, revived or silently replaced, whatever
\* the admins do (propose, cancel and consume_privilege_proposal).
THEOREM ProposalsStayAccounted == PrivilegeSpec => []ProposalsAccounted
<1>1. IndInv => ProposalsAccounted
  BY DEF IndInv
<1> QED
  BY <1>1, IndInvHolds, PTL

\* An action takes effect at most once per delay.
THEOREM EffectsStaySpaced == PrivilegeSpec => []EffectsAreSpaced
<1>1. IndInv => EffectsAreSpaced
  BY DEF IndInv
<1> QED
  BY <1>1, IndInvHolds, PTL

\* A live proposal ends only by a cancellation or by its effect, the latter
\* not before its time; role and pool changes and the clock never end it.
THEOREM LiveEndsByUse == PrivilegeSpec => LiveUntilConsumed
<1> DEFINE Ends(p) == Live(p) /\ ~Live(p)' =>
                         \/ effected'[p] = effected[p] + 1 /\ clock >= proposal[p].at
                         \/ cancelled'[p] = cancelled[p] + 1
<1>1. PrivilegeTypeOK /\ [PrivilegeNext]_privilegeVars => [\A p \in PrivAction : Ends(p)]_privilegeVars
  <2> SUFFICES ASSUME PrivilegeTypeOK, PrivilegeNext, NEW p \in PrivAction PROVE Ends(p)
    OBVIOUS
  <2>1. ASSUME proposal' = proposal PROVE Ends(p)
    BY <2>1 DEF Live
  <2>2. ASSUME NEW c \in Addr, NEW q \in PrivAction, Propose(c, q) PROVE Ends(p)
    <3>1. p = q => ~Live(p)
      BY <2>2 DEF Propose
    <3>2. p # q => proposal'[p] = proposal[p]
      BY <2>2 DEF Propose, PrivilegeTypeOK
    <3> QED
      BY <3>1, <3>2 DEF Live
  <2>3. ASSUME NEW c \in Addr, NEW q \in PrivAction, Cancel(c, q) PROVE Ends(p)
    <3>1. p = q => cancelled'[p] = cancelled[p] + 1
      BY <2>3 DEF Cancel, PrivilegeTypeOK
    <3>2. p # q => proposal'[p] = proposal[p]
      BY <2>3, SettledType DEF Cancel, States
    <3> QED
      BY <3>1, <3>2 DEF Live
  <2>4. ASSUME NEW q \in PrivAction, Consume(q) PROVE Ends(p)
    <3>1. p = q => effected'[p] = effected[p] + 1 /\ clock >= proposal[p].at
      BY <2>4 DEF Consume, PrivilegeTypeOK
    <3>2. p # q => proposal'[p] = proposal[p]
      BY <2>4, SettledType DEF Consume, States
    <3> QED
      BY <3>1, <3>2 DEF Live
  <2>5. SetFeeConfigAction \in PrivAction /\ Addr \subseteq PrivAction
    BY DEF PrivAction
  <2> QED
    BY <2>1, <2>2, <2>3, <2>4, <2>5
    DEF PrivilegeNext, InitializeToken, TransferOwnership, SetFeeConfig, GovernRole, DropRole,
        RotateAdminPool, Tick
<1> QED
  BY <1>1, PrivilegeTypeCorrect, PTL DEF PrivilegeSpec, LiveUntilConsumed

\* Ownership changes hands only by using up a proposal for the new owner, and
\* the Admin bit moves with it (transfer_ownership and set_admin).
THEOREM OwnershipMovesByProposal == PrivilegeSpec => OwnershipMoves
<1> DEFINE Handover == /\ effected'[admin'] = effected[admin'] + 1
                       /\ "Admin" \notin roles'[admin]
                       /\ "Admin" \in roles'[admin']
<1>1. PrivilegeTypeOK /\ [PrivilegeNext]_privilegeVars => [HasAdmin /\ admin' # admin => Handover]_privilegeVars
  <2> SUFFICES ASSUME PrivilegeTypeOK, PrivilegeNext, HasAdmin, admin' # admin PROVE Handover
    OBVIOUS
  <2>1. PICK a \in Addr : TransferOwnership(a)
    BY DEF PrivilegeNext, InitializeToken, Propose, Cancel, SetFeeConfig, GovernRole, GrantRole,
           RevokeRole, DropRole, RenounceRole, RotateAdminPool, Tick, rbacVars
  <2>2. admin' = a /\ admin \in Addr /\ a # admin
    BY <2>1 DEF TransferOwnership, SetAdmin, PrivilegeTypeOK, RbacTypeOK, HasAdmin
  <2>3. effected'[a] = effected[a] + 1
    BY <2>1 DEF TransferOwnership, Consume, PrivilegeTypeOK, PrivAction
  <2>4. "Admin" \in roles'[a] /\ "Admin" \notin roles'[admin]
    BY <2>1, <2>2 DEF TransferOwnership, SetAdmin, PrivilegeTypeOK, RbacTypeOK
  <2> QED
    BY <2>2, <2>3, <2>4
<1> QED
  BY <1>1, PrivilegeTypeCorrect, PTL DEF PrivilegeSpec, OwnershipMoves

----------------------------------------------------------------------------
(* Multi-signature governance *)

----------------------------------------------------------------------------
(* One proposal *)

\* The fields of a proposal.
LEMMA ProposalFields ==
    ASSUME NEW p \in Proposal
    PROVE  /\ p.creator \in Addr /\ p.approvals \in SUBSET Addr
           /\ p.executed \in BOOLEAN /\ p.cancelled \in BOOLEAN
           /\ p.expiry \in Nat /\ p.unlock \in Nat
           /\ p.grant \in Grant \cup {NoGrant}
BY DEF Proposal

\* Multiplication keeps the order.
LEMMA TimesMonotone ==
    ASSUME NEW a \in Nat, NEW b \in Nat, NEW c \in Nat, a <= b
    PROVE  a * c \in Nat /\ b * c \in Nat /\ a * c <= b * c
OBVIOUS

\* What ClocksRun says of one proposal, at ledger q
Timed(p, q) ==
    LET made == p.expiry - Expiry
    IN  made \in 0..q /\ (p.unlock # 0 => p.unlock >= made * SecsPerLedger + Delay)

\* Starting the clock changes nothing but an unlock time that was absent, and
\* sets it a whole Delay after the ledger at which the proposal was made.
LEMMA StartFacts ==
    ASSUME NEW p \in Proposal, seq \in Nat, now = seq * SecsPerLedger, Timed(p, seq)
    PROVE  LET t == TimelockStarted(p)
           IN  /\ t \in Proposal /\ Timed(t, seq)
               /\ t.approvals = p.approvals /\ t.executed = p.executed
               /\ t.cancelled = p.cancelled /\ t.grant = p.grant
               /\ p.unlock # 0 => t.unlock = p.unlock
<1> DEFINE t == TimelockStarted(p)
           made == p.expiry - Expiry
<1>1. SecsPerLedger \in Nat /\ Delay \in Nat /\ Expiry \in Nat /\ p.expiry \in Nat
  BY MultisigAssumption, ProposalFields
<1>2. made \in Nat /\ made <= seq
  BY <1>1 DEF Timed
<1>3. made * SecsPerLedger <= now /\ now \in Nat /\ made * SecsPerLedger \in Nat
  <2> HIDE DEF made
  <2> QED
    BY <1>1, <1>2, TimesMonotone
<1>4. CASE p.unlock = 0 /\ Ready(p)
  <2>1. t = [p EXCEPT !.unlock = now + Delay]
    BY <1>4 DEF TimelockStarted
  <2>2. now + Delay \in Nat
    BY <1>1, <1>3
  <2>3. /\ t \in Proposal /\ t.approvals = p.approvals /\ t.executed = p.executed
        /\ t.cancelled = p.cancelled /\ t.grant = p.grant /\ t.expiry = p.expiry
        /\ t.unlock = now + Delay
    BY <2>1, <2>2 DEF Proposal
  <2> HIDE DEF t
  <2>4. now + Delay >= made * SecsPerLedger + Delay
    <3> HIDE DEF made
    <3> QED
      BY <1>1, <1>3
  <2>5. Timed(t, seq)
    BY <1>2, <2>3, <2>4 DEF Timed
  <2> QED
    BY <1>4, <2>3, <2>5 DEF t
<1>5. CASE ~(p.unlock = 0 /\ Ready(p))
  BY <1>5 DEF TimelockStarted
<1> QED
  BY <1>4, <1>5

----------------------------------------------------------------------------
(* The proposals *)

Exec == {i \in DOMAIN props : props[i].executed}

\* The body of ProposalsMoveForward
Forward ==
    \A i \in DOMAIN props :
        /\ Settled(props[i]) => props'[i].approvals = props[i].approvals
        /\ props[i].executed => props'[i] = props[i]
        /\ props[i].unlock # 0 => props'[i].unlock = props[i].unlock

\* ClocksRun, proposal by proposal.
LEMMA ClocksAre ==
    ClocksRun <=> now = seq * SecsPerLedger /\ \A i \in DOMAIN props : Timed(props[i], seq)
BY DEF ClocksRun, Timed

\* The executed proposals are finitely many.
LEMMA ExecFinite ==
    ASSUME TypeOK
    PROVE  IsFiniteSet(Exec) /\ Cardinality(Exec) \in Nat
<1>1. DOMAIN props = 1..Len(props) /\ Len(props) \in Nat
  BY DEF TypeOK
<1>2. IsFiniteSet(DOMAIN props)
  BY <1>1, FS_Interval
<1>3. Exec \subseteq DOMAIN props
  BY DEF Exec
<1> QED
  BY <1>2, <1>3, FS_Subset, FS_CardinalityType

\* The sum of what was done, as OneShot counts it
Effects == done.upgrades + done.grants + done.marks

\* OneShot, in these terms.
LEMMA OneShotIs == OneShot <=> Effects = Cardinality(Exec)
BY DEF OneShot, Effects, Exec

\* The first three parts of the invariant say nothing of who did what
Base == TypeOK /\ OneShot /\ ClocksRun

\* A new proposal, not executed, with its clock in order.
LEMMA Appended ==
    ASSUME Base, NEW q \in Proposal, ~q.executed, Timed(q, seq),
           props' = Append(props, q),
           UNCHANGED <<rbacVars, threshold, clockVars, done>>
    PROVE  Base' /\ Forward
<1>1. props \in Seq(Proposal) /\ seq' = seq /\ now' = now /\ done' = done
  BY DEF Base, TypeOK, clockVars
<1>2. /\ props' \in Seq(Proposal)
      /\ DOMAIN props \subseteq DOMAIN props'
      /\ \A i \in DOMAIN props : props'[i] = props[i]
      /\ \A i \in DOMAIN props' : i \notin DOMAIN props => props'[i] = q
  BY <1>1
<1>3. TypeOK'
  BY <1>2 DEF Base, TypeOK, RbacTypeOK, rbacVars, clockVars
<1>4. Exec' = Exec
  BY <1>2 DEF Exec
<1>5. OneShot'
  BY <1>1, <1>4, OneShotIs DEF Base, OneShot, Exec
<1>6. ClocksRun'
  <2>1. \A i \in DOMAIN props' : Timed(props'[i], seq)
    BY <1>2, ClocksAre DEF Base
  <2> QED
    BY <1>1, <2>1, ClocksAre DEF Base, ClocksRun, Timed
<1>7. Forward
  BY <1>2 DEF Forward
<1> QED
  BY <1>3, <1>5, <1>6, <1>7 DEF Base

\* A change of one proposal that executes nothing.
LEMMA Changed ==
    ASSUME Base, NEW i \in DOMAIN props, NEW q \in Proposal, Timed(q, seq),
           ~props[i].executed, ~q.executed,
           Settled(props[i]) => q.approvals = props[i].approvals,
           props[i].unlock # 0 => q.unlock = props[i].unlock,
           props' = [props EXCEPT ![i] = q],
           UNCHANGED <<rbacVars, threshold, clockVars, done>>
    PROVE  Base' /\ Forward
<1>1. props \in Seq(Proposal) /\ seq' = seq /\ now' = now /\ done' = done
  BY DEF Base, TypeOK, clockVars
<1>2. /\ props' \in Seq(Proposal)
      /\ DOMAIN props' = DOMAIN props
      /\ \A j \in DOMAIN props : j # i => props'[j] = props[j]
      /\ props'[i] = q
  BY <1>1
<1>3. TypeOK'
  BY <1>2 DEF Base, TypeOK, RbacTypeOK, rbacVars, clockVars
<1>4. Exec' = Exec
  BY <1>2 DEF Exec
<1>5. OneShot'
  BY <1>1, <1>4, OneShotIs DEF Base, OneShot, Exec
<1>6. ClocksRun'
  <2>1. \A j \in DOMAIN props' : Timed(props'[j], seq)
    BY <1>2, ClocksAre DEF Base
  <2> QED
    BY <1>1, <2>1, ClocksAre DEF Base, ClocksRun, Timed
<1>7. Forward
  BY <1>2 DEF Forward
<1> QED
  BY <1>3, <1>5, <1>6, <1>7 DEF Base

\* The proposals after those in S were executed
Consumed(S) == [i \in DOMAIN props |-> IF i \in S THEN [props[i] EXCEPT !.executed = TRUE]
                                                  ELSE props[i]]

\* An execution of the proposals in S, none of which was executed, that counts
\* one effect for each.
LEMMA Consumes ==
    ASSUME Base, NEW S \in SUBSET DOMAIN props, \A i \in S : ~props[i].executed,
           props' = Consumed(S), RbacTypeOK',
           done' \in Done, IsFiniteSet(S), Effects' = Effects + Cardinality(S),
           threshold' = threshold, UNCHANGED clockVars
    PROVE  Base' /\ Forward
<1>1. /\ props \in Seq(Proposal) /\ seq' = seq /\ now' = now
      /\ \A i \in DOMAIN props : props[i] \in Proposal
      /\ DOMAIN props = 1..Len(props) /\ Len(props) \in Nat
  BY DEF Base, TypeOK, clockVars
<1>2. ASSUME NEW i \in DOMAIN props
      PROVE  LET p == [props[i] EXCEPT !.executed = TRUE]
             IN  /\ p \in Proposal /\ p.executed /\ p.approvals = props[i].approvals
                 /\ p.unlock = props[i].unlock /\ p.expiry = props[i].expiry
  BY <1>1 DEF Proposal
<1>3. /\ DOMAIN props' = DOMAIN props
      /\ \A i \in DOMAIN props :
            /\ props'[i] \in Proposal /\ props'[i].approvals = props[i].approvals
            /\ props'[i].unlock = props[i].unlock /\ props'[i].expiry = props[i].expiry
            /\ props'[i].executed = (i \in S \/ props[i].executed)
            /\ i \notin S => props'[i] = props[i]
  <2>1. DOMAIN props' = DOMAIN props
    BY DEF Consumed
  <2>2. ASSUME NEW i \in DOMAIN props
        PROVE  /\ props'[i] \in Proposal /\ props'[i].approvals = props[i].approvals
               /\ props'[i].unlock = props[i].unlock /\ props'[i].expiry = props[i].expiry
               /\ props'[i].executed = (i \in S \/ props[i].executed)
               /\ i \notin S => props'[i] = props[i]
    <3> DEFINE p == [props[i] EXCEPT !.executed = TRUE]
    <3>1. /\ p \in Proposal /\ p.executed /\ p.approvals = props[i].approvals
          /\ p.unlock = props[i].unlock /\ p.expiry = props[i].expiry
      BY <1>2
    <3>2. /\ i \in S => props'[i] = p
          /\ i \notin S => props'[i] = props[i]
      BY DEF Consumed
    <3>3. props[i] \in Proposal /\ props[i].executed \in BOOLEAN /\ p.executed \in BOOLEAN
      BY <1>1, <3>1, ProposalFields
    <3> HIDE DEF p
    <3>4. CASE i \in S
      BY <3>1, <3>2, <3>3, <3>4
    <3>5. CASE i \notin S
      BY <3>2, <3>3, <3>5
    <3> QED
      BY <3>4, <3>5
  <2> QED
    BY <2>1, <2>2
<1>4. props' \in Seq(Proposal)
  <2> DEFINE f == Consumed(S)
  <2>1. f \in [1..Len(props) -> Proposal]
    BY <1>1, <1>3 DEF Consumed
  <2> HIDE DEF f
  <2>2. f \in Seq(Proposal)
    BY <1>1, <2>1
  <2> QED
    BY <2>2 DEF f
<1>5. TypeOK'
  BY <1>4 DEF Base, TypeOK, clockVars
<1>6. Exec' = Exec \cup S
  BY <1>3 DEF Exec
<1>7. OneShot'
  <2>1. IsFiniteSet(Exec) /\ Cardinality(Exec) \in Nat
    BY ExecFinite DEF Base
  <2>2. Exec \cap S = {}
    BY DEF Exec
  <2>3. Cardinality(Exec \cup S) = Cardinality(Exec) + Cardinality(S)
    <3>1. Cardinality(Exec \cup S) = Cardinality(Exec) + Cardinality(S) - Cardinality(Exec \cap S)
      BY <2>1, FS_Union
    <3>2. Cardinality(Exec \cap S) = 0 /\ Cardinality(S) \in Nat
      BY <2>2, FS_EmptySet, FS_CardinalityType
    <3> QED
      BY <2>1, <3>1, <3>2
  <2>4. Effects = Cardinality(Exec)
    BY OneShotIs DEF Base
  <2>5. Effects' = Cardinality(Exec')
    BY <1>6, <2>3, <2>4
  <2> QED
    BY <2>5 DEF OneShot, Effects, Exec
<1>8. ClocksRun'
  <2>1. ASSUME NEW i \in DOMAIN props'
        PROVE  Timed(props'[i], seq)
    BY <1>3, ClocksAre DEF Base, Timed
  <2> QED
    BY <1>1, <2>1, ClocksAre DEF Base, ClocksRun, Timed
<1>9. Forward
  BY <1>3 DEF Forward
<1> QED
  BY <1>5, <1>7, <1>8, <1>9 DEF Base

----------------------------------------------------------------------------
(* The steps *)

\* What a step may do to the roles: keep them and the admin, name the first admin,
\* or grant what an executed proposal names
RolesStep ==
    \/ UNCHANGED <<admin, roles>>
    \/ /\ admin = NoAdmin /\ admin' \in Addr
       /\ roles' = [roles EXCEPT ![admin'] = @ \cup {"Admin"}]
    \/ /\ admin' = admin
       /\ \E i \in DOMAIN props :
             LET g == props[i].grant
             IN  /\ g \in Grant /\ props'[i].executed /\ props'[i].grant = g
                 /\ roles' = [roles EXCEPT ![g.target] = @ \cup {g.role}]

\* Roles still come from proposals when executed proposals are kept.
LEMMA GrantsKept ==
    ASSUME TypeOK, GrantsComeFromProposals, Forward, RolesStep,
           DOMAIN props \subseteq DOMAIN props'
    PROVE  GrantsComeFromProposals'
<1>1. ASSUME NEW a \in Addr, NEW r \in roles[a], admin' = admin \/ admin = NoAdmin
      PROVE  \/ a = admin' /\ r = "Admin"
             \/ \E i \in DOMAIN props' :
                   props'[i].executed /\ props'[i].grant = [role |-> r, target |-> a]
  <2>1. CASE a = admin /\ r = "Admin"
    BY <1>1, <2>1, RbacAssumption
  <2>2. CASE \E i \in DOMAIN props :
                props[i].executed /\ props[i].grant = [role |-> r, target |-> a]
    BY <2>2 DEF Forward
  <2> QED
    BY <2>1, <2>2 DEF GrantsComeFromProposals
<1>2. roles \in [Addr -> SUBSET Role]
  BY DEF TypeOK, RbacTypeOK
<1>3. CASE UNCHANGED <<admin, roles>>
  BY <1>1, <1>3 DEF GrantsComeFromProposals
<1>4. CASE /\ admin = NoAdmin /\ admin' \in Addr
           /\ roles' = [roles EXCEPT ![admin'] = @ \cup {"Admin"}]
  <2>1. ASSUME NEW a \in Addr, NEW r \in roles'[a]
        PROVE  r \in roles[a] \/ (a = admin' /\ r = "Admin")
    BY <1>2, <1>4, <2>1
  <2> QED
    BY <1>1, <1>4, <2>1 DEF GrantsComeFromProposals
<1>5. ASSUME admin' = admin, NEW i \in DOMAIN props, props[i].grant \in Grant,
             props'[i].executed, props'[i].grant = props[i].grant,
             roles' = [roles EXCEPT ![props[i].grant.target] = @ \cup {props[i].grant.role}]
      PROVE  GrantsComeFromProposals'
  <2> DEFINE g == props[i].grant
  <2>1. g.target \in Addr /\ g = [role |-> g.role, target |-> g.target]
    BY <1>5 DEF Grant
  <2>2. ASSUME NEW a \in Addr, NEW r \in roles'[a]
        PROVE  r \in roles[a] \/ (a = g.target /\ r = g.role)
    BY <1>2, <1>5, <2>1, <2>2
  <2>3. ASSUME NEW a \in Addr, a = g.target
        PROVE  \E j \in DOMAIN props' :
                   props'[j].executed /\ props'[j].grant = [role |-> g.role, target |-> a]
    <3>1. i \in DOMAIN props'
      BY <1>5
    <3> QED
      BY <1>5, <2>1, <2>3, <3>1
  <2> HIDE DEF g
  <2> QED
    BY <1>1, <1>5, <2>2, <2>3 DEF GrantsComeFromProposals
<1> QED
  BY <1>3, <1>4, <1>5 DEF RolesStep

\* create_proposal and create_role_proposal.
LEMMA CreateStep ==
    ASSUME Base, NEW c \in Addr, NEW g \in Grant \cup {NoGrant}, Create(c, g)
    PROVE  Base' /\ Forward /\ RolesStep /\ DOMAIN props \subseteq DOMAIN props'
<1> DEFINE p == [creator |-> c, approvals |-> {c}, executed |-> FALSE,
                 cancelled |-> FALSE, expiry |-> seq + Expiry, unlock |-> 0, grant |-> g]
           q == TimelockStarted(p)
<1>1. /\ seq \in Nat /\ Expiry \in Nat /\ props \in Seq(Proposal)
      /\ now = seq * SecsPerLedger
  BY MultisigAssumption, ClocksAre DEF Base, TypeOK
<1>2. p \in Proposal /\ p.executed = FALSE /\ p.expiry = seq + Expiry /\ p.unlock = 0
  BY <1>1 DEF Proposal
<1> HIDE DEF p
<1>3. Timed(p, seq)
  BY <1>1, <1>2 DEF Timed
<1>4. q \in Proposal /\ Timed(q, seq) /\ q.executed = p.executed
  BY <1>1, <1>2, <1>3, StartFacts
<1>5. props' = Append(props, q) /\ UNCHANGED <<rbacVars, threshold, clockVars, done>>
  BY DEF Create, p
<1> HIDE DEF q
<1>6. Base' /\ Forward
  BY <1>2, <1>4, <1>5, Appended
<1>7. DOMAIN props \subseteq DOMAIN props'
  BY <1>1, <1>5
<1> QED
  BY <1>5, <1>6, <1>7 DEF RolesStep, rbacVars

\* approve_proposal.
LEMMA ApproveStep ==
    ASSUME Base, NEW a \in Addr, NEW i \in DOMAIN props, Approve(a, i)
    PROVE  Base' /\ Forward /\ RolesStep /\ DOMAIN props \subseteq DOMAIN props'
<1> DEFINE o == props[i]
           p == [o EXCEPT !.approvals = @ \cup {a}]
           q == TimelockStarted(p)
<1>1. /\ seq \in Nat /\ props \in Seq(Proposal) /\ o \in Proposal
      /\ now = seq * SecsPerLedger /\ Timed(o, seq)
  BY ClocksAre DEF Base, TypeOK
<1>2. ~o.executed /\ ~Settled(o)
  BY DEF Approve, Settled
<1>3. /\ p \in Proposal /\ p.executed = o.executed /\ p.expiry = o.expiry
      /\ p.unlock = o.unlock
  BY <1>1 DEF Proposal
<1>4. props' = [props EXCEPT ![i] = q] /\ UNCHANGED <<rbacVars, threshold, clockVars, done>>
  BY <1>1 DEF Approve
<1> HIDE DEF p
<1>5. Timed(p, seq)
  BY <1>1, <1>3 DEF Timed
<1>6. /\ q \in Proposal /\ Timed(q, seq) /\ q.executed = p.executed
      /\ p.unlock # 0 => q.unlock = p.unlock
  BY <1>1, <1>3, <1>5, StartFacts
<1> HIDE DEF q
<1>7. Base' /\ Forward
  BY <1>2, <1>3, <1>4, <1>6, Changed
<1>8. DOMAIN props \subseteq DOMAIN props'
  BY <1>1, <1>4
<1> QED
  BY <1>4, <1>7, <1>8 DEF RolesStep, rbacVars

\* cancel_legacy_proposal.
LEMMA CancelStep ==
    ASSUME Base, NEW a \in Addr, NEW i \in DOMAIN props, CancelLegacy(a, i)
    PROVE  Base' /\ Forward /\ RolesStep /\ DOMAIN props \subseteq DOMAIN props'
<1> DEFINE o == props[i]
           q == [o EXCEPT !.cancelled = TRUE, !.grant = NoGrant]
<1>1. props \in Seq(Proposal) /\ o \in Proposal /\ Timed(o, seq)
  BY ClocksAre DEF Base, TypeOK
<1>2. ~o.executed /\ ~Settled(o)
  BY DEF CancelLegacy, Settled
<1>3. /\ q \in Proposal /\ q.executed = o.executed /\ q.expiry = o.expiry
      /\ q.unlock = o.unlock
  BY <1>1 DEF Proposal
<1>4. props' = [props EXCEPT ![i] = q] /\ UNCHANGED <<rbacVars, threshold, clockVars, done>>
  <2>1. UNCHANGED <<rbacVars, threshold, clockVars, done>>
    BY DEF CancelLegacy
  <2>2. props' = [props EXCEPT ![i] = q]
    BY <1>1 DEF CancelLegacy
  <2> QED
    BY <2>1, <2>2
<1> HIDE DEF q
<1>5. Timed(q, seq)
  BY <1>1, <1>3 DEF Timed
<1>6. Base' /\ Forward
  BY <1>2, <1>3, <1>4, <1>5, Changed
<1>7. DOMAIN props \subseteq DOMAIN props'
  BY <1>1, <1>4
<1> QED
  BY <1>4, <1>6, <1>7 DEF RolesStep, rbacVars

\* An execution of one proposal consumes it alone.
LEMMA ExecutesOne ==
    ASSUME Base, NEW i \in DOMAIN props, ~props[i].executed, props' = Executed(i),
           RbacTypeOK', done' \in Done, Effects' = Effects + 1,
           threshold' = threshold, UNCHANGED clockVars
    PROVE  /\ Base' /\ Forward /\ DOMAIN props \subseteq DOMAIN props'
           /\ props'[i].executed /\ props'[i].grant = props[i].grant
<1>1. props \in Seq(Proposal) /\ props[i] \in Proposal
  BY DEF Base, TypeOK
<1>2. props' = Consumed({i})
  BY <1>1 DEF Executed, Consumed
<1>3. {i} \in SUBSET DOMAIN props /\ \A j \in {i} : ~props[j].executed
  OBVIOUS
<1>4. IsFiniteSet({i}) /\ Cardinality({i}) = 1
  BY FS_Singleton
<1>5. Effects' = Effects + Cardinality({i})
  BY <1>4
<1>6. Base' /\ Forward
  BY <1>2, <1>3, <1>4, <1>5, Consumes
<1>7. /\ DOMAIN props \subseteq DOMAIN props'
      /\ props'[i].executed /\ props'[i].grant = props[i].grant
  BY <1>1 DEF Executed, Proposal
<1> QED
  BY <1>6, <1>7

\* mark_executed, execute_role_proposal, execute_upgrade and
\* emergency_execute_upgrade.
LEMMA ExecuteSteps ==
    ASSUME Base, NEW e \in Addr, NEW i \in DOMAIN props,
           \/ MarkExecuted(i) \/ ExecuteRole(e, i)
           \/ ExecuteUpgrade(e, i) \/ EmergencyExecute(e, i)
    PROVE  Base' /\ Forward /\ RolesStep /\ DOMAIN props \subseteq DOMAIN props'
<1>1. /\ done \in Done /\ props \in Seq(Proposal) /\ props[i] \in Proposal /\ RbacTypeOK
      /\ props[i].grant \in Grant \cup {NoGrant}
  BY ProposalFields DEF Base, TypeOK
<1>2. ASSUME done' = [done EXCEPT !.marks = @ + 1] \/ done' = [done EXCEPT !.grants = @ + 1]
             \/ done' = [done EXCEPT !.upgrades = @ + 1]
      PROVE  done' \in Done /\ Effects' = Effects + 1
  <2>1. done.marks \in Nat /\ done.grants \in Nat /\ done.upgrades \in Nat
    BY <1>1 DEF Done
  <2>2. done' \in Done
    BY <1>1, <1>2, <2>1 DEF Done
  <2>3. CASE done' = [done EXCEPT !.marks = @ + 1]
    <3>1. /\ done'.marks = done.marks + 1 /\ done'.grants = done.grants
          /\ done'.upgrades = done.upgrades
      BY <1>1, <2>3 DEF Done
    <3> QED
      BY <2>1, <2>2, <3>1 DEF Effects
  <2>4. CASE done' = [done EXCEPT !.grants = @ + 1]
    <3>1. /\ done'.marks = done.marks /\ done'.grants = done.grants + 1
          /\ done'.upgrades = done.upgrades
      BY <1>1, <2>4 DEF Done
    <3> QED
      BY <2>1, <2>2, <3>1 DEF Effects
  <2>5. CASE done' = [done EXCEPT !.upgrades = @ + 1]
    <3>1. /\ done'.marks = done.marks /\ done'.grants = done.grants
          /\ done'.upgrades = done.upgrades + 1
      BY <1>1, <2>5 DEF Done
    <3> QED
      BY <2>1, <2>2, <3>1 DEF Effects
  <2> QED
    BY <1>2, <2>3, <2>4, <2>5
<1>3. ASSUME MarkExecuted(i) \/ ExecuteUpgrade(e, i) \/ EmergencyExecute(e, i)
      PROVE  Base' /\ Forward /\ RolesStep /\ DOMAIN props \subseteq DOMAIN props'
  <2>1. /\ ~props[i].executed /\ props' = Executed(i)
        /\ UNCHANGED rbacVars /\ threshold' = threshold /\ UNCHANGED clockVars
        /\ done' = [done EXCEPT !.marks = @ + 1] \/ done' = [done EXCEPT !.upgrades = @ + 1]
    BY <1>3 DEF MarkExecuted, ExecuteUpgrade, EmergencyExecute, MayExecute, Settled
  <2>2. done' \in Done /\ Effects' = Effects + 1
    BY <1>2, <2>1
  <2>3. RbacTypeOK'
    BY <1>1, <2>1 DEF RbacTypeOK, rbacVars
  <2>4. Base' /\ Forward /\ DOMAIN props \subseteq DOMAIN props'
    BY <2>1, <2>2, <2>3, ExecutesOne
  <2> QED
    BY <2>1, <2>4 DEF RolesStep, rbacVars
<1>4. ASSUME ExecuteRole(e, i)
      PROVE  Base' /\ Forward /\ RolesStep /\ DOMAIN props \subseteq DOMAIN props'
  <2> DEFINE g == props[i].grant
  <2>1. /\ ~props[i].executed /\ props' = Executed(i) /\ g # NoGrant
        /\ GrantRole(e, g.role, g.target) /\ threshold' = threshold /\ UNCHANGED clockVars
        /\ done' = [done EXCEPT !.grants = @ + 1]
    BY <1>4 DEF ExecuteRole, MayExecute, Settled
  <2>2. g \in Grant
    BY <1>1, <2>1
  <2>3. g.role \in Role /\ g.target \in Addr
    BY <2>2, RbacAssumption DEF Grant
  <2>4. done' \in Done /\ Effects' = Effects + 1
    BY <1>2, <2>1
  <2>5. RbacTypeOK'
    BY <1>1, <2>1, <2>3 DEF RbacTypeOK, GrantRole
  <2>6. /\ Base' /\ Forward /\ DOMAIN props \subseteq DOMAIN props'
        /\ props'[i].executed /\ props'[i].grant = props[i].grant
    BY <2>1, <2>4, <2>5, ExecutesOne
  <2>7. admin' = admin /\ roles' = [roles EXCEPT ![g.target] = @ \cup {g.role}]
    BY <2>1 DEF GrantRole
  <2>8. RolesStep
    BY <2>2, <2>6, <2>7 DEF RolesStep
  <2> QED
    BY <2>6, <2>8
<1> QED
  BY <1>3, <1>4

\* execute_upgrade_batch consumes two proposals and installs twice.
LEMMA BatchStep ==
    ASSUME Base, NEW e \in Addr, NEW i \in DOMAIN props, NEW j \in DOMAIN props,
           ExecuteUpgradeBatch(e, i, j)
    PROVE  Base' /\ Forward /\ RolesStep /\ DOMAIN props \subseteq DOMAIN props'
<1>1. /\ done \in Done /\ props \in Seq(Proposal) /\ RbacTypeOK
      /\ props[i] \in Proposal /\ props[j] \in Proposal
  BY DEF Base, TypeOK
<1>2. /\ i # j /\ ~props[i].executed /\ ~props[j].executed
      /\ props' = [props EXCEPT ![i].executed = TRUE, ![j].executed = TRUE]
      /\ done' = [done EXCEPT !.upgrades = @ + 2]
      /\ UNCHANGED rbacVars /\ threshold' = threshold /\ UNCHANGED clockVars
  BY DEF ExecuteUpgradeBatch, MayExecute, Settled
<1>3. props' = Consumed({i, j})
  BY <1>1, <1>2 DEF Consumed
<1>4. IsFiniteSet({i, j}) /\ Cardinality({i, j}) = 2
  <2>1. IsFiniteSet({i}) /\ Cardinality({i}) = 1
    BY FS_Singleton
  <2>2. IsFiniteSet({i} \cup {j}) /\ Cardinality({i} \cup {j}) = Cardinality({i}) + 1
    BY <1>2, <2>1, FS_AddElement
  <2>3. {i, j} = {i} \cup {j}
    OBVIOUS
  <2> QED
    BY <2>1, <2>2, <2>3
<1>5. done' \in Done /\ Effects' = Effects + Cardinality({i, j})
  <2>1. done.marks \in Nat /\ done.grants \in Nat /\ done.upgrades \in Nat
    BY <1>1 DEF Done
  <2>2. /\ done' \in Done /\ done'.marks = done.marks /\ done'.grants = done.grants
        /\ done'.upgrades = done.upgrades + 2
    BY <1>1, <1>2, <2>1 DEF Done
  <2>3. Effects' = Effects + 2
    BY <2>1, <2>2 DEF Effects
  <2> QED
    BY <1>4, <2>2, <2>3
<1>6. RbacTypeOK'
  BY <1>1, <1>2 DEF RbacTypeOK, rbacVars
<1>7. {i, j} \in SUBSET DOMAIN props /\ \A k \in {i, j} : ~props[k].executed
  BY <1>2
<1>8. Base' /\ Forward
  BY <1>2, <1>3, <1>4, <1>5, <1>6, <1>7, Consumes
<1>9. DOMAIN props \subseteq DOMAIN props'
  BY <1>3 DEF Consumed
<1> QED
  BY <1>2, <1>8, <1>9 DEF RolesStep, rbacVars

\* The steps that leave the proposals alone: initialize, set_admin_pool and the
\* passing of time.
LEMMA OtherSteps ==
    ASSUME Base,
           \/ \E a \in Founders : Initialize(a)
           \/ \E p \in Pools : SetAdminPool(p[1], p[2])
           \/ CloseLedger
           \/ UNCHANGED vars
    PROVE  Base' /\ Forward /\ RolesStep /\ DOMAIN props \subseteq DOMAIN props'
<1>1. TypeOK /\ OneShot /\ ClocksRun /\ RbacTypeOK
  BY DEF Base, TypeOK
<1>2. props' = props /\ done' = done
  BY DEF Initialize, SetAdminPool, CloseLedger, vars
<1>3. Forward /\ DOMAIN props \subseteq DOMAIN props' /\ OneShot'
  BY <1>1, <1>2 DEF Forward, OneShot
<1>4. ASSUME NEW a \in Founders, Initialize(a)
      PROVE  TypeOK' /\ ClocksRun' /\ RolesStep
  <2>1. a \in Addr /\ admin = NoAdmin /\ SetAdmin(a)
    BY <1>4, MultisigAssumption DEF Initialize, HasAdmin
  <2>2. RbacTypeOK'
    BY <1>1, <2>1 DEF RbacTypeOK, SetAdmin, Role
  <2>3. TypeOK' /\ ClocksRun'
    BY <1>1, <1>4, <2>2 DEF TypeOK, ClocksRun, Initialize, clockVars
  <2>4. admin' = a /\ roles' = [roles EXCEPT ![a] = @ \cup {"Admin"}]
    <3>1. roles = [x \in Addr |-> IF x = admin THEN roles[x] \ {"Admin"} ELSE roles[x]]
      BY <1>1, <2>1, RbacAssumption DEF RbacTypeOK
    <3> QED
      BY <2>1, <3>1 DEF SetAdmin
  <2> QED
    BY <2>1, <2>3, <2>4 DEF RolesStep
<1>5. ASSUME NEW p \in Pools, SetAdminPool(p[1], p[2])
      PROVE  TypeOK' /\ ClocksRun' /\ RolesStep
  <2>1. p[1] \in Seq(Addr) /\ p[2] \in Nat
    BY MultisigAssumption
  <2> QED
    BY <1>1, <1>5, <2>1
       DEF SetAdminPool, TypeOK, RbacTypeOK, ClocksRun, RolesStep, clockVars
<1>6. ASSUME CloseLedger
      PROVE  TypeOK' /\ ClocksRun' /\ RolesStep
  <2>1. /\ seq \in Nat /\ seq' = seq + 1 /\ now' = now + SecsPerLedger /\ now \in Nat
        /\ SecsPerLedger \in Nat /\ props' = props
    BY <1>1, <1>6, MultisigAssumption DEF CloseLedger, TypeOK
  <2>2. TypeOK'
    BY <1>1, <1>6, <2>1 DEF TypeOK, RbacTypeOK, CloseLedger, rbacVars
  <2>3. now' = seq' * SecsPerLedger
    BY <1>1, <2>1 DEF ClocksRun
  <2>4. ASSUME NEW i \in DOMAIN props
        PROVE  Timed(props[i], seq + 1)
    <3>1. Timed(props[i], seq)
      BY <1>1, ClocksAre
    <3> QED
      BY <2>1, <3>1 DEF Timed
  <2>5. ClocksRun'
    BY <2>1, <2>3, <2>4 DEF ClocksRun, Timed
  <2> QED
    BY <1>6, <2>2, <2>5 DEF RolesStep, CloseLedger, rbacVars
<1>7. ASSUME UNCHANGED vars
      PROVE  TypeOK' /\ ClocksRun' /\ RolesStep
  BY <1>1, <1>7
     DEF vars, rbacVars, clockVars, TypeOK, RbacTypeOK, ClocksRun, RolesStep
<1>8. TypeOK' /\ ClocksRun' /\ RolesStep
  BY <1>4, <1>5, <1>6, <1>7
<1> QED
  BY <1>3, <1>8 DEF Base

\* Every step keeps the invariant and moves proposals forward.
LEMMA NextStep ==
    ASSUME ExecutedAsProposed, [Next]_vars
    PROVE  ExecutedAsProposed' /\ Forward
<1>1. Base /\ TypeOK /\ GrantsComeFromProposals
  BY DEF ExecutedAsProposed, Base
<1> DEFINE Good == Base' /\ Forward /\ RolesStep /\ DOMAIN props \subseteq DOMAIN props'
<1>2. ASSUME \/ \E a \in Founders : Initialize(a)
             \/ \E p \in Pools : SetAdminPool(p[1], p[2])
             \/ CloseLedger
             \/ UNCHANGED vars
      PROVE  Good
  BY <1>1, <1>2, OtherSteps
<1>3. ASSUME NEW a \in Addr, Create(a, NoGrant) PROVE Good
  BY <1>1, <1>3, CreateStep
<1>4. ASSUME NEW c \in Addr, NEW a \in Grantees, NEW r \in RolesInPlay, CreateRole(c, r, a)
      PROVE  Good
  <2>1. [role |-> r, target |-> a] \in Grant
    BY MultisigAssumption DEF Grant
  <2> QED
    BY <1>1, <1>4, <2>1, CreateStep DEF CreateRole
<1>5. ASSUME NEW a \in Addr, NEW i \in DOMAIN props, OnProposal(a, i) PROVE Good
  BY <1>1, <1>5, ApproveStep, CancelStep, ExecuteSteps DEF OnProposal
<1>6. ASSUME NEW a \in Addr, NEW i \in DOMAIN props, NEW j \in DOMAIN props,
             ExecuteUpgradeBatch(a, i, j)
      PROVE  Good
  BY <1>1, <1>6, BatchStep
<1>7. ASSUME NEW i \in DOMAIN props, MarkExecuted(i) PROVE Good
  <2>1. props[i] \in Proposal
    BY <1>1 DEF TypeOK
  <2>2. PICK e : e \in Addr
    BY <2>1, ProposalFields
  <2> QED
    BY <1>1, <1>7, <2>2, ExecuteSteps
<1>8. Good
  BY <1>2, <1>3, <1>4, <1>5, <1>6, <1>7 DEF Next
<1>9. GrantsComeFromProposals'
  BY <1>1, <1>8, GrantsKept
<1> QED
  BY <1>8, <1>9 DEF ExecutedAsProposed, Base

\* The invariant holds at the start.
LEMMA InitHolds == Init => ExecutedAsProposed
<1> SUFFICES ASSUME Init PROVE ExecutedAsProposed
  OBVIOUS
<1>1. TypeOK
  BY DEF Init, RbacInit, TypeOK, RbacTypeOK, Done
<1>2. Exec = {}
  BY DEF Init, Exec
<1>3. OneShot
  BY <1>2, OneShotIs, FS_EmptySet DEF Init, Effects
<1>4. GrantsComeFromProposals
  BY DEF Init, RbacInit, GrantsComeFromProposals
<1>5. ClocksRun
  BY MultisigAssumption DEF Init, ClocksRun
<1> QED
  BY <1>1, <1>3, <1>4, <1>5 DEF ExecutedAsProposed

\* Whatever path executes a proposal, it takes effect once; no role comes from
\* anywhere but the first admin and executed role proposals; and no timelock runs
\* short (execute_upgrade, execute_upgrade_batch, emergency_execute_upgrade,
\* execute_role_proposal, mark_executed).
THEOREM ProposalsTakeEffectOnce == Spec => []ExecutedAsProposed
<1>1. ExecutedAsProposed /\ [Next]_vars => ExecutedAsProposed'
  BY NextStep
<1> QED
  BY <1>1, InitHolds, PTL DEF Spec

\* A settled proposal collects no approvals, an executed one is final and a
\* timelock that runs is never moved, whatever the pool and its threshold become
\* (approve_proposal, _start_timelock_if_quorate).
THEOREM ProposalsOnlyMoveForward == Spec => ProposalsMoveForward
<1>1. ExecutedAsProposed /\ [Next]_vars =>
         [\A i \in DOMAIN props :
            /\ Settled(props[i]) => props'[i].approvals = props[i].approvals
            /\ props[i].executed => props'[i] = props[i]
            /\ props[i].unlock # 0 => props'[i].unlock = props[i].unlock]_vars
  BY NextStep DEF Forward
<1> QED
  BY <1>1, ProposalsTakeEffectOnce, PTL DEF Spec, ProposalsMoveForward

\* No upgrade is installed before its proposal is Delay old, except with as many
\* approvals as the pool has members (execute_upgrade, execute_upgrade_batch;
\* emergency_execute_upgrade).
THEOREM UpgradesWaitTheirDelay == Spec => UpgradesWait
<1> DEFINE W == \A i \in DOMAIN props :
                  ~props[i].executed /\ props'[i].executed /\ done'.upgrades > done.upgrades =>
                      \/ now >= (props[i].expiry - Expiry) * SecsPerLedger + Delay
                      \/ Cardinality(props[i].approvals) = Len(AdminPool)
<1>1. ExecutedAsProposed /\ [Next]_vars => [W]_vars
  <2> SUFFICES ASSUME ExecutedAsProposed, Next PROVE W
    OBVIOUS
  <2>1. TypeOK /\ ClocksRun /\ done \in Done /\ props \in Seq(Proposal)
    BY DEF ExecutedAsProposed, TypeOK
  <2>2. done.upgrades \in Nat /\ \A i \in DOMAIN props : props[i] \in Proposal
    BY <2>1 DEF Done
  <2>3. SUFFICES ASSUME NEW i \in DOMAIN props, ~props[i].executed, props'[i].executed,
                        done'.upgrades > done.upgrades
                 PROVE  \/ now >= (props[i].expiry - Expiry) * SecsPerLedger + Delay
                        \/ Cardinality(props[i].approvals) = Len(AdminPool)
    OBVIOUS
  <2>4. ASSUME TimelockExpired(props[i])
        PROVE  now >= (props[i].expiry - Expiry) * SecsPerLedger + Delay
    <3> DEFINE m == (props[i].expiry - Expiry) * SecsPerLedger + Delay
    <3>1. props[i].unlock # 0 /\ now >= props[i].unlock /\ now \in Nat
      BY <2>1, <2>4 DEF TimelockExpired, TypeOK
    <3>2. props[i].unlock >= m /\ props[i].unlock \in Nat
      BY <2>1, <2>2, <3>1, ProposalFields DEF ClocksRun
    <3>3. m \in Int
      BY <2>2, ProposalFields, MultisigAssumption
    <3> HIDE DEF m
    <3>4. now >= m
      BY <3>1, <3>2, <3>3
    <3> QED
      BY <3>4 DEF m
  <2>5. done' # done /\ done'.upgrades # done.upgrades
    BY <2>2, <2>3
  <2>6. \/ \E e \in Addr, j \in DOMAIN props : ExecuteUpgrade(e, j) \/ EmergencyExecute(e, j)
        \/ \E e \in Addr, j, k \in DOMAIN props : ExecuteUpgradeBatch(e, j, k)
    <3>1. ASSUME NEW e \in Addr, NEW j \in DOMAIN props, ExecuteRole(e, j) PROVE FALSE
      BY <2>1, <2>5, <3>1 DEF ExecuteRole, Done
    <3>2. ASSUME NEW j \in DOMAIN props, MarkExecuted(j) PROVE FALSE
      BY <2>1, <2>5, <3>2 DEF MarkExecuted, Done
    <3> QED
      BY <2>5, <3>1, <3>2 DEF Next, OnProposal, Initialize, Create, CreateRole, SetAdminPool,
         Approve, CancelLegacy, CloseLedger
  <2>7. ASSUME NEW e \in Addr, NEW j \in DOMAIN props, ExecuteUpgrade(e, j)
        PROVE  TimelockExpired(props[i])
    <3>1. i = j
      BY <2>1, <2>3, <2>7 DEF ExecuteUpgrade, Executed
    <3> QED
      BY <2>7, <3>1 DEF ExecuteUpgrade
  <2>8. ASSUME NEW e \in Addr, NEW j \in DOMAIN props, EmergencyExecute(e, j)
        PROVE  Cardinality(props[i].approvals) = Len(AdminPool)
    <3>1. i = j
      BY <2>1, <2>3, <2>8 DEF EmergencyExecute, Executed
    <3> QED
      BY <2>8, <3>1 DEF EmergencyExecute
  <2>9. ASSUME NEW e \in Addr, NEW j \in DOMAIN props, NEW k \in DOMAIN props,
               ExecuteUpgradeBatch(e, j, k)
        PROVE  TimelockExpired(props[i])
    <3>1. i = j \/ i = k
      BY <2>1, <2>3, <2>9 DEF ExecuteUpgradeBatch
    <3> QED
      BY <2>9, <3>1 DEF ExecuteUpgradeBatch
  <2> QED
    BY <2>4, <2>6, <2>7, <2>8, <2>9
<1> QED
  BY <1>1, ProposalsTakeEffectOnce, PTL DEF Spec, UpgradesWait
=============================================================================
