------------------------------ MODULE Vesting ------------------------------
(***************************************************************************)
(* The vesting contract (contracts/vesting/src/lib.rs): schedules that     *)
(* vest along a line or by milestone tranches, paid from a vault the       *)
(* contract fills by minting, claimed by the beneficiary or a delegate,    *)
(* and revoked by the admin.                                               *)
(*                                                                         *)
(* Schedule ids are positions in the sequence schedules (the code counts   *)
(* from 0); the ids of one beneficiary are those of its schedules.  Each   *)
(* call is one action: the contract's reentrancy guard and the host let no *)
(* other call of the contract in between.  A call whose token transfer or  *)
(* mint fails is undone.                                                   *)
(***************************************************************************)
EXTENDS Integers, Sequences, Functions

CONSTANTS
    Addr,           \* addresses
    NoAdmin,        \* before initialize
    Founders,       \* who may be the admin given to initialize
    Delegations,    \* the <<beneficiary, delegate>> pairs authorize_claimer is called with
    Amounts,        \* the amounts create_vesting is called with
    Cliffs,         \* ... and its cliffs
    Durations,      \* ... and its durations
    MilestoneLists, \* the lists set_milestones is called with
    MaxSchedules,   \* bound on the number of schedules
    MaxSeq          \* bound on the ledger sequence number

Milestone == [unlock : Nat, amount : Int]

ASSUME VestingAssumption ==
    /\ NoAdmin \notin Addr /\ Founders \subseteq Addr /\ Delegations \subseteq Addr \X Addr
    /\ Amounts \subseteq Int /\ Cliffs \subseteq Nat /\ Durations \subseteq Nat
    /\ MilestoneLists \subseteq Seq(Milestone)
    /\ MaxSchedules \in Nat /\ MaxSeq \in Nat

VARIABLES
    admin,      \* the configured admin; DataKey::Token is set with it
    schedules,  \* DataKey::Schedule(id) with DataKey::Milestones(id)
    delegates,  \* DataKey::ClaimDelegates
    vault,      \* the contract's balance at the token
    wallet,     \* what every address has been paid by the contract
    seq         \* the host's ledger sequence number

vars == <<admin, schedules, delegates, vault, wallet, seq>>

Schedule == [beneficiary : Addr,
             total       : Nat,      \* total_amount
             start       : Nat,
             cliff       : Nat,
             end         : Nat,
             released    : Nat,
             revocable   : BOOLEAN,
             revoked     : Nat,      \* revoked_at_ledger; 0 for None
             milestones  : Seq(Milestone),
             returned    : Nat,      \* history: what revoke paid the admin
             reshaped    : BOOLEAN]  \* history: milestones were set after a payout

TypeOK ==
    /\ admin \in Addr \cup {NoAdmin}
    /\ schedules \in Seq(Schedule)
    /\ delegates \in [Addr -> SUBSET Addr]
    /\ vault \in Nat
    /\ wallet \in [Addr -> Nat]
    /\ seq \in Nat

Init ==
    /\ admin = NoAdmin
    /\ schedules = <<>>
    /\ delegates = [a \in Addr |-> {}]
    /\ vault = 0
    /\ wallet = [a \in Addr |-> 0]
    /\ seq = 1

----------------------------------------------------------------------------
(* What is vested *)

Initialized == admin # NoAdmin

Larger(x, y) == IF x > y THEN x ELSE y
Smaller(x, y) == IF x < y THEN x ELSE y

\* Mutant: a revoked schedule goes on vesting
EffectiveIgnoringRevocation(s) == seq

\* The ledger at which vesting stops counting
EffectiveLedger(s) == IF s.revoked # 0 THEN Smaller(s.revoked, seq) ELSE seq

\* linear_vested_amount
Linear(s, l) ==
    CASE l < s.cliff -> 0
      [] l >= s.end  -> s.total
      [] OTHER       -> (s.total * (l - s.start)) \div (s.end - s.start)

Tranches(s, l) ==
    SumFunction([k \in DOMAIN s.milestones |->
                    IF s.milestones[k].unlock <= l THEN s.milestones[k].amount ELSE 0])

\* vested_amount
Vested(s) ==
    LET l == EffectiveLedger(s)
    IN  IF l < s.cliff THEN 0
        ELSE Smaller(s.total, Larger(Linear(s, l), Tranches(s, l)))

Claimable(s) == Vested(s) - s.released

\* Mutant: the page counts from the start, cliff or not
calculateVestedAmountFromStart(s, current) ==
    IF current >= s.end \/ s.end <= s.start THEN s.total
    ELSE (s.total * (current - s.start)) \div (s.end - s.start)

\* What the page shows as vested, computed from get_vesting_info (hooks.ts)
calculateVestedAmount(s, current) ==
    IF current < s.cliff THEN 0
    ELSE IF current >= s.end \/ s.end <= s.start THEN s.total
    ELSE (s.total * (current - s.start)) \div (s.end - s.start)

----------------------------------------------------------------------------
(* The admin's calls *)

Initialize(a) ==
    /\ ~Initialized
    /\ admin' = a
    /\ UNCHANGED <<schedules, delegates, vault, wallet, seq>>

\* create_vesting mints the whole amount into the vault
CreateVesting(b, n, cliff, duration, revocable) ==
    /\ Initialized
    /\ n > 0 /\ duration > 0 /\ cliff <= duration
    /\ Len(schedules) < MaxSchedules
    /\ schedules' = Append(schedules,
            [beneficiary |-> b, total |-> n, start |-> seq, cliff |-> seq + cliff,
             end |-> seq + duration, released |-> 0, revocable |-> revocable,
             revoked |-> 0, milestones |-> <<>>, returned |-> 0, reshaped |-> FALSE])
    /\ vault' = vault + n
    /\ UNCHANGED <<admin, delegates, wallet, seq>>

Revoke(i) ==
    /\ Initialized
    /\ schedules[i].revocable /\ schedules[i].revoked = 0
    /\ LET unvested == schedules[i].total - Vested(schedules[i])
       IN  /\ unvested <= vault
           /\ vault' = vault - unvested
           /\ wallet' = [wallet EXCEPT ![admin] = @ + unvested]
           /\ schedules' = [schedules EXCEPT ![i].revoked = seq, ![i].returned = unvested]
    /\ UNCHANGED <<admin, delegates, seq>>

\* set_milestones replaces the list, whatever was released or revoked before
SetMilestones(i, ms) ==
    /\ Initialized
    /\ \A k \in DOMAIN ms : ms[k].amount > 0
    /\ \A k \in 1 .. Len(ms) - 1 : ms[k].unlock <= ms[k + 1].unlock
    /\ SumFunction([k \in DOMAIN ms |-> ms[k].amount]) <= schedules[i].total
    /\ schedules' = [schedules EXCEPT
            ![i].milestones = ms,
            ![i].reshaped = @ \/ schedules[i].released > 0 \/ schedules[i].revoked # 0]
    /\ UNCHANGED <<admin, delegates, vault, wallet, seq>>

----------------------------------------------------------------------------
(* Claiming *)

\* What the loop of release pays out of schedule i to b
Payout(b, i) ==
    IF schedules[i].beneficiary = b THEN Larger(0, Claimable(schedules[i])) ELSE 0

\* Mutant: the schedules are not written back
PayOutForgetting(b) ==
    LET total == SumFunction([i \in DOMAIN schedules |-> Payout(b, i)])
    IN  /\ total <= vault
        /\ schedules' = schedules
        /\ vault' = vault - total
        /\ wallet' = [wallet EXCEPT ![b] = @ + total]
        /\ UNCHANGED <<admin, delegates, seq>>

\* The loop over b's schedules and the one transfer that follows it
PayOut(b) ==
    LET total == SumFunction([i \in DOMAIN schedules |-> Payout(b, i)])
    IN  /\ total <= vault
        /\ schedules' = [i \in DOMAIN schedules |->
                            [schedules[i] EXCEPT !.released = @ + Payout(b, i)]]
        /\ vault' = vault - total
        /\ wallet' = [wallet EXCEPT ![b] = @ + total]
        /\ UNCHANGED <<admin, delegates, seq>>

Release(b) == Initialized /\ PayOut(b)

\* claim_on_behalf_of fails while any schedule of b is inside its cliff
ClaimOnBehalfOf(c, b) ==
    /\ Initialized
    /\ c = b \/ c \in delegates[b]
    /\ \A i \in DOMAIN schedules :
          schedules[i].beneficiary = b => seq >= schedules[i].cliff
    /\ PayOut(b)

AuthorizeClaimer(b, d, authorize) ==
    /\ Initialized
    /\ delegates' = [delegates EXCEPT ![b] = IF authorize THEN @ \cup {d} ELSE @ \ {d}]
    /\ UNCHANGED <<admin, schedules, vault, wallet, seq>>

----------------------------------------------------------------------------

CloseLedger ==
    /\ seq < MaxSeq
    /\ seq' = seq + 1
    /\ UNCHANGED <<admin, schedules, delegates, vault, wallet>>

Next ==
    \/ \E a \in Founders : Initialize(a)
    \/ \E b \in Addr, n \in Amounts, c \in Cliffs, d \in Durations, r \in BOOLEAN :
          CreateVesting(b, n, c, d, r)
    \/ \E i \in DOMAIN schedules : Revoke(i)
    \/ \E i \in DOMAIN schedules, ms \in MilestoneLists : SetMilestones(i, ms)
    \/ \E b \in Addr : Release(b)
    \/ \E c, b \in Addr : ClaimOnBehalfOf(c, b)
    \/ \E p \in Delegations, yes \in BOOLEAN : AuthorizeClaimer(p[1], p[2], yes)
    \/ CloseLedger

Spec == Init /\ [][Next]_vars

----------------------------------------------------------------------------
(* Properties *)

\* What a schedule still has in the vault
Held(s) == s.total - s.released - s.returned

\* What a schedule has paid to a
PaidTo(a, s) == (IF s.beneficiary = a THEN s.released ELSE 0)
                + (IF admin = a THEN s.returned ELSE 0)

\* Every token the contract minted is in the vault, released by a schedule to
\* its own beneficiary or returned to the admin: a claim made by a delegate pays
\* the beneficiary, a claim over several schedules pays each part once (release,
\* claim_on_behalf_of, revoke).
Accounted ==
    /\ vault = SumFunction([i \in DOMAIN schedules |-> Held(schedules[i])])
    /\ \A a \in Addr :
          wallet[a] = SumFunction([i \in DOMAIN schedules |-> PaidTo(a, schedules[i])])

\* No tranche, however early its unlock ledger, and no claim by anybody takes a
\* token out of a schedule inside its cliff (vested_amount).
CliffHolds ==
    \A i \in DOMAIN schedules : seq < schedules[i].cliff => schedules[i].released = 0

\* Unless its milestones were set after a payout, a schedule pays out no more
\* than its total, and a revocation divides the total for good: what the admin
\* took and what the beneficiary can ever have add up to it (revoke).
RevocationDivides ==
    \A i \in DOMAIN schedules :
        LET s == schedules[i]
        IN  ~s.reshaped =>
               /\ s.released + s.returned <= s.total
               /\ s.revoked # 0 => Vested(s) + s.returned = s.total

\* The page computes by itself what is vested: the contract's amount for a plain
\* schedule, and never more than it while the schedule is not revoked; a
\* revocation and the tranches are not in its sum (calculateVestedAmount).
PageIsBacked ==
    \A i \in DOMAIN schedules :
        LET s == schedules[i]
            shown == calculateVestedAmount(s, seq)
        IN  s.revoked = 0 => /\ shown <= Vested(s)
                             /\ s.milestones = <<>> => shown = Vested(s)

\* vested_amount: the amount is clamped so that a "milestone can accelerate but never
\* over-release".
NeverOverReleases ==
    \A i \in DOMAIN schedules :
        schedules[i].released + schedules[i].returned <= schedules[i].total

\* What every schedule keeps: its ledgers are in order, it was revoked in the
\* past, it returned nothing before that, its tranches are positive, and unless
\* reshaped it has released no more than is vested.
WellFormed(s) ==
    /\ s.start < s.end /\ s.start <= s.cliff
    /\ s.revoked <= seq
    /\ s.revoked = 0 => s.returned = 0
    /\ \A k \in DOMAIN s.milestones : s.milestones[k].amount > 0
    /\ ~s.reshaped => s.released <= Vested(s)

\* Every token of a schedule is in the vault, released or returned, and none is
\* released inside a cliff, whatever claims, delegates, tranches and revocations
\* interleave.  With RevocationDivides this is inductive: what is released is
\* bounded by what is vested only while vesting is monotonic, which rests on
\* the order of a schedule's ledgers and the sign of its tranches.
Consistent ==
    /\ TypeOK /\ Accounted /\ CliffHolds
    /\ seq > 0
    /\ ~Initialized => schedules = <<>>
    /\ \A i \in DOMAIN schedules : WellFormed(schedules[i])
=============================================================================
