------------------------------- MODULE Token -------------------------------
(***************************************************************************)
(* The bc-forge token contract (contracts/token/src/lib.rs): balances,     *)
(* supply and its cap, allowances that expire, admin lockups, the pause    *)
(* switch, and the three calls that apply a list of operations             *)
(* (batch_mint, batch_transfer, execute_from_contract).                    *)
(*                                                                         *)
(* A call is atomic for every observer: the host runs calls one at a time  *)
(* and undoes every write of a call that fails.  A call with one effect is *)
(* one action.  A list call is a sequence of actions - Begin (the checks   *)
(* before the loop), one Item per iteration, then Commit or Abort - so the *)
(* intermediate states the loop really goes through are states of the      *)
(* model, and the rollback is an action that restores what Begin saved.    *)
(*                                                                         *)
(* The rate limiter is abstracted to a nondeterministic refusal: a refused *)
(* single call changes nothing, a refused loop iteration aborts the call.  *)
(***************************************************************************)
EXTENDS Rbac, Integers, FiniteSets, Functions

CONSTANTS
    MaxInt,      \* i128::MAX: arithmetic beyond it panics (overflow-checks = true)
    MaxBatchOps, \* execute_from_contract's limit of operations (8 in the code),
                 \* and the bound on the lists batch_mint and batch_transfer get
    Amounts,     \* the amounts callers pass
    Expirations, \* the expiration ledgers approve is called with; 0 is "never"
    UnlockTimes, \* the unlock timestamps lock_tokens is called with
    Caps,        \* the caps set_max_supply is called with
    Spenders,    \* the addresses that are given allowances
    MaxSeq,      \* bound on the ledger sequence number
    MaxNonce     \* bound on the replay nonces

\* The values of the i128 type, scaled down with MaxInt
I128 == (-MaxInt - 1)..MaxInt

ASSUME TokenAssumption ==
    /\ IsFiniteSet(Addr)
    /\ MaxInt \in Nat
    /\ MaxBatchOps \in Nat
    /\ Amounts \subseteq I128
    /\ Expirations \subseteq Nat
    /\ UnlockTimes \subseteq Nat
    /\ Caps \subseteq I128
    /\ Spenders \subseteq Addr
    /\ MaxSeq \in Nat
    /\ MaxNonce \in Nat

VARIABLES
    balance,   \* DataKey::Balance, 0 when absent
    supply,    \* DataKey::Supply
    maxSupply, \* DataKey::MaxSupply
    allowance, \* DataKey::Allowance: [amount, exp] for <<owner, spender>>
    lockup,    \* DataKey::Lockup: [amount, until]; amount 0 when there is none
    nonce,     \* DataKey::Nonce of execute_from_contract
    paused,    \* LifecycleKey::Paused
    call,      \* the list call being executed: [kind, who, rest]
    saved,     \* what a rollback of that call restores
    seq,       \* the host's ledger sequence number
    now        \* the host's ledger timestamp

ledgerVars == <<balance, supply, allowance, nonce>>
configVars == <<maxSupply, lockup, paused>>
callVars   == <<call, saved>>
clockVars  == <<seq, now>>
vars == <<rbacVars, ledgerVars, configVars, callVars, clockVars>>

----------------------------------------------------------------------------
(* Types *)

Amount == 0..MaxInt
Allowance == [amount : Amount, exp : Nat]
Lockup == [amount : Amount, until : Nat]
Pairs == Addr \X Spenders

\* One element of a list call: a Recipient of batch_mint or batch_transfer,
\* or a BatchOp of execute_from_contract.
Item == [op : {"mint", "transfer"}, to : Addr, amount : Amounts]
        \cup [op : {"approve"}, to : Spenders, amount : Amounts, exp : Expirations]

Snapshot == [balance : [Addr -> Amount], supply : Int,
             allowance : [Pairs -> Allowance], nonce : [Addr -> Nat]]

EmptySnapshot == [balance   |-> [a \in Addr |-> 0], supply |-> 0,
                  allowance |-> [p \in Pairs |-> [amount |-> 0, exp |-> 0]],
                  nonce     |-> [a \in Addr |-> 0]]

NoCall == [kind |-> "none", who |-> NoAdmin, rest |-> <<>>]

TypeOK ==
    /\ RbacTypeOK
    /\ balance \in [Addr -> Amount]
    /\ supply \in Int
    /\ maxSupply \in Amount
    /\ allowance \in [Pairs -> Allowance]
    /\ lockup \in [Addr -> Lockup]
    /\ nonce \in [Addr -> Nat]
    /\ paused \in BOOLEAN
    /\ call \in [kind : {"mint", "transfer", "exec"}, who : Addr, rest : Seq(Item)]
                \cup {NoCall}
    /\ saved \in Snapshot
    /\ seq \in Nat
    /\ now \in Nat

Init ==
    /\ RbacInit
    /\ balance = EmptySnapshot.balance
    /\ supply = 0
    /\ maxSupply = MaxInt
    /\ allowance = EmptySnapshot.allowance
    /\ lockup = [a \in Addr |-> [amount |-> 0, until |-> 0]]
    /\ nonce = EmptySnapshot.nonce
    /\ paused = FALSE
    /\ call = NoCall
    /\ saved = EmptySnapshot
    /\ seq = 1
    /\ now = 1

----------------------------------------------------------------------------
(* Helpers *)

Idle == call = NoCall

\* Mutant: forgets the lock
SpendableIgnoringLock(a) == balance[a]

\* get_spendable_balance: a lock reserves its amount until it is withdrawn
Spendable(a) == balance[a] - lockup[a].amount

\* Mutant: forgets the expiration ledger
AllowanceAmountUnexpired(f, s) == allowance[<<f, s>>].amount

\* allowance_amount: an expired allowance reads as 0
AllowanceAmount(f, s) ==
    IF allowance[<<f, s>>].exp > 0 /\ seq > allowance[<<f, s>>].exp
    THEN 0
    ELSE allowance[<<f, s>>].amount

\* move_balance: a transfer to oneself checks the balance and writes nothing
CanMove(f, t, n) == Spendable(f) >= n /\ (f # t => balance[t] + n <= MaxInt)

\* Mutant: a transfer to oneself writes both balances from stale reads
MovedAliased(f, t, n) ==
    [balance EXCEPT ![f] = balance[f] - n, ![t] = balance[t] + n]

Moved(f, t, n) == IF f = t THEN balance
                  ELSE [balance EXCEPT ![f] = @ - n, ![t] = @ + n]

\* internal_mint
CanMint(t, n) == n > 0 /\ supply + n <= maxSupply /\ balance[t] + n <= MaxInt

\* write_allowance after a spend keeps the expiration
Spent(f, s, n) == [allowance EXCEPT ![<<f, s>>].amount = AllowanceAmount(f, s) - n]

----------------------------------------------------------------------------
(* Calls with one effect *)

\* initialize: authorized by the deployer, once
Initialize(a) ==
    /\ Idle
    /\ ~HasAdmin
    /\ SetAdmin(a)
    /\ supply' = 0
    /\ maxSupply' = MaxInt
    /\ UNCHANGED <<balance, allowance, nonce, lockup, paused, callVars, clockVars>>

Mint(m, t, n) ==
    /\ Idle /\ HasAdmin /\ ~paused
    /\ HasRole("Minter", m)
    /\ CanMint(t, n)
    /\ balance' = [balance EXCEPT ![t] = @ + n]
    /\ supply' = supply + n
    /\ UNCHANGED <<rbacVars, allowance, nonce, configVars, callVars, clockVars>>

SetMaxSupply(c, cap) ==
    /\ Idle /\ HasAdmin
    /\ cap >= 0
    /\ HasRole("Minter", c)
    /\ maxSupply' = cap
    /\ UNCHANGED <<rbacVars, ledgerVars, lockup, paused, callVars, clockVars>>

\* lock_tokens: locks accumulate and the unlock time is only ever extended
LockTokens(c, u, n, t) ==
    /\ Idle /\ HasAdmin
    /\ HasRole("Admin", c)
    /\ n > 0 /\ n <= Spendable(u)
    /\ lockup' = [lockup EXCEPT ![u] =
            [amount |-> @.amount + n,
             until  |-> IF @.amount > 0 /\ @.until > t THEN @.until ELSE t]]
    /\ UNCHANGED <<rbacVars, ledgerVars, maxSupply, paused, callVars, clockVars>>

WithdrawLocked(u) ==
    /\ Idle /\ HasAdmin
    /\ lockup[u].amount > 0
    /\ now >= lockup[u].until
    /\ lockup' = [lockup EXCEPT ![u] = [amount |-> 0, until |-> 0]]
    /\ UNCHANGED <<rbacVars, ledgerVars, maxSupply, paused, callVars, clockVars>>

\* pause and unpause check the raw mask; pause_as and unpause_as go through
\* the lifecycle crate's require_role(Pauser).
MayPause(c) == IsAdminOrPauser(c) \/ HasRole("Pauser", c)

SetPaused(c, p) ==
    /\ Idle /\ HasAdmin
    /\ MayPause(c)
    /\ paused # p
    /\ paused' = p
    /\ UNCHANGED <<rbacVars, ledgerVars, maxSupply, lockup, callVars, clockVars>>

\* approve is not blocked by the pause
Approve(f, s, n, e) ==
    /\ Idle /\ HasAdmin
    /\ n >= 0
    /\ allowance' = [allowance EXCEPT ![<<f, s>>] = [amount |-> n, exp |-> e]]
    /\ UNCHANGED <<rbacVars, balance, supply, nonce, configVars, callVars, clockVars>>

Transfer(f, t, n) ==
    /\ Idle /\ HasAdmin /\ ~paused
    /\ n > 0 /\ CanMove(f, t, n)
    /\ balance' = Moved(f, t, n)
    /\ UNCHANGED <<rbacVars, supply, allowance, nonce, configVars, callVars, clockVars>>

TransferFrom(s, f, t, n) ==
    /\ Idle /\ HasAdmin /\ ~paused
    /\ n > 0 /\ AllowanceAmount(f, s) >= n
    /\ CanMove(f, t, n)
    /\ balance' = Moved(f, t, n)
    /\ allowance' = Spent(f, s, n)
    /\ UNCHANGED <<rbacVars, supply, nonce, configVars, callVars, clockVars>>

\* burn and burn_from subtract the balance and the supply
Destroy(f, n) ==
    /\ n > 0 /\ Spendable(f) >= n
    /\ balance' = [balance EXCEPT ![f] = @ - n]
    /\ supply' = supply - n

Burn(f, n) ==
    /\ Idle /\ HasAdmin /\ ~paused
    /\ Destroy(f, n)
    /\ UNCHANGED <<rbacVars, allowance, nonce, configVars, callVars, clockVars>>

BurnFrom(s, f, n) ==
    /\ Idle /\ HasAdmin /\ ~paused
    /\ AllowanceAmount(f, s) >= n
    /\ Destroy(f, n)
    /\ allowance' = Spent(f, s, n)
    /\ UNCHANGED <<rbacVars, nonce, configVars, callVars, clockVars>>

\* grant_role and revoke_role of the token delegate to the admin crate
GovernRole(c, r, a) ==
    /\ Idle
    /\ GrantRole(c, r, a) \/ RevokeRole(c, r, a)
    /\ UNCHANGED <<ledgerVars, configVars, callVars, clockVars>>

----------------------------------------------------------------------------
(* Calls that apply a list of operations *)

Batches(S) == UNION {[1..n -> S] : n \in 0..MaxBatchOps}
MintItems == [op : {"mint"}, to : Addr, amount : Amounts]
TransferItems == [op : {"transfer"}, to : Addr, amount : Amounts]
ExecItems == {i \in Item : i.op # "mint"}

\* the loop of batch_transfer that adds up the amounts before any transfer
Total(items) == SumFunction([i \in DOMAIN items |-> items[i].amount])

Begin(kind, who, items) ==
    /\ call' = [kind |-> kind, who |-> who, rest |-> items]
    /\ saved' = [balance |-> balance, supply |-> supply,
                 allowance |-> allowance, nonce |-> nonce]
    /\ UNCHANGED <<rbacVars, balance, supply, allowance, configVars, clockVars>>

\* Mutant: forgets ensure_not_paused
BatchMintBeginWhilePaused(m, items) ==
    /\ Idle /\ HasAdmin
    /\ \A i \in DOMAIN items : items[i].amount > 0
    /\ HasRole("Minter", m)
    /\ Begin("mint", m, items)
    /\ nonce' = nonce

BatchMintBegin(m, items) ==
    /\ Idle /\ HasAdmin /\ ~paused
    /\ \A i \in DOMAIN items : items[i].amount > 0
    /\ HasRole("Minter", m)
    /\ Begin("mint", m, items)
    /\ nonce' = nonce

\* Mutant: checks each amount against the balance, not their total
BatchTransferBeginEach(f, items) ==
    /\ Idle /\ HasAdmin /\ ~paused
    /\ \A i \in DOMAIN items : items[i].amount > 0 /\ Spendable(f) >= items[i].amount
    /\ Begin("transfer", f, items)
    /\ nonce' = nonce

BatchTransferBegin(f, items) ==
    /\ Idle /\ HasAdmin /\ ~paused
    /\ \A i \in DOMAIN items : items[i].amount > 0
    /\ Total(items) <= MaxInt
    /\ Spendable(f) >= Total(items)
    /\ Begin("transfer", f, items)
    /\ nonce' = nonce

\* execute_from_contract: the nonce is consumed before the loop
ExecuteBegin(f, items, n, maxLedger) ==
    /\ Idle /\ HasAdmin /\ ~paused
    /\ Len(items) > 0 /\ Len(items) <= MaxBatchOps
    /\ ~(maxLedger > 0 /\ seq > maxLedger)
    /\ n = nonce[f]
    /\ nonce[f] < MaxNonce
    /\ Begin("exec", f, items)
    /\ nonce' = [nonce EXCEPT ![f] = @ + 1]

\* What the loop checks for its next element, the rate limiter apart
ItemOK(i) ==
    CASE i.op = "mint"     -> CanMint(i.to, i.amount)
      [] i.op = "transfer" -> i.amount > 0 /\ CanMove(call.who, i.to, i.amount)
      [] i.op = "approve"  -> i.amount >= 0

ItemEffect(i) ==
    \/ /\ i.op = "mint"
       /\ balance' = [balance EXCEPT ![i.to] = @ + i.amount]
       /\ supply' = supply + i.amount
       /\ allowance' = allowance
    \/ /\ i.op = "transfer"
       /\ balance' = Moved(call.who, i.to, i.amount)
       /\ UNCHANGED <<supply, allowance>>
    \/ /\ i.op = "approve"
       /\ allowance' = [allowance EXCEPT ![<<call.who, i.to>>] =
                            [amount |-> i.amount, exp |-> i.exp]]
       /\ UNCHANGED <<balance, supply>>

CallItem ==
    /\ ~Idle /\ call.rest # <<>>
    /\ ItemOK(Head(call.rest))
    /\ ItemEffect(Head(call.rest))
    /\ call' = [call EXCEPT !.rest = Tail(@)]
    /\ UNCHANGED <<rbacVars, nonce, configVars, saved, clockVars>>

CallCommit ==
    /\ ~Idle /\ call.rest = <<>>
    /\ call' = NoCall
    /\ saved' = EmptySnapshot
    /\ UNCHANGED <<rbacVars, ledgerVars, configVars, clockVars>>

\* An element that fails its check, or that the rate limiter refuses (approve
\* does not consult it), returns an error: the host undoes the whole call.
CallAbort ==
    /\ ~Idle /\ call.rest # <<>>
    /\ ~ItemOK(Head(call.rest)) \/ Head(call.rest).op # "approve"
    /\ balance' = saved.balance
    /\ supply' = saved.supply
    /\ allowance' = saved.allowance
    /\ nonce' = saved.nonce
    /\ call' = NoCall
    /\ saved' = EmptySnapshot
    /\ UNCHANGED <<rbacVars, configVars, clockVars>>

----------------------------------------------------------------------------
(* The host closes a ledger *)

CloseLedger ==
    /\ Idle
    /\ seq < MaxSeq
    /\ seq' = seq + 1
    /\ now' = now + 1
    /\ UNCHANGED <<rbacVars, ledgerVars, configVars, callVars>>

SingleCall ==
    \/ \E a \in Addr : Initialize(a) \/ WithdrawLocked(a)
    \/ \E a, b \in Addr, n \in Amounts : Mint(a, b, n) \/ Transfer(a, b, n)
    \/ \E c \in Addr, cap \in Caps : SetMaxSupply(c, cap)
    \/ \E c, u \in Addr, n \in Amounts, t \in UnlockTimes : LockTokens(c, u, n, t)
    \/ \E c \in Addr, p \in BOOLEAN : SetPaused(c, p)
    \/ \E f \in Addr, s \in Spenders, n \in Amounts, e \in Expirations : Approve(f, s, n, e)
    \/ \E s \in Spenders, f, t \in Addr, n \in Amounts : TransferFrom(s, f, t, n)
    \/ \E f \in Addr, n \in Amounts : Burn(f, n)
    \/ \E s \in Spenders, f \in Addr, n \in Amounts : BurnFrom(s, f, n)
    \/ \E c, a \in Addr, r \in RolesInPlay : GovernRole(c, r, a)

ListCall ==
    \/ \E m \in Addr, items \in Batches(MintItems) : BatchMintBegin(m, items)
    \/ \E f \in Addr, items \in Batches(TransferItems) : BatchTransferBegin(f, items)
    \/ \E f \in Addr, items \in Batches(ExecItems), n \in 0..MaxNonce, m \in Expirations :
            ExecuteBegin(f, items, n, m)
    \/ CallItem \/ CallCommit \/ CallAbort

Next == SingleCall \/ ListCall \/ CloseLedger

Spec == Init /\ [][Next]_vars

----------------------------------------------------------------------------
(* Properties *)

\* The sum of the balances is the total supply, also between two iterations of
\* a list call, and in what its rollback would restore (read_supply against
\* every Balance entry).
Conservation ==
    /\ SumFunction(balance) = supply
    /\ SumFunction(saved.balance) = saved.supply

\* A lock is always backed: no sequence of transfers, burns and list calls
\* spends what lock_tokens reserved, even in the middle of a list call or
\* after its rollback (get_spendable_balance guards every debit).
LockedCovered == \A a \in Addr : lockup[a].amount <= balance[a]

\* batch_transfer checks the total before the loop; the check is enough: at
\* every iteration what is left to send is spendable, so no batch_transfer
\* fails half-way for lack of funds, self-transfers included.
BatchTransferFunded ==
    call.kind = "transfer" => Total(call.rest) <= Spendable(call.who)

\* While the contract is paused no balance, no supply and no nonce changes
\* (every debit and credit path calls ensure_not_paused).
PausedFreezesBalances ==
    [][paused => UNCHANGED <<balance, supply, nonce>>]_vars

\* A lock is only released whole and not before its unlock timestamp, and a
\* lock that stays is never shortened (lock_tokens keeps the later timestamp).
LocksHold ==
    [][\A a \in Addr :
          lockup[a].amount > 0 =>
             \/ lockup'[a].amount = 0 /\ now >= lockup[a].until
             \/ /\ lockup'[a].amount >= lockup[a].amount
                /\ lockup'[a].until >= lockup[a].until]_vars

\* An account's own call: transfer, burn, or a list call it authorized.  The
\* rollback of a list takes back what the list had credited.
OwnCall(f) ==
    \/ \E t \in Addr, n \in Amounts : Transfer(f, t, n) \/ Burn(f, n)
    \/ ~Idle /\ call.who = f
    \/ CallAbort

\* A debit that is not the owner's own call is a draw on one unexpired
\* allowance of that owner, which shrinks by exactly the debited amount
\* (transfer_from and burn_from).
DebitsAreAuthorized ==
    [][\A f \in Addr :
          balance'[f] < balance[f] =>
             \/ OwnCall(f)
             \/ \E s \in Spenders :
                   /\ allowance[<<f, s>>].exp = 0 \/ seq <= allowance[<<f, s>>].exp
                   /\ allowance'[<<f, s>>].amount =
                        allowance[<<f, s>>].amount - (balance[f] - balance'[f])]_vars

\* The supply only ever rises up to the cap in force at that moment, also over
\* the iterations of batch_mint (internal_mint rereads supply and cap).
MintsRespectCap == [][supply' > supply => supply' <= maxSupply]_vars

\* What holds in the middle of a list call, against the state its rollback
\* would restore: the contract is not paused, a mint list has only credited and
\* stayed under the cap, and any other list has left the supply alone and
\* debited nobody but its caller, whose lock it has not touched.
ListCallInv ==
    ~Idle =>
        /\ ~paused
        /\ \A a \in Addr : lockup[a].amount <= saved.balance[a]
        /\ \A a \in Addr : a # call.who => saved.balance[a] <= balance[a]
        /\ call.kind = "mint" =>
              /\ saved.balance[call.who] <= balance[call.who]
              /\ supply > saved.supply => supply <= maxSupply
              /\ supply <= saved.supply => balance = saved.balance /\ supply = saved.supply
              /\ \A i \in DOMAIN call.rest : call.rest[i].op = "mint"
        /\ call.kind # "mint" =>
              /\ supply = saved.supply
              /\ \A i \in DOMAIN call.rest : call.rest[i].op # "mint"

\* What an observer between two calls sees is the abstract ledger of module
\* TokenLedger: a list call is one step of it, or none when it is rolled back.
\* With Conservation a step that leaves the total alone also moves no tokens
\* into or out of existence, and an issue credits exactly what it adds.
Ledger == INSTANCE TokenLedger WITH
              bal    <- IF Idle THEN balance ELSE saved.balance,
              total  <- IF Idle THEN supply ELSE saved.supply,
              cap    <- maxSupply,
              locked <- [a \in Addr |-> lockup[a].amount],
              frozen <- paused

LedgerSpec == Ledger!Spec

\* Before initialize nothing has happened: no supply, no list call.
UninitializedEmpty == ~HasAdmin => supply = 0 /\ Idle

\* The inductive invariant.  Balances, locks and allowances stay within 0 and
\* i128::MAX, and every lock is covered by its balance, through lists that are
\* interrupted at any element.  A lock stays covered only because a rollback
\* restores balances that cover it too, which is what ListCallInv adds.
IndInv == TypeOK /\ LockedCovered /\ ListCallInv /\ UninitializedEmpty
=============================================================================
