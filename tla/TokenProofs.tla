---------------------------- MODULE TokenProofs ----------------------------
(***************************************************************************)
(* Proofs about the token contract, for every set of addresses, amounts    *)
(* and every bound: the type invariant, that locks stay backed, that lists *)
(* keep to what their caller authorized, the action properties that rest   *)
(* on them, and that Token implements TokenLedger.                         *)
(***************************************************************************)
EXTENDS Token, SumProofs

----------------------------------------------------------------------------
(* Facts about the operators *)

\* The lists the three list calls receive are sequences of items.
LEMMA BatchesAreSeqs ==
    ASSUME NEW S, NEW s \in Batches(S)
    PROVE  /\ s \in Seq(S)
           /\ \A i \in DOMAIN s : s[i] \in S
<1>1. PICK n \in 0..MaxBatchOps : s \in [1..n -> S]
  BY DEF Batches
<1>2. n \in Nat
  BY <1>1
<1> QED
  BY <1>1, <1>2

\* A payment moves balances within the type.
LEMMA MovedType ==
    ASSUME TypeOK, NEW f \in Addr, NEW t \in Addr, NEW n \in Int,
           n > 0, CanMove(f, t, n)
    PROVE  /\ Moved(f, t, n) \in [Addr -> Amount]
           /\ \A a \in Addr : a # f => Moved(f, t, n)[a] >= balance[a]
           /\ Moved(f, t, n)[f] >= lockup[f].amount
<1>1. balance \in [Addr -> Amount] /\ lockup[f].amount \in Amount /\ MaxInt \in Nat
  BY TokenAssumption DEF TypeOK, Lockup
<1>2. balance[f] - lockup[f].amount >= n
  BY DEF CanMove, Spendable
<1>3. CASE f = t
  BY <1>1, <1>2, <1>3 DEF Moved, Amount
<1>4. CASE f # t
  <2>1. balance[t] + n <= MaxInt
    BY <1>4 DEF CanMove
  <2> QED
    BY <1>1, <1>2, <1>4, <2>1 DEF Moved, Amount
<1> QED
  BY <1>3, <1>4

\* Drawing on an allowance leaves a well-formed allowance.
LEMMA SpentType ==
    ASSUME TypeOK, NEW f \in Addr, NEW s \in Spenders, NEW n \in Int,
           n > 0, AllowanceAmount(f, s) >= n
    PROVE  Spent(f, s, n) \in [Pairs -> Allowance]
<1>1. <<f, s>> \in Pairs /\ MaxInt \in Nat
  BY TokenAssumption DEF Pairs
<1>2. allowance \in [Pairs -> Allowance] /\ allowance[<<f, s>>] \in Allowance
  BY <1>1 DEF TypeOK
<1>3. AllowanceAmount(f, s) \in 0..MaxInt
  BY <1>1, <1>2 DEF AllowanceAmount, Allowance, Amount
<1>4. AllowanceAmount(f, s) - n \in 0..MaxInt
  BY <1>1, <1>3
<1>5. [allowance[<<f, s>>] EXCEPT !.amount = AllowanceAmount(f, s) - n] \in Allowance
  BY <1>2, <1>4 DEF Allowance, Amount
<1> QED
  BY <1>1, <1>2, <1>5 DEF Spent

\* The amounts and caps callers pass are bounded integers.
LEMMA InputTypes ==
    /\ MaxInt \in Nat
    /\ \A n \in Amounts : n \in Int /\ n <= MaxInt
    /\ \A n \in Caps : n \in Int /\ n <= MaxInt
BY TokenAssumption DEF I128

----------------------------------------------------------------------------
(* Type correctness *)

\* The initial state is well typed.
LEMMA TypeInit == Init => TypeOK
<1> SUFFICES ASSUME Init PROVE TypeOK
  OBVIOUS
<1>1. RbacTypeOK
  BY DEF Init, RbacInit, RbacTypeOK, Role
<1>2. MaxInt \in Nat
  BY TokenAssumption
<1>3. EmptySnapshot \in Snapshot
  BY <1>2 DEF EmptySnapshot, Snapshot, Amount, Allowance
<1>4. call \in {NoCall} /\ paused \in BOOLEAN
  BY Zenon DEF Init
<1>5. balance \in [Addr -> Amount] /\ nonce \in [Addr -> Nat] /\ supply \in Int
  BY <1>2 DEF Init, EmptySnapshot, Amount
<1>6. allowance \in [Pairs -> Allowance] /\ lockup \in [Addr -> Lockup]
  BY <1>2 DEF Init, EmptySnapshot, Amount, Allowance, Lockup
<1>7. maxSupply \in Amount /\ saved \in Snapshot /\ seq \in Nat /\ now \in Nat
  BY <1>2, <1>3 DEF Init, Amount
<1> QED
  BY <1>1, <1>4, <1>5, <1>6, <1>7 DEF TypeOK

\* Every call with one effect keeps the types.
LEMMA SingleCallType == TypeOK /\ SingleCall => TypeOK'
<1> SUFFICES ASSUME TypeOK, SingleCall PROVE TypeOK'
  OBVIOUS
<1> USE InputTypes
<1>1. ASSUME NEW a \in Addr, Initialize(a) PROVE TypeOK'
  <2>1. RbacTypeOK'
    BY <1>1 DEF TypeOK, Initialize, RbacTypeOK, SetAdmin, Role
  <2> QED
    BY <1>1, <2>1 DEF TypeOK, Initialize, callVars, clockVars, Amount
<1>2. ASSUME NEW a \in Addr, WithdrawLocked(a) PROVE TypeOK'
  BY <1>2 DEF TypeOK, RbacTypeOK, WithdrawLocked, rbacVars, ledgerVars, callVars,
              clockVars, Lockup, Amount
<1>3. ASSUME NEW m \in Addr, NEW t \in Addr, NEW n \in Amounts, Mint(m, t, n)
      PROVE  TypeOK'
  <2>1. balance' \in [Addr -> Amount] /\ supply' \in Int
    BY <1>3 DEF TypeOK, Mint, CanMint, Amount
  <2> QED
    BY <1>3, <2>1 DEF TypeOK, RbacTypeOK, Mint, rbacVars, configVars, callVars, clockVars
<1>4. ASSUME NEW f \in Addr, NEW t \in Addr, NEW n \in Amounts, Transfer(f, t, n)
      PROVE  TypeOK'
  BY <1>4, MovedType DEF TypeOK, RbacTypeOK, Transfer, rbacVars, configVars,
              callVars, clockVars
<1>5. ASSUME NEW c \in Addr, NEW k \in Caps, SetMaxSupply(c, k) PROVE TypeOK'
  BY <1>5 DEF TypeOK, RbacTypeOK, SetMaxSupply, rbacVars, ledgerVars, callVars,
              clockVars, Amount
<1>6. ASSUME NEW c \in Addr, NEW u \in Addr, NEW n \in Amounts, NEW t \in UnlockTimes,
             LockTokens(c, u, n, t)
      PROVE  TypeOK'
  <2>1. lockup[u].amount + n \in Amount /\ t \in Nat
    BY <1>6, TokenAssumption DEF TypeOK, LockTokens, Spendable, Lockup, Amount
  <2>2. lockup' \in [Addr -> Lockup]
    BY <1>6, <2>1 DEF TypeOK, LockTokens, Lockup
  <2> QED
    BY <1>6, <2>2 DEF TypeOK, RbacTypeOK, LockTokens, rbacVars, ledgerVars,
              callVars, clockVars
<1>7. ASSUME NEW c \in Addr, NEW p \in BOOLEAN, SetPaused(c, p) PROVE TypeOK'
  BY <1>7 DEF TypeOK, RbacTypeOK, SetPaused, rbacVars, ledgerVars, callVars, clockVars
<1>8. ASSUME NEW f \in Addr, NEW s \in Spenders, NEW n \in Amounts,
             NEW e \in Expirations, Approve(f, s, n, e)
      PROVE  TypeOK'
  <2>1. allowance' \in [Pairs -> Allowance]
    BY <1>8, TokenAssumption DEF TypeOK, Approve, Allowance, Amount, Pairs
  <2> QED
    BY <1>8, <2>1 DEF TypeOK, RbacTypeOK, Approve, rbacVars, configVars, callVars, clockVars
<1>9. ASSUME NEW s \in Spenders, NEW f \in Addr, NEW t \in Addr, NEW n \in Amounts,
             TransferFrom(s, f, t, n)
      PROVE  TypeOK'
  <2>1. allowance' \in [Pairs -> Allowance] /\ balance' \in [Addr -> Amount]
    BY <1>9, MovedType, SpentType DEF TransferFrom
  <2> QED
    BY <1>9, <2>1 DEF TypeOK, RbacTypeOK, TransferFrom, rbacVars, configVars, callVars, clockVars
<1>10. ASSUME NEW f \in Addr, NEW n \in Amounts, Destroy(f, n)
       PROVE  balance' \in [Addr -> Amount] /\ supply' \in Int
  BY <1>10 DEF TypeOK, Destroy, Spendable, Lockup, Amount
<1>11. ASSUME NEW f \in Addr, NEW n \in Amounts, Burn(f, n) PROVE TypeOK'
  <2>1. Destroy(f, n)
    BY <1>11 DEF Burn
  <2> QED
    BY <1>10, <1>11, <2>1 DEF TypeOK, RbacTypeOK, Burn, rbacVars, configVars, callVars, clockVars
<1>12. ASSUME NEW s \in Spenders, NEW f \in Addr, NEW n \in Amounts, BurnFrom(s, f, n)
       PROVE  TypeOK'
  <2>1. Destroy(f, n) /\ n > 0
    BY <1>12 DEF BurnFrom, Destroy
  <2>2. allowance' \in [Pairs -> Allowance]
    BY <1>12, <2>1, SpentType DEF BurnFrom
  <2> QED
    BY <1>10, <1>12, <2>1, <2>2
    DEF TypeOK, RbacTypeOK, BurnFrom, rbacVars, configVars, callVars, clockVars
<1>13. ASSUME NEW c \in Addr, NEW a \in Addr, NEW r \in RolesInPlay, GovernRole(c, r, a)
       PROVE  TypeOK'
  <2>1. RbacTypeOK'
    <3>1. r \in Role /\ RbacTypeOK
      BY <1>13, RbacAssumption DEF TypeOK
    <3>2. CASE GrantRole(c, r, a)
      BY <1>13, <3>1, <3>2 DEF RbacTypeOK, GrantRole
    <3>3. CASE RevokeRole(c, r, a)
      BY <1>13, <3>1, <3>3 DEF RbacTypeOK, RevokeRole
    <3> QED
      BY <1>13, <3>2, <3>3 DEF GovernRole
  <2> QED
    BY <1>13, <2>1 DEF TypeOK, GovernRole, ledgerVars, configVars, callVars, clockVars
<1> QED
  BY <1>1, <1>2, <1>3, <1>4, <1>5, <1>6, <1>7, <1>8, <1>9, <1>11, <1>12, <1>13
  DEF SingleCall

\* A list call that starts saves a well-formed snapshot and gets a sequence
\* of items.
LEMMA BeginType ==
    ASSUME TypeOK, NEW k \in {"mint", "transfer", "exec"}, NEW w \in Addr,
           NEW items \in Seq(Item), Begin(k, w, items), nonce' \in [Addr -> Nat]
    PROVE  TypeOK'
<1>1. call' \in [kind : {"mint", "transfer", "exec"}, who : Addr, rest : Seq(Item)]
  BY DEF Begin
<1>2. saved' \in Snapshot
  BY DEF Begin, Snapshot, TypeOK
<1> QED
  BY <1>1, <1>2 DEF TypeOK, RbacTypeOK, Begin, rbacVars, configVars, clockVars

\* The parts of an item.
LEMMA ItemTypes ==
    ASSUME NEW i \in Item
    PROVE  /\ i.op \in {"mint", "transfer", "approve"}
           /\ i.to \in Addr /\ i.amount \in Amounts
           /\ i.op = "approve" => i.to \in Spenders /\ i.exp \in Expirations
BY TokenAssumption DEF Item

\* While a list call runs, its record is well formed.
LEMMA RunningCall ==
    ASSUME TypeOK, ~Idle
    PROVE  /\ call \in [kind : {"mint", "transfer", "exec"}, who : Addr, rest : Seq(Item)]
           /\ call.rest # <<>> => Head(call.rest) \in Item /\ Tail(call.rest) \in Seq(Item)
BY DEF TypeOK, Idle

\* One iteration of a list call keeps the types.
LEMMA CallItemType == TypeOK /\ CallItem => TypeOK'
<1> SUFFICES ASSUME TypeOK, CallItem PROVE TypeOK'
  OBVIOUS
<1> DEFINE i == Head(call.rest)
<1>1. /\ call \in [kind : {"mint", "transfer", "exec"}, who : Addr, rest : Seq(Item)]
      /\ i \in Item /\ Tail(call.rest) \in Seq(Item)
  BY RunningCall DEF CallItem
<1>2. /\ i.op \in {"mint", "transfer", "approve"}
      /\ i.to \in Addr /\ i.amount \in Amounts
      /\ i.op = "approve" => i.to \in Spenders /\ i.exp \in Expirations
  BY <1>1, ItemTypes
<1>3. call' \in [kind : {"mint", "transfer", "exec"}, who : Addr, rest : Seq(Item)]
  BY <1>1 DEF CallItem
<1>4. ItemOK(i) /\ ItemEffect(i)
  BY DEF CallItem
<1> HIDE DEF i
<1>5. balance' \in [Addr -> Amount] /\ supply' \in Int /\ allowance' \in [Pairs -> Allowance]
  <2>1. CASE i.op = "mint"
    <3>1. i.amount > 0 /\ balance[i.to] + i.amount <= MaxInt
      BY <1>4, <2>1 DEF ItemOK, CanMint
    <3>2. /\ balance' = [balance EXCEPT ![i.to] = @ + i.amount]
          /\ supply' = supply + i.amount /\ allowance' = allowance
      BY <1>4, <2>1 DEF ItemEffect
    <3> QED
      BY <1>2, <3>1, <3>2, InputTypes DEF TypeOK, Amount
  <2>2. CASE i.op = "transfer"
    <3>1. CanMove(call.who, i.to, i.amount) /\ i.amount > 0
      BY <1>4, <2>2 DEF ItemOK
    <3>2. Moved(call.who, i.to, i.amount) \in [Addr -> Amount]
      BY <1>1, <1>2, <3>1, MovedType, InputTypes
    <3> QED
      BY <1>4, <2>2, <3>2 DEF ItemEffect, TypeOK
  <2>3. CASE i.op = "approve"
    <3>1. [amount |-> i.amount, exp |-> i.exp] \in Allowance
      BY <1>2, <1>4, <2>3, InputTypes, TokenAssumption DEF ItemOK, Allowance, Amount
    <3>2. <<call.who, i.to>> \in Pairs
      BY <1>1, <1>2, <2>3 DEF Pairs
    <3> QED
      BY <1>4, <2>3, <3>1, <3>2 DEF ItemEffect, TypeOK
  <2> QED
    BY <1>2, <2>1, <2>2, <2>3
<1> QED
  BY <1>3, <1>5 DEF CallItem, TypeOK, RbacTypeOK, rbacVars, configVars, clockVars

\* Beginning, ending and rolling back a list call keeps the types.
LEMMA ListCallType == TypeOK /\ ListCall => TypeOK'
<1> SUFFICES ASSUME TypeOK, ListCall PROVE TypeOK'
  OBVIOUS
<1>1. EmptySnapshot \in Snapshot
  BY TokenAssumption DEF EmptySnapshot, Snapshot, Amount, Allowance
<1>2. ASSUME NEW m \in Addr, NEW items \in Batches(MintItems), BatchMintBegin(m, items)
      PROVE  TypeOK'
  <2>1. items \in Seq(MintItems) /\ MintItems \subseteq Item
    BY BatchesAreSeqs DEF MintItems, Item
  <2>2. items \in Seq(Item)
    BY <2>1
  <2> QED
    BY <1>2, <2>2, BeginType DEF BatchMintBegin, TypeOK
<1>3. ASSUME NEW f \in Addr, NEW items \in Batches(TransferItems),
             BatchTransferBegin(f, items)
      PROVE  TypeOK'
  <2>1. items \in Seq(TransferItems) /\ TransferItems \subseteq Item
    BY BatchesAreSeqs DEF TransferItems, Item
  <2>2. items \in Seq(Item)
    BY <2>1
  <2> QED
    BY <1>3, <2>2, BeginType DEF BatchTransferBegin, TypeOK
<1>4. ASSUME NEW f \in Addr, NEW items \in Batches(ExecItems), NEW n \in 0..MaxNonce,
             NEW m \in Expirations, ExecuteBegin(f, items, n, m)
      PROVE  TypeOK'
  <2>1. items \in Seq(Item)
    BY BatchesAreSeqs DEF ExecItems
  <2>2. nonce' \in [Addr -> Nat]
    BY <1>4 DEF ExecuteBegin, TypeOK
  <2> QED
    BY <1>4, <2>1, <2>2, BeginType DEF ExecuteBegin
<1>5. ASSUME CallCommit PROVE TypeOK'
  <2>1. call' \in {NoCall} /\ saved' \in Snapshot
    BY <1>1, <1>5 DEF CallCommit
  <2> QED
    BY <1>5, <2>1 DEF CallCommit, TypeOK, RbacTypeOK, rbacVars, ledgerVars,
                      configVars, clockVars
<1>6. ASSUME CallAbort PROVE TypeOK'
  <2>1. call' \in {NoCall} /\ saved' \in Snapshot
    BY <1>1, <1>6 DEF CallAbort
  <2>2. /\ balance' \in [Addr -> Amount] /\ supply' \in Int
        /\ allowance' \in [Pairs -> Allowance] /\ nonce' \in [Addr -> Nat]
    BY <1>6 DEF CallAbort, TypeOK, Snapshot
  <2> QED
    BY <1>6, <2>1, <2>2 DEF CallAbort, TypeOK, RbacTypeOK, rbacVars, configVars, clockVars
<1> QED
  BY <1>2, <1>3, <1>4, <1>5, <1>6, CallItemType DEF ListCall

\* Every step keeps the types.
LEMMA TypeStep == TypeOK /\ [Next]_vars => TypeOK'
<1> SUFFICES ASSUME TypeOK, [Next]_vars PROVE TypeOK'
  OBVIOUS
<1>1. CASE CloseLedger
  BY <1>1 DEF CloseLedger, TypeOK, RbacTypeOK, rbacVars, ledgerVars, configVars, callVars
<1>2. CASE UNCHANGED vars
  BY <1>2 DEF TypeOK, RbacTypeOK, vars, rbacVars, ledgerVars, configVars, callVars, clockVars
<1> QED
  BY <1>1, <1>2, SingleCallType, ListCallType DEF Next

\* The type invariant holds in every state: in particular no balance, lock
\* or allowance ever becomes negative or overflows i128, whatever the mix of
\* transfers, burns, lists and rollbacks.
THEOREM TokenTypeCorrect == Spec => []TypeOK
BY TypeInit, TypeStep, PTL DEF Spec

----------------------------------------------------------------------------
(* The inductive invariant *)

\* A call with one effect runs between list calls and starts none.
LEMMA SingleCallIdle == SingleCall => Idle /\ UNCHANGED callVars
BY DEF SingleCall, Initialize, WithdrawLocked, Mint, Transfer, SetMaxSupply, LockTokens,
       SetPaused, Approve, TransferFrom, Burn, BurnFrom, GovernRole

\* An admin, once set, stays set: set_admin replaces it by an address.
LEMMA AdminStays ==
    ASSUME TypeOK, Next, HasAdmin
    PROVE  HasAdmin'
<1>1. ASSUME NEW a \in Addr, SetAdmin(a) PROVE HasAdmin'
  BY <1>1, RbacAssumption DEF SetAdmin, HasAdmin
<1>2. ASSUME NEW c \in Addr, NEW a \in Addr, NEW r \in Role, GrantRole(c, r, a) \/ RevokeRole(c, r, a)
      PROVE  HasAdmin'
  BY <1>2 DEF GrantRole, RevokeRole, HasAdmin
<1>3. CASE UNCHANGED rbacVars
  BY <1>3 DEF rbacVars, HasAdmin
<1>4. CASE SingleCall
  BY <1>1, <1>2, <1>3, <1>4, RbacAssumption
  DEF SingleCall, Initialize, WithdrawLocked, Mint, Transfer, SetMaxSupply, LockTokens,
      SetPaused, Approve, TransferFrom, Burn, BurnFrom, GovernRole
<1>5. CASE ListCall \/ CloseLedger
  BY <1>3, <1>5 DEF ListCall, BatchMintBegin, BatchTransferBegin, ExecuteBegin, Begin,
      CallItem, CallCommit, CallAbort, CloseLedger
<1> QED
  BY <1>4, <1>5 DEF Next

\* Only initialize and the calls that need an admin touch the supply.
LEMMA UninitializedStep ==
    ASSUME TypeOK, UninitializedEmpty, [Next]_vars
    PROVE  UninitializedEmpty'
<1>1. CASE UNCHANGED vars
  BY <1>1 DEF vars, rbacVars, ledgerVars, callVars, UninitializedEmpty, HasAdmin, Idle
<1>2. CASE Next /\ HasAdmin
  BY <1>2, AdminStays DEF UninitializedEmpty
<1>3. CASE Next /\ ~HasAdmin
  <2>1. Idle /\ supply = 0
    BY <1>3 DEF UninitializedEmpty
  <2>2. CASE \E a \in Addr : Initialize(a)
    BY <2>1, <2>2 DEF Initialize, callVars, Idle, UninitializedEmpty
  <2>3. CASE CloseLedger
    BY <2>1, <2>3 DEF CloseLedger, ledgerVars, callVars, Idle, UninitializedEmpty
  <2> QED
    BY <1>3, <2>1, <2>2, <2>3
    DEF Next, SingleCall, ListCall, WithdrawLocked, Mint, Transfer, SetMaxSupply, LockTokens,
        SetPaused, Approve, TransferFrom, Burn, BurnFrom, GovernRole, GrantRole, RevokeRole,
        BatchMintBegin, BatchTransferBegin, ExecuteBegin, CallItem, CallCommit, CallAbort
<1> QED
  BY <1>1, <1>2, <1>3

\* Single calls leave every lock backed.
LEMMA SingleCallLocks == TypeOK /\ LockedCovered /\ SingleCall => LockedCovered'
<1> SUFFICES ASSUME TypeOK, LockedCovered, SingleCall, NEW a \in Addr
             PROVE  lockup'[a].amount <= balance'[a]
  BY DEF LockedCovered
<1> USE InputTypes
<1>0. /\ lockup \in [Addr -> Lockup] /\ balance \in [Addr -> Amount]
      /\ \A x \in Addr : lockup[x].amount \in Amount /\ lockup[x].amount <= balance[x]
  BY DEF TypeOK, Lockup, LockedCovered
<1>1. CASE UNCHANGED <<balance, lockup>>
  BY <1>0, <1>1
<1>2. ASSUME NEW u \in Addr, WithdrawLocked(u) PROVE lockup'[a].amount <= balance'[a]
  BY <1>0, <1>2 DEF WithdrawLocked, ledgerVars, Amount
<1>3. ASSUME NEW m \in Addr, NEW t \in Addr, NEW n \in Amounts, Mint(m, t, n)
      PROVE  lockup'[a].amount <= balance'[a]
  BY <1>0, <1>3 DEF Mint, CanMint, configVars, Amount
<1>4. ASSUME NEW f \in Addr, NEW t \in Addr, NEW n \in Amounts, CanMove(f, t, n), n > 0,
             balance' = Moved(f, t, n), lockup' = lockup
      PROVE  lockup'[a].amount <= balance'[a]
  <2>1. /\ a # f => balance'[a] >= balance[a]
        /\ balance'[f] >= lockup[f].amount
        /\ balance' \in [Addr -> Amount]
    BY <1>4, MovedType
  <2> QED
    BY <1>0, <1>4, <2>1 DEF Amount
<1>5. ASSUME NEW f \in Addr, NEW n \in Amounts, Destroy(f, n), lockup' = lockup
      PROVE  lockup'[a].amount <= balance'[a]
  BY <1>0, <1>5 DEF Destroy, Spendable, Amount
<1>6. ASSUME NEW c \in Addr, NEW u \in Addr, NEW n \in Amounts, NEW t \in UnlockTimes,
             LockTokens(c, u, n, t)
      PROVE  lockup'[a].amount <= balance'[a]
  BY <1>0, <1>6 DEF LockTokens, Spendable, ledgerVars, Amount
<1> QED
  <2> USE DEF SingleCall, ledgerVars, configVars
  <2>1. CASE \E x \in Addr : Initialize(x) \/ WithdrawLocked(x)
    BY <1>1, <1>2, <2>1 DEF Initialize
  <2>2. CASE \E x, y \in Addr, n \in Amounts : Mint(x, y, n) \/ Transfer(x, y, n)
    BY <1>3, <1>4, <2>2 DEF Transfer
  <2>3. CASE \E s \in Spenders, f, t \in Addr, n \in Amounts : TransferFrom(s, f, t, n)
    BY <1>4, <2>3 DEF TransferFrom
  <2>4. CASE \/ \E f \in Addr, n \in Amounts : Burn(f, n)
             \/ \E s \in Spenders, f \in Addr, n \in Amounts : BurnFrom(s, f, n)
    BY <1>5, <2>4 DEF Burn, BurnFrom
  <2> QED
    BY <1>1, <1>6, <2>1, <2>2, <2>3, <2>4 DEF SetMaxSupply, SetPaused, Approve, GovernRole

\* Starting a list call establishes ListCallInv: nothing has happened yet.
LEMMA BeginInv ==
    ASSUME TypeOK, LockedCovered, ~paused, NEW k \in {"mint", "transfer", "exec"},
           NEW w \in Addr, NEW items \in Seq(Item), Begin(k, w, items),
           \A i \in DOMAIN items : (items[i].op = "mint") <=> (k = "mint")
    PROVE  LockedCovered' /\ ListCallInv'
<1>1. /\ lockup' = lockup /\ balance' = balance /\ paused' = paused /\ supply' = supply
      /\ maxSupply' = maxSupply
      /\ saved'.balance = balance /\ saved'.supply = supply
      /\ call'.kind = k /\ call'.who = w /\ call'.rest = items
  BY DEF Begin, configVars
<1>2. \A a \in Addr : balance[a] \in Int /\ lockup[a].amount \in Int
  BY InputTypes DEF TypeOK, Lockup, Amount
<1>3. supply \in Int
  BY DEF TypeOK
<1> QED
  BY <1>1, <1>2, <1>3 DEF LockedCovered, ListCallInv

\* One iteration of the loop keeps ListCallInv and every lock backed.
LEMMA CallItemInv ==
    ASSUME TypeOK, LockedCovered, ListCallInv, CallItem
    PROVE  LockedCovered' /\ ListCallInv'
<1> DEFINE i == Head(call.rest)
<1>1. /\ call \in [kind : {"mint", "transfer", "exec"}, who : Addr, rest : Seq(Item)]
      /\ i \in Item /\ call.rest # <<>> /\ ~Idle
  BY RunningCall DEF CallItem
<1>2. /\ i.op \in {"mint", "transfer", "approve"}
      /\ i.to \in Addr /\ i.amount \in Int
      /\ i = call.rest[1] /\ 1 \in DOMAIN call.rest
  BY <1>1, ItemTypes, InputTypes
<1>3. ItemOK(i) /\ ItemEffect(i)
  BY DEF CallItem
<1>4. /\ call'.kind = call.kind /\ call'.who = call.who /\ call'.rest = Tail(call.rest)
      /\ lockup' = lockup /\ paused' = paused /\ maxSupply' = maxSupply /\ saved' = saved
  BY <1>1 DEF CallItem, configVars
<1>5. ASSUME NEW j \in DOMAIN Tail(call.rest)
      PROVE  \E k \in DOMAIN call.rest : Tail(call.rest)[j] = call.rest[k]
  BY <1>1, <1>5
<1>6. /\ \A a \in Addr : /\ balance[a] \in Int /\ lockup[a].amount \in Int
                         /\ saved.balance[a] \in Int
                         /\ lockup[a].amount <= balance[a]
                         /\ lockup[a].amount <= saved.balance[a]
      /\ supply \in Int /\ saved.supply \in Int /\ maxSupply \in Int
      /\ balance \in [Addr -> Amount] /\ saved.balance \in [Addr -> Amount]
  BY <1>1, InputTypes DEF TypeOK, Lockup, Amount, Snapshot, LockedCovered, ListCallInv
<1>7. ~paused /\ \A a \in Addr : a # call.who => saved.balance[a] <= balance[a]
  BY <1>1 DEF ListCallInv
<1> HIDE DEF i
<1>8. CASE call.kind = "mint"
  <2>1. /\ saved.balance[call.who] <= balance[call.who]
        /\ supply > saved.supply => supply <= maxSupply
        /\ supply <= saved.supply => balance = saved.balance /\ supply = saved.supply
        /\ \A j \in DOMAIN call.rest : call.rest[j].op = "mint"
    BY <1>1, <1>8 DEF ListCallInv
  <2>2. i.op = "mint"
    BY <1>2, <2>1
  <2>3. /\ balance' = [balance EXCEPT ![i.to] = @ + i.amount]
        /\ supply' = supply + i.amount
        /\ i.amount > 0 /\ supply + i.amount <= maxSupply
    BY <1>3, <2>2 DEF ItemOK, ItemEffect, CanMint
  <2>4. \A a \in Addr : balance[a] <= balance'[a] /\ balance'[a] \in Int
    BY <1>2, <1>6, <2>3
  <2>5. \A a \in Addr : saved.balance[a] <= balance'[a] /\ lockup[a].amount <= balance'[a]
    BY <1>6, <1>7, <2>1, <2>4
  <2>6. supply' > saved.supply /\ supply' <= maxSupply /\ supply' \in Int
    BY <1>2, <1>6, <2>1, <2>3
  <2>7. \A j \in DOMAIN Tail(call.rest) : Tail(call.rest)[j].op = "mint"
    BY <1>5, <2>1
  <2> QED
    BY <1>1, <1>4, <1>6, <1>7, <1>8, <2>5, <2>6, <2>7 DEF LockedCovered, ListCallInv
<1>9. CASE call.kind # "mint"
  <2>1. supply = saved.supply /\ \A j \in DOMAIN call.rest : call.rest[j].op # "mint"
    BY <1>1, <1>9 DEF ListCallInv
  <2>2. supply' = supply
    BY <1>2, <1>3, <2>1 DEF ItemEffect
  <2>3. \A j \in DOMAIN Tail(call.rest) : Tail(call.rest)[j].op # "mint"
    BY <1>5, <2>1
  <2>4. /\ \A a \in Addr : a # call.who => balance[a] <= balance'[a]
        /\ lockup[call.who].amount <= balance'[call.who]
        /\ balance' \in [Addr -> Amount]
    <3>1. CASE i.op = "approve"
      <4>1. balance' = balance
        BY <1>3, <3>1 DEF ItemEffect
      <4> QED
        BY <1>1, <1>6, <4>1
    <3>2. CASE i.op = "transfer"
      <4>1. /\ CanMove(call.who, i.to, i.amount) /\ i.amount > 0
            /\ balance' = Moved(call.who, i.to, i.amount)
        BY <1>3, <3>2 DEF ItemOK, ItemEffect
      <4> QED
        BY <1>1, <1>2, <4>1, MovedType
    <3> QED
      BY <1>2, <2>1, <3>1, <3>2
  <2>5. \A a \in Addr : /\ a # call.who => saved.balance[a] <= balance'[a]
                        /\ lockup[a].amount <= balance'[a]
    <3> SUFFICES ASSUME NEW a \in Addr
                 PROVE  /\ a # call.who => saved.balance[a] <= balance'[a]
                        /\ lockup[a].amount <= balance'[a]
      OBVIOUS
    <3>1. balance'[a] \in Int
      BY <2>4, InputTypes DEF Amount
    <3> QED
      BY <1>6, <1>7, <2>4, <3>1
  <2> QED
    BY <1>1, <1>4, <1>6, <1>7, <1>9, <2>1, <2>2, <2>3, <2>5 DEF LockedCovered, ListCallInv
<1> QED
  BY <1>8, <1>9

\* Every step of a list call keeps locks covered and ListCallInv.
LEMMA ListCallStep ==
    ASSUME TypeOK, LockedCovered, ListCallInv, ListCall
    PROVE  LockedCovered' /\ ListCallInv'
<1>1. ASSUME NEW m \in Addr, NEW items \in Batches(MintItems), BatchMintBegin(m, items)
      PROVE  LockedCovered' /\ ListCallInv'
  <2>1. /\ items \in Seq(MintItems) /\ MintItems \subseteq Item
        /\ \A i \in DOMAIN items : items[i] \in MintItems
    BY BatchesAreSeqs DEF MintItems, Item
  <2>2. items \in Seq(Item) /\ \A i \in DOMAIN items : items[i].op = "mint"
    BY <2>1 DEF MintItems
  <2> QED
    BY <1>1, <2>2, BeginInv DEF BatchMintBegin
<1>2. ASSUME NEW f \in Addr, NEW items \in Batches(TransferItems),
             BatchTransferBegin(f, items)
      PROVE  LockedCovered' /\ ListCallInv'
  <2>1. /\ items \in Seq(TransferItems) /\ TransferItems \subseteq Item
        /\ \A i \in DOMAIN items : items[i] \in TransferItems
    BY BatchesAreSeqs DEF TransferItems, Item
  <2>2. items \in Seq(Item) /\ \A i \in DOMAIN items : items[i].op # "mint"
    BY <2>1 DEF TransferItems
  <2> QED
    BY <1>2, <2>2, BeginInv DEF BatchTransferBegin
<1>3. ASSUME NEW f \in Addr, NEW items \in Batches(ExecItems), NEW n \in 0..MaxNonce,
             NEW m \in Expirations, ExecuteBegin(f, items, n, m)
      PROVE  LockedCovered' /\ ListCallInv'
  <2>1. items \in Seq(Item) /\ \A i \in DOMAIN items : items[i].op # "mint"
    BY BatchesAreSeqs DEF ExecItems
  <2> QED
    BY <1>3, <2>1, BeginInv DEF ExecuteBegin
<1>4. ASSUME CallCommit PROVE LockedCovered' /\ ListCallInv'
  BY <1>4 DEF CallCommit, LockedCovered, ListCallInv, Idle, ledgerVars, configVars
<1>5. ASSUME CallAbort PROVE LockedCovered' /\ ListCallInv'
  <2>1. balance' = saved.balance /\ lockup' = lockup /\ call' = NoCall
    BY <1>5 DEF CallAbort, configVars
  <2>2. \A a \in Addr : lockup[a].amount <= saved.balance[a]
    BY <1>5 DEF CallAbort, ListCallInv
  <2> QED
    BY <2>1, <2>2 DEF LockedCovered, ListCallInv, Idle
<1> QED
  BY <1>1, <1>2, <1>3, <1>4, <1>5, CallItemInv DEF ListCall

\* The inductive invariant holds initially.
LEMMA IndInvInit == Init => IndInv
<1> SUFFICES ASSUME Init PROVE IndInv
  OBVIOUS
<1>1. TypeOK
  BY TypeInit
<1>2. LockedCovered
  <2>1. balance = [a \in Addr |-> 0]
    BY DEF Init, EmptySnapshot
  <2>2. lockup = [a \in Addr |-> [amount |-> 0, until |-> 0]]
    BY DEF Init
  <2>3. ASSUME NEW a \in Addr PROVE lockup[a].amount <= balance[a]
    <3>1. balance[a] = 0 /\ lockup[a] = [amount |-> 0, until |-> 0]
      BY <2>1, <2>2
    <3>2. lockup[a].amount = 0
      BY <3>1
    <3>3. 0 <= 0
      OBVIOUS
    <3> QED
      BY <3>1, <3>2, <3>3
  <2> QED
    BY <2>3 DEF LockedCovered
<1>3. Idle /\ supply = 0
  BY DEF Init, Idle
<1> QED
  BY <1>1, <1>2, <1>3 DEF IndInv, ListCallInv, UninitializedEmpty

\* Every step keeps the inductive invariant.
LEMMA IndInvStep == IndInv /\ [Next]_vars => IndInv'
<1> SUFFICES ASSUME IndInv, [Next]_vars PROVE IndInv'
  OBVIOUS
<1>1. TypeOK /\ LockedCovered /\ ListCallInv /\ UninitializedEmpty
  BY DEF IndInv
<1>2. TypeOK'
  BY <1>1, TypeStep
<1>3. UninitializedEmpty'
  BY <1>1, UninitializedStep
<1>4. LockedCovered' /\ ListCallInv'
  <2>1. CASE SingleCall
    <3>1. LockedCovered'
      BY <1>1, <2>1, SingleCallLocks
    <3>2. ListCallInv'
      BY <2>1, SingleCallIdle DEF ListCallInv, Idle, callVars
    <3> QED
      BY <3>1, <3>2
  <2>2. CASE ListCall
    BY <1>1, <2>2, ListCallStep
  <2>3. CASE CloseLedger \/ UNCHANGED vars
    BY <1>1, <2>3 DEF CloseLedger, vars, ledgerVars, configVars, callVars,
                      LockedCovered, ListCallInv, Idle
  <2> QED
    BY <2>1, <2>2, <2>3 DEF Next
<1> QED
  BY <1>2, <1>3, <1>4 DEF IndInv

\* The inductive invariant holds in every reachable state: types and bounds,
\* locks that stay covered, and list calls that are ready to be rolled back.
THEOREM IndInvHolds == Spec => []IndInv
BY IndInvInit, IndInvStep, PTL DEF Spec

\* No sequence of transfers, burns, list calls and rollbacks ever spends what
\* lock_tokens reserved (get_spendable_balance guards every debit).
THEOREM LocksStayCovered == Spec => []LockedCovered
<1>1. IndInv => LockedCovered
  BY DEF IndInv
<1> QED
  BY <1>1, IndInvHolds, PTL

\* A list call keeps to what its caller authorized, and is always ready to be
\* rolled back.
THEOREM ListCallsKeepBounds == Spec => []ListCallInv
<1>1. IndInv => ListCallInv
  BY DEF IndInv
<1> QED
  BY <1>1, IndInvHolds, PTL

----------------------------------------------------------------------------
(* Accounting *)

\* A credit or a debit changes the sum of the balances by its amount.
LEMMA CreditSum ==
    ASSUME TypeOK, NEW a \in Addr, NEW n \in Int
    PROVE  /\ SumFunction(balance) \in Int
           /\ SumFunction([balance EXCEPT ![a] = @ + n]) = SumFunction(balance) + n
           /\ SumFunction([balance EXCEPT ![a] = @ - n]) = SumFunction(balance) - n
<1>1. balance \in [Addr -> Int] /\ IsFiniteSet(Addr) /\ -n \in Int
  BY InputTypes, TokenAssumption DEF TypeOK, Amount
<1>2. /\ SumFunction(balance) \in Int
      /\ SumFunction(Added(balance, a, n)) = SumFunction(balance) + n
      /\ SumFunction(Added(balance, a, -n)) = SumFunction(balance) + (-n)
  BY <1>1, SumAdd
<1>3. /\ Added(balance, a, n) = [balance EXCEPT ![a] = @ + n]
      /\ Added(balance, a, -n) = [balance EXCEPT ![a] = @ - n]
  BY <1>1 DEF Added
<1>4. SumFunction(balance) + (-n) = SumFunction(balance) - n
  BY <1>2
<1> QED
  BY <1>2, <1>3, <1>4

\* A payment leaves the sum of the balances as it is, one to oneself included.
LEMMA MovedSum ==
    ASSUME TypeOK, NEW f \in Addr, NEW t \in Addr, NEW n \in Int
    PROVE  SumFunction(Moved(f, t, n)) = SumFunction(balance)
<1>1. CASE f = t
  BY <1>1 DEF Moved
<1>2. CASE f # t
  <2> DEFINE mid == Added(balance, f, -n)
  <2>1. balance \in [Addr -> Int] /\ IsFiniteSet(Addr) /\ -n \in Int
    BY InputTypes, TokenAssumption DEF TypeOK, Amount
  <2>2. /\ SumFunction(balance) \in Int
        /\ mid \in [Addr -> Int] /\ SumFunction(mid) = SumFunction(balance) + (-n)
    BY <2>1, SumAdd
  <2>3. SumFunction(Added(mid, t, n)) = SumFunction(mid) + n
    <3>1. mid \in [Addr -> Int] /\ IsFiniteSet(Addr)
      BY <2>1, <2>2
    <3> HIDE DEF mid
    <3> QED
      BY <3>1, SumAdd
  <2>4. Moved(f, t, n) = Added(mid, t, n)
    BY <1>2, <2>1 DEF Moved, Added
  <2> HIDE DEF mid
  <2> QED
    BY <2>2, <2>3, <2>4
<1> QED
  BY <1>1, <1>2

\* Nothing is held and nothing was issued before the first call.
LEMMA ConservationInit == Init => Conservation
<1> SUFFICES ASSUME Init PROVE Conservation
  OBVIOUS
<1>1. balance = [a \in Addr |-> 0] /\ supply = 0
  BY DEF Init, EmptySnapshot
<1>2. saved.balance = [a \in Addr |-> 0] /\ saved.supply = 0
  BY DEF Init, EmptySnapshot
<1>3. SumFunction([a \in Addr |-> 0]) = 0
  BY TokenAssumption, SumZero
<1> QED
  BY <1>1, <1>2, <1>3 DEF Conservation

\* The four ways a call touches the ledger keep the sum.
LEMMA LedgerSum ==
    ASSUME TypeOK, SumFunction(balance) = supply,
           \/ balance' = balance /\ supply' = supply
           \/ \E a \in Addr, n \in Int :
                  balance' = [balance EXCEPT ![a] = @ + n] /\ supply' = supply + n
           \/ \E a \in Addr, n \in Int :
                  balance' = [balance EXCEPT ![a] = @ - n] /\ supply' = supply - n
           \/ \E f, t \in Addr, n \in Int : balance' = Moved(f, t, n) /\ supply' = supply
    PROVE  SumFunction(balance') = supply'
<1>1. ASSUME NEW a \in Addr, NEW n \in Int,
             balance' = [balance EXCEPT ![a] = @ + n], supply' = supply + n
      PROVE  SumFunction(balance') = supply'
  BY <1>1, CreditSum
<1>2. ASSUME NEW a \in Addr, NEW n \in Int,
             balance' = [balance EXCEPT ![a] = @ - n], supply' = supply - n
      PROVE  SumFunction(balance') = supply'
  BY <1>2, CreditSum
<1>3. ASSUME NEW f \in Addr, NEW t \in Addr, NEW n \in Int,
             balance' = Moved(f, t, n), supply' = supply
      PROVE  SumFunction(balance') = supply'
  BY <1>3, MovedSum
<1>4. CASE balance' = balance /\ supply' = supply
  BY <1>4
<1> QED
  BY <1>1, <1>2, <1>3, <1>4

\* A call with one effect keeps the books.
LEMMA SingleCallSum ==
    ASSUME IndInv, Conservation, SingleCall
    PROVE  Conservation'
<1>1. TypeOK /\ SumFunction(balance) = supply /\ UninitializedEmpty
  BY DEF IndInv, Conservation
<1>2. saved' = saved
  BY SingleCallIdle DEF callVars
<1>3. \/ balance' = balance /\ supply' = supply
      \/ \E a \in Addr, n \in Int :
             balance' = [balance EXCEPT ![a] = @ + n] /\ supply' = supply + n
      \/ \E a \in Addr, n \in Int :
             balance' = [balance EXCEPT ![a] = @ - n] /\ supply' = supply - n
      \/ \E f, t \in Addr, n \in Int : balance' = Moved(f, t, n) /\ supply' = supply
  <2>1. ASSUME NEW a \in Addr, Initialize(a)
        PROVE  balance' = balance /\ supply' = supply
    BY <1>1, <2>1 DEF Initialize, UninitializedEmpty
  <2>2. ASSUME NEW a \in Addr, NEW b \in Addr, NEW n \in Amounts, Mint(a, b, n)
        PROVE  n \in Int /\ balance' = [balance EXCEPT ![b] = @ + n] /\ supply' = supply + n
    BY <2>2, InputTypes DEF Mint
  <2>3. ASSUME NEW f \in Addr, NEW n \in Amounts, Destroy(f, n)
        PROVE  n \in Int /\ balance' = [balance EXCEPT ![f] = @ - n] /\ supply' = supply - n
    BY <2>3, InputTypes DEF Destroy
  <2>4. ASSUME NEW f \in Addr, NEW t \in Addr, NEW n \in Amounts,
               Transfer(f, t, n) \/ \E s \in Spenders : TransferFrom(s, f, t, n)
        PROVE  n \in Int /\ balance' = Moved(f, t, n) /\ supply' = supply
    BY <2>4, InputTypes DEF Transfer, TransferFrom
  <2>5. ASSUME UNCHANGED ledgerVars \/ UNCHANGED <<balance, supply>>
        PROVE  balance' = balance /\ supply' = supply
    BY <2>5 DEF ledgerVars
  <2>6. CASE \E a \in Addr : Initialize(a)
    BY <2>1, <2>6
  <2>7. CASE \E a, b \in Addr, n \in Amounts : Mint(a, b, n)
    BY <2>2, <2>7
  <2>8. CASE \E f \in Addr, n \in Amounts : Burn(f, n) \/ \E s \in Spenders : BurnFrom(s, f, n)
    BY <2>3, <2>8 DEF Burn, BurnFrom
  <2>9. CASE \E f, t \in Addr, n \in Amounts :
                 Transfer(f, t, n) \/ \E s \in Spenders : TransferFrom(s, f, t, n)
    BY <2>4, <2>9
  <2>10. CASE UNCHANGED ledgerVars \/ UNCHANGED <<balance, supply>>
    BY <2>5, <2>10
  <2> QED
    BY <2>6, <2>7, <2>8, <2>9, <2>10
    DEF SingleCall, WithdrawLocked, SetMaxSupply, LockTokens, SetPaused, Approve, GovernRole
<1>4. SumFunction(balance') = supply'
  BY <1>1, <1>3, LedgerSum
<1> QED
  BY <1>2, <1>4 DEF Conservation

\* So does every stage of a list call, and its rollback.
LEMMA ListCallSum ==
    ASSUME IndInv, Conservation, ListCall
    PROVE  Conservation'
<1>1. /\ TypeOK
      /\ SumFunction(balance) = supply
      /\ SumFunction(saved.balance) = saved.supply
  BY DEF IndInv, Conservation
<1>2. SumFunction([a \in Addr |-> 0]) = 0
  BY TokenAssumption, SumZero
<1>3. EmptySnapshot.balance = [a \in Addr |-> 0] /\ EmptySnapshot.supply = 0
  BY DEF EmptySnapshot
<1>4. ASSUME NEW k, NEW w, NEW items, Begin(k, w, items)
      PROVE  Conservation'
  <2>1. balance' = balance /\ supply' = supply /\ saved'.balance = balance /\ saved'.supply = supply
    BY <1>4 DEF Begin
  <2> QED
    BY <1>1, <2>1 DEF Conservation
<1>5. CASE CallItem
  <2> DEFINE i == Head(call.rest)
  <2>1. i \in Item /\ call.who \in Addr /\ ItemEffect(i) /\ saved' = saved
    BY <1>1, <1>5, RunningCall, ItemTypes DEF CallItem
  <2>2. i.to \in Addr /\ i.amount \in Int
    BY <2>1, InputTypes, TokenAssumption DEF Item
  <2>3. SumFunction(balance') = supply'
    BY <1>1, <2>1, <2>2, LedgerSum DEF ItemEffect
  <2> QED
    BY <1>1, <2>1, <2>3 DEF Conservation
<1>6. CASE CallCommit
  BY <1>1, <1>2, <1>3, <1>6 DEF CallCommit, ledgerVars, Conservation
<1>7. CASE CallAbort
  BY <1>1, <1>2, <1>3, <1>7 DEF CallAbort, Conservation
<1> QED
  BY <1>4, <1>5, <1>6, <1>7 DEF ListCall, BatchMintBegin, BatchTransferBegin, ExecuteBegin

\* The balances add up to the supply in every reachable state, for any finite
\* set of accounts: through mints, burns, payments to oneself, lists stopped
\* at any element, and their rollback.
THEOREM SupplyIsConserved == Spec => []Conservation
<1>1. Conservation /\ IndInv /\ [Next]_vars => Conservation'
  <2> SUFFICES ASSUME Conservation, IndInv, [Next]_vars PROVE Conservation'
    OBVIOUS
  <2>1. CASE CloseLedger \/ UNCHANGED vars
    BY <2>1 DEF CloseLedger, vars, ledgerVars, callVars, Conservation
  <2> QED
    BY <2>1, SingleCallSum, ListCallSum DEF Next
<1> QED
  BY <1>1, ConservationInit, IndInvHolds, PTL DEF Spec

\* What is left of a list after its first element totals less by that element.
LEMMA TotalTail ==
    ASSUME NEW items \in Seq(Item), items # <<>>
    PROVE  /\ Total(Tail(items)) \in Int
           /\ Total(items) = Head(items).amount + Total(Tail(items))
<1> DEFINE n == Len(items) - 1
           f == [i \in DOMAIN items |-> items[i].amount]
           g == [i \in DOMAIN Tail(items) |-> Tail(items)[i].amount]
<1>1. /\ n \in Nat /\ Len(items) = n + 1
      /\ DOMAIN items = 1..(n + 1) /\ DOMAIN Tail(items) = 1..n
      /\ \A i \in 1..n : Tail(items)[i] = items[i + 1]
  OBVIOUS
<1>2. \A i \in 1..(n + 1) : items[i].amount \in Int
  <2>1. \A i \in 1..(n + 1) : items[i] \in Item
    BY <1>1
  <2> QED
    BY <2>1, ItemTypes, InputTypes
<1>3. f \in [1..(n + 1) -> Int] /\ g \in [1..n -> Int] /\ \A i \in 1..n : g[i] = f[i + 1]
  BY <1>1, <1>2
<1>4. f[1] = Head(items).amount
  BY <1>1
<1>5. Total(items) = SumFunction(f) /\ Total(Tail(items)) = SumFunction(g)
  BY DEF Total
<1> HIDE DEF f, g, n
<1>6. SumFunction(g) \in Int /\ SumFunction(f) = f[1] + SumFunction(g)
  BY <1>1, <1>3, SumFirst
<1> QED
  BY <1>4, <1>5, <1>6

\* Paying one element of a transfer list leaves enough for the rest.
LEMMA CallItemFunded ==
    ASSUME IndInv, BatchTransferFunded, CallItem
    PROVE  BatchTransferFunded'
<1> SUFFICES ASSUME call'.kind = "transfer"
             PROVE  (Total(call.rest) <= Spendable(call.who))'
  BY DEF BatchTransferFunded
<1> DEFINE i == Head(call.rest)
           w == call.who
<1>1. /\ TypeOK /\ ListCallInv /\ ~Idle /\ call.rest # <<>>
      /\ ItemOK(i) /\ ItemEffect(i) /\ lockup' = lockup
      /\ call' = [call EXCEPT !.rest = Tail(@)]
  BY DEF IndInv, CallItem, configVars
<1>2. /\ call \in [kind : {"mint", "transfer", "exec"}, who : Addr, rest : Seq(Item)]
      /\ i \in Item /\ call.rest \in Seq(Item) /\ w \in Addr
  BY <1>1, RunningCall
<1>3. call'.kind = call.kind /\ call'.who = w /\ call'.rest = Tail(call.rest)
  BY <1>1, <1>2
<1>4. i.op \in {"mint", "transfer", "approve"} /\ i.to \in Addr /\ i.amount \in Int
  BY <1>2, ItemTypes, InputTypes
<1>5. Total(call.rest) <= balance[w] - lockup[w].amount
  BY <1>3 DEF BatchTransferFunded, Spendable
<1>6. /\ Total(Tail(call.rest)) \in Int
      /\ Total(call.rest) = i.amount + Total(Tail(call.rest))
  BY <1>1, <1>2, TotalTail
<1>7. balance \in [Addr -> Int] /\ balance[w] \in Int /\ lockup[w].amount \in Int
  BY <1>1, <1>2, InputTypes DEF TypeOK, Lockup, Amount
<1> HIDE DEF i, w
<1>8. balance'[w] \in Int /\ balance'[w] >= balance[w] - i.amount
  <2>1. CASE i.op = "mint"
    BY <1>1, <1>2, <1>4, <1>7, <2>1 DEF ItemEffect, ItemOK, CanMint
  <2>2. CASE i.op = "transfer"
    <3>1. balance' = Moved(w, i.to, i.amount) /\ i.amount > 0
      BY <1>1, <2>2 DEF ItemEffect, ItemOK, w
    <3> QED
      BY <1>2, <1>4, <1>7, <3>1 DEF Moved
  <2>3. CASE i.op = "approve"
    BY <1>1, <1>4, <1>7, <2>3 DEF ItemEffect, ItemOK
  <2> QED
    BY <1>4, <2>1, <2>2, <2>3
<1>9. Total(Tail(call.rest)) <= balance'[w] - lockup[w].amount
  BY <1>4, <1>5, <1>6, <1>7, <1>8
<1>10. (Total(call.rest))' = Total(Tail(call.rest))
  BY <1>3 DEF Total
<1> QED
  BY <1>1, <1>3, <1>9, <1>10 DEF Spendable

\* batch_transfer's check of the total before the loop is enough, whatever the
\* list: before every iteration, what is left to send is spendable.
THEOREM TransfersStayFunded == Spec => []BatchTransferFunded
<1>1. Init => BatchTransferFunded
  BY DEF Init, NoCall, BatchTransferFunded
<1>2. BatchTransferFunded /\ IndInv /\ [Next]_vars => BatchTransferFunded'
  <2> SUFFICES ASSUME BatchTransferFunded, IndInv, [Next]_vars PROVE BatchTransferFunded'
    OBVIOUS
  <2>1. CASE Idle /\ UNCHANGED callVars
    BY <2>1 DEF Idle, NoCall, callVars, BatchTransferFunded
  <2>2. ASSUME NEW f \in Addr, NEW items, BatchTransferBegin(f, items)
        PROVE  BatchTransferFunded'
    <3>1. /\ Spendable(f) >= Total(items)
          /\ balance' = balance /\ lockup' = lockup
          /\ call'.who = f /\ call'.rest = items
      BY <2>2 DEF BatchTransferBegin, Begin, configVars
    <3>2. (Total(call.rest))' = Total(items) /\ (Spendable(call.who))' = Spendable(f)
      BY <3>1 DEF Total, Spendable
    <3> QED
      BY <3>1, <3>2 DEF BatchTransferFunded
  <2>3. ASSUME NEW f, NEW items, Begin("mint", f, items) \/ Begin("exec", f, items)
        PROVE  BatchTransferFunded'
    BY <2>3 DEF Begin, BatchTransferFunded
  <2>4. CASE CallCommit \/ CallAbort
    BY <2>4 DEF CallCommit, CallAbort, NoCall, BatchTransferFunded
  <2>5. CASE UNCHANGED vars
    BY <2>5 DEF vars, ledgerVars, configVars, callVars, BatchTransferFunded, Total, Spendable
  <2> QED
    BY <2>1, <2>2, <2>3, <2>4, <2>5, CallItemFunded, SingleCallIdle
    DEF Next, ListCall, BatchMintBegin, ExecuteBegin, CloseLedger
<1> QED
  BY <1>1, <1>2, IndInvHolds, PTL DEF Spec

----------------------------------------------------------------------------
(* Action properties *)

\* While the contract is paused no balance, supply or nonce changes.  A list
\* call could only break this by being under way when the pause comes, which
\* ListCallInv excludes.
THEOREM PauseFreezes == Spec => PausedFreezesBalances
<1>1. IndInv /\ [Next]_vars => [paused => UNCHANGED <<balance, supply, nonce>>]_vars
  <2> SUFFICES ASSUME IndInv, Next, paused PROVE UNCHANGED <<balance, supply, nonce>>
    OBVIOUS
  <2>1. Idle
    BY DEF IndInv, ListCallInv
  <2>2. ASSUME NEW a \in Addr, Initialize(a) PROVE UNCHANGED <<balance, supply, nonce>>
    BY <2>2 DEF Initialize, IndInv, UninitializedEmpty
  <2> QED
    BY <2>1, <2>2
    DEF Next, SingleCall, ListCall, CloseLedger, WithdrawLocked, Mint, Transfer, SetMaxSupply,
        LockTokens, SetPaused, Approve, TransferFrom, Burn, BurnFrom, GovernRole,
        BatchMintBegin, BatchTransferBegin, ExecuteBegin, CallItem, CallCommit, CallAbort,
        ledgerVars
<1> QED
  BY <1>1, IndInvHolds, PTL DEF Spec, PausedFreezesBalances

\* A lock is released whole and only when its time has come; otherwise it can
\* only grow and be extended (lock_tokens, withdraw_locked).
THEOREM LocksAreHeld == Spec => LocksHold
<1> DEFINE Held(a) == lockup[a].amount > 0 =>
                         \/ lockup'[a].amount = 0 /\ now >= lockup[a].until
                         \/ /\ lockup'[a].amount >= lockup[a].amount
                            /\ lockup'[a].until >= lockup[a].until
<1>1. TypeOK /\ [Next]_vars => [\A a \in Addr : Held(a)]_vars
  <2> SUFFICES ASSUME TypeOK, Next, NEW a \in Addr PROVE Held(a)
    OBVIOUS
  <2>1. /\ lockup \in [Addr -> Lockup]
        /\ lockup[a].amount \in Int /\ lockup[a].until \in Int
    BY InputTypes DEF TypeOK, Lockup, Amount
  <2>2. CASE lockup' = lockup
    BY <2>1, <2>2
  <2>3. ASSUME NEW u \in Addr, WithdrawLocked(u) PROVE Held(a)
    BY <2>1, <2>3 DEF WithdrawLocked
  <2>4. ASSUME NEW c \in Addr, NEW u \in Addr, NEW n \in Amounts, NEW t \in UnlockTimes,
               LockTokens(c, u, n, t)
        PROVE  Held(a)
    <3>1. n > 0 /\ n \in Int /\ t \in Nat
      BY <2>4, InputTypes, TokenAssumption DEF LockTokens
    <3>2. CASE a = u
      <4>1. lockup'[a] = [amount |-> lockup[a].amount + n,
                          until  |-> IF lockup[a].amount > 0 /\ lockup[a].until > t
                                     THEN lockup[a].until ELSE t]
        BY <2>1, <2>4, <3>2 DEF LockTokens
      <4>2. /\ lockup'[a].amount = lockup[a].amount + n
            /\ lockup[a].amount > 0 => lockup'[a].until >= lockup[a].until
        BY <2>1, <3>1, <4>1
      <4> QED
        BY <2>1, <3>1, <4>2
    <3>3. CASE a # u
      BY <2>1, <2>4, <3>3 DEF LockTokens
    <3> QED
      BY <3>2, <3>3
  <2> HIDE DEF Held
  <2> QED
    BY <2>2, <2>3, <2>4
    DEF Next, SingleCall, ListCall, CloseLedger, Initialize, Mint, Transfer, SetMaxSupply,
        SetPaused, Approve, TransferFrom, Burn, BurnFrom, GovernRole, Begin,
        BatchMintBegin, BatchTransferBegin, ExecuteBegin, CallItem, CallCommit, CallAbort,
        configVars
<1> QED
  BY <1>1, TokenTypeCorrect, PTL DEF Spec, LocksHold

\* The supply only rises by mints, and only up to the cap in force; the
\* rollback of a list never raises it.
THEOREM MintsStayUnderCap == Spec => MintsRespectCap
<1>1. IndInv /\ [Next]_vars => [supply' > supply => supply' <= maxSupply]_vars
  <2> SUFFICES ASSUME IndInv, Next, supply' > supply PROVE supply' <= maxSupply
    OBVIOUS
  <2>0. supply \in Int /\ saved.supply \in Int
    BY DEF IndInv, TypeOK, Snapshot
  <2>1. supply' # supply
    BY <2>0
  <2>2. ASSUME NEW t, NEW n, CanMint(t, n), supply' = supply + n PROVE supply' <= maxSupply
    BY <2>2 DEF CanMint
  <2>3. ASSUME NEW a \in Addr, Initialize(a) PROVE FALSE
    BY <2>1, <2>3 DEF Initialize, IndInv, UninitializedEmpty
  <2>4. ASSUME NEW f \in Addr, NEW n \in Amounts, Destroy(f, n) PROVE FALSE
    BY <2>0, <2>4, InputTypes DEF Destroy
  <2>5. CASE CallItem
    <3>1. Head(call.rest).op = "mint"
      BY <2>1, <2>5 DEF CallItem, ItemEffect
    <3> QED
      BY <2>2, <2>5, <3>1 DEF CallItem, ItemOK, ItemEffect
  <2>6. CASE CallAbort
    BY <2>0, <2>6 DEF CallAbort, IndInv, ListCallInv
  <2>7. CASE SingleCall
    BY <2>1, <2>2, <2>3, <2>4, <2>7
    DEF SingleCall, WithdrawLocked, Mint, Transfer, SetMaxSupply, LockTokens, SetPaused,
        Approve, TransferFrom, Burn, BurnFrom, GovernRole, ledgerVars
  <2>8. CASE ListCall \/ CloseLedger
    BY <2>1, <2>5, <2>6, <2>8
    DEF ListCall, CloseLedger, Begin, BatchMintBegin, BatchTransferBegin, ExecuteBegin,
        CallCommit, ledgerVars
  <2> QED
    BY <2>7, <2>8 DEF Next
<1> QED
  BY <1>1, IndInvHolds, PTL DEF Spec, MintsRespectCap

\* Nobody loses tokens but by their own call, by the rollback of a list that
\* had credited them, or by an unexpired allowance that pays for the debit.
THEOREM DebitsNeedAuthority == Spec => DebitsAreAuthorized
<1> DEFINE Drawn(f) ==
              \E s \in Spenders :
                 /\ allowance[<<f, s>>].exp = 0 \/ seq <= allowance[<<f, s>>].exp
                 /\ allowance'[<<f, s>>].amount =
                        allowance[<<f, s>>].amount - (balance[f] - balance'[f])
<1>1. IndInv /\ [Next]_vars =>
        [\A f \in Addr : balance'[f] < balance[f] =>
                            \/ OwnCall(f)
                            \/ Drawn(f)]_vars
  <2> SUFFICES ASSUME IndInv, Next, NEW f \in Addr, balance'[f] < balance[f]
               PROVE  OwnCall(f) \/ Drawn(f)
    OBVIOUS
  <2> USE InputTypes
  <2>0. /\ TypeOK /\ balance \in [Addr -> Amount] /\ balance[f] \in Int
        /\ \A x \in Addr : lockup[x].amount \in Int /\ lockup[x].amount >= 0
    BY DEF IndInv, TypeOK, Lockup, Amount
  <2>1. balance' # balance
    BY <2>0
  <2>2. ASSUME NEW s \in Spenders, NEW g \in Addr, NEW n \in Amounts, n > 0,
               AllowanceAmount(g, s) >= n, allowance' = Spent(g, s, n),
               balance'[f] = balance[f] - n, g = f
        PROVE  Drawn(f)
    <3>1. /\ <<f, s>> \in Pairs /\ allowance \in [Pairs -> Allowance]
          /\ allowance[<<f, s>>].amount \in Int /\ allowance[<<f, s>>].exp \in Nat
          /\ seq \in Nat
      BY <2>0 DEF TypeOK, Pairs, Allowance, Amount
    <3>2. /\ ~(allowance[<<f, s>>].exp > 0 /\ seq > allowance[<<f, s>>].exp)
          /\ AllowanceAmount(f, s) = allowance[<<f, s>>].amount
      BY <2>2, <3>1 DEF AllowanceAmount
    <3>3. allowance'[<<f, s>>].amount = allowance[<<f, s>>].amount - n
      BY <2>2, <3>1, <3>2 DEF Spent, Allowance
    <3>4. balance[f] - balance'[f] = n
      BY <2>0, <2>2
    <3> QED
      BY <3>1, <3>2, <3>3, <3>4
  <2>3. ASSUME NEW g \in Addr, NEW t \in Addr, NEW n \in Amounts, n > 0, CanMove(g, t, n),
               balance' = Moved(g, t, n)
        PROVE  g = f /\ balance'[f] = balance[f] - n
    <3>1. g = f
      BY <2>0, <2>3, MovedType DEF Amount
    <3>2. t # f
      BY <2>1, <2>3, <3>1 DEF Moved
    <3> QED
      BY <2>0, <2>3, <3>1, <3>2 DEF Moved
  <2>4. ASSUME NEW g \in Addr, NEW n \in Amounts, Destroy(g, n)
        PROVE  g = f /\ balance'[f] = balance[f] - n /\ n > 0
    BY <2>0, <2>4 DEF Destroy
  <2>5. ASSUME NEW g \in Addr, NEW t \in Addr, NEW n \in Amounts, Transfer(g, t, n)
        PROVE  OwnCall(f)
    <3>1. g = f
      BY <2>3, <2>5 DEF Transfer
    <3> QED
      BY <2>5, <3>1 DEF OwnCall
  <2>6. ASSUME NEW g \in Addr, NEW n \in Amounts, Burn(g, n) PROVE OwnCall(f)
    <3>1. g = f
      BY <2>4, <2>6 DEF Burn
    <3> QED
      BY <2>6, <3>1 DEF OwnCall
  <2>7. ASSUME NEW s \in Spenders, NEW g \in Addr, NEW t \in Addr, NEW n \in Amounts,
               TransferFrom(s, g, t, n)
        PROVE  Drawn(f)
    <3> HIDE DEF Drawn
    <3> QED
      BY <2>2, <2>3, <2>7 DEF TransferFrom
  <2>8. ASSUME NEW s \in Spenders, NEW g \in Addr, NEW n \in Amounts, BurnFrom(s, g, n)
        PROVE  Drawn(f)
    <3> HIDE DEF Drawn
    <3> QED
      BY <2>2, <2>4, <2>8 DEF BurnFrom
  <2>9. ASSUME NEW m \in Addr, NEW t \in Addr, NEW n \in Amounts, Mint(m, t, n) PROVE FALSE
    BY <2>0, <2>9 DEF Mint, CanMint
  <2>10. CASE CallItem
    <3>1. /\ call \in [kind : {"mint", "transfer", "exec"}, who : Addr, rest : Seq(Item)]
          /\ Head(call.rest) \in Item /\ ~Idle
      BY <2>0, <2>10, RunningCall DEF CallItem
    <3>2. /\ Head(call.rest).to \in Addr /\ Head(call.rest).amount \in Amounts
          /\ ItemOK(Head(call.rest)) /\ ItemEffect(Head(call.rest))
      BY <2>10, <3>1, ItemTypes DEF CallItem
    <3>3. Head(call.rest).op # "mint"
      <4> SUFFICES ASSUME Head(call.rest).op = "mint" PROVE FALSE
        OBVIOUS
      <4>1. /\ balance' = [balance EXCEPT ![Head(call.rest).to] = @ + Head(call.rest).amount]
            /\ Head(call.rest).amount > 0
        BY <3>2 DEF ItemOK, ItemEffect, CanMint
      <4> QED
        BY <2>0, <3>2, <4>1
    <3>4. Head(call.rest).op = "transfer"
      BY <2>1, <3>2, <3>3 DEF ItemEffect
    <3>5. call.who = f
      BY <2>3, <3>1, <3>2, <3>4 DEF ItemOK, ItemEffect
    <3> QED
      BY <3>1, <3>5 DEF OwnCall
  <2>11. CASE CallAbort
    BY <2>11 DEF OwnCall
  <2> HIDE DEF Drawn
  <2>12. CASE SingleCall
    BY <2>1, <2>5, <2>6, <2>7, <2>8, <2>9, <2>12
    DEF SingleCall, Initialize, WithdrawLocked, SetMaxSupply, LockTokens, SetPaused,
        Approve, GovernRole, ledgerVars
  <2>13. CASE ListCall \/ CloseLedger
    BY <2>1, <2>10, <2>11, <2>13
    DEF ListCall, CloseLedger, Begin, BatchMintBegin, BatchTransferBegin, ExecuteBegin,
        CallCommit, ledgerVars
  <2> QED
    BY <2>12, <2>13 DEF Next
<1> QED
  BY <1>1, IndInvHolds, PTL DEF Spec, DebitsAreAuthorized

----------------------------------------------------------------------------
(* Token implements TokenLedger *)

\* A call with one effect is a step of the abstract ledger.
LEMMA SingleCallRefines ==
    ASSUME IndInv, SingleCall
    PROVE  [Ledger!Next]_(Ledger!ledger)
<1> USE InputTypes
<1>1. Idle /\ Idle'
  BY SingleCallIdle DEF Idle, callVars
<1>2. /\ balance \in [Addr -> Amount] /\ supply \in Int
      /\ lockup \in [Addr -> Lockup]
      /\ \A x \in Addr : balance[x] \in Int /\ lockup[x].amount \in Int /\ lockup[x].amount >= 0
  BY DEF IndInv, TypeOK, Lockup, Amount
<1> DEFINE L == [x \in Addr |-> lockup[x].amount]
<1>3. CASE UNCHANGED <<balance, supply, lockup, maxSupply, paused>>
  BY <1>1, <1>3 DEF Ledger!ledger
<1>4. ASSUME NEW a \in Addr, Initialize(a) PROVE [Ledger!Next]_(Ledger!ledger)
  <2>1. UNCHANGED <<balance, supply, lockup, paused>> /\ maxSupply' = MaxInt
    BY <1>4 DEF Initialize, IndInv, UninitializedEmpty
  <2>2. Ledger!Configure
    BY <1>1, <2>1 DEF Ledger!Configure, IndInv, TypeOK
  <2> QED
    BY <2>2 DEF Ledger!Next
<1>5. ASSUME NEW u \in Addr, WithdrawLocked(u) PROVE [Ledger!Next]_(Ledger!ledger)
  <2>1. L' = [L EXCEPT ![u] = 0]
    BY <1>2, <1>5 DEF WithdrawLocked
  <2>2. Ledger!Reserve(u)
    BY <1>1, <1>5, <2>1 DEF WithdrawLocked, ledgerVars, Ledger!Reserve
  <2> QED
    BY <2>2 DEF Ledger!Next
<1>6. ASSUME NEW c \in Addr, NEW u \in Addr, NEW n \in Amounts, NEW t \in UnlockTimes,
             LockTokens(c, u, n, t)
      PROVE  [Ledger!Next]_(Ledger!ledger)
  <2>1. L' = [L EXCEPT ![u] = lockup[u].amount + n]
    BY <1>2, <1>6 DEF LockTokens
  <2>2. lockup[u].amount + n \in (L[u] + 1)..balance[u]
    BY <1>2, <1>6 DEF LockTokens, Spendable
  <2>3. Ledger!Reserve(u)
    BY <1>1, <1>6, <2>1, <2>2 DEF LockTokens, ledgerVars, Ledger!Reserve
  <2> QED
    BY <2>3 DEF Ledger!Next
<1>7. ASSUME NEW m \in Addr, NEW t \in Addr, NEW n \in Amounts, Mint(m, t, n)
      PROVE  [Ledger!Next]_(Ledger!ledger)
  <2>1. n > 0 /\ supply' = supply + n /\ supply' <= maxSupply /\ ~paused
    BY <1>7 DEF Mint, CanMint
  <2>2. \A x \in Addr : balance'[x] >= balance[x]
    BY <1>2, <1>7, <2>1 DEF Mint
  <2>3. Ledger!Issue
    BY <1>1, <1>2, <1>7, <2>1, <2>2 DEF Mint, configVars, Ledger!Issue, Ledger!NotDebited
  <2> QED
    BY <2>3 DEF Ledger!Next
<1>8. ASSUME NEW f \in Addr, NEW t \in Addr, NEW n \in Amounts, CanMove(f, t, n), n > 0,
             balance' = Moved(f, t, n), ~paused, UNCHANGED <<supply, configVars>>
      PROVE  [Ledger!Next]_(Ledger!ledger)
  <2>1. /\ \A a \in Addr : a # f => balance'[a] >= balance[a]
        /\ balance'[f] >= lockup[f].amount
    BY <1>8, MovedType DEF IndInv
  <2>2. Ledger!Pay(f)
    BY <1>1, <1>8, <2>1 DEF configVars, Ledger!Pay, Ledger!NotDebited
  <2> QED
    BY <2>2 DEF Ledger!Next
<1>9. ASSUME NEW f \in Addr, NEW n \in Amounts, Destroy(f, n), ~paused, UNCHANGED configVars
      PROVE  [Ledger!Next]_(Ledger!ledger)
  <2>1. n \in 1..(balance[f] - lockup[f].amount)
    BY <1>2, <1>9 DEF Destroy, Spendable
  <2>2. Ledger!Redeem(f)
    BY <1>1, <1>9, <2>1 DEF Destroy, configVars, Ledger!Redeem
  <2> QED
    BY <2>2 DEF Ledger!Next
<1>10. ASSUME maxSupply' \in Nat, paused' \in BOOLEAN, UNCHANGED <<balance, supply, lockup>>
       PROVE  [Ledger!Next]_(Ledger!ledger)
  BY <1>1, <1>10 DEF Ledger!Next, Ledger!Configure
<1>11. ASSUME NEW c \in Addr, NEW k \in Caps, SetMaxSupply(c, k)
       PROVE  [Ledger!Next]_(Ledger!ledger)
  BY <1>10, <1>11 DEF SetMaxSupply, ledgerVars, IndInv, TypeOK
<1>12. ASSUME NEW c \in Addr, NEW p \in BOOLEAN, SetPaused(c, p)
       PROVE  [Ledger!Next]_(Ledger!ledger)
  BY <1>10, <1>12 DEF SetPaused, ledgerVars, IndInv, TypeOK, Amount
<1> HIDE DEF L
<1> QED
  <2> USE DEF SingleCall, ledgerVars, configVars
  <2>1. CASE \E x, y \in Addr, n \in Amounts : Mint(x, y, n) \/ Transfer(x, y, n)
    BY <1>7, <1>8, <2>1 DEF Transfer
  <2>2. CASE \E s \in Spenders, f, t \in Addr, n \in Amounts : TransferFrom(s, f, t, n)
    BY <1>8, <2>2 DEF TransferFrom
  <2>3. CASE \/ \E f \in Addr, n \in Amounts : Burn(f, n)
             \/ \E s \in Spenders, f \in Addr, n \in Amounts : BurnFrom(s, f, n)
    BY <1>9, <2>3 DEF Burn, BurnFrom
  <2>4. CASE \/ \E f \in Addr, s \in Spenders, n \in Amounts, e \in Expirations : Approve(f, s, n, e)
             \/ \E c, a \in Addr, r \in RolesInPlay : GovernRole(c, r, a)
    BY <1>3, <2>4 DEF Approve, GovernRole
  <2> QED
    BY <1>4, <1>5, <1>6, <1>11, <1>12, <2>1, <2>2, <2>3, <2>4

\* A list call takes its one step of the abstract ledger when it commits.
LEMMA ListCallRefines ==
    ASSUME IndInv, ListCall
    PROVE  [Ledger!Next]_(Ledger!ledger)
<1> USE DEF configVars
<1>1. ASSUME NEW k \in {"mint", "transfer", "exec"}, NEW w, NEW items, Idle, Begin(k, w, items)
      PROVE  [Ledger!Next]_(Ledger!ledger)
  <2>1. /\ ~Idle' /\ saved'.balance = balance /\ saved'.supply = supply
        /\ UNCHANGED <<maxSupply, lockup, paused>>
    BY <1>1 DEF Begin, Idle, NoCall
  <2> QED
    BY <1>1, <2>1 DEF Ledger!ledger
<1>2. ASSUME CallItem PROVE [Ledger!Next]_(Ledger!ledger)
  <2>1. call'.kind = call.kind /\ call.kind # "none" /\ ~Idle
    BY <1>2, RunningCall DEF CallItem, IndInv
  <2>2. ~Idle'
    BY <2>1 DEF Idle, NoCall
  <2> QED
    BY <1>2, <2>1, <2>2 DEF CallItem, Ledger!ledger
<1>3. ASSUME CallAbort PROVE [Ledger!Next]_(Ledger!ledger)
  BY <1>3 DEF CallAbort, Idle, Ledger!ledger
<1>4. ASSUME CallCommit PROVE [Ledger!Next]_(Ledger!ledger)
  <2>1. /\ ~Idle /\ Idle' /\ call.who \in Addr
        /\ UNCHANGED <<balance, supply, maxSupply, lockup, paused>>
    BY <1>4, RunningCall DEF CallCommit, Idle, IndInv, ledgerVars
  <2>2. /\ ~paused
        /\ \A a \in Addr : a # call.who => saved.balance[a] <= balance[a]
        /\ \A a \in Addr : balance[a] \in Int /\ saved.balance[a] \in Int
        /\ lockup[call.who].amount <= balance[call.who] /\ lockup[call.who].amount \in Int
        /\ supply \in Int /\ saved.supply \in Int
    BY <2>1, InputTypes
    DEF IndInv, ListCallInv, LockedCovered, TypeOK, Snapshot, Amount, Lockup
  <2>3. CASE call.kind = "mint" /\ supply > saved.supply
    <3>1. /\ saved.balance[call.who] <= balance[call.who] /\ supply <= maxSupply
      BY <2>1, <2>3 DEF IndInv, ListCallInv
    <3>2. \A a \in Addr : balance[a] >= saved.balance[a]
      BY <2>2, <3>1
    <3>3. Ledger!Issue
      BY <2>1, <2>2, <2>3, <3>1, <3>2 DEF Ledger!Issue, Ledger!NotDebited
    <3> QED
      BY <3>3 DEF Ledger!Next
  <2>4. CASE call.kind = "mint" /\ supply <= saved.supply
    <3>1. balance = saved.balance /\ supply = saved.supply
      BY <2>1, <2>4 DEF IndInv, ListCallInv
    <3> QED
      BY <2>1, <3>1 DEF Ledger!ledger
  <2>5. CASE call.kind # "mint"
    <3>1. supply = saved.supply
      BY <2>1, <2>5 DEF IndInv, ListCallInv
    <3>2. \A a \in Addr \ {call.who} : balance[a] >= saved.balance[a]
      BY <2>2
    <3>3. Ledger!Pay(call.who)
      BY <2>1, <2>2, <3>1, <3>2 DEF Ledger!Pay, Ledger!NotDebited
    <3> QED
      BY <2>1, <3>3 DEF Ledger!Next
  <2> QED
    BY <2>2, <2>3, <2>4, <2>5
<1> QED
  BY <1>1, <1>2, <1>3, <1>4
  DEF ListCall, BatchMintBegin, BatchTransferBegin, ExecuteBegin

\* The token contract implements the abstract ledger: whatever a call does
\* inside - a list of mints or payments, a draw on an allowance, a rollback -
\* an observer between calls sees one step that issues under the cap, or
\* debits at most one account and never its locked tokens.
THEOREM TokenImplementsLedger == Spec => LedgerSpec
<1>1. Init => Ledger!Init
  <2> SUFFICES ASSUME Init PROVE Ledger!Init
    OBVIOUS
  <2>1. /\ Idle /\ balance = [a \in Addr |-> 0] /\ supply = 0 /\ ~paused /\ paused \in BOOLEAN
        /\ lockup = [a \in Addr |-> [amount |-> 0, until |-> 0]]
    BY DEF Init, EmptySnapshot, Idle
  <2>2. [a \in Addr |-> lockup[a].amount] = [a \in Addr |-> 0]
    BY <2>1
  <2>3. maxSupply \in Nat
    BY TokenAssumption DEF Init
  <2> QED
    BY <2>1, <2>2, <2>3 DEF Ledger!Init
<1>2. IndInv /\ [Next]_vars => [Ledger!Next]_(Ledger!ledger)
  <2> SUFFICES ASSUME IndInv, [Next]_vars PROVE [Ledger!Next]_(Ledger!ledger)
    OBVIOUS
  <2>1. CASE CloseLedger \/ UNCHANGED vars
    BY <2>1 DEF CloseLedger, vars, ledgerVars, configVars, callVars, Idle, Ledger!ledger
  <2> QED
    BY <2>1, SingleCallRefines, ListCallRefines DEF Next
<1> QED
  BY <1>1, <1>2, IndInvHolds, PTL DEF Spec, LedgerSpec, Ledger!Spec
=============================================================================
