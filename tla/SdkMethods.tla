---------------------------- MODULE SdkMethods ----------------------------
(* The methods of the SDK's three clients: which entry point each calls,     *)
(* with which arguments and in which way; the entry points the contracts     *)
(* export; and how a contract's error code becomes an error class.  SdkTx    *)
(* says what a call in each way goes through.                                *)
EXTENDS Integers, Sequences

Method(via, entries, args, fallback) ==
    [via |-> via, entries |-> entries, args |-> args, fallback |-> fallback]

(* invokeContract, queryContract, getCachedRead over queryContract,          *)
(* buildUnsignedTransaction, simulateTransaction.                            *)
Invoke(entry, args) == Method("invoke", <<entry>>, args, "error")
Query(entry, args) == Method("query", <<entry>>, args, "error")
Cached(entry, args) == Method("cached", <<entry>>, args, "error")
Build(entry, args) == Method("build", <<entry>>, args, "error")
Simulate(entry, args) == Method("simulate", <<entry>>, args, "error")

(* Queries tried in turn, each when the one before has failed: the first     *)
(* with these arguments, the others with none.  "default" is a value         *)
(* returned in place of the last failure.                                    *)
Ask(entries, args, fallback) == Method("query", entries, args, fallback)

-----------------------------------------------------------------------------
(* bcForgeClient (client.ts).  "signer" is the signing account's address.    *)

getBalance == Cached("balance", <<"address">>)
getTotalSupply == Query("supply", <<>>)
getName == Query("name", <<>>)
getSymbol == Query("symbol", <<>>)
getDecimals == Query("decimals", <<>>)
getAllowance == Cached("allowance", <<"from", "spender">>)
getVersion == Query("version", <<>>)
initialize == Invoke("initialize", <<"admin", "decimals", "name", "symbol">>)

(* Mutant: the caller is left out.                                           *)
mintMutant == Invoke("mint", <<"to", "amount">>)

mint == Invoke("mint", <<"signer", "to", "amount">>)
batchMint == Invoke("batch_mint", <<"signer", "recipients">>)
batchTransfer == Invoke("batch_transfer", <<"from", "payments">>)
transfer == Invoke("transfer", <<"from", "to", "amount">>)
transferFrom == Invoke("transfer_from", <<"spender", "from", "to", "amount">>)
approve == Invoke("approve", <<"from", "spender", "amount", "expiry">>)
burn == Invoke("burn", <<"from", "amount">>)
burnFrom == Invoke("burn_from", <<"spender", "from", "amount">>)
transferOwnership == Invoke("transfer_ownership", <<"admin">>)
isPaused == Query("is_paused", <<>>)
pause == Invoke("pause", <<"signer">>)
unpause == Invoke("unpause", <<"signer">>)
buildPauseTx == Build("pause", <<"signer">>)
buildUnpauseTx == Build("unpause", <<"signer">>)
buildMintTx == Build("mint", <<"signer", "to", "amount">>)
buildTransferTx == Build("transfer", <<"from", "to", "amount">>)

buildTransferFromTx == Build("transfer_from", <<"spender", "from", "to", "amount">>)
buildApproveTx == Build("approve", <<"from", "spender", "amount", "expiry">>)
buildBurnTx == Build("burn", <<"from", "amount">>)
buildBurnFromTx == Build("burn_from", <<"spender", "from", "amount">>)
estimateTransferFee == Simulate("transfer", <<"from", "to", "amount">>)
simulateMint == Simulate("mint", <<"signer", "to", "amount">>)
simulateTransfer == Simulate("transfer", <<"from", "to", "amount">>)
simulateTransferFrom == Simulate("transfer_from", <<"spender", "from", "to", "amount">>)
simulateBurn == Simulate("burn", <<"from", "amount">>)
simulateBurnFrom == Simulate("burn_from", <<"spender", "from", "amount">>)
setAdminPool == Invoke("set_admin_pool", <<"pool", "threshold">>)
upgrade == Invoke("upgrade", <<"hash">>)
proposeAction == Invoke("propose_action", <<"admin", "action", "description">>)
approveProposal == Invoke("approve_proposal", <<"admin", "proposalId">>)
createRoleProposal == Invoke("create_role_proposal", <<"admin", "role", "address", "description">>)
executeRoleProposal == Invoke("execute_role_proposal", <<"admin", "proposalId">>)
executeProposal == Invoke("execute_proposal", <<"proposalId">>)
createProposal == Invoke("create_proposal", <<"admin", "description">>)
buildCreateProposalTx == Build("create_proposal", <<"admin", "description">>)
buildApproveProposalTx == Build("approve_proposal", <<"admin", "proposalId">>)
executeUpgrade == Invoke("execute_upgrade", <<"admin", "proposalId", "hash">>)
buildExecuteUpgradeTx == Build("execute_upgrade", <<"admin", "proposalId", "hash">>)
getAdminPool == Query("get_admin_pool", <<>>)
getThreshold == Query("get_threshold", <<>>)
getRoleProposal == Query("get_role_proposal", <<"proposalId">>)

grantRole == Invoke("grant_role", <<"signer", "role", "address">>)
revokeRole == Invoke("revoke_role", <<"signer", "role", "address">>)
renounceRole == Invoke("renounce_role", <<"signer", "role">>)
getRoleHierarchy == Query("get_role_hierarchy", <<"address">>)
listLegacyProposals == Query("list_legacy_proposals", <<"proposalId">>)
listUpgradeProposals == Query("list_upgrade_proposals", <<"proposalId">>)
setAdminContract == Invoke("set_admin_contract", <<"signer", "address">>)
setDependentToken == Invoke("set_token", <<"signer", "address">>)
migrateAdmin == Invoke("migrate_admin", <<>>)
setClawbackAdmin == Invoke("set_clawback_admin", <<"admin">>)
updateName == Invoke("update_name", <<"name">>)
clawback == Invoke("clawback", <<"from", "to", "amount">>)
lockTokens == Invoke("lock_tokens", <<"user", "amount", "time">>)
withdrawLocked == Invoke("withdraw_locked", <<"user">>)
updateSymbol == Invoke("update_symbol", <<"symbol">>)
extendTtl == Invoke("extend_ttl", <<"threshold", "expiry">>)

(* Reads with a second source: getAdmin asks under the older name, hasRole and *)
(* getRoleAdmin ask who the admin is; a failed hasRole answers "no".           *)
getAdmin == Ask(<<"admin", "get_admin">>, <<>>, "error")
hasRole == Ask(<<"has_role", "admin", "get_admin">>, <<"role", "address">>, "default")
getRoleAdmin == Ask(<<"get_role_admin", "admin", "get_admin">>, <<"role">>, "error")
getRateLimitStatus == Ask(<<"get_rate_limit">>, <<"address", "operation">>, "default")

(* Two reads in a row: who the admin is, after a "no".                       *)
verifySuperAdmin == <<hasRole, getAdmin>>

(* The same read for a list of addresses, some at a time.                    *)
getBalances == getBalance

(* Writes that name another method's call.                                   *)
grantMinter == grantRole
revokeMinter == revokeRole
grantSuperAdmin == grantRole
revokeSuperAdmin == revokeRole
grantPauser == grantRole
revokePauser == revokeRole

(* Two transactions in a row, and the reads verifyInitializedState makes,    *)
(* each of whose failures becomes an entry of its error list.                *)
initRbac == <<migrateAdmin, grantRole>>
verifyInitializedState == <<getAdmin, getName, getSymbol, getDecimals, getTotalSupply, hasRole>>

TokenMethods ==
    {getBalance, getTotalSupply, getName, getSymbol, getDecimals, getAllowance, getVersion,
     initialize, mint, batchMint, batchTransfer, transfer, transferFrom, approve, burn,
     burnFrom, transferOwnership, isPaused, pause, unpause, buildPauseTx, buildUnpauseTx,
     buildMintTx, buildTransferTx, buildTransferFromTx, buildApproveTx, buildBurnTx,
     buildBurnFromTx, estimateTransferFee, simulateMint, simulateTransfer,
     simulateTransferFrom, simulateBurn, simulateBurnFrom, setAdminPool, upgrade,
     proposeAction, approveProposal, createRoleProposal, executeRoleProposal,
     executeProposal, createProposal, buildCreateProposalTx, buildApproveProposalTx,
     executeUpgrade, buildExecuteUpgradeTx, getAdminPool, getThreshold, getRoleProposal,
     grantRole, revokeRole, renounceRole, getRoleHierarchy, listLegacyProposals,
     listUpgradeProposals, setAdminContract, setDependentToken, migrateAdmin,
     setClawbackAdmin, updateName, clawback, lockTokens, withdrawLocked, updateSymbol,
     extendTtl, getAdmin, hasRole, getRoleAdmin, getRateLimitStatus,
     grantMinter, revokeMinter, grantSuperAdmin, revokeSuperAdmin, grantPauser,
     revokePauser, getBalances}
    \cup {initRbac[i] : i \in DOMAIN initRbac}
    \cup {verifySuperAdmin[i] : i \in DOMAIN verifySuperAdmin}
    \cup {verifyInitializedState[i] : i \in DOMAIN verifyInitializedState}

(* Reads of other contracts by one simulation each.  The vesting and split   *)
(* reads answer with nothing when it is refused; the guard's simulates a     *)
(* deposit and answers "not locked" whatever comes back.                     *)
Peek(entry, args) == Method("peek", <<entry>>, args, "default")
getVestingInfo == Peek("get_vesting_info", <<"address">>)
getSplitInvoice == Peek("get_invoice", <<"invoiceId">>)
getFlashLoanLockStatus == Peek("deposit", <<"address">>)

-----------------------------------------------------------------------------
(* VaultClient (vaultClient.ts).                                             *)

Bounded(args, bounded) == IF bounded THEN Append(args, "amount") ELSE args

Vault_getBalance == Query("balance", <<"address">>)
Vault_getShareBalance == Query("share_balance", <<"address">>)
Vault_getTotalSupply == Query("supply", <<>>)
Vault_getTotalAssets == Query("total_assets", <<>>)
Vault_getPendingRewards == Query("pending_rewards", <<>>)
Vault_calculateSharePrice == Query("calculate_share_price", <<>>)
Vault_calculateRewards == Query("calculate_rewards", <<"shares">>)
Vault_getUnderlyingToken == Query("underlying_token", <<>>)
Vault_getName == Query("name", <<>>)
Vault_getSymbol == Query("symbol", <<>>)
Vault_getDecimals == Query("decimals", <<>>)
Vault_getAllowance == Query("allowance", <<"from", "spender">>)
Vault_getUnlockTime == Query("get_unlock_time", <<"user">>)
Vault_compound == Invoke("compound_fees", <<"caller">>)
Vault_distributeRewards == Invoke("distribute_rewards", <<"caller", "amount">>)
Vault_wrap == Invoke("wrap", <<"caller", "amount">>)
Vault_unwrap == Invoke("unwrap", <<"caller", "shares">>)
Vault_setUnlockTime == Invoke("set_unlock_time", <<"caller", "user", "time">>)
Vault_clearUnlockTime == Invoke("clear_unlock_time", <<"caller", "user">>)
Vault_transfer == Invoke("transfer", <<"from", "to", "amount">>)
Vault_approve == Invoke("approve", <<"from", "spender", "amount", "expiry">>)
Vault_transferFrom == Invoke("transfer_from", <<"spender", "from", "to", "amount">>)
Vault_buildCompoundTx == Build("compound_fees", <<"caller">>)
Vault_buildDistributeRewardsTx == Build("distribute_rewards", <<"caller", "amount">>)
Vault_simulateCompound == Simulate("compound_fees", <<"caller">>)

Vault_compoundFees == Vault_compound

(* The slippage bound is passed only when given: the wrapper's shape without *)
(* it, the yield vault's with it.                                            *)
Vault_deposit(bounded) == Invoke("deposit", Bounded(<<"caller", "amount">>, bounded))
Vault_withdraw(bounded) == Invoke("withdraw", Bounded(<<"caller", "shares">>, bounded))
Vault_buildDepositTx(bounded) == Build("deposit", Bounded(<<"caller", "amount">>, bounded))
Vault_buildWithdrawTx(bounded) == Build("withdraw", Bounded(<<"caller", "shares">>, bounded))
Vault_simulateDeposit(bounded) == Simulate("deposit", Bounded(<<"caller", "amount">>, bounded))
Vault_simulateWithdraw(bounded) == Simulate("withdraw", Bounded(<<"caller", "shares">>, bounded))

VaultMethods ==
    {Vault_getBalance, Vault_getShareBalance, Vault_getTotalSupply, Vault_getTotalAssets,
     Vault_getPendingRewards, Vault_calculateSharePrice, Vault_calculateRewards,
     Vault_getUnderlyingToken, Vault_getName, Vault_getSymbol, Vault_getDecimals,
     Vault_getAllowance, Vault_getUnlockTime, Vault_compound, Vault_distributeRewards,
     Vault_wrap, Vault_unwrap, Vault_setUnlockTime, Vault_clearUnlockTime, Vault_transfer,
     Vault_approve, Vault_transferFrom, Vault_compoundFees, Vault_buildCompoundTx,
     Vault_buildDistributeRewardsTx, Vault_simulateCompound}
    \cup UNION {{Vault_deposit(b), Vault_withdraw(b), Vault_buildDepositTx(b), Vault_buildWithdrawTx(b),
                 Vault_simulateDeposit(b), Vault_simulateWithdraw(b)} : b \in BOOLEAN}

-----------------------------------------------------------------------------
(* WrapperClient (wrapperClient.ts).                                         *)

Wrapper_getBalance == Query("balance", <<"address">>)
Wrapper_getTotalSupply == Query("supply", <<>>)
Wrapper_getTotalAssets == Query("total_assets", <<>>)
Wrapper_getVaultState == Query("get_vault_state", <<>>)
Wrapper_convertToShares == Query("convert_to_shares", <<"amount">>)
Wrapper_convertToAssets == Query("convert_to_assets", <<"shares">>)
Wrapper_previewDeposit == Query("preview_deposit", <<"amount">>)
Wrapper_previewWithdraw == Query("preview_withdraw", <<"shares">>)
Wrapper_getUnderlyingToken == Query("underlying_token", <<>>)
Wrapper_getName == Query("name", <<>>)
Wrapper_getSymbol == Query("symbol", <<>>)
Wrapper_getDecimals == Query("decimals", <<>>)
Wrapper_getAllowance == Query("allowance", <<"from", "spender">>)
Wrapper_getVersion == Query("version", <<>>)
Wrapper_initialize == Invoke("initialize", <<"admin", "address", "decimals", "name", "symbol">>)
Wrapper_wrap == Invoke("wrap", <<"caller", "amount">>)
Wrapper_unwrap == Invoke("unwrap", <<"caller", "shares">>)
Wrapper_distributeRewards == Invoke("distribute_rewards", <<"caller", "amount">>)
Wrapper_setVaultState == Invoke("set_vault_state", <<"caller", "state">>)
Wrapper_getShareBalance == Query("share_balance", <<"address">>)
Wrapper_getPendingRewards == Query("pending_rewards", <<>>)
Wrapper_calculateSharePrice == Query("calculate_share_price", <<>>)
Wrapper_calculateRewards == Query("calculate_rewards", <<"shares">>)
Wrapper_withdraw == Invoke("withdraw", <<"caller", "shares">>)
Wrapper_setUnlockTime == Invoke("set_unlock_time", <<"caller", "user", "time">>)
Wrapper_clearUnlockTime == Invoke("clear_unlock_time", <<"caller", "user">>)
Wrapper_getUnlockTime == Query("get_unlock_time", <<"user">>)
Wrapper_transfer == Invoke("transfer", <<"from", "to", "amount">>)
Wrapper_approve == Invoke("approve", <<"from", "spender", "amount", "expiry">>)
Wrapper_burn == Invoke("burn", <<"from", "amount">>)
Wrapper_pause == Invoke("pause", <<>>)
Wrapper_unpause == Invoke("unpause", <<>>)
Wrapper_isPaused == Query("is_paused", <<>>)
Wrapper_buildWrapTx == Build("wrap", <<"caller", "amount">>)
Wrapper_buildUnwrapTx == Build("unwrap", <<"caller", "shares">>)
Wrapper_simulateWrap == Simulate("wrap", <<"caller", "amount">>)
Wrapper_simulateUnwrap == Simulate("unwrap", <<"caller", "shares">>)

WrapperMethods ==
    {Wrapper_getBalance, Wrapper_getTotalSupply, Wrapper_getTotalAssets,
     Wrapper_getVaultState, Wrapper_convertToShares, Wrapper_convertToAssets,
     Wrapper_previewDeposit, Wrapper_previewWithdraw, Wrapper_getUnderlyingToken,
     Wrapper_getName, Wrapper_getSymbol, Wrapper_getDecimals, Wrapper_getAllowance,
     Wrapper_getVersion, Wrapper_initialize, Wrapper_wrap, Wrapper_unwrap,
     Wrapper_distributeRewards, Wrapper_setVaultState, Wrapper_getShareBalance,
     Wrapper_getPendingRewards, Wrapper_calculateSharePrice, Wrapper_calculateRewards,
     Wrapper_withdraw, Wrapper_setUnlockTime, Wrapper_clearUnlockTime,
     Wrapper_getUnlockTime, Wrapper_transfer, Wrapper_approve, Wrapper_burn, Wrapper_pause,
     Wrapper_unpause, Wrapper_isPaused, Wrapper_buildWrapTx, Wrapper_buildUnwrapTx,
     Wrapper_simulateWrap, Wrapper_simulateUnwrap}

-----------------------------------------------------------------------------
(* What the contracts export, with the types of the arguments.               *)

TokenAbi ==
    {<<"supply", <<>>>>, <<"allowance", <<"Address", "Address">>>>,
     <<"approve", <<"Address", "Address", "i128", "u32">>>>, <<"balance", <<"Address">>>>,
     <<"transfer", <<"Address", "Address", "i128">>>>,
     <<"transfer_from", <<"Address", "Address", "Address", "i128">>>>,
     <<"burn", <<"Address", "i128">>>>, <<"burn_from", <<"Address", "Address", "i128">>>>,
     <<"decimals", <<>>>>, <<"name", <<>>>>, <<"symbol", <<>>>>,
     <<"lock_tokens", <<"Address", "Address", "i128", "u64">>>>,
     <<"withdraw_locked", <<"Address">>>>,
     <<"initialize", <<"Address", "u32", "String", "String">>>>, <<"admin", <<>>>>,
     <<"mint", <<"Address", "Address", "i128">>>>,
     <<"batch_mint", <<"Address", "Recipients">>>>,
     <<"batch_transfer", <<"Address", "Payments">>>>,
     <<"transfer_ownership", <<"Address">>>>, <<"is_paused", <<>>>>,
     <<"pause", <<"Address">>>>, <<"unpause", <<"Address">>>>,
     <<"upgrade", <<"Address", "Hash">>>>, <<"create_proposal", <<"Address", "String">>>>,
     <<"has_role", <<"Role", "Address">>>>,
     <<"grant_role", <<"Address", "Role", "Address">>>>,
     <<"revoke_role", <<"Address", "Role", "Address">>>>,
     <<"create_role_proposal", <<"Address", "Role", "Address", "String">>>>,
     <<"approve_proposal", <<"Address", "u64">>>>, <<"get_role_proposal", <<"u64">>>>,
     <<"list_legacy_proposals", <<"u64">>>>,
     <<"execute_role_proposal", <<"Address", "u64">>>>,
     <<"set_admin_pool", <<"Addresses", "u32">>>>, <<"get_admin_pool", <<>>>>,
     <<"get_threshold", <<>>>>, <<"execute_upgrade", <<"Address", "u64", "Hash">>>>,
     <<"update_name", <<"String">>>>, <<"update_symbol", <<"String">>>>}

WrapperAbi ==
    {<<"initialize", <<"Address", "Address", "u32", "String", "String">>>>,
     <<"wrap", <<"Address", "i128">>>>, <<"unwrap", <<"Address", "i128">>>>,
     <<"underlying_token", <<>>>>, <<"supply", <<>>>>, <<"share_balance", <<"Address">>>>,
     <<"pause", <<>>>>, <<"unpause", <<>>>>,
     <<"distribute_rewards", <<"Address", "i128">>>>, <<"total_assets", <<>>>>,
     <<"pending_rewards", <<>>>>, <<"calculate_share_price", <<>>>>,
     <<"calculate_rewards", <<"i128">>>>, <<"deposit", <<"Address", "i128">>>>,
     <<"withdraw", <<"Address", "i128">>>>,
     <<"set_unlock_time", <<"Address", "Address", "u64">>>>,
     <<"clear_unlock_time", <<"Address", "Address">>>>,
     <<"get_unlock_time", <<"Address">>>>,
     <<"set_vault_state", <<"Address", "VaultState">>>>, <<"get_vault_state", <<>>>>,
     <<"version", <<>>>>, <<"convert_to_shares", <<"i128">>>>,
     <<"convert_to_assets", <<"i128">>>>, <<"preview_deposit", <<"i128">>>>,
     <<"preview_withdraw", <<"i128">>>>, <<"allowance", <<"Address", "Address">>>>,
     <<"approve", <<"Address", "Address", "i128", "u32">>>>, <<"balance", <<"Address">>>>,
     <<"transfer", <<"Address", "Address", "i128">>>>,
     <<"transfer_from", <<"Address", "Address", "Address", "i128">>>>,
     <<"burn", <<"Address", "i128">>>>, <<"burn_from", <<"Address", "Address", "i128">>>>,
     <<"decimals", <<>>>>, <<"name", <<>>>>, <<"symbol", <<>>>>}

YieldVaultAbi ==
    {<<"deposit", <<"Address", "i128", "i128">>>>,
     <<"withdraw", <<"Address", "i128", "i128">>>>, <<"underlying_token", <<>>>>,
     <<"supply", <<>>>>, <<"share_balance", <<"Address">>>>, <<"total_assets", <<>>>>}

VestingReads == {<<"get_vesting_info", <<"Address">>>>}
SplitReads == {<<"get_invoice", <<"u64">>>>, <<"get_failed_payout", <<"u64", "Address">>>>,
               <<"is_proposal_ready", <<"u64">>>>}
GuardAbi == {<<"deposit", <<"Address">>>>, <<"withdraw", <<"Address">>>>}

(* The value each argument is sent as.  A role goes out as a symbol, and the *)
(* keys of a recipient in the order of its declaration.                      *)
Encoded(arg) ==
    CASE arg \in {"amount", "shares"} -> <<"i128">>
      [] arg \in {"decimals", "expiry", "threshold"} -> <<"u32">>
      [] arg \in {"proposalId", "invoiceId", "time"} -> <<"u64">>
      [] arg \in {"name", "symbol", "description"} -> <<"String">>
      [] arg \in {"role", "operation"} -> <<"Symbol">>
      [] arg = "hash" -> <<"Hash">>
      [] arg = "pool" -> <<"Vec", "Address">>
      [] arg = "recipients" -> <<"Vec", "Map", "to", "amount">>
      [] arg = "payments" -> <<"Vec", "Vec", "Address", "i128">>
      [] arg = "state" -> <<"Map", "accumulated_fees", "exchange_rate", "fee_rate_bps", "fee_receiver",
                            "last_update_timestamp", "max_deposit", "min_deposit">>
      [] arg = "action" -> <<"Map">>
      [] OTHER -> <<"Address">>

(* What the contract can read as a value of its type: a variant of an        *)
(* enumeration is a vector that begins with its name, and a structure a map  *)
(* whose keys are sorted.                                                    *)
Decodes(type) ==
    CASE type = "Role" -> <<"Vec", "Symbol">>
      [] type = "Addresses" -> <<"Vec", "Address">>
      [] type = "Recipients" -> <<"Vec", "Map", "amount", "to">>
      [] type = "Payments" -> <<"Vec", "Vec", "Address", "i128">>
      [] type = "VaultState" -> <<"Map", "accumulated_fees", "exchange_rate", "fee_rate_bps", "fee_receiver",
                                  "last_update_timestamp", "max_deposit", "min_deposit">>
      [] OTHER -> <<type>>

Accepts(types, args) ==
    Len(types) = Len(args) /\ \A i \in DOMAIN args : Decodes(types[i]) = Encoded(args[i])

(* Can a contract with this interface take the i-th of the method's queries, *)
(* or the call, which is the first, at all?                                  *)
CanTake(m, i, abi) ==
    \E e \in abi : e[1] = m.entries[i] /\ Accepts(e[2], IF i = 1 THEN m.args ELSE <<>>)

Fits(m, abi) == CanTake(m, 1, abi)

-----------------------------------------------------------------------------
(* errors.ts: error classes by code, without their Token and Admin prefixes, *)
(* and the contracts' own enumerations.                                      *)

TOKEN_ERROR_MAP ==
    <<"AlreadyInitialized", "NotInitialized", "InvalidAmount", "InsufficientBalance",
      "InsufficientAllowance", "ContractPaused", "FeeNotConfigured",
      "InsufficientFeeBalance", "FeeExemptionNotFound", "MaxSupplyExceeded", "AlreadyPaused",
      "NotPaused", "BatchTooLarge", "BatchEmpty", "PayloadExpired", "PayloadReplayed",
      "UnknownToken">>

ADMIN_ERROR_MAP ==
    <<"RoleNotGranted", "RoleNotHeld", "UnauthorizedRole", "InvalidAddress", "InvalidRole",
      "AlreadyInitialized", "InvalidThreshold", "ProposalNotFound",
      "ProposalAlreadyExecuted", "ProposalAlreadyApproved", "ThresholdNotMet",
      "QuorumNotMet", "TimelockActive", "InvalidWasmHash", "NotProposer",
      "ProposalNotCancellable", "UpgradeProposalNotFound", "ProposalNotPending",
      "DuplicateVote", "Unauthorized", "BatchLengthMismatch", "RoleAlreadyGranted",
      "ProposalExpired", "ProposalCancelled">>

TokenError ==
    <<"AlreadyInitialized", "NotInitialized", "InvalidAmount", "InsufficientBalance",
      "InsufficientAllowance", "ContractPaused", "FeeNotConfigured",
      "InsufficientFeeBalance", "FeeExemptionNotFound", "MaxSupplyExceeded", "AlreadyPaused",
      "NotPaused", "BatchTooLarge", "BatchEmpty", "PayloadExpired", "PayloadReplayed",
      "UnknownToken", "DecimalsImmutable", "TimelockNotElapsed", "PrivilegeProposalNotFound",
      "LockupNotFound", "TokensStillLocked">>

AdminError ==
    <<"RoleNotGranted", "RoleNotHeld", "UnauthorizedRole", "InvalidAddress", "InvalidRole",
      "AlreadyInitialized", "InvalidThreshold", "ProposalNotFound",
      "ProposalAlreadyExecuted", "ProposalAlreadyApproved", "ThresholdNotMet",
      "QuorumNotMet", "TimelockActive", "InvalidWasmHash", "NotProposer",
      "ProposalNotCancellable", "UpgradeProposalNotFound", "ProposalNotPending",
      "DuplicateVote", "Unauthorized", "BatchLengthMismatch", "RoleAlreadyGranted",
      "ProposalExpired", "ProposalCancelled", "PrivilegeTimelockActive",
      "PrivilegeProposalNotFound", "PrivilegeProposalNotOwner", "RoleNotHeldForRenounce",
      "LastSuperAdmin", "RoleProposalNotFound", "RoleProposalRequiresExecution">>

(* The method names parseContractError takes for the admin crate's: those    *)
(* that hold "role", "proposal", "admin", "upgrade" or "threshold".          *)
AdminNames ==
    {"grant_role", "revoke_role", "renounce_role", "has_role", "get_role_admin", "get_role_hierarchy",
     "create_role_proposal", "execute_role_proposal", "get_role_proposal", "create_proposal",
     "approve_proposal", "execute_proposal", "list_legacy_proposals", "list_upgrade_proposals",
     "set_admin_pool", "get_admin_pool", "admin", "get_admin", "migrate_admin", "set_admin_contract",
     "set_clawback_admin", "upgrade", "execute_upgrade", "get_threshold"}

(* <<>> when no class is known for the code.                                 *)
parseContractError(code, entry) ==
    IF entry \in AdminNames /\ code \in DOMAIN ADMIN_ERROR_MAP
    THEN <<"admin", ADMIN_ERROR_MAP[code]>>
    ELSE IF code \in DOMAIN TOKEN_ERROR_MAP THEN <<"token", TOKEN_ERROR_MAP[code]>>
    ELSE IF code \in DOMAIN ADMIN_ERROR_MAP THEN <<"admin", ADMIN_ERROR_MAP[code]>>
    ELSE <<>>

-----------------------------------------------------------------------------
(* hooks.ts keeps tables of its own for the errors it shows, as names        *)
(* without their TOKEN_ and ADMIN_ prefixes.                                 *)

SOROBAN_TOKEN_ERROR_MESSAGES ==
    <<"AlreadyInitialized", "NotInitialized", "InvalidAmount", "InsufficientBalance",
      "InsufficientAllowance", "ContractPaused", "FeeNotConfigured",
      "InsufficientFeeBalance", "FeeExemptionNotFound", "MaxSupplyExceeded", "AlreadyPaused",
      "NotPaused", "BatchTooLarge", "BatchEmpty", "PayloadExpired", "PayloadReplayed",
      "UnknownToken">>

SOROBAN_ADMIN_ERROR_MESSAGES ==
    <<"RoleNotGranted", "RoleNotHeld", "UnauthorizedRole", "InvalidAddress", "InvalidRole",
      "AlreadyInitialized", "InvalidThreshold", "ProposalNotFound",
      "ProposalAlreadyExecuted", "ProposalAlreadyApproved", "ThresholdNotMet",
      "QuorumNotMet", "TimelockActive", "InvalidWasmHash", "NotProposer",
      "ProposalNotCancellable", "UpgradeProposalNotFound", "ProposalNotPending",
      "DuplicateVote", "Unauthorized", "BatchLengthMismatch", "RoleAlreadyGranted",
      "ProposalExpired", "ProposalCancelled">>

(* The read hooks name every code after the token's table.                   *)
normalizeMetadataError(code) ==
    IF code \in DOMAIN SOROBAN_TOKEN_ERROR_MESSAGES THEN <<"token", SOROBAN_TOKEN_ERROR_MESSAGES[code]>>
    ELSE <<>>

(* Both tables, the one for the method's family first.                       *)
decodeTransactionError(code, entry) ==
    LET token == normalizeMetadataError(code)
        admin == IF code \in DOMAIN SOROBAN_ADMIN_ERROR_MESSAGES
                 THEN <<"admin", SOROBAN_ADMIN_ERROR_MESSAGES[code]>> ELSE <<>>
    IN  IF entry \in AdminNames
        THEN IF admin # <<>> THEN admin ELSE token
        ELSE IF token # <<>> THEN token ELSE admin
=============================================================================
