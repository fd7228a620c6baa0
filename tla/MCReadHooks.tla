---------------------------- MODULE MCReadHooks ----------------------------
(* Small instances of ReadHooks for TLC.                                     *)
EXTENDS ReadHooks, TLC

CONSTANTS alice, bob

(* Every read hook whose record differs, and every submitting hook: those    *)
(* that dispatch an event beside the hook that listens for it.               *)
MCPairs ==
    {<<"useAccountBalance", m>> : m \in {"useMint", "useTransfer", "useBurn"}}
    \cup {<<"useTokenAllowance", "useApprove">>, <<"useTokenMetadata", "useVaultDeposit">>,
          <<"useBcForgeToken", "useProposalVote">>, <<"useBalance", "useProposalVoting">>,
          <<"useAllowance", "useExtendContractTtl">>, <<"useTotalSupply", "useMint">>,
          <<"useVaultShareBalance", "useVaultDeposit">>, <<"useHasRole", "useProposalVoting">>,
          <<"useLatestLedger", "useSimulateTransaction">>, <<"useRbacRoles", "useProposalVote">>,
          <<"useRoleAdmins", "useProposalVote">>, <<"useVestingSchedule", "useTransfer">>,
          <<"useBatchContractReads", "useEstimateFee">>,
          <<"useFlashLoanGuardStatus", "useVaultDeposit">>,
          <<"useContractEvents", "useBurn">>, <<"useAccountSequence", "useTransfer">>,
          <<"useContractTtl", "useExtendContractTtl">>, <<"useRateLimitStatus", "useMint">>}
=============================================================================
