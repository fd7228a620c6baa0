----------------------------- MODULE ReadHooks -----------------------------
(* The React hooks of react/src/hooks.ts that read the contract, and the     *)
(* hooks whose transactions make the others refetch.  A hook is a record of  *)
(* what distinguishes it: which answers it lets through, what it does with   *)
(* an input it cannot fetch, what it clears.  One mounted hook (two for the  *)
(* hooks that share a module-level cache) lives through renders with other   *)
(* inputs, polls, refetches and unmounting while its calls are answered in   *)
(* any order; the second, where there is one, keeps its input.  A value is   *)
(* the key it was read for and the version of the contract's state it was    *)
(* read at.                                                                  *)
EXTENDS Integers, FiniteSets

CONSTANTS
    Keys,           \* inputs that can be fetched: addresses, contracts
    NoKey,          \* no input: disconnected wallet, missing option
    BadKey,         \* an input the hook refuses to fetch
    Nothing,        \* null
    Pairs,          \* <<read hook, submitting hook>>: which two share a page
    MaxCalls,       \* bound: calls started
    MaxVersion,     \* bound: transactions confirmed
    MaxRenders,     \* bound: renders with another input
    MaxSharedRenders\* the same for the hooks with a shared cache

ASSUME BoundsAssumption ==
    /\ {MaxCalls, MaxVersion, MaxRenders, MaxSharedRenders} \subseteq Nat
    /\ Keys \cap {NoKey, BadKey, Nothing} = {} /\ NoKey # BadKey
    /\ Nothing \notin [key : Keys, ver : -1 .. MaxVersion]

-----------------------------------------------------------------------------
(* What a hook does with an input it cannot fetch.                           *)

Ignore == [data |-> FALSE, error |-> "keep", loading |-> FALSE, bump |-> FALSE]
LoadingOff == [Ignore EXCEPT !.loading = TRUE]
DataOnly == [Ignore EXCEPT !.data = TRUE]
DataAndLoading == [Ignore EXCEPT !.data = TRUE, !.loading = TRUE]
Reset == [data |-> TRUE, error |-> "clear", loading |-> TRUE, bump |-> FALSE]
ResetAndBump == [Reset EXCEPT !.bump = TRUE]
Reject == [Ignore EXCEPT !.error = "set", !.loading = TRUE]
RejectAndClear == [Reject EXCEPT !.data = TRUE]

(* The hooks.  guard: "latest" applies an answer only if it is the newest    *)
(* request's, "mounted" if the component is mounted, "none" always.          *)
(* inputs: which unfetchable inputs the hook can be given.  none, bad, off:  *)
(* what a fetch does with them; effNone, effOff: what the effect does when   *)
(* it looks before it fetches.  offFetches: refetch ignores `enabled`.       *)
(* clears: a fetch starts with setError(null); okClears: a success ends so.  *)
(* failData: a failure overwrites data.  loads: there is a loading flag.     *)
(* listens: the window event that makes it refetch.  cache: none, "evict"    *)
(* (a forced fetch drops cached value and pending promise) or "join" (it     *)
(* skips the cached value only).                                             *)
Plain ==
    [guard |-> "none", inputs |-> {}, none |-> Ignore, bad |-> Ignore, off |-> Ignore,
     effNone |-> Ignore, effOff |-> Ignore, offFetches |-> FALSE, clears |-> TRUE,
     okClears |-> FALSE, failData |-> FALSE, loads |-> TRUE, refetch |-> TRUE,
     listens |-> "none", approves |-> FALSE, increments |-> FALSE, cache |-> "none"]

useTokenMetadata ==
    [Plain EXCEPT !.guard = "mounted", !.inputs = {"bad", "off"}, !.bad = Reject,
                  !.offFetches = TRUE, !.okClears = TRUE, !.cache = "evict"]

useBcForgeToken == [Plain EXCEPT !.clears = FALSE, !.refetch = FALSE]

useBalance ==
    [Plain EXCEPT !.guard = "latest", !.inputs = {"none", "bad", "off"}, !.bad = Reject,
                  !.effNone = ResetAndBump, !.effOff = ResetAndBump, !.okClears = TRUE]

(* useBalance on the connected wallet's key.                                 *)
useWalletBalancePolling == useBalance

useTotalSupply == [Plain EXCEPT !.clears = FALSE]

useAllowance == [Plain EXCEPT !.inputs = {"none"}]

useVaultShareBalance == [Plain EXCEPT !.inputs = {"none", "off"}]

(* The three that report on an address: an empty one resets, one that is no  *)
(* Stellar address is an error.                                              *)
OfAddress ==
    [Plain EXCEPT !.guard = "latest", !.inputs = {"none", "bad", "off"}, !.none = Reset,
                  !.effNone = Reset, !.bad = RejectAndClear, !.okClears = TRUE]

useAccountBalance == [OfAddress EXCEPT !.listens = "balance"]

useTokenAllowance == [OfAddress EXCEPT !.listens = "approve", !.approves = TRUE]

useHasRole == [OfAddress EXCEPT !.failData = TRUE, !.effOff = LoadingOff]

useLatestLedger ==
    [Plain EXCEPT !.guard = "mounted", !.clears = FALSE, !.okClears = TRUE, !.loads = FALSE]

useRbacRoles ==
    [Plain EXCEPT !.guard = "mounted", !.inputs = {"none", "off"}, !.none = Reset,
                  !.effNone = LoadingOff, !.effOff = LoadingOff, !.offFetches = TRUE,
                  !.okClears = TRUE]

useRoleAdmins ==
    [Plain EXCEPT !.guard = "mounted", !.inputs = {"off"}, !.effOff = LoadingOff,
                  !.offFetches = TRUE, !.okClears = TRUE]

useVestingSchedule ==
    [Plain EXCEPT !.guard = "mounted", !.inputs = {"none", "off"}, !.none = DataAndLoading,
                  !.effNone = DataAndLoading, !.off = DataAndLoading, !.effOff = DataAndLoading,
                  !.okClears = TRUE]

useBatchContractReads ==
    [Plain EXCEPT !.guard = "mounted", !.inputs = {"none", "off"}, !.none = LoadingOff,
                  !.effNone = LoadingOff, !.off = LoadingOff, !.effOff = LoadingOff,
                  !.okClears = TRUE, !.cache = "join"]

useFlashLoanGuardStatus ==
    [Plain EXCEPT !.guard = "mounted", !.inputs = {"none", "off"}, !.none = Reset,
                  !.effNone = Reset, !.off = Reset, !.effOff = Reset]

useSplitRecipientShares == useFlashLoanGuardStatus

useContractEvents == [Plain EXCEPT !.inputs = {"off"}]

useAccountSequence ==
    [Plain EXCEPT !.inputs = {"none", "off"}, !.none = DataOnly, !.effNone = DataOnly,
                  !.off = DataOnly, !.effOff = DataOnly, !.increments = TRUE]

useContractTtl == [Plain EXCEPT !.inputs = {"off"}, !.off = DataOnly, !.effOff = DataOnly]

useRateLimitStatus == [useAccountSequence EXCEPT !.increments = FALSE]

Table ==
    [useTokenMetadata |-> useTokenMetadata, useBcForgeToken |-> useBcForgeToken,
     useBalance |-> useBalance, useWalletBalancePolling |-> useWalletBalancePolling,
     useTotalSupply |-> useTotalSupply, useAllowance |-> useAllowance,
     useVaultShareBalance |-> useVaultShareBalance, useAccountBalance |-> useAccountBalance,
     useTokenAllowance |-> useTokenAllowance, useHasRole |-> useHasRole,
     useLatestLedger |-> useLatestLedger, useRbacRoles |-> useRbacRoles,
     useRoleAdmins |-> useRoleAdmins, useVestingSchedule |-> useVestingSchedule,
     useBatchContractReads |-> useBatchContractReads,
     useFlashLoanGuardStatus |-> useFlashLoanGuardStatus,
     useSplitRecipientShares |-> useSplitRecipientShares,
     useContractEvents |-> useContractEvents, useAccountSequence |-> useAccountSequence,
     useContractTtl |-> useContractTtl, useRateLimitStatus |-> useRateLimitStatus]

(* The hooks that submit.  wallet: requireConnectedWallet runs first.        *)
(* notifies: the event a success dispatches.  changes: it is a transaction.  *)
Submit == [wallet |-> TRUE, notifies |-> "none", changes |-> TRUE]

useMint == [Submit EXCEPT !.notifies = "balance"]
useTransfer == [Submit EXCEPT !.notifies = "balance"]
useBurn == [Submit EXCEPT !.notifies = "balance"]
useApprove == [Submit EXCEPT !.notifies = "approve"]
useVaultDeposit == Submit
useProposalVote == Submit
useProposalVoting == [Submit EXCEPT !.wallet = FALSE]
useExtendContractTtl == Submit
useSimulateTransaction == [Submit EXCEPT !.wallet = FALSE, !.changes = FALSE]
useEstimateFee == [Submit EXCEPT !.wallet = FALSE, !.changes = FALSE]

Submitters ==
    [useMint |-> useMint, useTransfer |-> useTransfer, useBurn |-> useBurn,
     useApprove |-> useApprove, useVaultDeposit |-> useVaultDeposit,
     useProposalVote |-> useProposalVote, useProposalVoting |-> useProposalVoting,
     useExtendContractTtl |-> useExtendContractTtl,
     useSimulateTransaction |-> useSimulateTransaction, useEstimateFee |-> useEstimateFee]

ASSUME PairsAssumption == Pairs \subseteq (DOMAIN Table) \X (DOMAIN Submitters)

-----------------------------------------------------------------------------
VARIABLES
    hook,           \* the read hook of this behaviour
    submitter,      \* the submitting hook of this behaviour
    inst,           \* [Instances -> what a mounted hook holds]
    calls,          \* calls awaiting an answer
    cache, inflight,\* module-level: last value and pending promise by key
    n,              \* calls started
    renders,
    version,        \* of the contract's state
    writes,         \* submissions awaiting their outcome, with their key
    submitted,      \* submissions started
    busy, failed,   \* the submitting hook's loading and error
    announced,      \* history: the last version an event told the read hook of
    overlapped      \* history: an approveAndRefetch ended beside a newer fetch or input

submitVars == <<writes, submitted, busy, failed>>
vars == <<hook, submitter, inst, calls, cache, inflight, n, renders, version, submitVars, announced,
          overlapped>>

Instances == {1, 2}
H == Table[hook]
S == Submitters[submitter]
Shared == H.cache # "none"
NoValue == -1
NoPromise == [p |-> 0, at |-> 0]

Inputs ==
    [key : Keys \cup (IF "none" \in H.inputs THEN {NoKey} ELSE {})
                \cup (IF "bad" \in H.inputs THEN {BadKey} ELSE {}),
     on : IF "off" \in H.inputs THEN BOOLEAN ELSE {TRUE}]

Fetchable(a) == a.on /\ a.key \in Keys

Unmounted ==
    [life |-> "new", key |-> NoKey, on |-> FALSE, data |-> Nothing, error |-> Nothing,
     loading |-> FALSE, req |-> 0]

Init ==
    /\ \E pair \in Pairs : hook = pair[1] /\ submitter = pair[2]
    /\ inst = [i \in Instances |-> Unmounted]
    /\ calls = {} /\ n = 0 /\ renders = 0 /\ version = 0
    /\ cache = [k \in Keys |-> NoValue] /\ inflight = [k \in Keys |-> NoPromise]
    /\ writes = {} /\ submitted = 0 /\ busy = FALSE /\ failed = FALSE
    /\ announced = 0 /\ overlapped = FALSE

-----------------------------------------------------------------------------
(* A step that fetches is a function on what the fetches change.             *)

Page == [inst |-> inst, calls |-> calls, cache |-> cache, inflight |-> inflight, n |-> n]
Become(p) ==
    /\ inst' = p.inst /\ calls' = p.calls /\ cache' = p.cache /\ inflight' = p.inflight /\ n' = p.n

React(st, r) ==
    [st EXCEPT !.data = IF r.data THEN Nothing ELSE @,
               !.error = CASE r.error = "clear" -> Nothing
                           [] r.error = "set" -> BadKey
                           [] OTHER -> @,
               !.loading = IF r.loading THEN FALSE ELSE @,
               !.req = IF r.bump THEN @ + 1 ELSE @]

(* A value is in the shared cache and may be served.                         *)
Hit(p, k, force) == Shared /\ ~force /\ p.cache[k] # NoValue

(* The promise a fetch awaits: the one pending for its key, unless it was    *)
(* just evicted, or a new one.                                               *)
Promise(p, k, force, v) ==
    IF Shared /\ p.inflight[k] # NoPromise /\ ~(force /\ H.cache = "evict")
    THEN p.inflight[k]
    ELSE [p |-> p.n + 1, at |-> v]

(* The fetch callback with a fetchable input k, at version v; own marks the  *)
(* fetch that ends an approveAndRefetch.                                     *)
Fetch(p, i, k, force, v, own) ==
    LET st == p.inst[i]
        promise == Promise(p, k, force, v)
        req == IF H.guard = "latest" THEN st.req + 1 ELSE st.req
        started == [st EXCEPT !.req = req,
                              !.loading = IF H.loads THEN TRUE ELSE @,
                              !.error = IF H.clears THEN Nothing ELSE @]
        served == [st EXCEPT !.data = [key |-> k, ver |-> p.cache[k]],
                             !.error = Nothing, !.loading = FALSE]
    IN  IF Hit(p, k, force)
        THEN [p EXCEPT !.inst[i] = served]
        ELSE [inst |-> [p.inst EXCEPT ![i] = started],
              calls |-> p.calls \cup {[i |-> i, key |-> k, req |-> req, p |-> promise.p,
                                       at |-> promise.at, own |-> own,
                                       due |-> IF force THEN v ELSE 0]},
              cache |-> IF force /\ H.cache = "evict" THEN [p.cache EXCEPT ![k] = NoValue]
                        ELSE p.cache,
              inflight |-> IF Shared THEN [p.inflight EXCEPT ![k] = promise] ELSE p.inflight,
              n |-> p.n + 1]

(* The effect that runs when the input has changed (skipCache off).          *)
Effect(p, i) ==
    LET st == p.inst[i]
    IN  CASE ~st.on -> [p EXCEPT !.inst[i] = React(st, H.effOff)]
          [] st.on /\ st.key = NoKey -> [p EXCEPT !.inst[i] = React(st, H.effNone)]
          [] st.on /\ st.key = BadKey -> [p EXCEPT !.inst[i] = React(st, H.bad)]
          [] OTHER -> Fetch(p, i, st.key, FALSE, version, FALSE)

(* refetch, and a tick of the polling interval.                              *)
Call(p, i, force) ==
    LET st == p.inst[i]
        off == ~st.on /\ ~H.offFetches
    IN  CASE off -> [p EXCEPT !.inst[i] = React(st, H.off)]
          [] ~off /\ st.key = NoKey -> [p EXCEPT !.inst[i] = React(st, H.none)]
          [] ~off /\ st.key = BadKey -> [p EXCEPT !.inst[i] = React(st, H.bad)]
          [] OTHER -> Fetch(p, i, st.key, force, version, FALSE)

Mounted(i) == inst[i].life = "mounted"
Forces == IF Shared THEN BOOLEAN ELSE {FALSE}

Mount(i) ==
    /\ inst[i].life = "new" /\ n < MaxCalls
    /\ i = 1 \/ Shared
    /\ \E a \in Inputs :
        /\ i = 1 \/ Fetchable(a)
        /\ Become(Effect([Page EXCEPT !.inst[i] = [Unmounted EXCEPT !.life = "mounted",
                                                                    !.key = a.key, !.on = a.on]], i))
    /\ UNCHANGED <<hook, submitter, renders, version, submitVars, announced, overlapped>>

Render(i) ==
    /\ Mounted(i) /\ n < MaxCalls
    /\ renders < IF Shared THEN MaxSharedRenders ELSE MaxRenders
    /\ \E a \in Inputs :
        /\ a # [key |-> inst[i].key, on |-> inst[i].on]
        /\ Become(Effect([Page EXCEPT !.inst[i] = [inst[i] EXCEPT !.key = a.key, !.on = a.on]],
                         i))
    /\ renders' = renders + 1
    /\ UNCHANGED <<hook, submitter, version, submitVars, announced, overlapped>>

Refetch(i) ==
    /\ Mounted(i) /\ n < MaxCalls /\ H.refetch
    /\ \E force \in Forces : Become(Call(Page, i, force))
    /\ UNCHANGED <<hook, submitter, renders, version, submitVars, announced, overlapped>>

Unmount(i) ==
    /\ Mounted(i)
    /\ inst' = [inst EXCEPT ![i].life = "gone"]
    /\ UNCHANGED <<hook, submitter, calls, cache, inflight, n, renders, version, submitVars,
                   announced, overlapped>>

(* Mutant: any answer is shown as long as the component is mounted.          *)
PassesLateMutant(c) == H.guard = "none" \/ Mounted(c.i)

(* Mutant: only the hooks that number their requests look at mounting.       *)
PassesGoneMutant(c) == H.guard = "latest" => Mounted(c.i) /\ c.req = inst[c.i].req

(* May this call's answer be shown?                                          *)
Passes(c) ==
    CASE H.guard = "latest" -> Mounted(c.i) /\ c.req = inst[c.i].req
      [] H.guard = "mounted" -> Mounted(c.i)
      [] OTHER -> TRUE

(* What the hook holds after the answer to c: a value, or the failure that   *)
(* NoValue stands for.                                                       *)
Shown(st, c, v) ==
    [st EXCEPT !.data = CASE v # NoValue -> [key |-> c.key, ver |-> v]
                          [] v = NoValue /\ H.failData -> [key |-> c.key, ver |-> NoValue]
                          [] OTHER -> @,
               !.error = CASE v = NoValue -> c.key
                           [] v # NoValue /\ H.okClears -> Nothing
                           [] OTHER -> @,
               !.loading = FALSE]

(* A promise settles: with the state as it was at some moment since the RPC  *)
(* was sent, or with an error (withRpcTimeout's included).  Every fetch that *)
(* awaits it goes on.                                                        *)
Answer ==
    \E c0 \in calls, v \in {NoValue} \cup 0 .. version :
        LET settled == {c \in calls : c.p = c0.p}
            mine(i) == {c \in settled : c.i = i}
            pass(i) == {c \in mine(i) : Passes(c)}
        IN  /\ v # NoValue => c0.at <= v
            /\ inst' = [i \in Instances |->
                    IF pass(i) # {} THEN Shown(inst[i], CHOOSE c \in pass(i) : TRUE, v)
                    ELSE IF Mounted(i) /\ \E c \in mine(i) : c.own
                    THEN [inst[i] EXCEPT !.loading = FALSE]
                    ELSE inst[i]]
            /\ calls' = calls \ settled
            /\ cache' = IF Shared /\ v # NoValue THEN [cache EXCEPT ![c0.key] = v] ELSE cache
            /\ inflight' = IF Shared THEN [inflight EXCEPT ![c0.key] = NoPromise] ELSE inflight
            /\ overlapped' = (overlapped \/ \E c \in settled : c.own /\ ~Passes(c))
            /\ UNCHANGED <<hook, submitter, n, renders, version, submitVars, announced>>

-----------------------------------------------------------------------------
(* Submissions, and what they tell the read hooks.                           *)

(* incrementSequence: the local guess after submitting.                      *)
incrementSequence(i) ==
    /\ H.increments /\ Mounted(i) /\ inst[i].data # Nothing
    /\ inst[i].data.ver < MaxVersion
    /\ inst' = [inst EXCEPT ![i].data.ver = @ + 1]
    /\ UNCHANGED <<hook, submitter, calls, cache, inflight, n, renders, version, submitVars,
                   announced, overlapped>>

(* Does the dispatched event make the read hook fetch?                       *)
Hears(event, k) ==
    /\ event # "none" /\ H.listens = event /\ Mounted(1) /\ Fetchable(inst[1])
    /\ event = "approve" => k = inst[1].key

(* Mutant: the listener ignores events while a fetch is pending.             *)
notifyTransactionConfirmedMutant(p, event, k, v) ==
    IF Hears(event, k) /\ p.calls = {} THEN Fetch(p, 1, p.inst[1].key, FALSE, v, FALSE) ELSE p

(* notifyTransactionConfirmed at version v.                                  *)
notifyTransactionConfirmed(p, event, k, v) ==
    IF Hears(event, k) THEN Fetch(p, 1, p.inst[1].key, FALSE, v, FALSE) ELSE p

(* mint, transfer, approve, deposit, vote... of the submitting hook.         *)
Start ==
    /\ submitted < MaxVersion
    /\ submitted' = submitted + 1
    /\ \E connected \in BOOLEAN, k \in IF S.notifies = "approve" THEN Keys ELSE {NoKey} :
        IF S.wallet /\ ~connected
        THEN busy' = FALSE /\ failed' = TRUE /\ UNCHANGED writes
        ELSE busy' = TRUE /\ failed' = FALSE
             /\ writes' = writes \cup {[key |-> k, id |-> submitted, own |-> FALSE, on |-> TRUE]}
    /\ UNCHANGED <<hook, submitter, inst, calls, cache, inflight, n, renders, version, announced,
                   overlapped>>

(* It settles: confirmed, or with an error, which a transaction that landed  *)
(* may end in too.                                                           *)
Settle ==
    \E w \in writes, ok \in BOOLEAN, landed \in BOOLEAN :
        LET v == IF landed THEN version + 1 ELSE version
            p == notifyTransactionConfirmed(Page, S.notifies, w.key, v)
        IN  /\ ~w.own /\ n < MaxCalls
            /\ ok => landed = S.changes
            /\ landed => S.changes
            /\ writes' = writes \ {w}
            /\ busy' = FALSE
            /\ failed' = (failed \/ ~ok)
            /\ version' = v
            /\ Become(IF ok THEN p ELSE Page)
            /\ announced' = IF ok /\ Hears(S.notifies, w.key) THEN v ELSE announced
            /\ UNCHANGED <<hook, submitter, renders, submitted, overlapped>>

(* approveAndRefetch of the read hook, up to its transaction.                *)
approveAndRefetch ==
    /\ H.approves /\ Mounted(1) /\ submitted < MaxVersion
    /\ \E connected \in BOOLEAN :
        IF connected /\ inst[1].key \in Keys
        THEN /\ inst' = [inst EXCEPT ![1].loading = TRUE, ![1].error = Nothing]
             /\ writes' = writes \cup {[key |-> inst[1].key, id |-> submitted, own |-> TRUE,
                                         on |-> inst[1].on]}
        ELSE inst' = [inst EXCEPT ![1].error = inst[1].key] /\ UNCHANGED writes
    /\ submitted' = submitted + 1
    /\ UNCHANGED <<hook, submitter, calls, cache, inflight, n, renders, version, busy, failed,
                   announced, overlapped>>

(* Its transaction settles: the event, then the fetch of the closure that    *)
(* called it, which ends in setLoading(false); or the error, likewise.       *)
approveSettles ==
    \E w \in writes, ok \in BOOLEAN :
        LET v == version + 1
            told == notifyTransactionConfirmed(Page, "approve", w.key, v)
            lost == IF Mounted(1)
                    THEN [Page EXCEPT !.inst[1].error = w.key, !.inst[1].loading = FALSE]
                    ELSE Page
        IN  /\ w.own /\ n < MaxCalls
            /\ writes' = writes \ {w}
            /\ version' = IF ok THEN v ELSE version
            /\ Become(CASE ok /\ w.on /\ Mounted(1) -> Fetch(told, 1, w.key, FALSE, v, TRUE)
                        [] ok /\ ~w.on /\ Mounted(1) -> [told EXCEPT !.inst[1].loading = FALSE]
                        [] ok /\ ~Mounted(1) -> told
                        [] OTHER -> lost)
            /\ announced' = IF ok /\ Hears("approve", w.key) THEN v ELSE announced
            /\ overlapped' = (overlapped \/ calls # {} \/ w.key # inst[1].key \/ ~w.on)
            /\ UNCHANGED <<hook, submitter, renders, submitted, busy, failed>>

Next ==
    \/ \E i \in Instances : Mount(i) \/ Refetch(i)
    \/ Render(1) \/ Unmount(1) \/ incrementSequence(1)
    \/ Answer \/ Start \/ Settle \/ approveAndRefetch \/ approveSettles

(* An RPC call ends, by an answer, an error or a timeout; nothing else is    *)
(* promised.                                                                 *)
Spec == Init /\ [][Next]_vars /\ WF_vars(Answer)

-----------------------------------------------------------------------------
(* Properties.                                                               *)

Values == [key : Keys, ver : -1 .. MaxVersion]

Instance ==
    [life : {"new", "mounted", "gone"}, key : Keys \cup {NoKey, BadKey}, on : BOOLEAN,
     data : Values \cup {Nothing}, error : Keys \cup {NoKey, BadKey, Nothing},
     loading : BOOLEAN, req : Nat]

(* No more transactions are confirmed than were submitted and settled.       *)
TypeOK ==
    /\ hook \in DOMAIN Table /\ submitter \in DOMAIN Submitters
    /\ inst \in [Instances -> Instance]
    /\ n \in Nat /\ version \in 0 .. MaxVersion /\ announced \in 0 .. version
    /\ calls \subseteq [i : Instances, key : Keys, req : Nat, p : 1 .. n, at : 0 .. version,
                         own : BOOLEAN, due : 0 .. version]
    /\ cache \in [Keys -> -1 .. version]
    /\ inflight \in [Keys -> {NoPromise} \cup [p : 1 .. n, at : 0 .. version]]
    /\ writes \subseteq [key : Keys \cup {NoKey}, id : Nat, own : BOOLEAN, on : BOOLEAN]
    /\ \A w \in writes : w.own => H.approves /\ w.key \in Keys
    /\ IsFiniteSet(writes) /\ submitted \in 0 .. MaxVersion
    /\ version + Cardinality(writes) <= submitted

(* Calls that share a promise share the moment it was sent, and a forced     *)
(* metadata fetch awaits none that was sent before it.                       *)
PromisesAreKept ==
    /\ \A c, d \in calls : c.p = d.p => c.at = d.at
    /\ \A k \in Keys, c \in calls : c.p = inflight[k].p => c.at = inflight[k].at
    /\ \A k, m \in Keys : inflight[k].p = inflight[m].p => inflight[k].at = inflight[m].at
    /\ H.cache = "evict" => \A c \in calls : c.due <= c.at

(* Of a hook that numbers its requests one is mounted, and the call with the *)
(* present number is one for the present input; the two balance hooks have   *)
(* no such call while they are disconnected.                                 *)
CallsKnowTheirInput ==
    H.guard = "latest" =>
        /\ inst[2].life = "new" /\ (inst[1].life = "new" => inst[1].req = 0)
        /\ \A c \in calls : c.i = 1 /\ c.req <= inst[1].req
        /\ (~overlapped /\ Mounted(1) /\ Fetchable(inst[1])) =>
              \A c \in calls : c.req = inst[1].req => c.key = inst[1].key
        /\ (hook \in {"useBalance", "useWalletBalancePolling"} /\ Mounted(1)
                /\ (inst[1].key = NoKey \/ ~inst[1].on)) =>
              \A c \in calls : c.req # inst[1].req

(* A failed fetch keeps the data there was: useBalance (hooks.ts:960),       *)
(* useAccountBalance (1703) and useTokenAllowance (1967); useHasRole does    *)
(* not.                                                                      *)
FailureKeepsData(st) == st.error = st.key /\ ~H.failData

(* A hook that numbers its requests, given an input it can fetch, shows no   *)
(* error but that input's once it stops loading, whatever order the answers  *)
(* to earlier inputs come in; and it shows that input's data.  Two           *)
(* exceptions: when the fetch for the input failed, hooks whose failures     *)
(* keep the data show the earlier input's beside the error; and nothing is   *)
(* said of a hook whose approveAndRefetch ended beside a newer fetch or      *)
(* input.                                                                    *)
SettledMeansCurrent ==
    (H.guard = "latest" /\ ~overlapped /\ Mounted(1) /\ Fetchable(inst[1]) /\ ~inst[1].loading)
        => /\ inst[1].error \in {Nothing, inst[1].key}
           /\ \/ inst[1].data # Nothing /\ inst[1].data.key = inst[1].key
              \/ FailureKeepsData(inst[1])

(* "When the wallet disconnects ... balances are reset" (hooks.ts:806): no   *)
(* late answer brings them back.                                             *)
DisconnectedShowsNothing ==
    (hook \in {"useBalance", "useWalletBalancePolling"} /\ Mounted(1)
        /\ (inst[1].key = NoKey \/ ~inst[1].on))
        => inst[1].data = Nothing /\ inst[1].error = Nothing /\ ~inst[1].loading

(* A forced metadata fetch is answered with a state no older than the moment *)
(* it was asked for, even when an older request for the contract is pending. *)
ForcedIsFresh ==
    H.cache = "evict" =>
        \A c \in calls \ calls' : \A i \in Instances :
            (i = c.i /\ inst'[i] # inst[i] /\ inst'[i].data # inst[i].data) => inst'[i].data.ver >= c.due

(* A hook that tracks mounting sets no state once its component is gone.     *)
QuietAfterUnmount ==
    \A i \in Instances : (H.guard # "none" /\ inst[i].life = "gone") => inst'[i] = inst[i]

(* No answer is applied that is too old for the fetch it answers, or too     *)
(* late for the component that asked.                                        *)
AnswersAreTimely == [][ForcedIsFresh /\ QuietAfterUnmount]_vars

(* A spinner stops.                                                          *)
LoadingEnds ==
    \A i \in Instances :
        (Mounted(i) /\ inst[i].loading)
            ~> (~inst[i].loading \/ ~Mounted(i) \/ \E w \in writes : w.own)

(* "automatically refetching when new approve transactions confirm"          *)
(* (hooks.ts:1850): after an event the hook shows a state at least as new,   *)
(* or an error, unless it is given an input it cannot fetch.                 *)
AnnouncedIsShown ==
    \A v \in 1 .. MaxVersion :
        announced = v
            ~> \/ ~Mounted(1) \/ ~Fetchable(inst[1]) \/ inst[1].error # Nothing
               \/ inst[1].data # Nothing /\ inst[1].data.ver >= v

(* What a hook shows is what belongs to its present input, or nothing, but   *)
(* for the exceptions SettledMeansCurrent names; with what the calls know of *)
(* it this is inductive.                                                     *)
ShowsItsInput ==
    /\ TypeOK /\ PromisesAreKept /\ CallsKnowTheirInput
    /\ SettledMeansCurrent /\ DisconnectedShowsNothing

(* Spinners stop and confirmed transactions come to be shown.                *)
ComesToRest == LoadingEnds /\ AnnouncedIsShown
=============================================================================
