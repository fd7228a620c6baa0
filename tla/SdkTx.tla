------------------------------- MODULE SdkTx -------------------------------
(* One call of an SDK client, from the method to the ledger and back:        *)
(* building and simulating the transaction, signing, sending, resending,     *)
(* polling, rebuilding after a sequence or fee error, and the retries around *)
(* all of it; beside it, the reads that go through the client's cache.  The  *)
(* network may lose requests and answers, answer late, raise its fee or take *)
(* another transaction of the same account first.                            *)
EXTENDS SdkMethods, FiniteSets

CONSTANTS
    Retries,        \* withRetry's default
    MaxAttempts,    \* maxAttempts of submitTransaction
    BaseFee,        \* '100'
    ResourceFee,    \* what assembleTransaction adds to the fee it is given
    MaxFeeCap,
    MinFees,        \* fees the network may ask for
    Readers,        \* cached reads of the same value
    Budgets         \* bounds: transactions of other senders, fee rises,
                    \* requests that throw, reads, pins

ASSUME BoundsAssumption ==
    /\ {Retries, MaxAttempts, BaseFee, ResourceFee, MaxFeeCap} \subseteq Nat \ {0}
    /\ MinFees \subseteq Nat

VARIABLES
    client,         \* "token", "vault" or "wrapper"
    mode,           \* who signs: "keypair", "wallet"; "signed": submitSignedTransaction
    call,           \* the method's way, and which of its entries the contract can take
    budget,
    pc,
    outer,          \* retries of the whole call so far
    attempt,        \* attempts of submitTransaction, 1 when it starts
    entry,          \* which of the entries a query is at
    current,        \* the transaction at hand (currentXdr)
    currentFee,
    result,
    txs,            \* transactions signed for this call: their state on the network and
                    \* (history) whether a request about them was never answered, or their
                    \* return value could not be decoded
    seq,            \* the account's sequence number
    minFee,
    ledger,         \* the latest ledger
    readers, cache, pinned,
    confirmed,      \* history: the state the last success was reported at
    raced           \* history: a read was in flight when the cache was cleared

network == <<txs, seq, minFee, ledger>>
reading == <<readers, cache, pinned, raced>>
local == <<pc, outer, attempt, entry, current, currentFee, result>>
fixed == <<client, mode, call>>
txVars == <<fixed, budget, local, network, reading, confirmed>>

AbisOf(c) ==
    CASE c = "token" -> {TokenAbi}
      [] c = "vault" -> {WrapperAbi, YieldVaultAbi}
      [] OTHER -> {WrapperAbi}

MethodsOf(c) ==
    CASE c = "token" -> TokenMethods [] c = "vault" -> VaultMethods [] OTHER -> WrapperMethods

(* What of a method the rest of the model tells apart.                       *)
Shape(m, c) ==
    [via |-> m.via, entries |-> Len(m.entries), fallback |-> m.fallback,
     fits |-> {i \in DOMAIN m.entries : \E abi \in AbisOf(c) : CanTake(m, i, abi)}]

Modes(c, m) ==
    IF m.via # "invoke" THEN {"keypair"}
    ELSE IF c = "wrapper" THEN {"keypair"} ELSE {"keypair", "wallet"}

IdleReader == [pc |-> "idle", led |-> 0, loose |-> FALSE, at |-> 0, after |-> 0, val |-> 0]

TxInit ==
    /\ \E c \in {"token", "vault", "wrapper"} :
        \/ \E m \in MethodsOf(c), d \in {"keypair", "wallet"} :
            /\ d \in Modes(c, m)
            /\ client = c /\ call = Shape(m, c) /\ mode = d /\ txs = <<>> /\ current = 0
        \/ /\ c = "token" /\ client = c /\ mode = "signed"
           /\ call = [via |-> "invoke", entries |-> 1, fallback |-> "error", fits |-> {1}]
           /\ txs = <<[seq |-> 1, fee |-> BaseFee + ResourceFee, st |-> "built", ok |-> TRUE,
                       silent |-> FALSE, garbled |-> FALSE]>>
           /\ current = 1
    /\ budget \in Budgets
    /\ pc = "start" /\ outer = 0 /\ attempt = 1 /\ entry = 1 /\ currentFee = BaseFee /\ result = "none"
    /\ seq = 0 /\ minFee = 0 /\ ledger = 1
    /\ readers = [r \in Readers |-> IdleReader] /\ cache = {} /\ pinned = 0
    /\ confirmed = 0 /\ raced = FALSE

Executed == {i \in DOMAIN txs : txs[i].st \in {"applied", "visible"} /\ txs[i].ok}
version == Cardinality(Executed)

-----------------------------------------------------------------------------
(* The network.                                                              *)

Apply(i) ==
    /\ txs[i].st = "pool" /\ txs[i].seq = seq + 1
    /\ \E ok \in BOOLEAN : txs' = [txs EXCEPT ![i].st = "applied", ![i].ok = ok]
    /\ seq' = seq + 1 /\ ledger' = ledger + 1
    /\ UNCHANGED <<fixed, budget, local, minFee, reading, confirmed>>

(* The RPC node learns of it.                                                *)
Show(i) ==
    /\ txs[i].st = "applied"
    /\ txs' = [txs EXCEPT ![i].st = "visible"]
    /\ UNCHANGED <<fixed, budget, local, seq, minFee, ledger, reading, confirmed>>

(* Another transaction of the same account comes first.                      *)
OtherSender ==
    /\ budget.others > 0
    /\ budget' = [budget EXCEPT !.others = @ - 1]
    /\ seq' = seq + 1 /\ ledger' = ledger + 1
    /\ UNCHANGED <<fixed, local, txs, minFee, reading, confirmed>>

FeeRise ==
    /\ budget.fees > 0
    /\ budget' = [budget EXCEPT !.fees = @ - 1]
    /\ \E f \in MinFees : f > minFee /\ minFee' = f
    /\ UNCHANGED <<fixed, local, txs, seq, ledger, reading, confirmed>>

-----------------------------------------------------------------------------
(* The ways a call ends or starts over.                                      *)

Done(r) ==
    /\ pc' = "done" /\ result' = r
    /\ UNCHANGED <<outer, attempt, entry, current, currentFee>>

(* Is the call retried after this error?  The token client gives up on       *)
(* contract, simulation and signer errors, the other two on nothing.         *)
Retryable(err) == client # "token" \/ err \notin {"contract", "simulation", "signer"}

(* The error leaves the function withRetry runs.                             *)
withRetry(err) ==
    IF mode # "signed" /\ call.via \in {"invoke", "query", "cached"} /\ Retryable(err) /\ outer < Retries - 1
    THEN /\ outer' = outer + 1 /\ pc' = "build" /\ result' = "none"
         /\ attempt' = 1 /\ currentFee' = BaseFee
         /\ UNCHANGED <<entry, current>>
    ELSE Done(err)

Quiet == UNCHANGED <<fixed, seq, minFee, ledger, reading, confirmed>>

(* A request to the RPC server throws.                                       *)
Throws == budget.throws > 0 /\ budget' = [budget EXCEPT !.throws = @ - 1]

(* invokeContract's checks; a method with getSignerAddress fails on the same *)
(* condition before it.                                                      *)
Begin ==
    /\ pc = "start"
    /\ \E connected \in BOOLEAN :
        IF mode = "wallet" /\ ~connected THEN Done("signer")
        ELSE /\ pc' = IF mode = "signed" THEN "send" ELSE "build"
             /\ currentFee' = IF mode = "signed" THEN txs[current].fee ELSE BaseFee
             /\ UNCHANGED <<outer, attempt, entry, current, result>>
    /\ UNCHANGED <<budget, txs>> /\ Quiet

(* Can the contract take the entry asked for?                                *)
EntryExists == entry \in call.fits

(* simulateTransaction answers with a refusal: as an error class if the      *)
(* message has a known code, otherwise as a simulation error.  Two of the    *)
(* builders throw a plain Error for either.                                  *)
Refusals ==
    IF mode = "wallet" \/ call.via \in {"build", "simulate"} THEN {"plain"}
    ELSE IF EntryExists THEN {"contract", "simulation"} ELSE {"simulation"}

(* A query goes on to its next entry, or ends with the error or the default. *)
QueryFails(err) ==
    IF Retryable(err) /\ outer < Retries - 1 THEN withRetry(err)
    ELSE IF entry < call.entries
    THEN entry' = entry + 1 /\ outer' = 0 /\ UNCHANGED <<pc, attempt, current, currentFee, result>>
    ELSE Done(IF call.fallback = "default" THEN "default" ELSE err)

(* queryContract, one round.                                                 *)
queryContract ==
    /\ pc = "build" /\ call.via \in {"query", "cached"}
    /\ \/ EntryExists /\ Done("value") /\ UNCHANGED budget
       \/ \E err \in Refusals : QueryFails(err) /\ UNCHANGED budget
       \/ Throws /\ QueryFails("rpc")
    /\ UNCHANGED txs /\ Quiet

(* buildUnsignedTransaction and simulateTransaction on their own.            *)
Offline ==
    /\ pc = "build" /\ call.via \in {"build", "simulate"}
    /\ \/ EntryExists /\ Done("value") /\ UNCHANGED budget
       \/ \E err \in Refusals : Done(err) /\ UNCHANGED budget
       \/ Throws /\ Done("rpc")
    /\ UNCHANGED txs /\ Quiet

(* A transaction for the account's next sequence number.                     *)
Signed(fee) ==
    Append(txs, [seq |-> seq + 1, fee |-> fee + ResourceFee, st |-> "built", ok |-> TRUE,
                 silent |-> FALSE, garbled |-> FALSE])

(* buildInvokeTransaction or buildUnsignedTransaction.  The token client     *)
(* asks again whether the wallet is connected, at every retry.               *)
BuildTx ==
    /\ pc = "build" /\ call.via = "invoke"
    /\ \/ /\ EntryExists
          /\ txs' = Signed(BaseFee) /\ current' = Len(txs) + 1
          /\ currentFee' = BaseFee + ResourceFee
          /\ pc' = IF mode = "wallet" THEN "sign" ELSE "send"
          /\ UNCHANGED <<budget, outer, attempt, entry, result>>
       \/ \E err \in Refusals : withRetry(err) /\ UNCHANGED <<budget, txs>>
       \/ client = "token" /\ mode = "wallet" /\ withRetry("signer") /\ UNCHANGED <<budget, txs>>
       \/ Throws /\ withRetry("rpc") /\ UNCHANGED txs
    /\ Quiet

(* The wallet signs, or rejects, which is retried like any other error.      *)
SignTx ==
    /\ pc = "sign"
    /\ \/ pc' = "send" /\ UNCHANGED <<outer, attempt, entry, current, currentFee, result>>
       \/ withRetry("wallet")
    /\ UNCHANGED <<budget, txs>> /\ Quiet

-----------------------------------------------------------------------------
(* submitTransaction.                                                        *)

(* sourceKeypair, contractId, method and args have been passed.              *)
CanRebuild == client = "token" /\ mode = "keypair"

(* lastError = error, and round the loop again with the transaction at hand. *)
Loop(err) ==
    IF attempt < MaxAttempts
    THEN /\ attempt' = attempt + 1 /\ pc' = "send"
         /\ UNCHANGED <<outer, entry, current, currentFee, result>>
    ELSE withRetry(err)

(* A sequence error: rebuild at the same fee.                                *)
BadSeq(where) ==
    IF attempt < MaxAttempts /\ CanRebuild
    THEN pc' = where /\ UNCHANGED <<outer, attempt, entry, current, currentFee, result>>
    ELSE withRetry("submission")

Bumped == IF currentFee * 2 < MaxFeeCap THEN currentFee * 2 ELSE MaxFeeCap

(* A fee error: rebuild at twice the fee, up to the cap.                     *)
FeeTooLow(where) ==
    IF attempt < MaxAttempts /\ CanRebuild /\ currentFee < MaxFeeCap
    THEN /\ pc' = where /\ currentFee' = Bumped
         /\ UNCHANGED <<outer, attempt, entry, current, result>>
    ELSE withRetry("submission")

(* The outer catch, for an exception with this text.                         *)
Caught(text) ==
    CASE text = "BAD_SEQ" -> BadSeq("rebuildInCatch")
      [] text = "INSUFFICIENT_FEE" -> FeeTooLow("rebuildInCatch")
      [] OTHER -> Loop("rpc")

Tx == txs[current]
Acceptable == Tx.st = "built" /\ Tx.seq = seq + 1 /\ Tx.fee >= minFee
Pooled == [txs EXCEPT ![current].st = "pool"]

ToPoll == pc' = "poll" /\ UNCHANGED <<outer, attempt, entry, current, currentFee, result>>

(* sendTransaction answers.  TRY_AGAIN_LATER and DUPLICATE are polled for    *)
(* like PENDING.  An ERROR that names a failed execution ends the attempts,  *)
(* as a contract error only if its code can be read.                         *)
SendAnswered ==
    /\ pc \in {"send", "resend"}
    /\ \/ Acceptable /\ txs' = Pooled /\ ToPoll
       \/ Tx.st = "pool" /\ UNCHANGED txs /\ ToPoll
       \/ Acceptable /\ UNCHANGED txs /\ ToPoll
       \/ /\ Tx.st \in {"applied", "visible"} \/ (Tx.st = "built" /\ Tx.seq # seq + 1)
          /\ UNCHANGED txs /\ BadSeq("rebuild")
       \/ Tx.st = "built" /\ Tx.fee < minFee /\ UNCHANGED txs /\ FeeTooLow("rebuild")
       \/ Tx.st # "pool" /\ UNCHANGED txs /\ Loop("submission")
       \/ /\ Tx.st = "built" /\ UNCHANGED txs
          /\ withRetry("contract") \/ withRetry("submission")
    /\ UNCHANGED budget /\ Quiet

(* sendTransaction throws, before or after the network has the transaction.  *)
(* The first time it is sent again at once, as raw XDR.                      *)
SendThrows ==
    /\ pc \in {"send", "resend"} /\ Throws
    /\ \E got \in {txs} \cup (IF Acceptable THEN {Pooled} ELSE {}) :
            txs' = [got EXCEPT ![current].silent = TRUE]
    /\ IF pc = "send"
       THEN pc' = "resend" /\ UNCHANGED <<outer, attempt, entry, current, currentFee, result>>
       ELSE \E text \in {"", "BAD_SEQ", "INSUFFICIENT_FEE"} : Caught(text)
    /\ Quiet

(* buildInvokeTransaction for a rebuild.  A failure inside the try is caught *)
(* and the old transaction sent once more, unless it is a contract error;    *)
(* a failure inside the catch leaves submitTransaction.                      *)
Rebuild ==
    /\ pc \in {"rebuild", "rebuildInCatch"}
    /\ \/ /\ txs' = Signed(currentFee) /\ current' = Len(txs) + 1
          /\ attempt' = attempt + 1 /\ pc' = "send"
          /\ UNCHANGED <<budget, outer, entry, currentFee, result>>
       \/ \E err \in {"contract", "simulation"} :
            /\ UNCHANGED <<budget, txs>>
            /\ IF pc = "rebuild" /\ err = "simulation" THEN Loop(err) ELSE withRetry(err)
       \/ /\ Throws /\ UNCHANGED txs
          /\ IF pc = "rebuild" THEN Loop("rpc") ELSE withRetry("rpc")
    /\ Quiet

InFlight == \E r \in Readers : readers[r].pc \in {"ledger", "fetch"}

(* Mutant: whatever the status, the answer is returned as a success.         *)
PollAnsweredMutant ==
    /\ pc = "poll"
    /\ Done("success") /\ UNCHANGED <<txs, cache, raced, confirmed>>
    /\ UNCHANGED <<fixed, budget, seq, minFee, ledger, readers, pinned>>

(* Mutant: the cache is kept.                                                *)
PollAnsweredKeepMutant ==
    /\ pc = "poll" /\ Tx.st = "visible" /\ Tx.ok
    /\ Done("success") /\ confirmed' = version
    /\ UNCHANGED <<fixed, budget, network, reading>>

(* Mutant: the status is not looked at, and what was found is taken for a    *)
(* failure.                                                                  *)
PollAnsweredFailureMutant ==
    /\ pc = "poll" /\ Tx.st = "visible"
    /\ withRetry("submission")
    /\ UNCHANGED <<fixed, budget, network, reading, confirmed>>

(* clearCache, which submitSignedTransaction and the clients without a cache *)
(* do not call.                                                              *)
Clears == client = "token" /\ mode # "signed"

(* getTransaction finds the transaction, executed.  The cache is cleared     *)
(* before the return value is decoded; a value that does not decode is an    *)
(* error like any other, and the call is retried.                            *)
PollSucceeds ==
    \/ /\ Done("success") /\ confirmed' = version
       /\ cache' = IF Clears THEN {} ELSE cache
       /\ raced' = IF Clears THEN InFlight ELSE raced
       /\ UNCHANGED txs
    \/ /\ withRetry("decode")
       /\ txs' = [txs EXCEPT ![current].garbled = TRUE]
       /\ cache' = IF Clears THEN {} ELSE cache
       /\ UNCHANGED <<raced, confirmed>>

(* It failed on the ledger: final if its text shows a contract error or a    *)
(* failed transaction, else caught.                                          *)
PollFails ==
    /\ withRetry("contract") \/ withRetry("submission") \/ Loop("submission")
    /\ UNCHANGED <<txs, cache, raced, confirmed>>

PollAnswered ==
    /\ pc = "poll" /\ Tx.st = "visible"
    /\ IF Tx.ok THEN PollSucceeds ELSE PollFails
    /\ UNCHANGED <<fixed, budget, seq, minFee, ledger, readers, pinned>>

(* getTransaction throws.                                                    *)
PollThrows ==
    /\ pc = "poll" /\ Throws
    /\ txs' = [txs EXCEPT ![current].silent = TRUE]
    /\ Loop("rpc")
    /\ Quiet

(* Thirty polls, a second apart, have found nothing: by then the time bound  *)
(* of the transaction has passed, whether or not it was applied in time.     *)
PollTimeout ==
    /\ pc = "poll" /\ Tx.st # "visible"
    /\ txs' = [txs EXCEPT ![current].silent = TRUE,
                          ![current].st = IF @ = "applied" THEN @ ELSE "expired"]
    /\ withRetry("timeout")
    /\ UNCHANGED budget /\ Quiet

-----------------------------------------------------------------------------
(* getCachedRead.                                                            *)

(* The lookup once the ledger is known: a hit ends the read, a miss drops    *)
(* the entries of other ledgers and queries.                                 *)
Lookup(r, led, loose, after) ==
    LET hit == {e \in cache : e.led = led}
    IN  IF hit # {}
        THEN /\ readers' = [readers EXCEPT ![r] = [pc |-> "done", led |-> led, loose |-> loose, at |-> 0,
                                                   after |-> after, val |-> (CHOOSE e \in hit : TRUE).val]]
             /\ UNCHANGED cache
        ELSE /\ readers' = [readers EXCEPT ![r] = [pc |-> "fetch", led |-> led, loose |-> loose,
                                                   at |-> version, after |-> after, val |-> 0]]
             /\ cache' = hit

CallPending == UNCHANGED <<fixed, local, network, confirmed, raced>>

StartRead(r) ==
    /\ client = "token" /\ budget.reads > 0 /\ readers[r].pc \in {"idle", "done"}
    /\ budget' = [budget EXCEPT !.reads = @ - 1]
    /\ IF pinned > 0 THEN Lookup(r, pinned, TRUE, confirmed)
       ELSE /\ readers' = [readers EXCEPT ![r] = [IdleReader EXCEPT !.pc = "ledger", !.after = confirmed]]
            /\ UNCHANGED cache
    /\ UNCHANGED pinned /\ CallPending

(* getLatestLedger answers, or fails and the pinned number is used, 0 when   *)
(* there is none.                                                            *)
getLatestLedgerSequence(r) ==
    /\ readers[r].pc = "ledger"
    /\ \/ Lookup(r, ledger, FALSE, readers[r].after)
       \/ Lookup(r, pinned, TRUE, readers[r].after)
    /\ UNCHANGED <<budget, pinned>> /\ CallPending

(* The query answers with the state of some moment since it was sent, and    *)
(* the value is stored under the ledger looked up before; or it fails.       *)
getCachedRead(r) ==
    /\ readers[r].pc = "fetch"
    /\ \/ \E v \in readers[r].at .. version :
            /\ readers' = [readers EXCEPT ![r].pc = "done", ![r].val = v]
            /\ cache' = {e \in cache : e.led # readers[r].led}
                            \cup {[led |-> readers[r].led, val |-> v]}
       \/ readers' = [readers EXCEPT ![r] = IdleReader] /\ UNCHANGED cache
    /\ UNCHANGED <<budget, pinned>> /\ CallPending

setLedgerSequence ==
    /\ budget.pins > 0
    /\ budget' = [budget EXCEPT !.pins = @ - 1]
    /\ pinned' \in {ledger, 0} \ {pinned}
    /\ UNCHANGED <<readers, cache>> /\ CallPending

-----------------------------------------------------------------------------
ClientStep ==
    \/ Begin \/ queryContract \/ Offline \/ BuildTx \/ SignTx \/ SendAnswered \/ SendThrows
    \/ Rebuild \/ PollAnswered \/ PollThrows \/ PollTimeout

TxNext ==
    \/ ClientStep
    \/ \E i \in DOMAIN txs : Apply(i) \/ Show(i)
    \/ OtherSender \/ FeeRise
    \/ \E r \in Readers : StartRead(r) \/ getLatestLedgerSequence(r) \/ getCachedRead(r)
    \/ setLedgerSequence

-----------------------------------------------------------------------------
(* Properties.                                                               *)

Transaction ==
    [seq : Nat, fee : Nat, st : {"built", "pool", "applied", "visible", "expired"},
     ok : BOOLEAN, silent : BOOLEAN, garbled : BOOLEAN]

Reader ==
    [pc : {"idle", "ledger", "fetch", "done"}, led : Nat, loose : BOOLEAN, at : Nat,
     after : Nat, val : Nat]

(* The transaction at hand is the last one signed, and a rebuild is only     *)
(* begun with an attempt left.                                               *)
TxTypeOK ==
    /\ pc \in {"start", "build", "sign", "send", "resend", "rebuild", "rebuildInCatch", "poll", "done"}
    /\ outer \in 0 .. Retries - 1 /\ attempt \in 1 .. MaxAttempts
    /\ txs \in Seq(Transaction) /\ seq \in Nat /\ currentFee \in Nat
    /\ current = Len(txs)
    /\ pc \notin {"start", "build", "done"} \/ (pc = "start" /\ mode = "signed") => current > 0
    /\ pc \in {"rebuild", "rebuildInCatch"} => attempt < MaxAttempts
    /\ result = "none" <=> pc # "done"
    /\ ledger \in Nat \ {0} /\ pinned \in 0 .. ledger
    /\ confirmed \in Nat /\ raced \in BOOLEAN
    /\ readers \in [Readers -> Reader] /\ cache \subseteq [led : Nat, val : Nat]
    /\ \A e1, e2 \in cache : e1.led = e2.led => e1 = e2

(* The client is not told its outcome: a request about it got no answer, or  *)
(* the value it returned could not be decoded.                               *)
Uncertain(i) == txs[i].silent \/ txs[i].garbled

(* A transaction that took effect is followed by another one for the same    *)
(* call only if a request about it got no answer - a lost send, a failed     *)
(* poll or a timeout (utils.ts:128-246, client.ts:2102) - or its return      *)
(* value did not decode, which happens inside withRetry (client.ts:2202).    *)
(* Otherwise no retry repeats a mint or a transfer.                          *)
RepeatsOnlyAfterSilence == \A i \in Executed : i < Len(txs) => Uncertain(i)

(* What may still take effect, or has, and whose outcome is not uncertain.    *)
Open(i) == ~Uncertain(i) /\ (txs[i].st = "pool" \/ i \in Executed)

(* Only the transaction being polled for, or reported as a success, is open: *)
(* nothing is built, sent or given up on while another one is.               *)
OneIsOpen ==
    /\ \A i \in DOMAIN txs : Open(i) => i = Len(txs) /\ (pc = "poll" \/ result = "success")
    /\ \A i \in DOMAIN txs : txs[i].garbled => i \in Executed

(* A reported success is this transaction's, executed; after a reported      *)
(* error nothing took effect but what a request went unanswered about and    *)
(* what returned a value that did not decode, so that otherwise the user may *)
(* try again.                                                                *)
ResultIsTheOutcome ==
    /\ result = "success" => current \in Executed /\ Tx.st = "visible"
    /\ result \notin {"none", "success"} => \A i \in Executed : Uncertain(i)

FeeLimit == IF MaxFeeCap > BaseFee + ResourceFee THEN MaxFeeCap ELSE BaseFee + ResourceFee

(* No transaction offers more than the cap, or the first offer where that is *)
(* higher, and the resource fee the assembly adds once more (utils.ts:200).  *)
FeeIsBounded ==
    /\ currentFee <= FeeLimit
    /\ \A i \in DOMAIN txs : txs[i].fee <= FeeLimit + ResourceFee
    /\ pc = "start" => \A i \in DOMAIN txs : txs[i].fee <= FeeLimit

(* What is cached for the latest ledger is the state of now; and unless a    *)
(* read was in flight when the cache was cleared, or nothing cleared it, what *)
(* is cached or being fetched is not older than the reported success.        *)
CacheIsFresh ==
    LET cleared == ~raced /\ mode # "signed"
    IN  /\ confirmed <= version /\ (pc # "done" => ~raced)
        /\ client # "token" => cache = {} /\ \A r \in Readers : readers[r] = IdleReader
        /\ \A e \in cache :
              /\ e.led <= ledger /\ (e.led = ledger => e.val >= version)
              /\ cleared => e.val >= confirmed
        /\ \A r \in Readers :
              /\ readers[r].led <= ledger /\ readers[r].after <= confirmed
              /\ readers[r].pc = "fetch" =>
                    /\ readers[r].at >= readers[r].after
                    /\ readers[r].led = ledger => readers[r].at >= version
                    /\ cleared => readers[r].at >= confirmed

(* A read begun after a success was reported sees its effect.  The           *)
(* exceptions: the read used a pinned ledger or none (getLatestLedger        *)
(* failed), and either another read was in flight when the cache was cleared *)
(* or the transaction was submitted signed (client.ts:271-317, 787).         *)
ReadYourWrites ==
    /\ CacheIsFresh
    /\ \A r \in Readers : readers[r].pc = "done" =>
          \/ readers[r].val >= readers[r].after
          \/ readers[r].loose /\ (raced \/ mode = "signed")

(* Entries of which no contract exports what is called, or with another      *)
(* number of arguments.                                                      *)
NotExported ==
    {"version", "upgrade", "propose_action", "execute_proposal", "renounce_role", "get_role_admin",
     "get_role_hierarchy", "list_upgrade_proposals", "set_admin_contract", "set_token", "migrate_admin",
     "set_clawback_admin", "clawback", "lock_tokens", "extend_ttl", "get_rate_limit"}

(* Exported, but an argument does not decode: a role, a list of recipients.  *)
Misencoded == {"has_role", "grant_role", "revoke_role", "create_role_proposal", "batch_mint"}

Exported ==
    /\ \A m \in TokenMethods : Fits(m, TokenAbi) <=> m.entries[1] \notin NotExported \cup Misencoded
    /\ \A m \in VaultMethods : (\E abi \in AbisOf("vault") : Fits(m, abi))
                                  <=> m.entries[1] # "compound_fees"
    /\ \A m \in WrapperMethods : Fits(m, WrapperAbi) <=> m.entries[1] # "is_paused"
    /\ Fits(getVestingInfo, VestingReads) /\ Fits(getSplitInvoice, SplitReads)
    /\ Fits(getFlashLoanLockStatus, GuardAbi)

SameCall ==
    \A ms \in {TokenMethods, WrapperMethods} : \A m1, m2 \in ms :
        ({m1.via, m2.via} \subseteq {"invoke", "build", "simulate"} /\ m1.entries = m2.entries)
            => m1.args = m2.args

(* When a call starts: every entry point a client calls is one its contract  *)
(* exports, and the arguments as they are sent decode to its types, but for  *)
(* the entries listed: those no contract exports, and those whose role or    *)
(* recipients do not decode (client.ts:149, 570, against the contracts'      *)
(* interfaces); and building, simulating and invoking an operation make the  *)
(* same call.                                                                *)
CallsMatchContract == pc = "start" => Exported /\ SameCall

NamesKept ==
    \A m \in TokenMethods : LET e == m.entries[1] IN
        IF e \in AdminNames
        THEN \A c \in DOMAIN ADMIN_ERROR_MAP : parseContractError(c, e) = <<"admin", AdminError[c]>>
        ELSE \A c \in DOMAIN TOKEN_ERROR_MAP : parseContractError(c, e) = <<"token", TokenError[c]>>

NamesShown ==
    /\ \A c \in DOMAIN AdminError, m \in TokenMethods :
        decodeTransactionError(c, m.entries[1]) = parseContractError(c, m.entries[1])
    /\ \A c \in DOMAIN TokenError, m \in TokenMethods :
        m.entries[1] \notin AdminNames =>
            normalizeMetadataError(c) \in {parseContractError(c, m.entries[1]), <<>>}

(* A code the SDK knows keeps the name it has in the contract that raised    *)
(* it: a token error from a token method, an admin error from a role,        *)
(* proposal, upgrade or pool method (errors.ts:329-413); and the React hooks *)
(* show a failed transaction under the SDK's name, a failed read under it or *)
(* none (hooks.ts:296, 2672).                                                *)
ErrorsKeepTheirNames == pc = "start" => NamesKept /\ NamesShown

(* Every call settles.                                                       *)
CallSettles == <>(pc = "done")
=============================================================================
