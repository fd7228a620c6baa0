------------------------------ MODULE SdkProofs ------------------------------
(* Proofs about a call of the SDK, for any bounds, fees, readers and         *)
(* budgets: what is sent is justified, what is reported is what happened,    *)
(* and a read sees the writes reported before it.                            *)
EXTENDS Sdk, FiniteSetTheorems, TLAPS

-----------------------------------------------------------------------------
(* The parts of the inductive invariant.                                     *)

AtHand == {"sign", "send", "resend", "rebuild", "rebuildInCatch", "poll"}

(* The call's own variables, as TxTypeOK has them.                           *)
LocalOK ==
    /\ pc \in {"start", "build", "done"} \cup AtHand
    /\ outer \in 0 .. Retries - 1 /\ attempt \in 1 .. MaxAttempts
    /\ currentFee \in Nat
    /\ current = Len(txs)
    /\ pc \in AtHand \/ (pc = "start" /\ mode = "signed") => current > 0
    /\ pc \in {"rebuild", "rebuildInCatch"} => attempt < MaxAttempts
    /\ result = "none" => pc # "done"
    /\ pc # "done" => result = "none"

NetworkOK == txs \in Seq(Transaction) /\ seq \in Nat /\ ledger \in Nat \ {0}

ReadsOK ==
    /\ pinned \in 0 .. ledger
    /\ confirmed \in Nat /\ raced \in BOOLEAN
    /\ readers \in [Readers -> Reader] /\ cache \subseteq [led : Nat, val : Nat]
    /\ \A e1, e2 \in cache : e1.led = e2.led => e1 = e2

SuccessIsTrue == result = "success" => current \in Executed /\ txs[current].st = "visible"

(* What a call sends and reports.                                            *)
SendInv == LocalOK /\ NetworkOK /\ FeeIsBounded /\ OneIsOpen /\ SuccessIsTrue

(* What its reads see.                                                       *)
ReadInv == ReadsOK /\ ReadYourWrites

-----------------------------------------------------------------------------
(* Steps of the call, by what they do.                                       *)

(* The local variables after a step that keeps the transaction at hand and   *)
(* reports no success.                                                       *)
WentOn ==
    /\ pc' \in {"build", "done"} \cup AtHand
    /\ outer' \in 0 .. Retries - 1 /\ attempt' \in 1 .. MaxAttempts
    /\ currentFee' \in Nat /\ currentFee' <= FeeLimit
    /\ current' = current
    /\ pc' \in AtHand => current > 0
    /\ pc' \in {"rebuild", "rebuildInCatch"} => attempt' < MaxAttempts
    /\ result' = "none" => pc' # "done"
    /\ pc' # "done" => result' = "none"
    /\ result' # "success"

(* One transaction changes, but not its fee, and if its value could not be   *)
(* decoded it was executed.                                                  *)
Touched(i) ==
    /\ i \in DOMAIN txs
    /\ txs' \in Seq(Transaction) /\ Len(txs') = Len(txs) /\ DOMAIN txs' = DOMAIN txs
    /\ \A j \in DOMAIN txs : j # i => txs'[j] = txs[j]
    /\ txs'[i].fee = txs[i].fee
    /\ txs'[i].garbled => txs'[i].st \in {"applied", "visible"} /\ txs'[i].ok

NoneOpen == \A i \in DOMAIN txs : ~Open(i)

-----------------------------------------------------------------------------
(* The bounds are positive.                                                  *)
LEMMA Bounds ==
    /\ Retries \in Nat /\ Retries > 0 /\ MaxAttempts \in Nat /\ MaxAttempts > 0
    /\ BaseFee \in Nat /\ ResourceFee \in Nat /\ MaxFeeCap \in Nat
    /\ FeeLimit \in Nat /\ BaseFee <= FeeLimit /\ BaseFee + ResourceFee <= FeeLimit
    /\ MaxFeeCap <= FeeLimit
<1>1. /\ Retries \in Nat \ {0} /\ MaxAttempts \in Nat \ {0}
      /\ BaseFee \in Nat /\ ResourceFee \in Nat /\ MaxFeeCap \in Nat
  BY BoundsAssumption
<1> QED
  BY <1>1 DEF FeeLimit

(* The named parts are what the runs check.                                  *)
LEMMA TypeParts == TxTypeOK <=> LocalOK /\ NetworkOK /\ ReadsOK
<1>1. ASSUME TxTypeOK PROVE LocalOK /\ NetworkOK /\ ReadsOK
  BY <1>1 DEF TxTypeOK, LocalOK, NetworkOK, ReadsOK, AtHand
<1>2. ASSUME LocalOK, NetworkOK, ReadsOK PROVE TxTypeOK
  BY <1>2 DEF TxTypeOK, LocalOK, NetworkOK, ReadsOK, AtHand
<1> QED
  BY <1>1, <1>2

-----------------------------------------------------------------------------
(* The ways a call goes on or ends.                                          *)

(* withRetry starts the call over or ends it with the error.                 *)
LEMMA WithRetryMoves ==
    ASSUME NEW err, err # "none", err # "success", LocalOK, FeeIsBounded, withRetry(err)
    PROVE  WentOn
<1>1. CASE mode # "signed" /\ call.via \in {"invoke", "query", "cached"} /\ Retryable(err) /\ outer < Retries - 1
  <2>1. /\ outer' = outer + 1 /\ pc' = "build" /\ result' = "none"
        /\ attempt' = 1 /\ currentFee' = BaseFee /\ current' = current
    BY <1>1 DEF withRetry
  <2> QED
    BY <1>1, <2>1, Bounds DEF WentOn, LocalOK, AtHand
<1>2. CASE ~(mode # "signed" /\ call.via \in {"invoke", "query", "cached"} /\ Retryable(err) /\ outer < Retries - 1)
  <2>1. /\ pc' = "done" /\ result' = err /\ outer' = outer /\ attempt' = attempt
        /\ current' = current /\ currentFee' = currentFee
    BY <1>2 DEF withRetry, Done
  <2> QED
    BY <2>1 DEF WentOn, LocalOK, AtHand, FeeIsBounded
<1> QED
  BY <1>1, <1>2

(* A call that ends with anything but a success.                             *)
LEMMA DoneMoves ==
    ASSUME NEW err, err # "none", err # "success", LocalOK, FeeIsBounded, Done(err)
    PROVE  WentOn
<1>1. /\ pc' = "done" /\ result' = err /\ outer' = outer /\ attempt' = attempt
      /\ current' = current /\ currentFee' = currentFee
  BY DEF Done
<1> QED
  BY <1>1 DEF WentOn, LocalOK, AtHand, FeeIsBounded

(* Steps that change only where the call is, to another point with the same  *)
(* transaction.                                                              *)
LEMMA GoMoves ==
    ASSUME LocalOK, FeeIsBounded, pc \in AtHand,
           pc' \in {"send", "resend", "poll"} \/ (pc' \in AtHand /\ attempt < MaxAttempts),
           UNCHANGED <<outer, attempt, current, currentFee, result>>
    PROVE  WentOn
BY DEF WentOn, LocalOK, AtHand, FeeIsBounded

(* The transaction at hand is sent again while attempts are left.            *)
LEMMA LoopMoves ==
    ASSUME NEW err, err # "none", err # "success", LocalOK, FeeIsBounded, pc \in AtHand, Loop(err)
    PROVE  WentOn
<1>1. CASE attempt < MaxAttempts
  <2>1. attempt' = attempt + 1 /\ pc' = "send" /\ UNCHANGED <<outer, current, currentFee, result>>
    BY <1>1 DEF Loop
  <2> QED
    BY <1>1, <2>1, Bounds DEF WentOn, LocalOK, AtHand, FeeIsBounded
<1>2. CASE ~(attempt < MaxAttempts)
  BY <1>2, WithRetryMoves DEF Loop
<1> QED
  BY <1>1, <1>2

(* A rebuild is only begun with an attempt left.                             *)
LEMMA BadSeqMoves ==
    ASSUME NEW where \in {"rebuild", "rebuildInCatch"},
           LocalOK, FeeIsBounded, pc \in AtHand, BadSeq(where)
    PROVE  WentOn
<1>1. CASE attempt < MaxAttempts /\ CanRebuild
  BY <1>1, GoMoves DEF BadSeq, AtHand
<1>2. CASE ~(attempt < MaxAttempts /\ CanRebuild)
  BY <1>2, WithRetryMoves DEF BadSeq
<1> QED
  BY <1>1, <1>2

(* Doubling stops at the cap, so that the fee stays within the limit.        *)
LEMMA FeeTooLowMoves ==
    ASSUME NEW where \in {"rebuild", "rebuildInCatch"},
           LocalOK, FeeIsBounded, pc \in AtHand, FeeTooLow(where)
    PROVE  WentOn
<1>1. CASE attempt < MaxAttempts /\ CanRebuild /\ currentFee < MaxFeeCap
  <2>1. /\ pc' = where /\ currentFee' = Bumped
        /\ UNCHANGED <<outer, attempt, current, result>>
    BY <1>1 DEF FeeTooLow
  <2>2. Bumped \in Nat /\ Bumped <= FeeLimit
    BY <1>1, Bounds DEF Bumped, LocalOK
  <2> QED
    BY <1>1, <2>1, <2>2 DEF WentOn, LocalOK, AtHand
<1>2. CASE ~(attempt < MaxAttempts /\ CanRebuild /\ currentFee < MaxFeeCap)
  BY <1>2, WithRetryMoves DEF FeeTooLow
<1> QED
  BY <1>1, <1>2

(* The outer catch does one of these.                                        *)
LEMMA CaughtMoves ==
    ASSUME NEW text \in {"", "BAD_SEQ", "INSUFFICIENT_FEE"},
           LocalOK, FeeIsBounded, pc \in AtHand, Caught(text)
    PROVE  WentOn
<1>1. CASE text = "BAD_SEQ"
  BY <1>1, BadSeqMoves DEF Caught
<1>2. CASE text = "INSUFFICIENT_FEE"
  BY <1>2, FeeTooLowMoves DEF Caught
<1>3. CASE text = ""
  BY <1>3, LoopMoves DEF Caught
<1> QED
  BY <1>1, <1>2, <1>3

(* A failed query is retried, goes on to its next entry or ends.             *)
LEMMA QueryFailsMoves ==
    ASSUME NEW err, err # "none", err # "success", LocalOK, FeeIsBounded, pc = "build", QueryFails(err)
    PROVE  WentOn
<1>1. CASE Retryable(err) /\ outer < Retries - 1
  BY <1>1, WithRetryMoves DEF QueryFails
<1>2. CASE ~(Retryable(err) /\ outer < Retries - 1) /\ entry < call.entries
  <2>1. outer' = 0 /\ UNCHANGED <<pc, attempt, current, currentFee, result>>
    BY <1>2 DEF QueryFails
  <2> QED
    BY <2>1, Bounds DEF WentOn, LocalOK, AtHand, FeeIsBounded
<1>3. CASE ~(Retryable(err) /\ outer < Retries - 1) /\ ~(entry < call.entries)
  <2>1. Done("default") \/ Done(err)
    BY <1>3 DEF QueryFails
  <2> QED
    BY <2>1, DoneMoves
<1> QED
  BY <1>1, <1>2, <1>3

-----------------------------------------------------------------------------
(* What steps do to the transactions.                                        *)

(* Away from a poll and a success nothing is open.                           *)
LEMMA NothingOpen ==
    ASSUME OneIsOpen, pc # "poll", result # "success" PROVE NoneOpen
BY DEF OneIsOpen, NoneOpen

(* A transaction whose value could not be decoded was executed.              *)
LEMMA GarbledRan ==
    ASSUME SendInv, NEW i \in DOMAIN txs, txs[i].garbled
    PROVE  txs[i].st \in {"applied", "visible"} /\ txs[i].ok
BY DEF SendInv, OneIsOpen, Executed

(* While a transaction is polled for, no other is open.                      *)
LEMMA OthersClosed ==
    ASSUME OneIsOpen, LocalOK PROVE \A j \in DOMAIN txs : j # current => ~Open(j)
BY DEF OneIsOpen, LocalOK

(* A transaction is a record of the network.                                 *)
LEMMA TransactionFields ==
    ASSUME NetworkOK, NEW i \in DOMAIN txs
    PROVE  /\ txs[i] \in Transaction /\ txs[i].fee \in Nat /\ txs[i].silent \in BOOLEAN
           /\ txs[i].ok \in BOOLEAN
<1>1. txs[i] \in Transaction
  BY DEF NetworkOK
<1> QED
  BY <1>1 DEF Transaction

(* Changing one transaction.                                                 *)
LEMMA TouchOne ==
    ASSUME NetworkOK, NEW i \in DOMAIN txs, NEW t \in Transaction,
           t.fee = txs[i].fee, t.garbled => t.st \in {"applied", "visible"} /\ t.ok,
           txs' = [txs EXCEPT ![i] = t]
    PROVE  Touched(i) /\ txs'[i] = t
<1>1. txs' \in Seq(Transaction) /\ Len(txs') = Len(txs) /\ DOMAIN txs' = DOMAIN txs /\ txs'[i] = t
  BY DEF NetworkOK
<1>2. \A j \in DOMAIN txs : j # i => txs'[j] = txs[j]
  BY DEF NetworkOK
<1> QED
  BY <1>1, <1>2 DEF Touched

(* A touched transaction counts as executed as it did: so do all.            *)
LEMMA TouchedExecuted ==
    ASSUME NEW i, Touched(i), (i \in Executed)' <=> i \in Executed
    PROVE  Executed' = Executed
BY DEF Touched, Executed

(* A touched transaction leaves the others as they were executed.            *)
LEMMA TouchedGarbled ==
    ASSUME OneIsOpen, NEW i, Touched(i)
    PROVE  \A j \in DOMAIN txs : txs'[j].garbled => j \in Executed'
<1>1. SUFFICES ASSUME NEW j \in DOMAIN txs, txs'[j].garbled PROVE j \in Executed'
  OBVIOUS
<1>2. DOMAIN txs' = DOMAIN txs
  BY DEF Touched
<1>3. CASE j = i
  BY <1>1, <1>2, <1>3 DEF Touched, Executed
<1>4. CASE j # i
  <2>1. txs'[j] = txs[j]
    BY <1>1, <1>4 DEF Touched
  <2>2. j \in Executed
    BY <1>1, <2>1 DEF OneIsOpen
  <2> QED
    BY <1>1, <1>2, <2>1, <2>2 DEF Executed
<1> QED
  BY <1>3, <1>4

(* A step that leaves the transactions alone, with none open.                *)
LEMMA KeptSends ==
    ASSUME SendInv, WentOn, NoneOpen, UNCHANGED <<mode, txs, seq, ledger>>
    PROVE  SendInv'
<1>1. LocalOK'
  BY DEF SendInv, LocalOK, WentOn, AtHand
<1>2. NetworkOK'
  BY DEF SendInv, NetworkOK
<1>3. FeeIsBounded'
  BY DEF SendInv, FeeIsBounded, WentOn, AtHand
<1>4. OneIsOpen'
  <2>1. \A i \in DOMAIN txs : ~Open(i)'
    BY DEF NoneOpen, Open, Uncertain, Executed
  <2>2. \A i \in DOMAIN txs : txs[i].garbled => i \in Executed'
    BY DEF SendInv, OneIsOpen, Executed
  <2> QED
    BY <2>1, <2>2 DEF OneIsOpen
<1>5. SuccessIsTrue'
  BY DEF SuccessIsTrue, WentOn
<1> QED
  BY <1>1, <1>2, <1>3, <1>4, <1>5 DEF SendInv

(* A step that changes the transaction at hand, which is open afterwards     *)
(* only if it is polled for.                                                 *)
LEMMA TouchedSends ==
    ASSUME SendInv, WentOn, Touched(current), Open(current)' => pc' = "poll",
           UNCHANGED <<mode, seq, ledger>>
    PROVE  SendInv'
<1>1. LocalOK'
  BY DEF SendInv, LocalOK, WentOn, AtHand, Touched
<1>2. NetworkOK'
  BY DEF SendInv, NetworkOK, Touched
<1>3. FeeIsBounded'
  <2>1. \A i \in DOMAIN txs' : txs'[i].fee = txs[i].fee
    BY DEF Touched
  <2>2. DOMAIN txs' = DOMAIN txs
    BY DEF Touched
  <2> QED
    BY <2>1, <2>2 DEF SendInv, FeeIsBounded, WentOn, AtHand
<1>4. OneIsOpen'
  <2>1. ASSUME NEW i \in DOMAIN txs, Open(i)' PROVE i = Len(txs') /\ pc' = "poll"
    <3>1. ASSUME i # current PROVE FALSE
      <4>1. txs'[i] = txs[i]
        BY <3>1 DEF Touched
      <4>2. Open(i)
        BY <2>1, <4>1 DEF Open, Uncertain, Executed
      <4> QED
        BY <3>1, <4>2, OthersClosed DEF SendInv
    <3>2. Len(txs') = current /\ current' = i
      BY <3>1 DEF Touched, SendInv, LocalOK, WentOn
    <3>3. Open(current)'
      BY <2>1, <3>2 DEF Open, Uncertain, Executed
    <3> QED
      BY <3>1, <3>2, <3>3
  <2>2. \A i \in DOMAIN txs : txs'[i].garbled => i \in Executed'
    BY TouchedGarbled DEF SendInv
  <2>3. DOMAIN txs' = DOMAIN txs
    BY DEF Touched
  <2> QED
    BY <2>1, <2>2, <2>3 DEF OneIsOpen
<1>5. SuccessIsTrue'
  BY DEF SuccessIsTrue, WentOn
<1> QED
  BY <1>1, <1>2, <1>3, <1>4, <1>5 DEF SendInv

(* A step that signs another transaction, with none open.                    *)
LEMMA GrownSends ==
    ASSUME SendInv, NoneOpen, NEW fee \in Nat, fee <= FeeLimit, txs' = Signed(fee),
           pc' \in {"sign", "send"}, current' = Len(txs) + 1,
           attempt' \in 1 .. MaxAttempts, currentFee' \in Nat, currentFee' <= FeeLimit,
           pc # "done", UNCHANGED <<mode, seq, ledger, outer, result>>
    PROVE  SendInv' /\ Executed' = Executed
<1> DEFINE t == [seq |-> seq + 1, fee |-> fee + ResourceFee, st |-> "built", ok |-> TRUE,
                 silent |-> FALSE, garbled |-> FALSE]
           n == Len(txs)
<1>1. /\ t \in Transaction /\ t.st = "built" /\ ~t.garbled /\ t.fee <= FeeLimit + ResourceFee
  BY Bounds DEF SendInv, NetworkOK, Transaction
<1>2. txs' = Append(txs, t) /\ txs \in Seq(Transaction)
  BY DEF Signed, SendInv, NetworkOK
<1> HIDE DEF t
<1>3. /\ n \in Nat /\ DOMAIN txs = 1 .. n /\ DOMAIN txs' = 1 .. n + 1
      /\ txs' \in Seq(Transaction) /\ Len(txs') = n + 1 /\ txs'[n + 1] = t
      /\ \A i \in DOMAIN txs : txs'[i] = txs[i]
  BY <1>1, <1>2
<1> HIDE DEF n
<1>4. Executed' = Executed
  <2>1. \A i \in 1 .. n + 1 : i \in 1 .. n \/ i = n + 1
    BY <1>3
  <2> QED
    BY <1>1, <1>3, <2>1 DEF Executed
<1>5. LocalOK'
  BY <1>3 DEF SendInv, LocalOK, AtHand, n
<1>6. NetworkOK'
  BY <1>3 DEF SendInv, NetworkOK
<1>7. FeeIsBounded'
  <2>1. \A i \in 1 .. n + 1 : txs'[i].fee <= FeeLimit + ResourceFee
    BY <1>1, <1>3 DEF SendInv, FeeIsBounded
  <2> QED
    BY <1>3, <2>1 DEF FeeIsBounded
<1>8. OneIsOpen'
  <2>1. ASSUME NEW i \in 1 .. n + 1 PROVE ~Open(i)' /\ (txs'[i].garbled => i \in Executed')
    <3>1. CASE i = n + 1
      BY <1>1, <1>3, <3>1 DEF Open, Executed
    <3>2. CASE i # n + 1
      <4>1. i \in DOMAIN txs /\ txs'[i] = txs[i]
        BY <1>3, <2>1, <3>2
      <4>2. Open(i)' <=> Open(i)
        BY <1>4, <4>1 DEF Open, Uncertain
      <4>3. txs[i].garbled => i \in Executed
        BY <4>1 DEF SendInv, OneIsOpen
      <4> QED
        BY <1>4, <4>1, <4>2, <4>3 DEF NoneOpen
    <3> QED
      BY <3>1, <3>2
  <2> QED
    BY <1>3, <2>1 DEF OneIsOpen
<1>9. SuccessIsTrue'
  BY DEF SuccessIsTrue, SendInv, LocalOK
<1> QED
  BY <1>4, <1>5, <1>6, <1>7, <1>8, <1>9 DEF SendInv

-----------------------------------------------------------------------------
(* The steps of the call.                                                    *)

(* invokeContract's checks: a call submitted signed has its transaction.     *)
LEMMA BeginSends ==
    ASSUME SendInv, Begin PROVE SendInv' /\ Executed' = Executed
<1>1. /\ pc = "start" /\ UNCHANGED <<mode, txs, seq, ledger>>
  BY DEF Begin, Quiet, fixed
<1>2. NoneOpen
  BY <1>1, NothingOpen DEF SendInv, LocalOK
<1>3. Executed' = Executed
  BY <1>1 DEF Executed
<1>4. WentOn
  <2>1. CASE Done("signer")
    BY <2>1, DoneMoves DEF SendInv
  <2>2. CASE /\ pc' = IF mode = "signed" THEN "send" ELSE "build"
             /\ currentFee' = IF mode = "signed" THEN txs[current].fee ELSE BaseFee
             /\ UNCHANGED <<outer, attempt, entry, current, result>>
    <3>1. CASE mode = "signed"
      <4>1. current > 0 /\ current \in DOMAIN txs
        BY <1>1, <3>1 DEF SendInv, LocalOK, NetworkOK
      <4>2. txs[current].fee \in Nat /\ txs[current].fee <= FeeLimit
        BY <1>1, <4>1, TransactionFields DEF SendInv, FeeIsBounded
      <4> QED
        BY <1>1, <2>2, <3>1, <4>1, <4>2 DEF WentOn, SendInv, LocalOK, AtHand
    <3>2. CASE mode # "signed"
      BY <1>1, <2>2, <3>2, Bounds DEF WentOn, SendInv, LocalOK, AtHand
    <3> QED
      BY <3>1, <3>2
  <2> QED
    BY <2>1, <2>2 DEF Begin
<1> QED
  BY <1>1, <1>2, <1>3, <1>4, KeptSends

(* A refusal has none of the names of a success.                             *)
LEMMA RefusalNames == \A err \in Refusals : err # "none" /\ err # "success"
BY DEF Refusals

(* Calls that send nothing.                                                  *)
LEMMA QuerySends ==
    ASSUME SendInv, queryContract \/ Offline PROVE SendInv' /\ Executed' = Executed
<1>1. /\ pc = "build" /\ UNCHANGED <<mode, txs, seq, ledger>>
  BY DEF queryContract, Offline, Quiet, fixed
<1>2. NoneOpen
  BY <1>1, NothingOpen DEF SendInv, LocalOK
<1>3. Executed' = Executed
  BY <1>1 DEF Executed
<1>4. WentOn
  <2>1. CASE Done("value") \/ Done("rpc")
    BY <2>1, DoneMoves DEF SendInv
  <2>2. CASE \E err \in Refusals : QueryFails(err) \/ Done(err)
    BY <1>1, <2>2, RefusalNames, QueryFailsMoves, DoneMoves DEF SendInv
  <2>3. CASE QueryFails("rpc")
    BY <1>1, <2>3, QueryFailsMoves DEF SendInv
  <2> QED
    BY <2>1, <2>2, <2>3 DEF queryContract, Offline
<1> QED
  BY <1>1, <1>2, <1>3, <1>4, KeptSends

(* The first transaction is signed, or the build fails.                      *)
LEMMA BuildSends ==
    ASSUME SendInv, BuildTx PROVE SendInv' /\ Executed' = Executed
<1>1. /\ pc = "build" /\ UNCHANGED <<mode, seq, ledger>>
  BY DEF BuildTx, Quiet, fixed
<1>2. NoneOpen
  BY <1>1, NothingOpen DEF SendInv, LocalOK
<1>3. CASE /\ txs' = Signed(BaseFee) /\ current' = Len(txs) + 1
           /\ currentFee' = BaseFee + ResourceFee
           /\ pc' = IF mode = "wallet" THEN "sign" ELSE "send"
           /\ UNCHANGED <<outer, attempt, result>>
  <2>1. attempt' \in 1 .. MaxAttempts
    BY <1>3 DEF SendInv, LocalOK
  <2>2. pc' \in {"sign", "send"} /\ currentFee' \in Nat /\ currentFee' <= FeeLimit
    BY <1>3, Bounds
  <2> QED
    BY <1>1, <1>2, <1>3, <2>1, <2>2, Bounds, GrownSends
<1>4. CASE /\ txs' = txs
           /\ (\E err \in Refusals : withRetry(err)) \/ withRetry("rpc") \/ withRetry("signer")
  <2>1. WentOn
    BY <1>4, RefusalNames, WithRetryMoves DEF SendInv
  <2> QED
    BY <1>1, <1>2, <1>4, <2>1, KeptSends DEF Executed
<1> QED
  BY <1>3, <1>4 DEF BuildTx

(* The wallet signs or rejects.                                              *)
LEMMA SignSends ==
    ASSUME SendInv, SignTx PROVE SendInv' /\ Executed' = Executed
<1>1. /\ pc = "sign" /\ pc \in AtHand /\ UNCHANGED <<mode, txs, seq, ledger>>
  BY DEF SignTx, Quiet, fixed, AtHand
<1>2. NoneOpen
  BY <1>1, NothingOpen DEF SendInv, LocalOK
<1>3. WentOn
  <2>1. CASE pc' = "send" /\ UNCHANGED <<outer, attempt, entry, current, currentFee, result>>
    BY <1>1, <2>1, GoMoves DEF SendInv
  <2>2. CASE withRetry("wallet")
    BY <2>2, WithRetryMoves DEF SendInv
  <2> QED
    BY <2>1, <2>2 DEF SignTx
<1> QED
  BY <1>1, <1>2, <1>3, KeptSends DEF Executed

(* The transaction at hand is one of those signed.                           *)
LEMMA AtHandSigned ==
    ASSUME SendInv, pc \in AtHand
    PROVE  current \in DOMAIN txs /\ txs[current] \in Transaction
<1>1. current > 0 /\ current = Len(txs) /\ txs \in Seq(Transaction)
  BY DEF SendInv, LocalOK, NetworkOK
<1> QED
  BY <1>1

(* Sending: the network takes it and it is polled for, or it is not taken    *)
(* and nothing is open.                                                      *)
LEMMA SendAnsweredSends ==
    ASSUME SendInv, SendAnswered PROVE SendInv' /\ Executed' = Executed
<1>1. /\ pc \in {"send", "resend"} /\ pc \in AtHand /\ UNCHANGED <<mode, seq, ledger>>
  BY DEF SendAnswered, Quiet, fixed, AtHand
<1>2. NoneOpen
  BY <1>1, NothingOpen DEF SendInv, LocalOK
<1>3. CASE Acceptable /\ txs' = Pooled /\ ToPoll
  <2> DEFINE t == [txs[current] EXCEPT !.st = "pool"]
  <2>1. current \in DOMAIN txs /\ txs[current] \in Transaction
    BY <1>1, AtHandSigned
  <2>2. /\ t \in Transaction /\ t.st = "pool" /\ t.fee = txs[current].fee
        /\ t.garbled = txs[current].garbled
    BY <2>1 DEF Transaction
  <2>3. txs' = [txs EXCEPT ![current] = t]
    BY <1>3 DEF Pooled
  <2> HIDE DEF t
  <2>9. ~t.garbled
    BY <1>3, <2>1, <2>2, GarbledRan DEF Acceptable, Tx
  <2>4. Touched(current) /\ txs'[current] = t
    BY <2>1, <2>2, <2>3, <2>9, TouchOne DEF SendInv
  <2>5. WentOn /\ pc' = "poll" /\ current' = current
    BY <1>1, <1>3, GoMoves DEF ToPoll, SendInv
  <2>6. SendInv'
    BY <1>1, <2>4, <2>5, TouchedSends
  <2>7. current \notin Executed
    BY <1>3 DEF Acceptable, Tx, Executed
  <2>8. ~(current \in Executed)'
    BY <2>2, <2>4, <2>5 DEF Executed
  <2> QED
    BY <2>4, <2>5, <2>6, <2>7, <2>8, TouchedExecuted DEF Touched, Executed
<1>4. CASE /\ txs' = txs
           /\ \/ ToPoll \/ BadSeq("rebuild") \/ FeeTooLow("rebuild")
              \/ Loop("submission") \/ withRetry("contract") \/ withRetry("submission")
  <2>1. ASSUME ToPoll PROVE WentOn
    BY <1>1, <2>1, GoMoves DEF SendInv, ToPoll
  <2>2. ASSUME BadSeq("rebuild") \/ FeeTooLow("rebuild") PROVE WentOn
    BY <1>1, <2>2, BadSeqMoves, FeeTooLowMoves DEF SendInv
  <2>3. ASSUME Loop("submission") \/ withRetry("contract") \/ withRetry("submission") PROVE WentOn
    BY <1>1, <2>3, LoopMoves, WithRetryMoves DEF SendInv
  <2>4. WentOn
    BY <1>4, <2>1, <2>2, <2>3
  <2> QED
    BY <1>1, <1>2, <1>4, <2>4, KeptSends DEF Executed
<1> QED
  BY <1>3, <1>4 DEF SendAnswered

(* A step that leaves a request about the transaction at hand unanswered, or *)
(* its value undecoded: whatever the network did with it, it is no longer    *)
(* open.                                                                     *)
LEMMA SilencedSends ==
    ASSUME SendInv, pc \in AtHand, WentOn, NEW t \in Transaction,
           txs' = [txs EXCEPT ![current] = t],
           t.fee = txs[current].fee, t.silent \/ t.garbled, t.ok = txs[current].ok,
           t.garbled => txs[current].garbled \/ (t.st \in {"applied", "visible"} /\ t.ok),
           t.st \in {"applied", "visible"} <=> txs[current].st \in {"applied", "visible"},
           UNCHANGED <<mode, seq, ledger>>
    PROVE  SendInv' /\ Executed' = Executed
<1>1. current \in DOMAIN txs /\ txs[current] \in Transaction /\ current' = current
  BY AtHandSigned DEF WentOn
<1>7. t.garbled => t.st \in {"applied", "visible"} /\ t.ok
  BY <1>1, GarbledRan
<1>2. Touched(current) /\ txs'[current] = t
  BY <1>1, <1>7, TouchOne DEF SendInv
<1>3. ~Open(current)'
  BY <1>1, <1>2 DEF Open, Uncertain
<1>4. SendInv'
  BY <1>2, <1>3, TouchedSends
<1>5. DOMAIN txs' = DOMAIN txs
  BY <1>2 DEF Touched
<1>6. current \in Executed' <=> current \in Executed
  BY <1>1, <1>2, <1>5 DEF Executed
<1> QED
  BY <1>1, <1>2, <1>4, <1>6, TouchedExecuted

(* sendTransaction throws.                                                   *)
LEMMA SendThrowsSends ==
    ASSUME SendInv, SendThrows PROVE SendInv' /\ Executed' = Executed
<1>1. /\ pc \in {"send", "resend"} /\ pc \in AtHand /\ UNCHANGED <<mode, seq, ledger>>
  BY DEF SendThrows, Quiet, fixed, AtHand
<1>2. current \in DOMAIN txs /\ txs[current] \in Transaction
  BY <1>1, AtHandSigned
<1>3. WentOn
  <2>1. ASSUME pc' = "resend", UNCHANGED <<outer, attempt, entry, current, currentFee, result>>
        PROVE  WentOn
    BY <1>1, <2>1, GoMoves DEF SendInv
  <2>2. ASSUME NEW text \in {"", "BAD_SEQ", "INSUFFICIENT_FEE"}, Caught(text) PROVE WentOn
    BY <1>1, <2>2, CaughtMoves DEF SendInv
  <2> QED
    BY <2>1, <2>2 DEF SendThrows
<1>4. CASE txs' = [txs EXCEPT ![current].silent = TRUE]
  <2> DEFINE t == [txs[current] EXCEPT !.silent = TRUE]
  <2>1. /\ t \in Transaction /\ t.st = txs[current].st /\ t.fee = txs[current].fee
        /\ t.silent = TRUE /\ t.ok = txs[current].ok /\ t.garbled = txs[current].garbled
    BY <1>2 DEF Transaction
  <2>2. txs' = [txs EXCEPT ![current] = t]
    BY <1>4
  <2> HIDE DEF t
  <2> QED
    BY <1>1, <1>3, <2>1, <2>2, SilencedSends
<1>5. CASE Acceptable /\ txs' = [Pooled EXCEPT ![current].silent = TRUE]
  <2> DEFINE t == [txs[current] EXCEPT !.st = "pool", !.silent = TRUE]
  <2>1. /\ t \in Transaction /\ t.st = "pool" /\ t.fee = txs[current].fee
        /\ t.silent = TRUE /\ t.ok = txs[current].ok /\ t.garbled = txs[current].garbled
    BY <1>2 DEF Transaction
  <2>2. txs' = [txs EXCEPT ![current] = t]
    BY <1>2, <1>5 DEF Pooled
  <2>3. txs[current].st = "built"
    BY <1>5 DEF Acceptable, Tx
  <2> HIDE DEF t
  <2> QED
    BY <1>1, <1>3, <2>1, <2>2, <2>3, SilencedSends
<1> QED
  BY <1>4, <1>5 DEF SendThrows

(* A rebuild signs another transaction, or goes on without one.              *)
LEMMA RebuildSends ==
    ASSUME SendInv, Rebuild PROVE SendInv' /\ Executed' = Executed
<1>1. /\ pc \in {"rebuild", "rebuildInCatch"} /\ pc \in AtHand /\ UNCHANGED <<mode, seq, ledger>>
  BY DEF Rebuild, Quiet, fixed, AtHand
<1>2. NoneOpen
  BY <1>1, NothingOpen DEF SendInv, LocalOK
<1>3. CASE /\ txs' = Signed(currentFee) /\ current' = Len(txs) + 1
           /\ attempt' = attempt + 1 /\ pc' = "send"
           /\ UNCHANGED <<outer, currentFee, result>>
  <2>1. attempt' \in 1 .. MaxAttempts
    BY <1>1, <1>3, Bounds DEF SendInv, LocalOK
  <2>2. currentFee \in Nat /\ currentFee <= FeeLimit
    BY DEF SendInv, LocalOK, FeeIsBounded
  <2> QED
    BY <1>1, <1>2, <1>3, <2>1, <2>2, GrownSends
<1>4. CASE /\ txs' = txs
           /\ \E err \in {"contract", "simulation", "rpc"} : Loop(err) \/ withRetry(err)
  <2>1. WentOn
    BY <1>1, <1>4, LoopMoves, WithRetryMoves DEF SendInv
  <2> QED
    BY <1>1, <1>2, <1>4, <2>1, KeptSends DEF Executed
<1> QED
  BY <1>3, <1>4 DEF Rebuild

(* The poll finds the transaction: it is reported, or its value does not     *)
(* decode, or it failed and is not open.                                     *)
LEMMA PollAnsweredSends ==
    ASSUME SendInv, PollAnswered PROVE SendInv' /\ Executed' = Executed
<1>1. /\ pc = "poll" /\ pc \in AtHand /\ txs[current].st = "visible"
      /\ UNCHANGED <<mode, seq, ledger>>
  BY DEF PollAnswered, Tx, fixed, AtHand
<1>2. current \in DOMAIN txs /\ txs[current] \in Transaction
  BY <1>1, AtHandSigned
<1>3. CASE txs[current].ok /\ Done("success") /\ UNCHANGED txs
  <2>1. pc' = "done" /\ result' = "success" /\ UNCHANGED <<outer, attempt, current, currentFee>>
    BY <1>3 DEF Done
  <2>2. LocalOK'
    BY <1>1, <1>3, <2>1 DEF SendInv, LocalOK, AtHand
  <2>3. NetworkOK' /\ FeeIsBounded'
    BY <1>1, <1>3, <2>1 DEF SendInv, NetworkOK, FeeIsBounded
  <2>4. Executed' = Executed
    BY <1>3 DEF Executed
  <2>5. OneIsOpen'
    <3>1. \A i \in DOMAIN txs : Open(i)' => Open(i)
      BY <1>3 DEF Open, Uncertain, Executed
    <3> QED
      BY <1>1, <1>3, <2>1, <2>4, <3>1 DEF SendInv, OneIsOpen
  <2>6. SuccessIsTrue'
    BY <1>1, <1>2, <1>3, <2>1 DEF SuccessIsTrue, Executed
  <2> QED
    BY <2>2, <2>3, <2>4, <2>5, <2>6 DEF SendInv
<1>4. CASE /\ txs[current].ok /\ withRetry("decode")
           /\ txs' = [txs EXCEPT ![current].garbled = TRUE]
  <2> DEFINE t == [txs[current] EXCEPT !.garbled = TRUE]
  <2>1. /\ t \in Transaction /\ t.st = "visible" /\ t.fee = txs[current].fee
        /\ t.garbled = TRUE /\ t.ok = txs[current].ok
    BY <1>1, <1>2 DEF Transaction
  <2>2. txs' = [txs EXCEPT ![current] = t]
    BY <1>4
  <2>3. WentOn
    BY <1>4, WithRetryMoves DEF SendInv
  <2> HIDE DEF t
  <2> QED
    BY <1>1, <1>4, <2>1, <2>2, <2>3, SilencedSends
<1>5. CASE /\ ~txs[current].ok /\ UNCHANGED txs
           /\ withRetry("contract") \/ withRetry("submission") \/ Loop("submission")
  <2>1. WentOn
    BY <1>1, <1>5, WithRetryMoves, LoopMoves DEF SendInv
  <2>2. NoneOpen
    <3>1. ~Open(current)
      BY <1>1, <1>5 DEF Open, Executed
    <3> QED
      BY <3>1, OthersClosed DEF SendInv, NoneOpen
  <2>3. Executed' = Executed
    BY <1>5 DEF Executed
  <2> QED
    BY <1>1, <1>5, <2>1, <2>2, <2>3, KeptSends
<1> QED
  BY <1>3, <1>4, <1>5 DEF PollAnswered, PollSucceeds, PollFails, Tx

(* getTransaction throws, or thirty polls find nothing.                      *)
LEMMA PollFailsSends ==
    ASSUME SendInv, PollThrows \/ PollTimeout PROVE SendInv' /\ Executed' = Executed
<1>1. /\ pc = "poll" /\ pc \in AtHand /\ UNCHANGED <<mode, seq, ledger>>
  BY DEF PollThrows, PollTimeout, Quiet, fixed, AtHand
<1>2. current \in DOMAIN txs /\ txs[current] \in Transaction
  BY <1>1, AtHandSigned
<1>3. CASE PollThrows
  <2> DEFINE t == [txs[current] EXCEPT !.silent = TRUE]
  <2>1. /\ t \in Transaction /\ t.st = txs[current].st /\ t.fee = txs[current].fee
        /\ t.silent = TRUE /\ t.ok = txs[current].ok /\ t.garbled = txs[current].garbled
    BY <1>2 DEF Transaction
  <2>2. txs' = [txs EXCEPT ![current] = t]
    BY <1>3 DEF PollThrows
  <2>3. WentOn
    BY <1>1, <1>3, LoopMoves DEF PollThrows, SendInv
  <2> HIDE DEF t
  <2> QED
    BY <1>1, <2>1, <2>2, <2>3, SilencedSends
<1>4. CASE PollTimeout
  <2> DEFINE s == IF txs[current].st = "applied" THEN "applied" ELSE "expired"
             t == [txs[current] EXCEPT !.silent = TRUE, !.st = s]
  <2>1. txs[current].st # "visible"
    BY <1>4 DEF PollTimeout, Tx
  <2>2. /\ s \in {"built", "pool", "applied", "visible", "expired"}
        /\ s \in {"applied", "visible"} <=> txs[current].st \in {"applied", "visible"}
    BY <2>1
  <2>3. txs' = [txs EXCEPT ![current] = t]
    BY <1>2, <1>4 DEF PollTimeout, Transaction
  <2> HIDE DEF s
  <2>4. /\ t \in Transaction /\ t.st = s /\ t.fee = txs[current].fee
        /\ t.silent = TRUE /\ t.ok = txs[current].ok /\ t.garbled = txs[current].garbled
    BY <1>2, <2>2 DEF Transaction
  <2>5. WentOn
    BY <1>4, WithRetryMoves DEF PollTimeout, SendInv
  <2> HIDE DEF t
  <2> QED
    BY <1>1, <2>2, <2>3, <2>4, <2>5, SilencedSends
<1> QED
  BY <1>3, <1>4

(* Every step of the call.                                                   *)
LEMMA ClientSends ==
    ASSUME SendInv, ClientStep PROVE SendInv' /\ Executed' = Executed
BY BeginSends, QuerySends, BuildSends, SignSends, SendAnsweredSends, SendThrowsSends,
   RebuildSends, PollAnsweredSends, PollFailsSends DEF ClientStep

-----------------------------------------------------------------------------
(* The network, and what happens beside the call.                            *)

(* Steps that leave the call and the transactions alone.                     *)
LEMMA BesideSends ==
    ASSUME SendInv, UNCHANGED <<mode, local, txs>>, seq' \in Nat, ledger' \in Nat \ {0}
    PROVE  SendInv' /\ Executed' = Executed
<1>1. UNCHANGED <<pc, outer, attempt, current, currentFee, result>>
  BY DEF local
<1>2. Executed' = Executed
  BY DEF Executed
<1>3. LocalOK' /\ NetworkOK'
  BY <1>1 DEF SendInv, LocalOK, NetworkOK
<1>4. FeeIsBounded'
  BY <1>1 DEF SendInv, FeeIsBounded
<1>5. OneIsOpen'
  BY <1>1, <1>2 DEF SendInv, OneIsOpen, Open, Uncertain
<1>6. SuccessIsTrue'
  BY <1>1, <1>2 DEF SendInv, SuccessIsTrue
<1> QED
  BY <1>2, <1>3, <1>4, <1>5, <1>6 DEF SendInv

(* The network moves a transaction on: one that was not yet shown, and is    *)
(* open afterwards only if it was.                                           *)
LEMMA NetworkSends ==
    ASSUME SendInv, NEW i, Touched(i), txs[i].st # "visible", Open(i)' => Open(i),
           UNCHANGED <<mode, local>>, seq' \in Nat, ledger' \in Nat \ {0}
    PROVE  SendInv'
<1>1. UNCHANGED <<pc, outer, attempt, current, currentFee, result>>
  BY DEF local
<1>2. /\ i \in DOMAIN txs /\ DOMAIN txs' = DOMAIN txs /\ Len(txs') = Len(txs)
      /\ txs' \in Seq(Transaction)
      /\ \A j \in DOMAIN txs : j # i => txs'[j] = txs[j]
      /\ \A j \in DOMAIN txs : txs'[j].fee = txs[j].fee
  BY DEF Touched
<1>3. LocalOK'
  BY <1>1, <1>2 DEF SendInv, LocalOK
<1>4. NetworkOK'
  BY <1>2 DEF NetworkOK
<1>5. FeeIsBounded'
  BY <1>1, <1>2 DEF SendInv, FeeIsBounded
<1>6. OneIsOpen'
  <2>1. ASSUME NEW j \in DOMAIN txs, Open(j)'
        PROVE  j = Len(txs) /\ (pc = "poll" \/ result = "success")
    <3>1. CASE j = i
      BY <2>1, <3>1 DEF SendInv, OneIsOpen
    <3>2. CASE j # i
      <4>1. Open(j)
        BY <1>2, <2>1, <3>2 DEF Open, Uncertain, Executed
      <4> QED
        BY <4>1, <2>1 DEF SendInv, OneIsOpen
    <3> QED
      BY <3>1, <3>2
  <2>2. \A j \in DOMAIN txs : txs'[j].garbled => j \in Executed'
    BY TouchedGarbled DEF SendInv
  <2> QED
    BY <1>1, <1>2, <2>1, <2>2 DEF OneIsOpen
<1>7. SuccessIsTrue'
  <2>1. ASSUME result = "success" PROVE current \in Executed' /\ txs'[current].st = "visible"
    <3>1. current \in Executed /\ current \in DOMAIN txs /\ txs[current].st = "visible"
      BY <2>1 DEF SendInv, SuccessIsTrue, Executed
    <3>2. txs'[current] = txs[current]
      BY <1>2, <3>1
    <3> QED
      BY <1>2, <3>1, <3>2 DEF Executed
  <2> QED
    BY <1>1, <2>1 DEF SuccessIsTrue
<1> QED
  BY <1>3, <1>4, <1>5, <1>6, <1>7 DEF SendInv

(* Executing a transaction adds it to the executed ones, or nothing.         *)
LEMMA ApplySends ==
    ASSUME SendInv, NEW i \in DOMAIN txs, Apply(i)
    PROVE  SendInv' /\ (Executed' = Executed \/ Executed' = Executed \cup {i})
<1>1. /\ txs[i].st = "pool" /\ seq' = seq + 1 /\ ledger' = ledger + 1 /\ UNCHANGED <<mode, local>>
  BY DEF Apply, fixed
<1>2. seq' \in Nat /\ ledger' \in Nat \ {0}
  BY <1>1 DEF SendInv, NetworkOK
<1>3. PICK ok \in BOOLEAN : txs' = [txs EXCEPT ![i].st = "applied", ![i].ok = ok]
  BY DEF Apply
<1> DEFINE t == [txs[i] EXCEPT !.st = "applied", !.ok = ok]
<1>4. txs[i] \in Transaction
  BY TransactionFields DEF SendInv
<1>5. /\ t \in Transaction /\ t.st = "applied" /\ t.fee = txs[i].fee
      /\ t.silent = txs[i].silent /\ t.garbled = txs[i].garbled
  BY <1>4 DEF Transaction
<1>6. txs' = [txs EXCEPT ![i] = t]
  BY <1>3 DEF SendInv, NetworkOK
<1> HIDE DEF t
<1>11. ~t.garbled
  BY <1>1, <1>5, GarbledRan
<1>7. Touched(i) /\ txs'[i] = t
  BY <1>5, <1>6, <1>11, TouchOne DEF SendInv
<1>8. Open(i)' => Open(i)
  BY <1>1, <1>5, <1>7 DEF Open, Uncertain
<1>9. SendInv'
  BY <1>1, <1>2, <1>7, <1>8, NetworkSends
<1>10. Executed' = Executed \/ Executed' = Executed \cup {i}
  BY <1>1, <1>7 DEF Executed, Touched
<1> QED
  BY <1>9, <1>10

(* Showing one changes nothing else.                                         *)
LEMMA ShowSends ==
    ASSUME SendInv, NEW i \in DOMAIN txs, Show(i) PROVE SendInv' /\ Executed' = Executed
<1>1. txs[i].st = "applied" /\ UNCHANGED <<mode, local, seq, ledger>>
  BY DEF Show, fixed
<1>2. seq' \in Nat /\ ledger' \in Nat \ {0}
  BY <1>1 DEF SendInv, NetworkOK
<1> DEFINE t == [txs[i] EXCEPT !.st = "visible"]
<1>3. txs[i] \in Transaction
  BY TransactionFields DEF SendInv
<1>4. /\ t \in Transaction /\ t.st = "visible" /\ t.fee = txs[i].fee
      /\ t.silent = txs[i].silent /\ t.ok = txs[i].ok /\ t.garbled = txs[i].garbled
  BY <1>3 DEF Transaction
<1>5. txs' = [txs EXCEPT ![i] = t]
  BY DEF Show
<1> HIDE DEF t
<1>9. t.garbled => t.st \in {"applied", "visible"} /\ t.ok
  BY <1>4, GarbledRan
<1>6. Touched(i) /\ txs'[i] = t
  BY <1>4, <1>5, <1>9, TouchOne DEF SendInv
<1>7. i \in Executed' <=> i \in Executed
  BY <1>1, <1>4, <1>6 DEF Executed, Touched
<1>8. Open(i)' => Open(i)
  BY <1>1, <1>4, <1>6, <1>7 DEF Open, Uncertain
<1> QED
  BY <1>1, <1>2, <1>6, <1>7, <1>8, NetworkSends, TouchedExecuted

(* Steps of others and of the reads are beside the call.                     *)
LEMMA OtherSends ==
    ASSUME SendInv,
           \/ OtherSender \/ FeeRise \/ setLedgerSequence
           \/ \E r \in Readers : StartRead(r) \/ getLatestLedgerSequence(r) \/ getCachedRead(r)
    PROVE  SendInv' /\ Executed' = Executed
<1>1. UNCHANGED <<mode, local, txs>> /\ seq' \in Nat /\ ledger' \in Nat \ {0}
  <2>1. CASE OtherSender
    BY <2>1 DEF OtherSender, fixed, SendInv, NetworkOK
  <2>2. CASE FeeRise
    BY <2>2 DEF FeeRise, fixed, SendInv, NetworkOK
  <2>3. CASE CallPending
    BY <2>3 DEF CallPending, fixed, network, SendInv, NetworkOK
  <2> QED
    BY <2>1, <2>2, <2>3 DEF setLedgerSequence, StartRead, getLatestLedgerSequence, getCachedRead
<1> QED
  BY <1>1, BesideSends

(* The call's part of the invariant holds at first.                          *)
LEMMA InitSends ==
    ASSUME Init PROVE SendInv
<1> USE Bounds
<1>1. /\ pc = "start" /\ outer = 0 /\ attempt = 1 /\ currentFee = BaseFee /\ result = "none"
      /\ seq = 0 /\ ledger = 1
  BY DEF Init, TxInit
<1> DEFINE t == [seq |-> 1, fee |-> BaseFee + ResourceFee, st |-> "built", ok |-> TRUE,
                 silent |-> FALSE, garbled |-> FALSE]
<1>2. \/ mode \in {"keypair", "wallet"} /\ txs = <<>> /\ current = 0
      \/ txs = <<t>> /\ current = 1
  BY DEF Init, TxInit
<1>3. /\ t \in Transaction /\ t.st = "built" /\ ~t.garbled /\ t.fee = BaseFee + ResourceFee
  BY DEF Transaction
<1> HIDE DEF t
<1>4. /\ txs \in Seq(Transaction) /\ current = Len(txs) /\ (mode = "signed" => current > 0)
      /\ \A i \in DOMAIN txs : txs[i] = t
  <2>1. CASE mode \in {"keypair", "wallet"} /\ txs = <<>> /\ current = 0
    BY <2>1
  <2>2. CASE txs = <<t>> /\ current = 1
    BY <1>3, <2>2
  <2> QED
    BY <1>2, <2>1, <2>2
<1>5. LocalOK /\ NetworkOK
  BY <1>1, <1>4 DEF LocalOK, NetworkOK, AtHand
<1>6. FeeIsBounded
  BY <1>1, <1>3, <1>4 DEF FeeIsBounded
<1>7. OneIsOpen
  BY <1>3, <1>4 DEF OneIsOpen, Open, Executed
<1>8. SuccessIsTrue
  BY <1>1 DEF SuccessIsTrue
<1> QED
  BY <1>5, <1>6, <1>7, <1>8 DEF SendInv

-----------------------------------------------------------------------------
(* The state that reads see.                                                 *)

(* It is counted by the executed transactions.                               *)
LEMMA VersionIsNat == ASSUME SendInv PROVE IsFiniteSet(Executed) /\ version \in Nat
<1>1. txs \in Seq(Transaction) /\ Len(txs) \in Nat /\ DOMAIN txs = 1 .. Len(txs)
  BY DEF SendInv, NetworkOK
<1>2. IsFiniteSet(1 .. Len(txs))
  BY <1>1, FS_Interval
<1>3. Executed \subseteq 1 .. Len(txs)
  BY <1>1 DEF Executed
<1>4. IsFiniteSet(Executed)
  BY <1>2, <1>3, FS_Subset
<1> QED
  BY <1>4, FS_CardinalityType DEF version

(* It never goes back.                                                       *)
LEMMA VersionGrows ==
    ASSUME SendInv, NEW i, Executed' = Executed \/ Executed' = Executed \cup {i}
    PROVE  version' \in Nat /\ version' >= version
<1>1. IsFiniteSet(Executed) /\ version \in Nat
  BY VersionIsNat
<1>2. CASE Executed' = Executed
  BY <1>1, <1>2 DEF version
<1>3. CASE Executed' = Executed \cup {i}
  <2>1. /\ IsFiniteSet(Executed \cup {i})
        /\ \/ Cardinality(Executed \cup {i}) = Cardinality(Executed)
           \/ Cardinality(Executed \cup {i}) = Cardinality(Executed) + 1
    BY <1>1, FS_AddElement
  <2> QED
    BY <1>1, <1>3, <2>1 DEF version
<1> QED
  BY <1>2, <1>3

(* Nothing excuses a stale read: the cache was cleared by the success, with  *)
(* no read under way.                                                        *)
Cleared == ~raced /\ mode # "signed"

(* An entry of the cache at this ledger, state and reported state.           *)
GoodEntry(e, led, ver, conf) ==
    /\ e.led <= led /\ (e.led = led => e.val >= ver)
    /\ Cleared => e.val >= conf

(* A reader at this ledger, state and reported state.                        *)
GoodReader(x, led, ver, conf) ==
    /\ x.led <= led /\ x.after <= conf
    /\ x.pc = "fetch" =>
          /\ x.at >= x.after
          /\ x.led = led => x.at >= ver
          /\ Cleared => x.at >= conf
    /\ x.pc = "done" => x.val >= x.after \/ (x.loose /\ ~Cleared)

ReadParts ==
    /\ confirmed <= version
    /\ pc # "done" => ~raced
    /\ client # "token" => cache = {} /\ \A r \in Readers : readers[r] = IdleReader
    /\ \A e \in cache : GoodEntry(e, ledger, version, confirmed)
    /\ \A r \in Readers : GoodReader(readers[r], ledger, version, confirmed)

(* ReadYourWrites says this of every entry and every reader.                 *)
LEMMA ReadPartsHold == ReadYourWrites <=> ReadParts
BY DEF ReadYourWrites, CacheIsFresh, ReadParts, GoodEntry, GoodReader, Cleared

(* The fields of a reader.                                                   *)
LEMMA ReaderFields ==
    ASSUME ReadsOK, NEW r \in Readers
    PROVE  /\ readers[r] \in Reader /\ readers[r].led \in Nat /\ readers[r].at \in Nat
           /\ readers[r].after \in Nat /\ readers[r].val \in Nat
<1>1. readers[r] \in Reader
  BY DEF ReadsOK
<1> QED
  BY <1>1 DEF Reader

(* The fields of an entry.                                                   *)
LEMMA EntryFields ==
    ASSUME ReadsOK, NEW e \in cache PROVE e.led \in Nat /\ e.val \in Nat
<1>1. e \in [led : Nat, val : Nat]
  BY DEF ReadsOK
<1> QED
  BY <1>1

(* Steps that leave the reads alone: the state may only change with the      *)
(* ledger, which leaves every cached entry behind.                           *)
LEMMA UnreadReads ==
    ASSUME SendInv, ReadInv, UNCHANGED <<client, mode, reading, confirmed>>,
           version' \in Nat, version' >= version,
           \/ ledger' = ledger /\ version' = version
           \/ ledger' = ledger + 1,
           pc = "done" => pc' = "done"
    PROVE  ReadInv'
<1>1. UNCHANGED <<readers, cache, pinned, raced>>
  BY DEF reading
<1>2. /\ version \in Nat /\ ledger \in Nat /\ ledger' \in Nat /\ ledger <= ledger'
      /\ confirmed \in Nat
  BY VersionIsNat DEF SendInv, NetworkOK, ReadInv, ReadsOK
<1>3. ReadsOK'
  <2>1. pinned' \in 0 .. ledger'
    BY <1>1, <1>2 DEF ReadInv, ReadsOK
  <2> QED
    BY <1>1, <2>1 DEF ReadInv, ReadsOK
<1>4. ReadParts
  BY ReadPartsHold DEF ReadInv
<1>5. Cleared' <=> Cleared
  BY <1>1 DEF Cleared
<1>6. ASSUME NEW e \in cache PROVE GoodEntry(e, ledger, version, confirmed)'
  <2>1. e.led \in Nat /\ e.val \in Nat
    BY <1>6, EntryFields DEF ReadInv
  <2>2. GoodEntry(e, ledger, version, confirmed)
    BY <1>4, <1>6 DEF ReadParts
  <2> QED
    BY <1>2, <1>5, <2>1, <2>2 DEF GoodEntry
<1>7. ASSUME NEW r \in Readers PROVE GoodReader(readers[r], ledger, version, confirmed)'
  <2>1. /\ readers[r].led \in Nat /\ readers[r].at \in Nat /\ readers[r].after \in Nat
        /\ readers[r].val \in Nat
    BY <1>7, ReaderFields DEF ReadInv
  <2>2. GoodReader(readers[r], ledger, version, confirmed)
    BY <1>4, <1>7 DEF ReadParts
  <2>3. readers' = readers /\ confirmed' = confirmed
    BY <1>1
  <2> QED
    BY <1>2, <1>5, <2>1, <2>2, <2>3 DEF GoodReader
<1>8. ReadParts'
  <2>1. confirmed' <= version'
    BY <1>2, <1>4 DEF ReadParts
  <2>2. (pc # "done" => ~raced)'
    BY <1>1, <1>4 DEF ReadParts
  <2>3. (client # "token" => cache = {} /\ \A r \in Readers : readers[r] = IdleReader)'
    BY <1>1, <1>4 DEF ReadParts, IdleReader
  <2> QED
    BY <1>1, <1>6, <1>7, <2>1, <2>2, <2>3 DEF ReadParts
<1> QED
  BY <1>3, <1>8, ReadPartsHold, PTL DEF ReadInv

(* The success is reported: with the cache cleared and no read under way     *)
(* everything known is of now.                                               *)
LEMMA SuccessReads ==
    ASSUME SendInv, ReadInv, PollAnswered, confirmed' = version, Executed' = Executed,
           pc = "poll", pc' = "done",
           cache' = IF Clears THEN {} ELSE cache,
           raced' = IF Clears THEN InFlight ELSE raced
    PROVE  ReadInv'
<1>1. UNCHANGED <<client, mode, readers, pinned, ledger>>
  BY DEF PollAnswered, fixed
<1>2. version \in Nat /\ version' = version /\ ledger \in Nat /\ confirmed \in Nat
  BY VersionIsNat DEF SendInv, NetworkOK, ReadInv, ReadsOK, version
<1>3. ReadParts
  BY ReadPartsHold DEF ReadInv
<1>4. confirmed <= version /\ ~raced
  BY <1>3 DEF ReadParts
<1>5. raced' \in BOOLEAN
  <2>1. CASE raced' = InFlight
    BY <2>1 DEF InFlight
  <2>2. CASE raced' = raced
    BY <2>2 DEF ReadInv, ReadsOK
  <2> QED
    BY <2>1, <2>2
<1>6. cache' \subseteq cache
  OBVIOUS
<1>7. ReadsOK'
  BY <1>1, <1>2, <1>5, <1>6 DEF ReadInv, ReadsOK
<1>8. Cleared' => Cleared
  BY <1>1, <1>4 DEF Cleared
<1>9. ASSUME NEW e \in cache' PROVE GoodEntry(e, ledger, version, confirmed)'
  <2>1. e \in cache /\ e.led \in Nat /\ e.val \in Nat
    BY <1>6, <1>9, EntryFields DEF ReadInv
  <2>2. GoodEntry(e, ledger, version, confirmed)
    BY <1>3, <2>1 DEF ReadParts
  <2>3. ~Cleared'
    <3>1. client # "token" => cache = {}
      BY <1>3 DEF ReadParts
    <3> QED
      BY <1>1, <1>9, <3>1 DEF Cleared, Clears
  <2> QED
    BY <1>1, <1>2, <2>1, <2>2, <2>3 DEF GoodEntry
<1>10. ASSUME NEW r \in Readers PROVE GoodReader(readers[r], ledger, version, confirmed)'
  <2>1. /\ readers[r].led \in Nat /\ readers[r].at \in Nat /\ readers[r].after \in Nat
        /\ readers[r].val \in Nat
    BY <1>10, ReaderFields DEF ReadInv
  <2>2. GoodReader(readers[r], ledger, version, confirmed)
    BY <1>3, <1>10 DEF ReadParts
  <2>3. ASSUME readers[r].pc = "fetch" PROVE ~Cleared'
    <3>1. client = "token"
      BY <1>3, <1>10, <2>3 DEF ReadParts, IdleReader
    <3>2. InFlight
      BY <1>10, <2>3 DEF InFlight
    <3> QED
      BY <1>1, <3>1, <3>2 DEF Cleared, Clears
  <2>4. readers' = readers
    BY <1>1
  <2>5. readers[r].led <= ledger /\ readers[r].after <= version
    BY <1>2, <1>4, <2>1, <2>2 DEF GoodReader
  <2>6. readers[r].pc = "done" => readers[r].val >= readers[r].after \/ (readers[r].loose /\ ~Cleared)
    BY <2>2 DEF GoodReader
  <2>7. readers[r].pc = "fetch" =>
          readers[r].at >= readers[r].after /\ (readers[r].led = ledger => readers[r].at >= version)
    BY <2>2 DEF GoodReader
  <2> QED
    BY <1>1, <1>2, <1>8, <2>3, <2>4, <2>5, <2>6, <2>7 DEF GoodReader
<1>11. ReadParts'
  <2>1. confirmed' <= version'
    BY <1>2
  <2>2. (pc # "done" => ~raced)'
    OBVIOUS
  <2>3. (client # "token" => cache = {} /\ \A r \in Readers : readers[r] = IdleReader)'
    BY <1>1, <1>3, <1>6 DEF ReadParts, IdleReader
  <2> QED
    BY <1>9, <1>10, <2>1, <2>2, <2>3 DEF ReadParts
<1> QED
  BY <1>7, <1>11, ReadPartsHold, PTL DEF ReadInv

(* The cache is cleared, or not, and nothing is reported.                    *)
LEMMA DroppedReads ==
    ASSUME SendInv, ReadInv, Executed' = Executed, cache' \subseteq cache, pc = "poll",
           UNCHANGED <<client, mode, readers, pinned, ledger, raced, confirmed>>
    PROVE  ReadInv'
<1>1. version' = version /\ (Cleared' <=> Cleared)
  BY DEF version, Cleared
<1>2. ReadParts
  BY ReadPartsHold DEF ReadInv
<1>3. ReadsOK'
  BY DEF ReadInv, ReadsOK
<1>4. ASSUME NEW e \in cache' PROVE GoodEntry(e, ledger, version, confirmed)'
  <2>1. GoodEntry(e, ledger, version, confirmed)
    BY <1>2, <1>4 DEF ReadParts
  <2> QED
    BY <1>1, <2>1 DEF GoodEntry
<1>5. ASSUME NEW r \in Readers PROVE GoodReader(readers[r], ledger, version, confirmed)'
  <2>1. GoodReader(readers[r], ledger, version, confirmed)
    BY <1>2, <1>5 DEF ReadParts
  <2> QED
    BY <1>1, <2>1 DEF GoodReader
<1>6. ReadParts'
  <2>1. ~raced /\ confirmed <= version
    BY <1>2 DEF ReadParts
  <2>2. (client # "token" => cache = {} /\ \A r \in Readers : readers[r] = IdleReader)'
    BY <1>2 DEF ReadParts, IdleReader
  <2> QED
    BY <1>1, <1>4, <1>5, <2>1, <2>2 DEF ReadParts
<1> QED
  BY <1>3, <1>6, ReadPartsHold, PTL DEF ReadInv

(* A step of one reader, at a fixed ledger and state.                        *)
LEMMA OneReads ==
    ASSUME SendInv, ReadInv, CallPending, Executed' = Executed, client = "token",
           pinned' = pinned,
           NEW r \in Readers, NEW x \in Reader, readers' = [readers EXCEPT ![r] = x],
           GoodReader(x, ledger, version, confirmed),
           cache' \subseteq [led : Nat, val : Nat],
           \A e1, e2 \in cache' : e1.led = e2.led => e1 = e2,
           \A e \in cache' : GoodEntry(e, ledger, version, confirmed)
    PROVE  ReadInv'
<1>1. UNCHANGED <<client, mode, pc, ledger, confirmed, raced>>
  BY DEF CallPending, fixed, local, network
<1>2. version' = version /\ (Cleared' <=> Cleared)
  BY <1>1 DEF version, Cleared
<1>3. ReadParts
  BY ReadPartsHold DEF ReadInv
<1>4. readers' \in [Readers -> Reader]
  BY DEF ReadInv, ReadsOK
<1>5. ReadsOK'
  BY <1>1, <1>4 DEF ReadInv, ReadsOK
<1>6. ASSUME NEW e \in cache' PROVE GoodEntry(e, ledger, version, confirmed)'
  <2>1. GoodEntry(e, ledger, version, confirmed)
    BY <1>6
  <2> QED
    BY <1>1, <1>2, <2>1 DEF GoodEntry
<1>7. ASSUME NEW q \in Readers PROVE GoodReader(readers[q], ledger, version, confirmed)'
  <2>1. GoodReader(readers'[q], ledger, version, confirmed)
    <3>1. CASE q = r
      BY <3>1 DEF ReadInv, ReadsOK
    <3>2. CASE q # r
      <4>1. readers'[q] = readers[q]
        BY <1>7, <3>2 DEF ReadInv, ReadsOK
      <4> QED
        BY <1>3, <1>7, <4>1 DEF ReadParts
    <3> QED
      BY <3>1, <3>2
  <2> QED
    BY <1>1, <1>2, <2>1 DEF GoodReader
<1>8. ReadParts'
  BY <1>1, <1>2, <1>3, <1>6, <1>7 DEF ReadParts
<1> QED
  BY <1>5, <1>8, ReadPartsHold, PTL DEF ReadInv

(* A lookup under the latest ledger, or loosely under another one.           *)
LEMMA LookupReads ==
    ASSUME SendInv, ReadInv, CallPending, Executed' = Executed, client = "token",
           pinned' = pinned, NEW r \in Readers, NEW led \in Nat, NEW loose \in BOOLEAN,
           NEW after \in Nat, Lookup(r, led, loose, after),
           led <= ledger, led = ledger \/ loose = TRUE, after <= confirmed
    PROVE  ReadInv'
<1> DEFINE hit == {e \in cache : e.led = led}
<1>1. /\ version \in Nat /\ ledger \in Nat /\ confirmed \in Nat /\ confirmed <= version
  BY VersionIsNat, ReadPartsHold DEF SendInv, NetworkOK, ReadInv, ReadsOK, ReadParts
<1>2. \A e \in cache : GoodEntry(e, ledger, version, confirmed)
  BY ReadPartsHold DEF ReadInv, ReadParts
<1>3. CASE hit # {}
  <2> DEFINE c == CHOOSE e \in hit : TRUE
             x == [pc |-> "done", led |-> led, loose |-> loose, at |-> 0, after |-> after,
                   val |-> c.val]
  <2>1. c \in cache /\ c.led = led
    BY <1>3
  <2>2. readers' = [readers EXCEPT ![r] = x] /\ cache' = cache
    BY <1>3 DEF Lookup
  <2> HIDE DEF c
  <2>3. c.val \in Nat /\ GoodEntry(c, ledger, version, confirmed)
    BY <1>2, <2>1, EntryFields DEF ReadInv
  <2>4. /\ x \in Reader /\ x.led = led /\ x.after = after /\ x.pc = "done" /\ x.val = c.val
        /\ x.loose = loose
    BY <2>3 DEF Reader
  <2> HIDE DEF x
  <2>5. c.val >= after \/ (loose /\ ~Cleared)
    <3>1. CASE led = ledger
      BY <1>1, <2>1, <2>3, <3>1 DEF GoodEntry
    <3>2. CASE loose /\ Cleared
      BY <1>1, <2>3, <3>2 DEF GoodEntry
    <3>3. CASE loose /\ ~Cleared
      BY <3>3
    <3> QED
      BY <3>1, <3>2, <3>3
  <2>6. GoodReader(x, ledger, version, confirmed)
    BY <2>4, <2>5 DEF GoodReader
  <2>7. /\ cache' \subseteq [led : Nat, val : Nat]
        /\ \A e1, e2 \in cache' : e1.led = e2.led => e1 = e2
        /\ \A e \in cache' : GoodEntry(e, ledger, version, confirmed)
    BY <1>2, <2>2 DEF ReadInv, ReadsOK
  <2> QED
    BY <2>2, <2>4, <2>6, <2>7, OneReads
<1>4. CASE hit = {}
  <2> DEFINE x == [pc |-> "fetch", led |-> led, loose |-> loose, at |-> version, after |-> after,
                   val |-> 0]
  <2>1. readers' = [readers EXCEPT ![r] = x] /\ cache' = {}
    BY <1>4 DEF Lookup
  <2>2. /\ x \in Reader /\ x.led = led /\ x.after = after /\ x.pc = "fetch" /\ x.at = version
    BY <1>1 DEF Reader
  <2> HIDE DEF x
  <2>3. GoodReader(x, ledger, version, confirmed)
    BY <1>1, <2>2 DEF GoodReader
  <2>4. /\ cache' \subseteq [led : Nat, val : Nat]
        /\ \A e1, e2 \in cache' : e1.led = e2.led => e1 = e2
        /\ \A e \in cache' : GoodEntry(e, ledger, version, confirmed)
    BY <2>1
  <2> QED
    BY <2>1, <2>2, <2>3, <2>4, OneReads
<1> QED
  BY <1>3, <1>4

(* Reads that began are the token client's.                                  *)
LEMMA BegunReads ==
    ASSUME ReadInv, NEW r \in Readers, readers[r].pc # "idle"
    PROVE  client = "token"
BY ReadPartsHold DEF ReadInv, ReadParts, IdleReader

(* A read begins.                                                            *)
LEMMA StartReads ==
    ASSUME SendInv, ReadInv, NEW r \in Readers, StartRead(r) PROVE ReadInv'
<1>1. client = "token" /\ pinned' = pinned /\ CallPending
  BY DEF StartRead
<1>2. Executed' = Executed
  BY OtherSends
<1>3. /\ ledger \in Nat /\ confirmed \in Nat /\ pinned \in Nat /\ pinned <= ledger
      /\ confirmed <= confirmed
  BY DEF SendInv, NetworkOK, ReadInv, ReadsOK
<1>4. CASE pinned > 0
  <2>1. Lookup(r, pinned, TRUE, confirmed)
    BY <1>4 DEF StartRead
  <2> QED
    BY <1>1, <1>2, <1>3, <2>1, LookupReads, TRUE \in BOOLEAN, Zenon
<1>5. CASE ~(pinned > 0)
  <2> DEFINE x == [IdleReader EXCEPT !.pc = "ledger", !.after = confirmed]
  <2>1. readers' = [readers EXCEPT ![r] = x] /\ cache' = cache
    BY <1>5 DEF StartRead
  <2>2. x \in Reader /\ x.led = 0 /\ x.after = confirmed /\ x.pc = "ledger"
    BY <1>3 DEF Reader, IdleReader
  <2> HIDE DEF x
  <2>3. GoodReader(x, ledger, version, confirmed)
    BY <1>3, <2>2 DEF GoodReader
  <2>4. /\ cache' \subseteq [led : Nat, val : Nat]
        /\ \A e1, e2 \in cache' : e1.led = e2.led => e1 = e2
        /\ \A e \in cache' : GoodEntry(e, ledger, version, confirmed)
    BY <2>1, ReadPartsHold DEF ReadInv, ReadsOK, ReadParts
  <2> QED
    BY <1>1, <1>2, <2>1, <2>2, <2>3, <2>4, OneReads
<1> QED
  BY <1>4, <1>5

(* The ledger answers, or the pinned number is taken.                        *)
LEMMA LedgerReads ==
    ASSUME SendInv, ReadInv, NEW r \in Readers, getLatestLedgerSequence(r) PROVE ReadInv'
<1>1. client = "token" /\ pinned' = pinned /\ CallPending
  BY BegunReads DEF getLatestLedgerSequence
<1>2. Executed' = Executed
  BY OtherSends
<1>3. /\ ledger \in Nat /\ confirmed \in Nat /\ pinned \in Nat /\ pinned <= ledger
  BY DEF SendInv, NetworkOK, ReadInv, ReadsOK
<1>4. readers[r].after \in Nat /\ readers[r].after <= confirmed
  BY ReaderFields, ReadPartsHold DEF ReadInv, ReadParts, GoodReader
<1>5. Lookup(r, ledger, FALSE, readers[r].after) \/ Lookup(r, pinned, TRUE, readers[r].after)
  BY DEF getLatestLedgerSequence
<1>6. ledger <= ledger
  BY <1>3
<1>7. ASSUME Lookup(r, ledger, FALSE, readers[r].after) PROVE ReadInv'
  BY <1>1, <1>2, <1>3, <1>4, <1>6, <1>7, LookupReads, FALSE \in BOOLEAN, Zenon
<1>8. ASSUME Lookup(r, pinned, TRUE, readers[r].after) PROVE ReadInv'
  BY <1>1, <1>2, <1>3, <1>4, <1>8, LookupReads, TRUE \in BOOLEAN, Zenon
<1> QED
  BY <1>5, <1>7, <1>8

(* The query answers with a state since it was sent, or fails.               *)
LEMMA CachedReads ==
    ASSUME SendInv, ReadInv, NEW r \in Readers, getCachedRead(r) PROVE ReadInv'
<1>1. client = "token" /\ pinned' = pinned /\ CallPending /\ readers[r].pc = "fetch"
  BY BegunReads DEF getCachedRead
<1>2. Executed' = Executed
  BY OtherSends
<1>3. /\ ledger \in Nat /\ confirmed \in Nat /\ version \in Nat
  BY VersionIsNat DEF SendInv, NetworkOK, ReadInv, ReadsOK
<1>4. /\ readers[r] \in Reader /\ readers[r].led \in Nat /\ readers[r].at \in Nat
      /\ readers[r].after \in Nat
  BY ReaderFields DEF ReadInv
<1>5. GoodReader(readers[r], ledger, version, confirmed)
  BY ReadPartsHold DEF ReadInv, ReadParts
<1>6. \A e \in cache : GoodEntry(e, ledger, version, confirmed)
  BY ReadPartsHold DEF ReadInv, ReadParts
<1>7. ASSUME NEW v \in readers[r].at .. version,
             readers' = [readers EXCEPT ![r].pc = "done", ![r].val = v],
             cache' = {e \in cache : e.led # readers[r].led} \cup {[led |-> readers[r].led, val |-> v]}
      PROVE  ReadInv'
  <2> DEFINE x == [readers[r] EXCEPT !.pc = "done", !.val = v]
             n == [led |-> readers[r].led, val |-> v]
  <2>1. v \in Nat /\ v >= readers[r].at /\ v <= version
    BY <1>3, <1>4, <1>7
  <2>2. /\ x \in Reader /\ x.led = readers[r].led /\ x.after = readers[r].after /\ x.pc = "done"
        /\ x.val = v
    BY <1>4, <2>1 DEF Reader
  <2>3. readers' = [readers EXCEPT ![r] = x]
    BY <1>7 DEF ReadInv, ReadsOK
  <2>4. n \in [led : Nat, val : Nat] /\ n.led = readers[r].led /\ n.val = v
    BY <1>4, <2>1
  <2> HIDE DEF x
  <2>5. GoodReader(x, ledger, version, confirmed)
    BY <1>1, <1>3, <1>4, <1>5, <2>1, <2>2 DEF GoodReader
  <2>6. cache' = {e \in cache : e.led # readers[r].led} \cup {n}
    BY <1>7
  <2> HIDE DEF n
  <2>7. GoodEntry(n, ledger, version, confirmed)
    BY <1>1, <1>3, <1>4, <1>5, <2>1, <2>4 DEF GoodReader, GoodEntry
  <2>8. /\ cache' \subseteq [led : Nat, val : Nat]
        /\ \A e1, e2 \in cache' : e1.led = e2.led => e1 = e2
    BY <2>4, <2>6 DEF ReadInv, ReadsOK
  <2>9. \A e \in cache' : GoodEntry(e, ledger, version, confirmed)
    BY <1>6, <2>6, <2>7
  <2> QED
    BY <1>1, <1>2, <2>2, <2>3, <2>5, <2>8, <2>9, OneReads
<1>8. ASSUME readers' = [readers EXCEPT ![r] = IdleReader], cache' = cache PROVE ReadInv'
  <2>1. /\ IdleReader \in Reader /\ IdleReader.led = 0 /\ IdleReader.after = 0
        /\ IdleReader.pc = "idle"
    BY DEF Reader, IdleReader
  <2>2. GoodReader(IdleReader, ledger, version, confirmed)
    BY <1>3, <2>1 DEF GoodReader
  <2>3. /\ cache' \subseteq [led : Nat, val : Nat]
        /\ \A e1, e2 \in cache' : e1.led = e2.led => e1 = e2
        /\ \A e \in cache' : GoodEntry(e, ledger, version, confirmed)
    BY <1>6, <1>8 DEF ReadInv, ReadsOK
  <2> QED
    BY <1>1, <1>2, <1>8, <2>1, <2>2, <2>3, OneReads
<1> QED
  BY <1>7, <1>8 DEF getCachedRead

(* The ledger is pinned or released.                                         *)
LEMMA PinReads ==
    ASSUME SendInv, ReadInv, setLedgerSequence PROVE ReadInv'
<1>1. UNCHANGED <<client, mode, pc, ledger, readers, cache, confirmed, raced>>
  BY DEF setLedgerSequence, CallPending, fixed, local, network
<1>2. pinned' \in 0 .. ledger'
  BY <1>1 DEF setLedgerSequence, SendInv, NetworkOK
<1>3. version' = version /\ (Cleared' <=> Cleared)
  BY <1>1, OtherSends DEF version, Cleared
<1>4. ReadsOK'
  BY <1>1, <1>2 DEF ReadInv, ReadsOK
<1>5. ReadParts
  BY ReadPartsHold DEF ReadInv
<1>6. ReadParts'
  BY <1>1, <1>3, <1>5 DEF ReadParts, GoodEntry, GoodReader, IdleReader
<1> QED
  BY <1>4, <1>6, ReadPartsHold, PTL DEF ReadInv

(* The steps of the call.                                                    *)
LEMMA ClientReads ==
    ASSUME SendInv, ReadInv, ClientStep PROVE ReadInv'
<1>1. SendInv' /\ Executed' = Executed
  BY ClientSends
<1>2. version' = version /\ version \in Nat
  BY <1>1, VersionIsNat DEF version
<1>3. ASSUME Quiet, pc # "done" PROVE ReadInv'
  <2>1. UNCHANGED <<client, mode, reading, confirmed, ledger>>
    BY <1>3 DEF Quiet, fixed
  <2> QED
    BY <1>2, <1>3, <2>1, UnreadReads
<1>4. CASE PollAnswered
  <2>1. pc = "poll" /\ UNCHANGED <<client, mode, readers, pinned, ledger>>
    BY <1>4 DEF PollAnswered, fixed
  <2>2. CASE cache' \subseteq cache /\ UNCHANGED <<raced, confirmed>>
    BY <1>1, <2>1, <2>2, DroppedReads
  <2>3. CASE /\ Done("success") /\ confirmed' = version
             /\ cache' = IF Clears THEN {} ELSE cache
             /\ raced' = IF Clears THEN InFlight ELSE raced
    <3>1. pc' = "done"
      BY <2>3 DEF Done
    <3> QED
      BY <1>1, <1>4, <2>1, <2>3, <3>1, SuccessReads
  <2> QED
    BY <1>4, <2>2, <2>3 DEF PollAnswered, PollSucceeds, PollFails
<1> QED
  BY <1>3, <1>4 DEF ClientStep, Begin, queryContract, Offline, BuildTx, SignTx, SendAnswered,
                    SendThrows, Rebuild, PollThrows, PollTimeout

(* The reads' part of the invariant holds at first.                          *)
LEMMA InitReads ==
    ASSUME Init PROVE ReadInv
<1>1. /\ ledger = 1 /\ pinned = 0 /\ confirmed = 0 /\ raced = FALSE /\ cache = {}
      /\ readers = [r \in Readers |-> IdleReader]
  BY DEF Init, TxInit
<1>2. /\ IdleReader \in Reader /\ IdleReader.led = 0 /\ IdleReader.after = 0
      /\ IdleReader.pc = "idle"
  BY DEF Reader, IdleReader
<1>3. version \in Nat
  BY InitSends, VersionIsNat
<1>4. ReadsOK
  <2>1. readers \in [Readers -> Reader]
    BY <1>1, <1>2
  <2>2. pinned \in 0 .. ledger /\ confirmed \in Nat
    BY <1>1
  <2>3. raced \in BOOLEAN
    BY <1>1
  <2> QED
    BY <1>1, <2>1, <2>2, <2>3 DEF ReadsOK
<1>5. ReadParts
  BY <1>1, <1>2, <1>3 DEF ReadParts, GoodReader
<1> QED
  BY <1>4, <1>5, ReadPartsHold DEF ReadInv

-----------------------------------------------------------------------------
(* The theorems.                                                             *)

(* Every step of the application keeps what the call sends and what its      *)
(* reads see.                                                                *)
LEMMA StepKeeps ==
    ASSUME SendInv, ReadInv, [Next]_vars PROVE SendInv' /\ ReadInv'
<1>1. CASE UNCHANGED txVars
  <2>1. /\ UNCHANGED <<client, mode, reading, confirmed, ledger>>
        /\ UNCHANGED <<mode, local, txs, seq>> /\ pc' = pc
    BY <1>1 DEF txVars, fixed, network, local
  <2>2. SendInv' /\ Executed' = Executed
    <3>1. seq' \in Nat /\ ledger' \in Nat \ {0}
      BY <2>1 DEF SendInv, NetworkOK
    <3> QED
      BY <2>1, <3>1, BesideSends
  <2>3. version' = version /\ version \in Nat
    BY <2>2, VersionIsNat DEF version
  <2> QED
    BY <2>1, <2>2, <2>3, UnreadReads
<1>2. CASE ClientStep
  BY <1>2, ClientSends, ClientReads
<1>3. ASSUME NEW i \in DOMAIN txs, Apply(i) PROVE SendInv' /\ ReadInv'
  <2>1. SendInv' /\ (Executed' = Executed \/ Executed' = Executed \cup {i})
    BY <1>3, ApplySends
  <2>2. version' \in Nat /\ version' >= version
    BY <2>1, VersionGrows
  <2>3. UNCHANGED <<client, mode, reading, confirmed>> /\ ledger' = ledger + 1 /\ pc' = pc
    BY <1>3 DEF Apply, fixed, local
  <2> QED
    BY <2>1, <2>2, <2>3, UnreadReads
<1>4. ASSUME NEW i \in DOMAIN txs, Show(i) PROVE SendInv' /\ ReadInv'
  <2>1. SendInv' /\ Executed' = Executed
    BY <1>4, ShowSends
  <2>2. version' = version /\ version \in Nat
    BY <2>1, VersionIsNat DEF version
  <2>3. UNCHANGED <<client, mode, reading, confirmed, ledger>> /\ pc' = pc
    BY <1>4 DEF Show, fixed, local
  <2> QED
    BY <2>1, <2>2, <2>3, UnreadReads
<1>5. CASE OtherSender \/ FeeRise
  <2>1. SendInv' /\ Executed' = Executed
    BY <1>5, OtherSends
  <2>2. version' = version /\ version \in Nat
    BY <2>1, VersionIsNat DEF version
  <2>3. /\ UNCHANGED <<client, mode, reading, confirmed>> /\ pc' = pc
        /\ ledger' = ledger \/ ledger' = ledger + 1
    BY <1>5 DEF OtherSender, FeeRise, fixed, local
  <2> QED
    BY <2>1, <2>2, <2>3, UnreadReads
<1>6. ASSUME NEW r \in Readers, StartRead(r) \/ getLatestLedgerSequence(r) \/ getCachedRead(r)
      PROVE  SendInv' /\ ReadInv'
  BY <1>6, OtherSends, StartReads, LedgerReads, CachedReads
<1>7. CASE setLedgerSequence
  BY <1>7, OtherSends, PinReads
<1> QED
  BY <1>1, <1>2, <1>3, <1>4, <1>5, <1>6, <1>7 DEF Next, TxNext, vars

(* What the call sends and what its reads see, in every state of every       *)
(* behaviour: only the transaction being polled for, or reported as a        *)
(* success, may have taken effect with its outcome known to nobody but the   *)
(* client's next poll; every other one that did is uncertain, because a      *)
(* request about it went unanswered or its return value did not decode.      *)
THEOREM CallInvHolds == Spec => [](SendInv /\ ReadInv)
<1>1. Init => SendInv /\ ReadInv
  BY InitSends, InitReads
<1>2. SendInv /\ ReadInv /\ [Next]_vars => (SendInv /\ ReadInv)'
  BY StepKeeps
<1> QED
  BY <1>1, <1>2, PTL DEF Spec

(* For any number of retries and attempts, any fees, cap and network: a      *)
(* transaction is followed by another for the same call only if it cannot    *)
(* take effect, a request about it went unanswered or its return value did   *)
(* not decode, and no offer exceeds the limit (submitTransaction, withRetry; *)
(* scValToNative, client.ts:2202).                                           *)
THEOREM SendsStayJustified == Spec => []SendsAreJustified
<1>1. ASSUME SendInv, ReadInv PROVE SendsAreJustified
  <2>1. TxTypeOK
    BY <1>1, TypeParts DEF SendInv, ReadInv
  <2>2. RepeatsOnlyAfterSilence
    <3>1. SUFFICES ASSUME NEW i \in Executed, i < Len(txs), ~Uncertain(i) PROVE FALSE
      BY DEF RepeatsOnlyAfterSilence
    <3>2. i \in DOMAIN txs /\ Open(i)
      BY <3>1 DEF Open, Executed
    <3>3. i = Len(txs)
      BY <1>1, <3>2 DEF SendInv, OneIsOpen
    <3>4. Len(txs) \in Nat
      BY <1>1 DEF SendInv, NetworkOK
    <3> QED
      BY <3>1, <3>3, <3>4
  <2> QED
    BY <1>1, <2>1, <2>2 DEF SendsAreJustified, SendInv
<1> QED
  BY <1>1, CallInvHolds, PTL

(* A success reported to the user is an executed transaction; after an error *)
(* nothing took effect but what a request went unanswered about and what     *)
(* returned a value that did not decode (submitTransaction's results,        *)
(* through every retry).                                                     *)
THEOREM ResultsAreOutcomes == Spec => []ResultIsTheOutcome
<1>1. ASSUME SendInv PROVE ResultIsTheOutcome
  <2>1. result = "success" => current \in Executed /\ Tx.st = "visible"
    BY <1>1 DEF SendInv, SuccessIsTrue, Tx
  <2>2. ASSUME result \notin {"none", "success"}, NEW i \in Executed, ~Uncertain(i) PROVE FALSE
    <3>1. i \in DOMAIN txs /\ Open(i)
      BY <2>2 DEF Open, Executed
    <3>2. pc = "poll"
      BY <1>1, <2>2, <3>1 DEF SendInv, OneIsOpen
    <3> QED
      BY <1>1, <2>2, <3>2 DEF SendInv, LocalOK
  <2> QED
    BY <2>1, <2>2 DEF ResultIsTheOutcome
<1> QED
  BY <1>1, CallInvHolds, PTL

(* For any number of readers: a read begun after a reported success sees its *)
(* effect, but for the two exceptions the property names (getCachedRead,     *)
(* setLedgerSequence and the clearing of the cache).                         *)
THEOREM WritesAreRead == Spec => []ReadYourWrites
<1>1. SendInv /\ ReadInv => ReadYourWrites
  BY DEF ReadInv
<1> QED
  BY <1>1, CallInvHolds, PTL

-----------------------------------------------------------------------------
(* The event listeners.                                                      *)

(* A non-empty finite set of integers has a largest and a smallest element.  *)
LEMMA Extremes ==
    ASSUME NEW S, IsFiniteSet(S), S \subseteq Int, S # {}
    PROVE  /\ \E x \in S : \A y \in S : x >= y
           /\ \E x \in S : \A y \in S : x <= y
<1>1. IsWellFoundedOn(StrictSubsetOrdering(S), SUBSET S)
  BY FS_StrictSubsetOrderingWellFounded, FS_FiniteSubsetsOfFinite
<1>2. \E x \in S : \A y \in S : x >= y
  <2> DEFINE Above(x) == {y \in S : y > x}
             F == {U \in SUBSET S : \E x \in S : U = Above(x)}
  <2>1. PICK U \in F : \A V \in F : ~(<<V, U>> \in StrictSubsetOrdering(S))
    <3>1. F # {} /\ F \subseteq SUBSET S
      OBVIOUS
    <3> HIDE DEF F
    <3> QED
      BY <1>1, <3>1, WFMin
  <2>2. PICK x \in S : U = Above(x)
    OBVIOUS
  <2>3. ASSUME NEW y \in S, y > x PROVE FALSE
    <3>0. x \in Int /\ y \in Int /\ ~(y > y) /\ \A z \in S : z > y => z > x
      BY <2>3
    <3>1. Above(y) \in F /\ Above(y) \subseteq U /\ y \in U /\ y \notin Above(y)
      <4>1. Above(y) \subseteq Above(x)
        BY <3>0
      <4>2. y \in Above(x) /\ y \notin Above(y)
        BY <2>3, <3>0
      <4>3. Above(y) \in F
        OBVIOUS
      <4> QED
        BY <2>2, <4>1, <4>2, <4>3
    <3> HIDE DEF Above, F
    <3>2. <<Above(y), U>> \in StrictSubsetOrdering(S)
      BY <2>1, <3>1 DEF StrictSubsetOrdering, F
    <3> QED
      BY <2>1, <3>1, <3>2
  <2> QED
    BY <2>3
<1>3. \E x \in S : \A y \in S : x <= y
  <2> DEFINE Below(x) == {y \in S : y < x}
             F == {U \in SUBSET S : \E x \in S : U = Below(x)}
  <2>1. PICK U \in F : \A V \in F : ~(<<V, U>> \in StrictSubsetOrdering(S))
    <3>1. F # {} /\ F \subseteq SUBSET S
      OBVIOUS
    <3> HIDE DEF F
    <3> QED
      BY <1>1, <3>1, WFMin
  <2>2. PICK x \in S : U = Below(x)
    OBVIOUS
  <2>3. ASSUME NEW y \in S, y < x PROVE FALSE
    <3>0. x \in Int /\ y \in Int /\ ~(y < y) /\ \A z \in S : z < y => z < x
      BY <2>3
    <3>1. Below(y) \in F /\ Below(y) \subseteq U /\ y \in U /\ y \notin Below(y)
      <4>1. Below(y) \subseteq Below(x)
        BY <3>0
      <4>2. y \in Below(x) /\ y \notin Below(y)
        BY <2>3, <3>0
      <4>3. Below(y) \in F
        OBVIOUS
      <4> QED
        BY <2>2, <4>1, <4>2, <4>3
    <3> HIDE DEF Below, F
    <3>2. <<Below(y), U>> \in StrictSubsetOrdering(S)
      BY <2>1, <3>1 DEF StrictSubsetOrdering, F
    <3> QED
      BY <2>1, <3>1, <3>2
  <2> QED
    BY <2>3
<1> QED
  BY <1>2, <1>3

(* Max is the largest element.                                               *)
LEMMA MaxIsLargest ==
    ASSUME NEW S, IsFiniteSet(S), S \subseteq Int, S # {}
    PROVE  Max(S) \in S /\ \A y \in S : Max(S) >= y
BY Extremes DEF Max

(* The log of the contract: finite, and in the order of its ledgers.         *)
LEMMA LogFacts ==
    /\ Len(EventLog) \in Nat /\ DOMAIN EventLog = 1 .. Len(EventLog)
    /\ IsFiniteSet(DOMAIN EventLog)
    /\ \A i \in DOMAIN EventLog : EventLog[i].ledger \in Nat /\ EventLog[i].ledger > 0
    /\ \A i, j \in DOMAIN EventLog : i < j => EventLog[i].ledger <= EventLog[j].ledger
    /\ LastClosed \in Nat /\ LastClosed > 0
    /\ \A i \in DOMAIN EventLog : EventLog[i].ledger <= LastClosed
<1>1. EventLog \in Seq(Event)
  BY ListenerAssumption
<1>2. Len(EventLog) \in Nat /\ DOMAIN EventLog = 1 .. Len(EventLog)
  BY <1>1
<1>3. \A i \in DOMAIN EventLog : EventLog[i].ledger \in Nat /\ EventLog[i].ledger > 0
  <2> SUFFICES ASSUME NEW i \in DOMAIN EventLog
               PROVE  EventLog[i].ledger \in Nat /\ EventLog[i].ledger > 0
    OBVIOUS
  <2>1. EventLog[i] \in Event
    BY <1>1, <1>2
  <2>2. EventLog[i].ledger \in Nat \ {0}
    BY <2>1 DEF Event
  <2> QED
    BY <2>2
<1>4. \A i, j \in DOMAIN EventLog : i < j => EventLog[i].ledger <= EventLog[j].ledger
  BY ListenerAssumption
<1>5. IsFiniteSet(DOMAIN EventLog)
  BY <1>2, FS_Interval
<1>6. CASE EventLog = <<>>
  <2>1. LastClosed = 1 /\ DOMAIN EventLog = {}
    BY <1>6 DEF LastClosed
  <2> QED
    BY <1>2, <1>3, <1>4, <1>5, <2>1
<1>7. CASE EventLog # <<>>
  <2>1. LastClosed = EventLog[Len(EventLog)].ledger
    BY <1>7 DEF LastClosed, Last
  <2>2. Len(EventLog) \in DOMAIN EventLog
    BY <1>1, <1>2, <1>7
  <2>3. \A i \in DOMAIN EventLog : EventLog[i].ledger <= LastClosed
    BY <1>2, <1>3, <1>4, <2>1, <2>2
  <2> QED
    BY <1>2, <1>3, <1>4, <1>5, <2>1, <2>2, <2>3
<1> QED
  BY <1>6, <1>7

(* What is available is a finite set of positions, and a page of it has no   *)
(* gap: what comes before a member of the page is on the page.               *)
LEMMA PageFacts ==
    /\ Available \subseteq DOMAIN EventLog /\ IsFiniteSet(Available)
    /\ ThePage \subseteq Available /\ IsFiniteSet(ThePage)
    /\ \A i \in ThePage, j \in Available : j < i => j \in ThePage
<1>1. Available \subseteq DOMAIN EventLog
  BY DEF Available
<1>2. IsFiniteSet(Available)
  BY <1>1, LogFacts, FS_Subset
<1>3. ThePage \subseteq Available
  BY DEF ThePage
<1>4. IsFiniteSet(ThePage)
  BY <1>2, <1>3, FS_Subset
<1>5. ASSUME NEW i \in ThePage, NEW j \in Available, j < i PROVE j \in ThePage
  <2> DEFINE B(k) == {l \in Available : l < k}
  <2>1. i \in Nat /\ j \in Nat /\ Available \subseteq Nat
    BY <1>1, <1>3, LogFacts
  <2>0. \A l \in Available : l < j => l < i
    BY <1>5, <2>1
  <2>2. B(j) \subseteq B(i) /\ B(i) \subseteq Available
    BY <2>0
  <2>3. Cardinality(B(i)) < PageLimit
    BY DEF ThePage
  <2> HIDE DEF B
  <2>4. IsFiniteSet(B(i))
    BY <1>2, <2>2, FS_Subset
  <2>5. Cardinality(B(j)) <= Cardinality(B(i)) /\ IsFiniteSet(B(j))
    BY <2>2, <2>4, FS_Subset
  <2>6. Cardinality(B(j)) \in Nat /\ Cardinality(B(i)) \in Nat
    BY <2>4, <2>5, FS_CardinalityType
  <2>7. Cardinality(B(j)) < PageLimit
    BY <2>3, <2>5, <2>6, ListenerAssumption
  <2> QED
    BY <2>7 DEF ThePage, B
<1> QED
  BY <1>1, <1>2, <1>3, <1>4, <1>5

(* The ledger a page moves on to.                                            *)
LEMMA MovedFacts ==
    ASSUME lastLedger \in Int, NEW fresh, fresh \subseteq DOMAIN EventLog
    PROVE  /\ Moved(fresh) \in Int /\ Moved(fresh) >= lastLedger
           /\ \A i \in fresh : EventLog[i].ledger < Moved(fresh)
           /\ Moved(fresh) = lastLedger \/ \E i \in fresh : Moved(fresh) = EventLog[i].ledger + 1
<1> DEFINE N == {EventLog[i].ledger + 1 : i \in fresh}
           S == {lastLedger} \cup N
<1>1. N \subseteq 0 .. LastClosed + 1
  BY LogFacts
<1>2. IsFiniteSet(N)
  <2>1. LastClosed + 1 \in Int
    BY LogFacts
  <2>2. IsFiniteSet(0 .. LastClosed + 1)
    BY <2>1, FS_Interval
  <2> HIDE DEF N
  <2> QED
    BY <1>1, <2>2, FS_Subset
<1>3. IsFiniteSet(S)
  BY <1>2, FS_Singleton, FS_Union
<1>4. S \subseteq Int /\ S # {}
  BY <1>1, LogFacts
<1>5. Max(S) \in S /\ \A y \in S : Max(S) >= y
  <2> HIDE DEF S
  <2> QED
    BY <1>3, <1>4, MaxIsLargest
<1>6. Moved(fresh) = Max(S)
  BY DEF Moved
<1>7. \A i \in fresh : EventLog[i].ledger \in Nat
  BY LogFacts
<1> HIDE DEF S
<1>8. lastLedger \in S /\ (\A i \in fresh : EventLog[i].ledger + 1 \in S)
  BY DEF S
<1>9. Max(S) \in Int /\ Max(S) >= lastLedger
  BY <1>4, <1>5, <1>8
<1>10. \A i \in fresh : Max(S) >= EventLog[i].ledger + 1
  BY <1>5, <1>8
<1>11. \A i \in fresh : EventLog[i].ledger < Max(S)
  BY <1>7, <1>9, <1>10
<1>12. Max(S) = lastLedger \/ \E i \in fresh : Max(S) = EventLog[i].ledger + 1
  BY <1>5 DEF S
<1> QED
  BY <1>6, <1>9, <1>11, <1>12

(* The cursor moves to the last event of the page.                           *)
LEMMA CursorFacts ==
    ASSUME cursor \in 0 .. Len(EventLog)
    PROVE  LET c == Max({cursor} \cup ThePage)
           IN  c \in 0 .. Len(EventLog) /\ c >= cursor /\ (\A i \in ThePage : i <= c)
               /\ (c = cursor \/ c \in ThePage)
<1> DEFINE S == {cursor} \cup ThePage
<1>1. IsFiniteSet(S)
  BY PageFacts, FS_Singleton, FS_Union
<1>2. S \subseteq 0 .. Len(EventLog) /\ S # {}
  BY PageFacts, LogFacts
<1>3. S \subseteq Int
  BY <1>2, LogFacts
<1>4. Max(S) \in S /\ \A y \in S : Max(S) >= y
  <2> HIDE DEF S
  <2> QED
    BY <1>1, <1>2, <1>3, MaxIsLargest
<1>5. Max(S) \in 0 .. Len(EventLog)
  BY <1>2, <1>4
<1>6. \A y \in S : y \in Int /\ y <= Max(S)
  <2> HIDE DEF S
  <2>1. Max(S) \in Int
    BY <1>3, <1>4
  <2> QED
    BY <1>3, <1>4, <2>1
<1> QED
  BY <1>4, <1>5, <1>6, LogFacts

(* A sequence that grows keeps its elements in place.                        *)
LEMMA Concatenated ==
    ASSUME NEW D, NEW s \in Seq(D), NEW t \in Seq(D)
    PROVE  /\ s \o t \in Seq(D) /\ Range(s \o t) = Range(s) \cup Range(t)
           /\ \A i \in DOMAIN (s \o t) :
                 \/ i \in DOMAIN s /\ (s \o t)[i] = s[i]
                 \/ i > Len(s) /\ i - Len(s) \in DOMAIN t /\ (s \o t)[i] = t[i - Len(s)]
<1> DEFINE u == s \o t
<1>1. /\ u \in Seq(D) /\ Len(u) = Len(s) + Len(t) /\ Len(s) \in Nat /\ Len(t) \in Nat
      /\ DOMAIN s = 1 .. Len(s) /\ DOMAIN t = 1 .. Len(t) /\ DOMAIN u = 1 .. Len(u)
  OBVIOUS
<1>2. \A i \in 1 .. Len(s) : i \in 1 .. Len(u) /\ u[i] = s[i]
  BY <1>1
<1>3. \A i \in 1 .. Len(u) : i > Len(s) => i - Len(s) \in 1 .. Len(t) /\ u[i] = t[i - Len(s)]
  BY <1>1
<1>4. \A i \in 1 .. Len(t) : Len(s) + i \in 1 .. Len(u) /\ u[Len(s) + i] = t[i]
  BY <1>1
<1> HIDE DEF u
<1>5. \A i \in DOMAIN u : \/ i \in DOMAIN s /\ u[i] = s[i]
                          \/ i > Len(s) /\ i - Len(s) \in DOMAIN t /\ u[i] = t[i - Len(s)]
  BY <1>1, <1>2, <1>3
<1>6. Range(u) \subseteq Range(s) \cup Range(t)
  BY <1>5 DEF Range
<1>7. Range(s) \subseteq Range(u)
  BY <1>1, <1>2 DEF Range
<1>8. Range(t) \subseteq Range(u)
  BY <1>1, <1>4 DEF Range
<1> QED
  BY <1>1, <1>5, <1>6, <1>7, <1>8 DEF u

(* The elements of a sequence are where its elements are from.               *)
LEMMA RangeIn == ASSUME NEW D, NEW s \in Seq(D) PROVE Range(s) \subseteq D
BY DEF Range

ListenInv == DeliveredInOrder

(* An answer, with the sets its definition names.                            *)
Answer(page, at, reached, fresh, marked, taken) ==
    /\ page = ThePage
    /\ at = 0 \/ (at \in page /\ Wanted(EventLog[at]) /\ ~Repeats(at) /\ kind # "pollEvents")
    /\ reached = {i \in page : at = 0 \/ i < at}
    /\ fresh = {i \in reached : ~Repeats(i)}
    /\ marked = {i \in page : (i \in reached \/ i = at) /\ Takes(EventLog[i])}
    /\ taken \in InChainOrder({i \in fresh : Wanted(EventLog[i])})
    /\ handled' = handled \o taken
    /\ lastLedger' = IF kind = "pollEvents" THEN lastLedger ELSE Moved(fresh)
    /\ cursor' = IF kind = "pollEvents" THEN Max({cursor} \cup page) ELSE cursor
    /\ seenTxHashes' = IF Listener.dedup THEN seenTxHashes \cup {EventLog[i].tx : i \in marked} ELSE {}
    /\ threw' = IF at = 0 THEN threw ELSE Append(threw, at)
    /\ cuts' = cuts \cup {n \in {EventLog[i].ledger : i \in Available \ page} :
                             \E i \in reached : EventLog[i].ledger = n}
    /\ phase = "asking" /\ phase' \in {"idle", "over"}
    /\ UNCHANGED <<kind, head, began, failures>>

(* Every answer has such names.                                              *)
LEMMA AnsweredNames ==
    ASSUME Answered
    PROVE  \E page, at, reached, fresh, marked, taken :
              Answer(page, at, reached, fresh, marked, taken)
<1> DEFINE page == ThePage
           Throwable == {i \in page : Wanted(EventLog[i]) /\ ~Repeats(i)}
           R(at) == {i \in page : at = 0 \/ i < at}
           F(at) == {i \in R(at) : ~Repeats(i)}
           M(at) == {i \in page : (i \in R(at) \/ i = at) /\ Takes(EventLog[i])}
<1>1. PICK at \in {0} \cup Throwable :
         /\ at # 0 => kind # "pollEvents"
         /\ \E taken \in InChainOrder({i \in F(at) : Wanted(EventLog[i])}) : handled' = handled \o taken
         /\ lastLedger' = IF kind = "pollEvents" THEN lastLedger ELSE Moved(F(at))
         /\ cursor' = IF kind = "pollEvents" THEN Max({cursor} \cup page) ELSE cursor
         /\ seenTxHashes' = IF Listener.dedup THEN seenTxHashes \cup {EventLog[i].tx : i \in M(at)} ELSE {}
         /\ threw' = IF at = 0 THEN threw ELSE Append(threw, at)
         /\ cuts' = cuts \cup {n \in {EventLog[i].ledger : i \in Available \ page} :
                                 \E i \in R(at) : EventLog[i].ledger = n}
  BY Zenon DEF Answered
<1>2. PICK taken \in InChainOrder({i \in F(at) : Wanted(EventLog[i])}) : handled' = handled \o taken
  BY <1>1
<1>3. phase = "asking" /\ phase' \in {"idle", "over"} /\ UNCHANGED <<kind, head, began, failures>>
  BY DEF Answered
<1>4. at = 0 \/ (at \in page /\ Wanted(EventLog[at]) /\ ~Repeats(at) /\ kind # "pollEvents")
  BY <1>1
<1>5. Answer(page, at, R(at), F(at), M(at), taken)
  BY <1>1, <1>2, <1>3, <1>4 DEF Answer
<1> QED
  BY <1>5

(* What a listener takes depends on its kind alone.                          *)
LEMMA KindFacts ==
    /\ Listener.dedup \in BOOLEAN
    /\ kind = "pollEvents" => ~Listener.dedup
    /\ \A ev : Wanted(ev) => Takes(ev)
    /\ kind = "pollEvents" => \A ev : Takes(ev) /\ Wanted(ev)
<1>1. Listener.dedup \in BOOLEAN
  BY DEF Listener, onMint, onTransfer, onVaultDeposit, subscribeEvents
<1>2. kind = "pollEvents" => ~Listener.dedup
  BY DEF Listener, subscribeEvents
<1> QED
  BY <1>1, <1>2 DEF Wanted, Takes

(* A step that keeps the kind changes nothing of what a listener takes.      *)
LEMMA KindSame ==
    ASSUME kind' = kind
    PROVE  /\ Listener' = Listener
           /\ \A ev : (Takes(ev)' <=> Takes(ev)) /\ (Wanted(ev)' <=> Wanted(ev))
BY DEF Listener, Takes, Wanted, Version, decodeMintEventData, decodeTransferEventData,
       decodeTransferFromEventData, decodeDepositEventData

(* Types, ledgers and positions of an answer.                                *)
LEMMA AnswerFacts ==
    ASSUME ListenInv, NEW page, NEW at, NEW reached, NEW fresh, NEW marked, NEW taken,
           Answer(page, at, reached, fresh, marked, taken)
    PROVE  /\ page \subseteq Available /\ reached \subseteq page /\ fresh \subseteq reached
           /\ \A i \in Available : /\ i \in DOMAIN EventLog /\ EventLog[i].ledger <= head
                                   /\ kind = "pollEvents" => i > cursor
                                   /\ kind # "pollEvents" => EventLog[i].ledger >= lastLedger
           /\ \A i \in page, j \in Available : j < i => j \in page
           /\ lastLedger \in Int /\ lastLedger' \in Int /\ lastLedger' >= lastLedger
           /\ cursor \in Nat /\ cursor' \in 0 .. Len(EventLog) /\ cursor' >= cursor
           /\ kind # "pollEvents" => /\ \A i \in fresh : EventLog[i].ledger < lastLedger'
                                     /\ \/ lastLedger' = lastLedger
                                        \/ \E i \in fresh : lastLedger' = EventLog[i].ledger + 1
           /\ kind = "pollEvents" => /\ fresh = page /\ \A i \in page : i <= cursor'
                                     /\ cursor' = cursor \/ cursor' \in page
           /\ \A i \in DOMAIN EventLog : Passed(i) => Passed(i)'
           /\ kind' = kind /\ at \in {0} \cup DOMAIN EventLog
<1>1. page = ThePage /\ reached \subseteq page /\ fresh \subseteq reached /\ kind' = kind
  BY DEF Answer
<1>2. /\ page \subseteq Available /\ Available \subseteq DOMAIN EventLog
      /\ \A i \in page, j \in Available : j < i => j \in page
  BY <1>1, PageFacts
<1>3. lastLedger \in Int /\ cursor \in 0 .. Len(EventLog) /\ cursor \in Nat
  BY LogFacts DEF ListenInv, DeliveredInOrder, ListenTypeOK
<1>4. \A i \in Available : /\ i \in DOMAIN EventLog /\ EventLog[i].ledger <= head
                           /\ kind = "pollEvents" => i > cursor
                           /\ kind # "pollEvents" => EventLog[i].ledger >= lastLedger
  BY DEF Available
<1>5. at \in {0} \cup DOMAIN EventLog
  BY <1>2 DEF Answer
<1>6. CASE kind = "pollEvents"
  <2>1. lastLedger' = lastLedger /\ cursor' = Max({cursor} \cup ThePage)
    BY <1>1, <1>6 DEF Answer
  <2>2. /\ cursor' \in 0 .. Len(EventLog) /\ cursor' >= cursor /\ (\A i \in page : i <= cursor')
        /\ (cursor' = cursor \/ cursor' \in page)
    BY <1>1, <1>3, <2>1, CursorFacts
  <2>3. fresh = page
    BY <1>6, KindFacts DEF Answer, Repeats
  <2>4. \A i \in DOMAIN EventLog : Passed(i) => Passed(i)'
    BY <1>1, <1>3, <1>6, <2>2, LogFacts DEF Passed
  <2>5. lastLedger' \in Int /\ lastLedger' >= lastLedger
    BY <1>3, <2>1
  <2> QED
    BY <1>1, <1>2, <1>3, <1>4, <1>5, <1>6, <2>2, <2>3, <2>4, <2>5
<1>7. CASE kind # "pollEvents"
  <2>1. lastLedger' = Moved(fresh) /\ cursor' = cursor
    BY <1>7 DEF Answer
  <2>2. fresh \subseteq DOMAIN EventLog
    BY <1>1, <1>2
  <2>3. /\ lastLedger' \in Int /\ lastLedger' >= lastLedger
        /\ \A i \in fresh : EventLog[i].ledger < lastLedger'
        /\ lastLedger' = lastLedger \/ \E i \in fresh : lastLedger' = EventLog[i].ledger + 1
    BY <1>3, <2>1, <2>2, MovedFacts
  <2>4. \A i \in DOMAIN EventLog : Passed(i) => Passed(i)'
    BY <1>1, <1>3, <1>7, <2>3, LogFacts DEF Passed
  <2> QED
    BY <1>1, <1>2, <1>3, <1>4, <1>5, <1>7, <2>1, <2>3, <2>4
<1> QED
  BY <1>6, <1>7

(* What an answer hands over, and what it throws on.                         *)
LEMMA AnswerTakes ==
    ASSUME ListenInv, NEW page, NEW at, NEW reached, NEW fresh, NEW marked, NEW taken,
           Answer(page, at, reached, fresh, marked, taken)
    PROVE  /\ taken \in Seq(DOMAIN EventLog)
           /\ Range(taken) = {i \in fresh : Wanted(EventLog[i])}
           /\ \A i, j \in DOMAIN taken : i < j => taken[i] < taken[j]
           /\ handled' \in Seq(DOMAIN EventLog) /\ threw' \in Seq(DOMAIN EventLog)
           /\ Range(handled') = Range(handled) \cup {i \in fresh : Wanted(EventLog[i])}
           /\ Range(threw') = Range(threw) \cup ({at} \ {0})
<1> DEFINE S == {i \in fresh : Wanted(EventLog[i])}
<1>1. /\ taken \in [1 .. Cardinality(S) -> S] /\ Range(taken) = S
      /\ \A i, j \in DOMAIN taken : i < j => taken[i] < taken[j]
  BY DEF Answer, InChainOrder
<1>2. S \subseteq DOMAIN EventLog
  BY AnswerFacts
<1>3. handled \in Seq(DOMAIN EventLog) /\ threw \in Seq(DOMAIN EventLog)
  BY DEF ListenInv, DeliveredInOrder, ListenTypeOK
<1>4. handled' = handled \o taken /\ threw' = IF at = 0 THEN threw ELSE Append(threw, at)
  BY DEF Answer
<1> HIDE DEF S
<1>5. Cardinality(S) \in Nat
  BY <1>2, LogFacts, FS_Subset, FS_CardinalityType
<1>6. taken \in Seq(DOMAIN EventLog)
  BY <1>1, <1>2, <1>5
<1>7. handled' \in Seq(DOMAIN EventLog) /\ Range(handled') = Range(handled) \cup S
  BY <1>1, <1>3, <1>4, <1>6, Concatenated
<1>8. threw' \in Seq(DOMAIN EventLog) /\ Range(threw') = Range(threw) \cup ({at} \ {0})
  <2>1. CASE at = 0
    BY <1>3, <1>4, <2>1
  <2>2. CASE at # 0
    <3>1. at \in DOMAIN EventLog
      BY <2>2, AnswerFacts
    <3>0. PICK last : last = <<at>>
      OBVIOUS
    <3>2. last \in Seq(DOMAIN EventLog) /\ Range(last) = {at}
      BY <3>0, <3>1 DEF Range
    <3>3. threw' = threw \o last
      BY <1>3, <1>4, <2>2, <3>0, <3>1
    <3>4. threw' \in Seq(DOMAIN EventLog) /\ Range(threw') = Range(threw) \cup {at}
      BY <1>3, <3>2, <3>3, Concatenated
    <3> QED
      BY <2>2, <3>4
  <2> QED
    BY <2>1, <2>2
<1> QED
  BY <1>1, <1>6, <1>7, <1>8 DEF S

(* An answer keeps the types.                                                *)
LEMMA AnswerTypes ==
    ASSUME ListenInv, NEW page, NEW at, NEW reached, NEW fresh, NEW marked, NEW taken,
           Answer(page, at, reached, fresh, marked, taken)
    PROVE  ListenTypeOK'
<1>1. /\ head \in 1 .. LastClosed /\ began \in Nat \cup {-1} /\ failures \in 0 .. MaxFailures
      /\ lastLedger \in -1 .. LastClosed + 1 \/ lastLedger = began
  BY DEF ListenInv, DeliveredInOrder, ListenTypeOK
<1>2. phase' \in {"idle", "over"} /\ UNCHANGED <<head, began, failures>>
  BY DEF Answer
<1>3. /\ cursor' \in 0 .. Len(EventLog) /\ handled' \in Seq(DOMAIN EventLog)
      /\ threw' \in Seq(DOMAIN EventLog)
  BY AnswerFacts, AnswerTakes
<1>4. lastLedger' \in -1 .. LastClosed + 1 \/ lastLedger' = began
  <2>1. CASE lastLedger' = lastLedger
    BY <1>1, <2>1
  <2>2. CASE lastLedger' # lastLedger
    <3>1. kind # "pollEvents"
      BY <2>2 DEF Answer
    <3>2. PICK i \in fresh : lastLedger' = EventLog[i].ledger + 1
      BY <2>2, <3>1, AnswerFacts
    <3>3. i \in DOMAIN EventLog
      BY AnswerFacts
    <3> QED
      BY <3>2, <3>3, LogFacts
  <2> QED
    BY <2>1, <2>2
<1> QED
  BY <1>1, <1>2, <1>3, <1>4 DEF ListenTypeOK

(* What is handed over is behind the listener afterwards, and what had been  *)
(* before comes earlier in the log than what an answer brings.               *)
LEMMA AnswerOrder ==
    ASSUME ListenInv, NEW page, NEW at, NEW reached, NEW fresh, NEW marked, NEW taken,
           Answer(page, at, reached, fresh, marked, taken)
    PROVE  /\ \A i \in fresh : Passed(i)'
           /\ \A i \in DOMAIN EventLog, j \in Available : Passed(i) => i < j
<1>1. \A i \in fresh : i \in DOMAIN EventLog /\ i \in page
  BY AnswerFacts
<1>2. kind' = kind /\ lastLedger \in Int /\ cursor \in Nat
  BY AnswerFacts
<1>3. \A i \in fresh : Passed(i)'
  <2>1. CASE kind = "pollEvents"
    <3>1. \A i \in fresh : i <= cursor'
      BY <1>1, <2>1, AnswerFacts
    <3> QED
      BY <1>2, <2>1, <3>1 DEF Passed
  <2>2. CASE kind # "pollEvents"
    <3>1. \A i \in fresh : EventLog[i].ledger < lastLedger'
      BY <2>2, AnswerFacts
    <3> QED
      BY <1>2, <2>2, <3>1 DEF Passed
  <2> QED
    BY <2>1, <2>2
<1>4. ASSUME NEW i \in DOMAIN EventLog, NEW j \in Available, Passed(i) PROVE i < j
  <2>1. /\ j \in DOMAIN EventLog
        /\ kind = "pollEvents" => j > cursor
        /\ kind # "pollEvents" => EventLog[j].ledger >= lastLedger
    BY AnswerFacts
  <2>2. i \in Nat /\ j \in Nat
    BY <2>1, LogFacts
  <2>3. CASE kind = "pollEvents"
    BY <1>2, <1>4, <2>1, <2>2, <2>3 DEF Passed
  <2>4. CASE kind # "pollEvents"
    <3>1. EventLog[i].ledger < EventLog[j].ledger
      BY <1>2, <1>4, <2>1, <2>4, LogFacts DEF Passed
    <3>2. j < i => EventLog[j].ledger <= EventLog[i].ledger
      BY <2>1, LogFacts
    <3>3. EventLog[i].ledger \in Nat /\ EventLog[j].ledger \in Nat
      BY <2>1, LogFacts
    <3> QED
      BY <2>2, <3>1, <3>2, <3>3
  <2> QED
    BY <2>3, <2>4
<1> QED
  BY <1>3, <1>4

(* The callback goes on taking the events in order.                          *)
LEMMA AnswerInOrder ==
    ASSUME ListenInv, NEW page, NEW at, NEW reached, NEW fresh, NEW marked, NEW taken,
           Answer(page, at, reached, fresh, marked, taken)
    PROVE  InOrderOnce' /\ \A i \in Range(handled') : Passed(i)'
<1>1. \A i \in Range(handled) : i \in DOMAIN EventLog /\ Passed(i)
  <2>1. \A i \in Range(handled) : Passed(i)
    BY DEF ListenInv, DeliveredInOrder, ListenersRemember
  <2>2. Range(handled) \subseteq DOMAIN EventLog
    BY RangeIn DEF ListenInv, DeliveredInOrder, ListenTypeOK
  <2> QED
    BY <2>1, <2>2
<1>2. \A i \in Range(handled') : Passed(i)'
  BY <1>1, AnswerFacts, AnswerTakes, AnswerOrder
<1>3. /\ handled \in Seq(DOMAIN EventLog) /\ taken \in Seq(DOMAIN EventLog)
      /\ handled' = handled \o taken
      /\ \A i, j \in DOMAIN taken : i < j => taken[i] < taken[j]
      /\ \A i, j \in DOMAIN handled : i < j => handled[i] < handled[j]
  <2>1. handled \in Seq(DOMAIN EventLog)
    BY DEF ListenInv, DeliveredInOrder, ListenTypeOK
  <2>2. \A i, j \in DOMAIN handled : i < j => handled[i] < handled[j]
    BY DEF ListenInv, DeliveredInOrder, InOrderOnce
  <2>3. handled' = handled \o taken
    BY DEF Answer
  <2>4. taken \in Seq(DOMAIN EventLog) /\ \A i, j \in DOMAIN taken : i < j => taken[i] < taken[j]
    BY AnswerTakes
  <2> QED
    BY <2>1, <2>2, <2>3, <2>4
<1>4. \A i \in DOMAIN handled' :
         \/ i \in DOMAIN handled /\ handled'[i] = handled[i]
         \/ i > Len(handled) /\ i - Len(handled) \in DOMAIN taken /\ handled'[i] = taken[i - Len(handled)]
  BY <1>3, Concatenated
<1>5. \A i \in DOMAIN handled, j \in DOMAIN taken : handled[i] < taken[j]
  <2> SUFFICES ASSUME NEW i \in DOMAIN handled, NEW j \in DOMAIN taken
               PROVE  handled[i] < taken[j]
    OBVIOUS
  <2>1. handled[i] \in Range(handled) /\ taken[j] \in Range(taken)
    BY DEF Range
  <2>2. taken[j] \in fresh
    BY <2>1, AnswerTakes
  <2>3. taken[j] \in Available
    BY <2>2, AnswerFacts
  <2> QED
    BY <1>1, <2>1, <2>3, AnswerOrder
<1>6. DOMAIN handled = 1 .. Len(handled) /\ Len(handled) \in Nat
      /\ DOMAIN handled' \subseteq Nat
  BY <1>3, AnswerTakes
<1>7. ASSUME NEW i \in DOMAIN handled', NEW j \in DOMAIN handled', i < j
      PROVE  handled'[i] < handled'[j]
  <2>0. i \in Nat /\ j \in Nat
    BY <1>6
  <2>1. CASE j \in DOMAIN handled
    <3>1. i \in DOMAIN handled /\ ~(i > Len(handled)) /\ ~(j > Len(handled))
      BY <1>6, <1>7, <2>0, <2>1
    <3>2. handled'[i] = handled[i] /\ handled'[j] = handled[j]
      BY <1>4, <3>1
    <3> QED
      BY <1>3, <1>7, <2>1, <3>1, <3>2
  <2>2. CASE j \notin DOMAIN handled
    <3>1. j - Len(handled) \in DOMAIN taken /\ handled'[j] = taken[j - Len(handled)]
      BY <1>4, <2>2
    <3>2. CASE i \in DOMAIN handled
      <4>1. handled'[i] = handled[i]
        BY <1>4, <1>6, <3>2, <2>0
      <4> QED
        BY <1>5, <3>1, <3>2, <4>1
    <3>3. CASE i \notin DOMAIN handled
      <4>1. i - Len(handled) \in DOMAIN taken /\ handled'[i] = taken[i - Len(handled)]
        BY <1>4, <3>3
      <4>2. i - Len(handled) < j - Len(handled)
        BY <1>6, <1>7, <2>0
      <4> QED
        BY <1>3, <3>1, <4>1, <4>2
    <3> QED
      BY <3>2, <3>3
  <2> QED
    BY <2>1, <2>2
<1> QED
  BY <1>2, <1>7 DEF InOrderOnce

(* Reasons for having gone past an event; what was one remains one.          *)
LEMMA AnswerExcuses ==
    ASSUME ListenInv, NEW page, NEW at, NEW reached, NEW fresh, NEW marked, NEW taken,
           Answer(page, at, reached, fresh, marked, taken),
           NEW i \in DOMAIN EventLog, kind # "pollEvents"
    PROVE  /\ EventLog[i].ledger \in cuts' => Excused(i)'
           /\ \A j \in Range(threw') : j <= i /\ EventLog[j].ledger = EventLog[i].ledger => Excused(i)'
           /\ \A j \in 1 .. i - 1 : Listener.dedup /\ Takes(EventLog[j]) /\ EventLog[j].tx = EventLog[i].tx
                 => Excused(i)'
           /\ Excused(i) => Excused(i)'
<1>1. kind' = kind
  BY DEF Answer
<1>2. Listener' = Listener /\ \A ev : Takes(ev)' <=> Takes(ev)
  BY <1>1, KindSame
<1>3. EventLog[i].ledger \in cuts' => Excused(i)'
  BY <1>1 DEF Excused
<1>4. \A j \in Range(threw') : j <= i /\ EventLog[j].ledger = EventLog[i].ledger => Excused(i)'
  BY <1>1 DEF Excused
<1>5. \A j \in 1 .. i - 1 : Listener.dedup /\ Takes(EventLog[j]) /\ EventLog[j].tx = EventLog[i].tx
         => Excused(i)'
  BY <1>1, <1>2 DEF Excused
<1>6. cuts \subseteq cuts' /\ Range(threw) \subseteq Range(threw')
  <2>1. cuts \subseteq cuts'
    BY DEF Answer
  <2> QED
    BY <2>1, AnswerTakes
<1>7. Excused(i) => Excused(i)'
  BY <1>3, <1>4, <1>5, <1>6 DEF Excused
<1> QED
  BY <1>3, <1>4, <1>5, <1>7

(* An event that an answer lets a listener of ledgers move past is handed    *)
(* over or excused.                                                          *)
LEMMA AnswerPasses ==
    ASSUME ListenInv, NEW page, NEW at, NEW reached, NEW fresh, NEW marked, NEW taken,
           Answer(page, at, reached, fresh, marked, taken), kind # "pollEvents",
           NEW i \in DOMAIN EventLog, Wanted(EventLog[i]), ~Passed(i), Passed(i)'
    PROVE  i \in Range(handled') \/ Excused(i)'
<1>1. lastLedger \in Int /\ lastLedger' \in Int /\ kind' = kind
  BY AnswerFacts
<1>2. EventLog[i].ledger < lastLedger' /\ ~(EventLog[i].ledger < lastLedger)
  BY <1>1 DEF Passed
<1>3. PICK k \in fresh : lastLedger' = EventLog[k].ledger + 1
  BY <1>2, AnswerFacts
<1>4. k \in reached /\ k \in page /\ k \in Available /\ k \in DOMAIN EventLog
  BY AnswerFacts
<1>5. /\ i \in Nat /\ k \in Nat /\ EventLog[i].ledger \in Nat /\ EventLog[k].ledger \in Nat
      /\ head \in Nat
  BY <1>4, LogFacts DEF ListenInv, DeliveredInOrder, ListenTypeOK
<1>6. EventLog[k].ledger <= head
  BY <1>4, AnswerFacts
<1>7. EventLog[i].ledger <= EventLog[k].ledger /\ EventLog[i].ledger <= head
      /\ EventLog[i].ledger >= lastLedger
  BY <1>1, <1>2, <1>3, <1>5, <1>6
<1>8. i \in Available
  BY <1>7 DEF Available
<1>9. CASE i \notin page
  <2>1. ~(i < k) /\ i # k
    BY <1>4, <1>8, <1>9, AnswerFacts
  <2>2. EventLog[k].ledger <= EventLog[i].ledger
    BY <1>4, <1>5, <2>1, LogFacts
  <2>3. EventLog[k].ledger = EventLog[i].ledger
    BY <1>5, <1>7, <2>2
  <2>4. EventLog[i].ledger \in cuts'
    BY <1>4, <1>8, <1>9, <2>3 DEF Answer
  <2> QED
    BY <2>4, AnswerExcuses
<1>10. CASE i \in page /\ i \notin reached
  <2>1. at # 0 /\ ~(i < at)
    BY <1>10 DEF Answer
  <2>2. at \in DOMAIN EventLog /\ at \in Range(threw')
    BY <2>1, AnswerFacts, AnswerTakes
  <2>3. k < at
    BY <1>4, <2>1 DEF Answer
  <2>4. at \in Nat /\ EventLog[at].ledger \in Nat
    BY <2>2, LogFacts
  <2>5. at <= i
    BY <1>5, <2>1, <2>4
  <2>6. EventLog[k].ledger <= EventLog[at].ledger
    BY <1>4, <2>2, <2>3, LogFacts
  <2>7. EventLog[at].ledger <= EventLog[i].ledger
    <3>1. at = i \/ at < i
      BY <1>5, <2>4, <2>5
    <3> QED
      BY <2>2, <2>4, <3>1, LogFacts
  <2>8. EventLog[at].ledger = EventLog[i].ledger
    BY <1>5, <1>7, <2>4, <2>6, <2>7
  <2> QED
    BY <2>2, <2>5, <2>8, AnswerExcuses
<1>11. CASE i \in reached /\ Repeats(i)
  <2>1. Listener.dedup /\ Takes(EventLog[i])
    BY <1>11 DEF Repeats
  <2>2. \A j \in DOMAIN EventLog : j < i => j \in 1 .. i - 1
    BY <1>5, LogFacts
  <2>3. CASE \E j \in 1 .. i - 1 : Takes(EventLog[j]) /\ EventLog[j].tx = EventLog[i].tx
    BY <2>1, <2>3, AnswerExcuses
  <2>4. CASE ~\E j \in 1 .. i - 1 : Takes(EventLog[j]) /\ EventLog[j].tx = EventLog[i].tx
    <3>1. EventLog[i].tx \in seenTxHashes
      BY <1>11, <2>4 DEF Repeats
    <3>2. PICK j \in DOMAIN EventLog :
             /\ Takes(EventLog[j]) /\ EventLog[j].tx = EventLog[i].tx
             /\ Passed(j) \/ j \in Range(threw)
      BY <3>1 DEF ListenInv, DeliveredInOrder, ListenersRemember
    <3>3. ~(j < i)
      BY <2>2, <2>4, <3>2
    <3>4. ~Passed(j)
      BY <1>8, <3>3, AnswerOrder
    <3>5. j \in Range(threw)
      BY <3>2, <3>4
    <3>6. j \in Nat
      BY LogFacts
    <3>7. ~(i < j)
      <4>1. SUFFICES ASSUME i < j PROVE FALSE
        OBVIOUS
      <4>2. i \in 1 .. j - 1
        BY <1>5, <3>6, <4>1, LogFacts
      <4>3. Passed(i)
        BY <2>1, <3>2, <3>5, <4>2 DEF ListenInv, DeliveredInOrder, ListenersRemember
      <4> QED
        BY <4>3
    <3>8. j = i
      BY <1>5, <3>3, <3>6, <3>7
    <3>9. i \in Range(threw') /\ i <= i
      BY <1>5, <3>5, <3>8, AnswerTakes
    <3> QED
      BY <3>9, AnswerExcuses
  <2> QED
    BY <2>3, <2>4
<1>12. CASE i \in reached /\ ~Repeats(i)
  <2>1. i \in fresh
    BY <1>12 DEF Answer
  <2> QED
    BY <2>1, AnswerTakes
<1> QED
  BY <1>9, <1>10, <1>11, <1>12

(* A caller of pollEvents is handed everything up to the cursor.             *)
LEMMA AnswerPolls ==
    ASSUME ListenInv, NEW page, NEW at, NEW reached, NEW fresh, NEW marked, NEW taken,
           Answer(page, at, reached, fresh, marked, taken), kind = "pollEvents",
           NEW i \in DOMAIN EventLog, Wanted(EventLog[i]), ~Passed(i), Passed(i)'
    PROVE  i \in Range(handled')
<1>1. cursor \in Nat /\ cursor' \in Nat /\ kind' = kind
  BY AnswerFacts, LogFacts
<1>2. i <= cursor' /\ ~(i <= cursor) /\ i \in Nat
  BY <1>1, LogFacts DEF Passed
<1>3. cursor' \in page
  BY <1>1, <1>2, AnswerFacts
<1>4. cursor' \in Available /\ cursor' \in DOMAIN EventLog /\ EventLog[cursor'].ledger <= head
  BY <1>3, AnswerFacts
<1>5. i = cursor' \/ i < cursor'
  BY <1>1, <1>2
<1>6. EventLog[i].ledger <= EventLog[cursor'].ledger
  BY <1>4, <1>5, LogFacts
<1>7. EventLog[i].ledger \in Nat /\ EventLog[cursor'].ledger \in Nat /\ head \in Nat
  BY <1>4, LogFacts DEF ListenInv, DeliveredInOrder, ListenTypeOK
<1>8. EventLog[i].ledger <= head /\ i > cursor
  BY <1>1, <1>2, <1>4, <1>6, <1>7
<1>9. i \in Available
  BY <1>8 DEF Available
<1>10. i \in page
  BY <1>3, <1>5, <1>9, AnswerFacts
<1>11. i \in fresh
  BY <1>10, AnswerFacts
<1> QED
  BY <1>11, AnswerTakes

(* An answer skips nothing.                                                  *)
LEMMA AnswerSkipsNothing ==
    ASSUME ListenInv, NEW page, NEW at, NEW reached, NEW fresh, NEW marked, NEW taken,
           Answer(page, at, reached, fresh, marked, taken)
    PROVE  NothingSkipped'
<1>1. SUFFICES ASSUME NEW i \in DOMAIN EventLog, Due(i)', Passed(i)'
               PROVE  i \in Range(handled') \/ Excused(i)'
  BY DEF NothingSkipped
<1>2. kind' = kind /\ began' = began /\ phase = "asking"
  BY DEF Answer
<1>3. Due(i) /\ Wanted(EventLog[i])
  <2>1. Wanted(EventLog[i])' <=> Wanted(EventLog[i])
    BY <1>2, KindSame
  <2> QED
    BY <1>1, <1>2, <2>1 DEF Due
<1>4. CASE Passed(i)
  <2>1. i \in Range(handled) \/ Excused(i)
    BY <1>2, <1>3, <1>4 DEF ListenInv, DeliveredInOrder, NothingSkipped
  <2>2. Excused(i) => Excused(i)'
    <3>1. Excused(i) => kind # "pollEvents"
      BY DEF Excused
    <3> QED
      BY <3>1, AnswerExcuses
  <2> QED
    BY <2>1, <2>2, AnswerTakes
<1>5. CASE ~Passed(i)
  BY <1>1, <1>3, <1>5, AnswerPasses, AnswerPolls
<1> QED
  BY <1>4, <1>5

(* A transaction seen before remains accounted for.                          *)
LEMMA AnswerKeepsSeen ==
    ASSUME ListenInv, NEW page, NEW at, NEW reached, NEW fresh, NEW marked, NEW taken,
           Answer(page, at, reached, fresh, marked, taken), NEW h \in seenTxHashes
    PROVE  \E j \in DOMAIN EventLog :
              Takes(EventLog[j]) /\ EventLog[j].tx = h /\ (Passed(j)' \/ j \in Range(threw'))
<1>1. PICK j \in DOMAIN EventLog :
         Takes(EventLog[j]) /\ EventLog[j].tx = h /\ (Passed(j) \/ j \in Range(threw))
  BY DEF ListenInv, DeliveredInOrder, ListenersRemember
<1> QED
  BY <1>1, AnswerFacts, AnswerTakes

(* So is a transaction that the answer marks: the first of its events that   *)
(* the listener had not passed is handed over, or thrown on.                 *)
LEMMA AnswerMarks ==
    ASSUME ListenInv, NEW page, NEW at, NEW reached, NEW fresh, NEW marked, NEW taken,
           Answer(page, at, reached, fresh, marked, taken), Listener.dedup, NEW i \in marked
    PROVE  \E j \in DOMAIN EventLog :
              /\ Takes(EventLog[j]) /\ EventLog[j].tx = EventLog[i].tx
              /\ Passed(j)' \/ j \in Range(threw')
<1>1. i \in page /\ Takes(EventLog[i]) /\ (i \in reached \/ i = at)
  BY DEF Answer
<1>2. i \in Available /\ i \in DOMAIN EventLog /\ kind # "pollEvents"
  BY <1>1, AnswerFacts, KindFacts
<1>3. CASE i = at
  <2>1. at # 0
    BY <1>2, <1>3, LogFacts
  <2> QED
    BY <1>1, <1>2, <1>3, <2>1, AnswerTakes
<1>4. CASE i \in reached /\ ~Repeats(i)
  <2>1. i \in fresh
    BY <1>4 DEF Answer
  <2> QED
    BY <1>1, <1>2, <2>1, AnswerOrder
<1>5. CASE EventLog[i].tx \in seenTxHashes
  BY <1>5, AnswerKeepsSeen
<1>6. CASE i \in reached /\ Repeats(i) /\ EventLog[i].tx \notin seenTxHashes
  <2> DEFINE S == {j \in 1 .. i - 1 : EventLog[j].ledger >= lastLedger /\ Takes(EventLog[j])
                                         /\ EventLog[j].tx = EventLog[i].tx}
  <2>0. i \in Nat /\ i - 1 \in Int
    BY <1>2, LogFacts
  <2>1. S # {} /\ S \subseteq 1 .. i - 1
    BY <1>6 DEF Repeats
  <2>2. IsFiniteSet(1 .. i - 1)
    BY <2>0, FS_Interval
  <2>3. IsFiniteSet(S) /\ S \subseteq Int
    BY <2>0, <2>1, <2>2, FS_Subset
  <2>4. PICK m \in S : \A y \in S : m <= y
    <3> HIDE DEF S
    <3> QED
      BY <2>1, <2>3, Extremes
  <2>5. /\ EventLog[m].ledger >= lastLedger /\ Takes(EventLog[m]) /\ EventLog[m].tx = EventLog[i].tx
        /\ m \in Nat /\ m < i /\ m \in 1 .. i - 1
    BY <2>0
  <2>6. m \in DOMAIN EventLog
    BY <1>2, <2>0, <2>5, LogFacts
  <2>7. EventLog[m].ledger <= head
    <3>1. EventLog[m].ledger <= EventLog[i].ledger /\ EventLog[i].ledger <= head
      BY <1>2, <2>5, <2>6, LogFacts, AnswerFacts
    <3>2. EventLog[m].ledger \in Nat /\ EventLog[i].ledger \in Nat /\ head \in Nat
      BY <1>2, <2>6, LogFacts DEF ListenInv, DeliveredInOrder, ListenTypeOK
    <3> QED
      BY <3>1, <3>2
  <2>8. m \in Available
    BY <1>2, <2>5, <2>6, <2>7 DEF Available
  <2>9. m \in page
    BY <1>1, <2>5, <2>8, AnswerFacts
  <2>10. m \in reached
    <3>1. at = 0 \/ i < at
      BY <1>6 DEF Answer
    <3>2. at \in Int
      BY AnswerFacts, LogFacts
    <3>3. at = 0 \/ m < at
      BY <2>0, <2>5, <3>1, <3>2
    <3> QED
      BY <2>9, <3>3 DEF Answer
  <2>11. ~Repeats(m)
    <3>1. SUFFICES ASSUME Repeats(m) PROVE FALSE
      OBVIOUS
    <3>2. PICK j \in 1 .. m - 1 : /\ EventLog[j].ledger >= lastLedger /\ Takes(EventLog[j])
                                  /\ EventLog[j].tx = EventLog[m].tx
      BY <1>6, <2>5, <3>1 DEF Repeats
    <3>3. j \in 1 .. i - 1 /\ j \in Nat /\ j < m
      BY <2>0, <2>5
    <3>4. j \in S
      BY <2>5, <3>2, <3>3
    <3>5. m <= j
      BY <2>4, <3>4
    <3> QED
      BY <2>5, <3>3, <3>5
  <2>12. m \in fresh
    BY <2>10, <2>11 DEF Answer
  <2>13. Passed(m)'
    BY <2>12, AnswerOrder
  <2> HIDE DEF S
  <2> QED
    BY <2>5, <2>6, <2>13
<1> QED
  BY <1>1, <1>3, <1>4, <1>5, <1>6

(* The earlier events of a transaction the callback threw on are behind.     *)
LEMMA AnswerThrows ==
    ASSUME ListenInv, NEW page, NEW at, NEW reached, NEW fresh, NEW marked, NEW taken,
           Answer(page, at, reached, fresh, marked, taken), Listener.dedup,
           NEW j \in Range(threw'), NEW i \in 1 .. j - 1,
           Takes(EventLog[i]), EventLog[i].tx = EventLog[j].tx
    PROVE  Passed(i)'
<1>1. j \in DOMAIN EventLog
  BY AnswerTakes, RangeIn
<1>2. j \in Nat /\ i \in DOMAIN EventLog
  BY <1>1, LogFacts
<1>3. Passed(i)
  <2>1. CASE j \in Range(threw)
    BY <2>1 DEF ListenInv, DeliveredInOrder, ListenersRemember
  <2>2. CASE j \notin Range(threw)
    <3>1. j = at /\ at # 0
      BY <2>2, AnswerTakes
    <3>2. Wanted(EventLog[j]) /\ ~Repeats(j) /\ kind # "pollEvents"
      BY <3>1 DEF Answer
    <3>3. Takes(EventLog[j])
      BY <3>2, KindFacts
    <3>4. ~(EventLog[i].ledger >= lastLedger)
      BY <3>2, <3>3 DEF Repeats
    <3>5. EventLog[i].ledger \in Nat /\ lastLedger \in Int
      BY <1>2, LogFacts, AnswerFacts
    <3>6. EventLog[i].ledger < lastLedger
      BY <3>4, <3>5
    <3> QED
      BY <3>2, <3>6 DEF Passed
  <2> QED
    BY <2>1, <2>2
<1> QED
  BY <1>2, <1>3, AnswerFacts

(* An answer keeps the whole invariant.                                      *)
LEMMA AnsweredKeeps ==
    ASSUME ListenInv, Answered
    PROVE  ListenInv'
<1>1. PICK page, at, reached, fresh, marked, taken :
         Answer(page, at, reached, fresh, marked, taken)
  BY AnsweredNames
<1>2. kind' = kind /\ phase' \in {"idle", "over"}
  BY <1>1 DEF Answer
<1>3. Listener' = Listener /\ \A ev : Takes(ev)' <=> Takes(ev)
  BY <1>2, KindSame
<1>4. InOrderOnce' /\ \A i \in Range(handled') : Passed(i)'
  BY <1>1, AnswerInOrder
<1>5. ASSUME NEW h \in seenTxHashes'
      PROVE  \E j \in DOMAIN EventLog :
                Takes(EventLog[j])' /\ EventLog[j].tx = h /\ (Passed(j)' \/ j \in Range(threw'))
  <2>1. /\ Listener.dedup
        /\ h \in seenTxHashes \/ \E i \in marked : h = EventLog[i].tx
    BY <1>1, <1>5 DEF Answer
  <2>2. \E j \in DOMAIN EventLog :
           Takes(EventLog[j]) /\ EventLog[j].tx = h /\ (Passed(j)' \/ j \in Range(threw'))
    <3>1. CASE h \in seenTxHashes
      BY <1>1, <3>1, AnswerKeepsSeen
    <3>2. CASE \E i \in marked : h = EventLog[i].tx
      BY <1>1, <2>1, <3>2, AnswerMarks
    <3> QED
      BY <2>1, <3>1, <3>2
  <2> QED
    BY <1>3, <2>2
<1>6. ASSUME Listener.dedup', NEW j \in Range(threw'), NEW i \in 1 .. j - 1,
             Takes(EventLog[i])', EventLog[i].tx = EventLog[j].tx
      PROVE  Passed(i)'
  <2>1. Listener.dedup /\ Takes(EventLog[i])
    BY <1>3, <1>6
  <2> QED
    BY <1>1, <1>6, <2>1, AnswerThrows
<1>7. ListenersRemember'
  BY <1>2, <1>4, <1>5, <1>6 DEF ListenersRemember
<1>8. ListenTypeOK' /\ NothingSkipped'
  BY <1>1, AnswerTypes, AnswerSkipsNothing
<1> QED
  BY <1>4, <1>7, <1>8 DEF ListenInv, DeliveredInOrder

(* A step that leaves the events, the ledger and the cursor alone.           *)
LEMMA QuietKeeps ==
    ASSUME ListenInv, head' \in 1 .. LastClosed, failures' \in 0 .. MaxFailures,
           phase' \in {"starting", "idle", "asking", "over", "failed"},
           phase' \in {"starting", "failed"} <=> phase \in {"starting", "failed"},
           UNCHANGED <<kind, lastLedger, cursor, seenTxHashes, handled, threw, cuts, began>>
    PROVE  ListenInv'
<1>1. Listener' = Listener /\ \A ev : (Takes(ev)' <=> Takes(ev)) /\ (Wanted(ev)' <=> Wanted(ev))
  BY KindSame
<1>2. \A i : Passed(i)' <=> Passed(i)
  BY DEF Passed
<1>3. \A i : (Due(i)' <=> Due(i)) /\ (Excused(i)' <=> Excused(i))
  BY <1>1 DEF Due, Excused
<1>4. ListenTypeOK'
  BY DEF ListenInv, DeliveredInOrder, ListenTypeOK
<1>5. InOrderOnce'
  BY DEF ListenInv, DeliveredInOrder, InOrderOnce
<1>6. NothingSkipped'
  BY <1>2, <1>3 DEF ListenInv, DeliveredInOrder, NothingSkipped
<1>7. ListenersRemember'
  <2>1. ListenersRemember
    BY DEF ListenInv, DeliveredInOrder
  <2>2. /\ \A i \in Range(handled') : Passed(i)'
        /\ phase' \in {"starting", "failed"} =>
              kind' # "pollEvents" /\ handled' = <<>> /\ threw' = <<>> /\ seenTxHashes' = {}
    BY <1>2, <2>1 DEF ListenersRemember
  <2>3. \A h \in seenTxHashes' : \E j \in DOMAIN EventLog :
           Takes(EventLog[j])' /\ EventLog[j].tx = h /\ (Passed(j)' \/ j \in Range(threw'))
    BY <1>1, <1>2, <2>1 DEF ListenersRemember
  <2>4. Listener.dedup' => \A j \in Range(threw') : \A i \in 1 .. j - 1 :
           Takes(EventLog[i])' /\ EventLog[i].tx = EventLog[j].tx => Passed(i)'
    BY <1>1, <1>2, <2>1 DEF ListenersRemember
  <2> QED
    BY <2>2, <2>3, <2>4 DEF ListenersRemember
<1> QED
  BY <1>4, <1>5, <1>6, <1>7 DEF ListenInv, DeliveredInOrder

(* A listener that has handled nothing yet begins at a ledger.               *)
LEMMA BeginKeeps ==
    ASSUME ListenInv, phase = "starting", NEW n \in Nat, BeginAt(n), failures' \in 0 .. MaxFailures
    PROVE  ListenInv'
<1>1. kind # "pollEvents" /\ handled = <<>> /\ threw = <<>> /\ seenTxHashes = {}
  BY DEF ListenInv, DeliveredInOrder, ListenersRemember
<1>2. /\ kind' # "pollEvents" /\ handled' = <<>> /\ threw' = <<>> /\ seenTxHashes' = {}
      /\ lastLedger' = n /\ began' = n /\ phase' = "asking" /\ head' = head /\ cursor' = cursor
  BY <1>1 DEF BeginAt
<1>3. Range(handled') = {} /\ Range(threw') = {} /\ DOMAIN handled' = {}
  BY <1>2 DEF Range
<1>4. <<>> \in Seq(DOMAIN EventLog)
  OBVIOUS
<1>5. ListenTypeOK'
  BY <1>2, <1>4 DEF ListenInv, DeliveredInOrder, ListenTypeOK
<1>6. InOrderOnce'
  BY <1>3 DEF InOrderOnce
<1>7. NothingSkipped'
  <2>1. ASSUME NEW i \in DOMAIN EventLog, Due(i)', Passed(i)' PROVE FALSE
    <3>1. EventLog[i].ledger >= n
      BY <1>2, <2>1 DEF Due
    <3>2. EventLog[i].ledger < n
      BY <1>2, <2>1 DEF Passed
    <3>3. EventLog[i].ledger \in Nat
      BY LogFacts
    <3> QED
      BY <3>1, <3>2, <3>3
  <2> QED
    BY <2>1 DEF NothingSkipped
<1>8. ListenersRemember'
  BY <1>2, <1>3 DEF ListenersRemember
<1> QED
  BY <1>5, <1>6, <1>7, <1>8 DEF ListenInv, DeliveredInOrder

(* Every step of a listener keeps the invariant.                             *)
LEMMA ListenKeeps ==
    ASSUME ListenInv, ListenNext
    PROVE  ListenInv'
<1>1. /\ phase \in {"starting", "idle", "asking", "over", "failed"}
      /\ head \in 1 .. LastClosed /\ head \in Nat /\ LastClosed \in Nat
      /\ failures \in 0 .. MaxFailures /\ MaxFailures \in Nat
      /\ lastLedger \in Int
  BY LogFacts, ListenerAssumption DEF ListenInv, DeliveredInOrder, ListenTypeOK
<1>2. failures < MaxFailures /\ failures' = failures + 1 => failures' \in 0 .. MaxFailures
  BY <1>1
<1>3. CASE StartListening
  <2> DEFINE given == lastLedger > 0 \/ (lastLedger = 0 /\ Listener.dedup)
  <2>2. /\ phase = "starting"
        /\ \/ given /\ BeginAt(lastLedger) /\ UNCHANGED failures
           \/ ~given /\ BeginAt(head) /\ UNCHANGED failures
           \/ /\ ~given /\ failures < MaxFailures /\ failures' = failures + 1
              /\ IF Listener.dedup THEN BeginAt(0)
                 ELSE /\ phase' = "failed"
                      /\ UNCHANGED <<kind, strict, head, active, lastLedger, cursor, seenTxHashes,
                                     handled, threw, cuts, began>>
    BY <1>3 DEF StartListening
  <2>3. CASE given /\ BeginAt(lastLedger) /\ UNCHANGED failures
    <3>1. lastLedger \in Nat
      BY <1>1, <2>3
    <3> QED
      BY <1>1, <2>2, <2>3, <3>1, BeginKeeps
  <2>4. CASE BeginAt(head) /\ UNCHANGED failures
    BY <1>1, <2>2, <2>4, BeginKeeps
  <2>5. CASE failures < MaxFailures /\ failures' = failures + 1 /\ BeginAt(0)
    BY <1>2, <2>2, <2>5, BeginKeeps
  <2>6. CASE /\ failures < MaxFailures /\ failures' = failures + 1 /\ phase' = "failed"
             /\ UNCHANGED <<kind, strict, head, active, lastLedger, cursor, seenTxHashes,
                            handled, threw, cuts, began>>
    BY <1>1, <1>2, <2>2, <2>6, QuietKeeps
  <2> QED
    BY <2>2, <2>3, <2>4, <2>5, <2>6
<1>4. CASE poll
  BY <1>1, <1>4, QuietKeeps DEF poll
<1>5. CASE AskFailed
  <2>1. failures' \in 0 .. MaxFailures
    BY <1>1, <1>2, <1>5 DEF AskFailed
  <2> QED
    BY <1>1, <1>5, <2>1, QuietKeeps DEF AskFailed
<1>6. CASE CloseLedger
  <2>1. head' \in 1 .. LastClosed
    BY <1>1, <1>6 DEF CloseLedger
  <2> QED
    BY <1>1, <1>6, <2>1, QuietKeeps DEF CloseLedger
<1>7. CASE unsubscribe
  BY <1>1, <1>7, QuietKeeps DEF unsubscribe
<1>8. CASE Answered
  BY <1>8, AnsweredKeeps
<1> QED
  BY <1>3, <1>4, <1>5, <1>6, <1>7, <1>8 DEF ListenNext, ListenerStep

(* A listener that has not begun keeps the invariant.                        *)
LEMMA InitListens ==
    ASSUME ListenInit
    PROVE  ListenInv
<1>1. /\ head = 1 /\ began \in Nat \cup {-1} /\ lastLedger = began /\ cursor = 0
      /\ seenTxHashes = {} /\ handled = <<>> /\ threw = <<>> /\ failures = 0
  BY ListenerAssumption DEF ListenInit
<1>2. phase \in {"starting", "idle", "over"} /\ (phase = "starting" => kind # "pollEvents")
  BY DEF ListenInit
<1>3. phase # "starting" => began = 0
  BY DEF ListenInit
<1>4. Range(handled) = {} /\ Range(threw) = {} /\ DOMAIN handled = {}
  BY <1>1 DEF Range
<1>5. <<>> \in Seq(DOMAIN EventLog)
  OBVIOUS
<1>6. ListenTypeOK
  BY <1>1, <1>2, <1>5, LogFacts, ListenerAssumption DEF ListenTypeOK
<1>7. InOrderOnce
  BY <1>4 DEF InOrderOnce
<1>8. NothingSkipped
  <2>1. ASSUME phase # "starting", NEW i \in DOMAIN EventLog, Passed(i) PROVE FALSE
    <3>1. EventLog[i].ledger \in Nat /\ EventLog[i].ledger > 0 /\ i \in Nat /\ i > 0
      BY LogFacts
    <3> QED
      BY <1>1, <1>3, <2>1, <3>1 DEF Passed
  <2> QED
    BY <2>1 DEF NothingSkipped
<1>9. ListenersRemember
  BY <1>1, <1>2, <1>4 DEF ListenersRemember
<1> QED
  BY <1>6, <1>7, <1>8, <1>9 DEF ListenInv, DeliveredInOrder

(* For any log, page limit, starting ledger and number of failures and       *)
(* throws: a listener hands its callback the events of the chain in order    *)
(* and none twice, and goes past an event it should have handed over only    *)
(* for the reasons Excused names (subscribeEvents, onMint, onTransfer,       *)
(* onVaultDeposit, pollEvents).                                              *)
THEOREM EventsArriveInOrder == Spec => []DeliveredInOrder
<1>1. Init => ListenInv
  BY InitListens DEF Init
<1>2. ListenInv /\ [Next]_vars => ListenInv'
  <2> SUFFICES ASSUME ListenInv, [Next]_vars PROVE ListenInv'
    OBVIOUS
  <2>1. CASE UNCHANGED listenVars
    <3>1. /\ head \in 1 .. LastClosed /\ failures \in 0 .. MaxFailures
          /\ phase \in {"starting", "idle", "asking", "over", "failed"}
      BY DEF ListenInv, DeliveredInOrder, ListenTypeOK
    <3> QED
      BY <2>1, <3>1, QuietKeeps DEF listenVars
  <2>2. CASE ListenNext
    BY <2>2, ListenKeeps
  <2> QED
    BY <2>1, <2>2 DEF Next, vars
<1> QED
  BY <1>1, <1>2, PTL DEF Spec, ListenInv
=============================================================================
