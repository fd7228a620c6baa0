----------------------------- MODULE Submission -----------------------------
(***************************************************************************)
(* useTransactionSubmission: the hook that takes a write through simulate, *)
(* sign, send and confirm, with retries, a manual refetch, reset and        *)
(* unmount.  Every call takes a new run number, the older runs go on in     *)
(* the background until their next await returns, and the transactions they *)
(* sent stay on the ledger.  A transaction's hash is its place in `sent`.   *)
(* A staged action is taken through its stages, a polled one is a staged    *)
(* action with a pollStatus of its own, and a whole one is a callback that  *)
(* wraps an SDK call and settles with its result.                           *)
(***************************************************************************)
EXTENDS Naturals, Sequences, FiniteSets

CONSTANTS
    MaxCalls,   \* bound on the calls made on the hook
    Retries,    \* maxRetries
    MaxPolls    \* maxPollAttempts

ASSUME BoundsAssumption == MaxCalls \in Nat /\ Retries \in Nat /\ MaxPolls \in Nat \ {0}

VARIABLES
    ledgerPoll, \* the client exposes getTransaction
    ui,         \* status, txHash, data, error and retryCount; ghost: whose word
                \* the result is (by)
    mounted,    \* mountedRef
    runId,      \* activeRunIdRef
    last,       \* lastActionRef
    run,        \* run[r]: where the call with run number r stands
    sent,       \* the transactions that reached the network
    blind,      \* ghost: runs that lost sight of a transaction they sent
    calls       \* calls that may still be made

submitVars == <<ledgerPoll, ui, mounted, runId, last, run, sent, blind, calls>>

NoHash == 0
Idle == [status |-> "idle", hash |-> NoHash, data |-> NoHash, error |-> FALSE, retries |-> 0,
         by |-> "none"]
NoRun == [at |-> "none", kind |-> "none", attempt |-> 0, hash |-> NoHash, polls |-> 0]
Over == [NoRun EXCEPT !.at = "over"]

TotalAllowedAttempts == 1 + Retries

SubmitInit ==
    /\ ledgerPoll \in BOOLEAN
    /\ ui = Idle /\ mounted = TRUE /\ runId = 0 /\ last = "none"
    /\ run = [r \in 1..MaxCalls |-> NoRun]
    /\ sent = <<>> /\ blind = {}
    /\ calls \in 0..MaxCalls

-----------------------------------------------------------------------------
isLoading == ui.status \in {"simulating", "signing", "submitting"}

Current(r) == mounted /\ r = runId

(* clearAllTimers: a run that slept on a timer never wakes up.              *)
clearAllTimers(rs) ==
    [r \in DOMAIN rs |-> IF rs[r].at \in {"wait", "pollwait"} THEN Over ELSE rs[r]]

(* What a run writes when one of its awaits returns; nothing if it is no    *)
(* longer the current one, and then it also ends.                           *)
Step(r, next, shown) ==
    /\ run' = [run EXCEPT ![r] = IF Current(r) THEN next ELSE Over]
    /\ ui' = IF Current(r) THEN shown ELSE ui

(* Mutant: the error handler does not ask whether the run is current.       *)
CaughtMutant(r, terminal) ==
    IF run[r].attempt < TotalAllowedAttempts /\ ~terminal
    THEN Step(r, [run[r] EXCEPT !.at = "wait"], ui)
    ELSE /\ run' = [run EXCEPT ![r] = Over]
         /\ ui' = [ui EXCEPT !.status = "failed", !.error = TRUE]

(* The two answers isTerminalTransactionError has for an error, by its      *)
(* message, which the model leaves out.                                     *)
isTerminalTransactionError == BOOLEAN

(* The catch block: retry what is not terminal, else fail.                  *)
Caught(r, terminal) ==
    IF run[r].attempt < TotalAllowedAttempts /\ ~terminal
    THEN Step(r, [run[r] EXCEPT !.at = "wait"], ui)
    ELSE Step(r, Over, [ui EXCEPT !.status = "failed", !.error = TRUE])

NextAttempt(r) ==
    [run[r] EXCEPT !.at = "simulate", !.attempt = @ + 1, !.hash = NoHash, !.polls = 0]

(* A result is shown: known by an answer of the ledger or of the action,    *)
(* or taken for a success without one (by "noPoller", by "object").         *)
Confirmed(r, h, by) ==
    Step(r, Over, [ui EXCEPT !.status = "confirmed", !.hash = h, !.data = h,
                             !.error = FALSE, !.by = by])

(* waitDelay fires and the action starts again from its first stage.        *)
RetryTimer(r) ==
    /\ run[r].at = "wait"
    /\ Step(r, NextAttempt(r),
            [ui EXCEPT !.status = "simulating", !.retries = run[r].attempt])
    /\ UNCHANGED <<ledgerPoll, mounted, runId, last, sent, blind, calls>>

-----------------------------------------------------------------------------
(* The stages of a staged action.                                           *)
Simulated(r) ==
    /\ run[r].at = "simulate" /\ run[r].kind \in {"staged", "polled"}
    /\ \/ Step(r, [run[r] EXCEPT !.at = "sign"], [ui EXCEPT !.status = "signing"])
       \/ \E terminal \in isTerminalTransactionError : Caught(r, terminal)
    /\ UNCHANGED <<ledgerPoll, mounted, runId, last, sent, blind, calls>>

(* The wallet signs, the user declines, or signWithTimeout runs out, which  *)
(* is not a terminal error.                                                 *)
Signed(r) ==
    /\ run[r].at = "sign"
    /\ \/ Step(r, [run[r] EXCEPT !.at = "send"], [ui EXCEPT !.status = "submitting"])
       \/ \E terminal \in isTerminalTransactionError : Caught(r, terminal)
    /\ UNCHANGED <<ledgerPoll, mounted, runId, last, sent, blind, calls>>

Reached(r) == sent' = Append(sent, [run |-> r, state |-> "pending"])

(* The run will never know what became of the transaction it just sent.     *)
LosesSight(r) == blind' = blind \union {r}

(* pollStatus of the current run's action: the last one submitted, for any  *)
(* later submit takes the next number.                                      *)
hasPollStatus == last = "polled"

(* The action returns a result with its own word on the success.            *)
Returns(r) ==
    \/ /\ sent' = Append(sent, [run |-> r, state |-> "success"])
       /\ Confirmed(r, Len(sent'), "answer")
    \/ /\ sent' = Append(sent, [run |-> r, state |-> "failed"])
       /\ IF run[r].attempt < TotalAllowedAttempts
          THEN Step(r, [run[r] EXCEPT !.at = "wait"], [ui EXCEPT !.hash = Len(sent')])
          ELSE Step(r, Over, [ui EXCEPT !.status = "failed", !.error = TRUE,
                                        !.hash = Len(sent')])

(* send returns a hash, or an object: one that says whether it succeeded is *)
(* the result, one that does not is polled for with the action's pollStatus *)
(* and is otherwise taken for a success, the client's getTransaction unasked.*)
Sent(r) ==
    /\ run[r].at = "send"
    /\ \/ /\ Reached(r)
          /\ Step(r, [run[r] EXCEPT !.at = "poll", !.hash = Len(sent')],
                  [ui EXCEPT !.hash = Len(sent')])
          /\ UNCHANGED blind
       \/ Returns(r) /\ UNCHANGED blind
       \/ ~hasPollStatus /\ Reached(r) /\ Confirmed(r, Len(sent'), "object") /\ UNCHANGED blind
       \/ Reached(r) /\ LosesSight(r) /\ Caught(r, FALSE)
       \/ \E terminal \in isTerminalTransactionError : Caught(r, terminal) /\ UNCHANGED <<sent, blind>>
    /\ UNCHANGED <<ledgerPoll, mounted, runId, last, calls>>

(* Mutant: a status the code does not know counts as failed.                *)
pollAnswerLateMutant(r) ==
    IF sent[run[r].hash].state = "pending" THEN "pending" ELSE "failed"

pollAnswer(r) == sent[run[r].hash].state

(* Polls exhausted: refetch fails, a submit treats it as any other error.   *)
GiveUp(r) == Caught(r, run[r].kind = "refetch") /\ LosesSight(r)

(* The poller of the current run: its pollStatus, else the client's.        *)
canPoll == hasPollStatus \/ ledgerPoll

(* pollLedgerStatus: one request.  Without a poller the hash is taken for   *)
(* a success; a failed transaction is not a terminal error by its message;  *)
(* a request that fails ends the polling.                                   *)
Polled(r) ==
    /\ run[r].at = "poll"
    /\ \/ /\ ~Current(r)
          /\ Step(r, Over, ui) /\ UNCHANGED blind
       \/ /\ Current(r) /\ ~canPoll
          /\ Confirmed(r, run[r].hash, "noPoller") /\ UNCHANGED blind
       \/ /\ Current(r) /\ canPoll /\ pollAnswer(r) = "success"
          /\ Confirmed(r, run[r].hash, "answer") /\ UNCHANGED blind
       \/ /\ Current(r) /\ canPoll /\ pollAnswer(r) = "failed"
          /\ Caught(r, run[r].kind = "refetch") /\ UNCHANGED blind
       \/ /\ Current(r) /\ canPoll /\ pollAnswer(r) = "pending"
          /\ IF run[r].polls + 1 = MaxPolls THEN GiveUp(r)
             ELSE Step(r, [run[r] EXCEPT !.at = "pollwait", !.polls = @ + 1], ui)
                  /\ UNCHANGED blind
       \/ Current(r) /\ canPoll /\ GiveUp(r)
    /\ UNCHANGED <<ledgerPoll, mounted, runId, last, sent, calls>>

PollTimer(r) ==
    /\ run[r].at = "pollwait"
    /\ Step(r, [run[r] EXCEPT !.at = "poll"], ui)
    /\ UNCHANGED <<ledgerPoll, mounted, runId, last, sent, blind, calls>>

(* A whole action settles: with a result, whose success may be false, or    *)
(* with an error, after which the transaction may or may not be out.        *)
Settled(r) ==
    /\ run[r].at = "simulate" /\ run[r].kind = "whole"
    /\ \/ Returns(r) /\ UNCHANGED blind
       \/ Reached(r) /\ LosesSight(r) /\ Caught(r, FALSE)
       \/ \E terminal \in isTerminalTransactionError : Caught(r, terminal) /\ UNCHANGED <<sent, blind>>
    /\ UNCHANGED <<ledgerPoll, mounted, runId, last, calls>>

(* The network decides a transaction.                                       *)
LedgerCloses(h) ==
    /\ sent[h].state = "pending"
    /\ \E s \in {"success", "failed"} : sent' = [sent EXCEPT ![h].state = s]
    /\ UNCHANGED <<ledgerPoll, ui, mounted, runId, last, run, blind, calls>>

-----------------------------------------------------------------------------
(* The calls.                                                               *)
Call == calls > 0 /\ calls' = calls - 1 /\ mounted

(* submit, with the wallet status of the last render.                       *)
submit(kind, walletStatus) ==
    /\ Call
    /\ runId' = runId + 1
    /\ last' = kind
    /\ IF walletStatus = "connected"
       THEN /\ run' = [clearAllTimers(run) EXCEPT ![runId + 1] =
                          [NoRun EXCEPT !.at = "simulate", !.kind = kind, !.attempt = 1]]
            /\ ui' = [Idle EXCEPT !.status = "simulating"]
       ELSE /\ run' = clearAllTimers(run)
            /\ ui' = [Idle EXCEPT !.status = "failed", !.error = TRUE]
    /\ UNCHANGED <<ledgerPoll, mounted, sent, blind>>

retry(walletStatus) ==
    IF last = "none"
    THEN /\ Call
         /\ ui' = [ui EXCEPT !.status = "failed", !.error = TRUE]
         /\ UNCHANGED <<ledgerPoll, mounted, runId, last, run, sent, blind>>
    ELSE submit(last, walletStatus)

(* refetch polls for the shown hash under a run number of its own; it       *)
(* leaves the older runs' timers alone.                                     *)
refetch ==
    /\ Call
    /\ ui.hash # NoHash
    /\ runId' = runId + 1
    /\ run' = [run EXCEPT ![runId + 1] =
                  [at |-> "poll", kind |-> "refetch", attempt |-> 1,
                   hash |-> ui.hash, polls |-> 0]]
    /\ ui' = [ui EXCEPT !.status = "submitting"]
    /\ UNCHANGED <<ledgerPoll, mounted, last, sent, blind>>

reset ==
    /\ Call
    /\ runId' = runId + 1
    /\ run' = clearAllTimers(run)
    /\ ui' = Idle
    /\ UNCHANGED <<ledgerPoll, mounted, last, sent, blind>>

unmount ==
    /\ Call
    /\ mounted' = FALSE
    /\ runId' = runId + 1
    /\ run' = clearAllTimers(run)
    /\ UNCHANGED <<ledgerPoll, ui, last, sent, blind>>

SubmitAnswers ==
    \E r \in 1..MaxCalls :
        \/ Simulated(r) \/ Signed(r) \/ Sent(r) \/ Polled(r) \/ PollTimer(r)
        \/ RetryTimer(r) \/ Settled(r)

SubmitCalls(walletStatus) ==
    \/ \E kind \in {"staged", "polled", "whole"} : submit(kind, walletStatus)
    \/ retry(walletStatus) \/ refetch \/ reset \/ unmount

-----------------------------------------------------------------------------
Shown == [status : {"idle", "simulating", "signing", "submitting", "confirmed", "failed"},
          hash : Nat, data : Nat, error : BOOLEAN, retries : 0..Retries,
          by : {"none", "answer", "noPoller", "object"}]

Run == [at : {"none", "simulate", "sign", "send", "poll", "pollwait", "wait", "over"},
        kind : {"none", "staged", "polled", "whole", "refetch"},
        attempt : 0..TotalAllowedAttempts, hash : Nat, polls : 0..(MaxPolls - 1)]

SubmitTypeOK ==
    /\ ledgerPoll \in BOOLEAN /\ mounted \in BOOLEAN
    /\ ui \in Shown /\ {ui.hash, ui.data} \subseteq 0..Len(sent)
    /\ last \in {"none", "staged", "polled", "whole"}
    /\ runId \in Nat /\ calls \in Nat /\ runId + calls <= MaxCalls
    /\ run \in [1..MaxCalls -> Run]
    /\ sent \in Seq([run : 1..MaxCalls, state : {"pending", "success", "failed"}])
    /\ blind \subseteq 1..MaxCalls
    /\ \A r \in 1..MaxCalls : r > runId => run[r] = NoRun

(* "confirmed" is only shown for a transaction the ledger applied, and the  *)
(* hash and the result shown are that one's, with two exceptions, in which  *)
(* nobody was asked: a hash is confirmed when neither the action nor the    *)
(* client can poll (hooks.ts 3082-3088), and an object without `success` is *)
(* confirmed when the action has no pollStatus, even if the client could    *)
(* poll (hooks.ts 3269-3291).                                               *)
ConfirmedIsApplied ==
    ui.status = "confirmed" =>
        /\ ui.data # NoHash /\ ui.hash = ui.data /\ ~ui.error
        /\ \/ sent[ui.data].state = "success"
           \/ ui.by = "noPoller" /\ ~canPoll
           \/ ui.by = "object" /\ ~hasPollStatus

(* The transactions of run r that landed or may still land.                 *)
Live(r) == {i \in DOMAIN sent : sent[i].run = r /\ sent[i].state # "failed"}

(* One submission lands more than once only if it lost sight of a           *)
(* transaction, by a poll that timed out or an answer that was lost: no     *)
(* retry follows a transaction that is known to be applied.                 *)
LandsOnceUnlessBlind ==
    \A r \in 1..MaxCalls \ blind :
        Cardinality(Live(r)) <= 1

(* What a run knows: a run that polls has the hash of a transaction, its    *)
(* own unless it is a refetch; a run about to start, sign, send or try again *)
(* has nothing out that could land; one that waits has an attempt left; and  *)
(* what is shown as confirmed ends the run.                                  *)
RunsKnowWhatTheySent ==
    /\ \A r \in 1..MaxCalls :
        /\ run[r].at \in {"poll", "pollwait"} => run[r].hash \in DOMAIN sent
        /\ run[r].at = "wait" => run[r].attempt < TotalAllowedAttempts
        /\ run[r].kind = "refetch" => run[r].at \in {"poll", "pollwait"}
        /\ r \notin blind =>
            /\ (run[r].at \in {"none", "simulate", "sign", "send", "wait"}
                    \/ run[r].kind = "refetch") => Live(r) = {}
            /\ run[r].at \in {"poll", "pollwait"} => Live(r) \subseteq {run[r].hash}
            /\ \A i, j \in Live(r) : i = j
    /\ (ui.status = "confirmed" /\ mounted) => runId # 0 /\ run[runId].at = "over"

(* What is shown changes only by a call or by a step of the run that holds  *)
(* the current number: the answers of superseded runs are never shown.      *)
OnlyTheCurrentRunShows ==
    [][(ui' # ui /\ calls' = calls) =>
          mounted /\ runId' = runId /\ runId # 0 /\ run'[runId] # run[runId]]_submitVars

(* A mounted hook that shows progress settles, once the stages answer and   *)
(* the timers fire.                                                         *)
SubmissionSettles == (mounted /\ isLoading) ~> (~mounted \/ ~isLoading)
=============================================================================
