--------------------------------- MODULE App ---------------------------------
(***************************************************************************)
(* A page that uses both: the submission hook reads the wallet's state as  *)
(* useWallet shows it when a call is made, and everything else of the two  *)
(* interleaves freely.                                                     *)
(***************************************************************************)
EXTENDS Wallet, Submission

CONSTANT Scenarios   \* pairs of a page and a number of calls on the hook

ASSUME ScenariosAssumption ==
    \A s \in Scenarios : s.page \in Pages /\ s.calls \in 0..MaxCalls

vars == <<walletVars, submitVars>>

Init ==
    /\ WalletInit /\ SubmitInit
    /\ [page |-> env, calls |-> calls] \in Scenarios
    /\ calls = 0 => ~ledgerPoll

Answers ==
    \/ WalletAnswers /\ UNCHANGED submitVars
    \/ SubmitAnswers /\ UNCHANGED walletVars

Events ==
    \/ WalletEvents /\ UNCHANGED submitVars
    \/ SubmitCalls(useWallet) /\ UNCHANGED walletVars
    \/ (\E h \in DOMAIN sent : LedgerCloses(h)) /\ UNCHANGED walletVars

Next == Answers \/ Events

(* The wallets answer, the stages of a submission return, timers fire.      *)
Fairness ==
    /\ WF_vars(WalletAnswers /\ UNCHANGED submitVars)
    /\ WF_vars(SubmitAnswers /\ UNCHANGED walletVars)

Spec == Init /\ [][Next]_vars /\ Fairness

TypeOK == WalletTypeOK /\ SubmitTypeOK

(* What can sign is on the network the page shows, and a wallet shown as     *)
(* connected is one the page lists, whatever connects, network switches,     *)
(* probes and restores overlap; what can sign is what the page shows until   *)
(* a superseded probe or a call of a replaced client goes on out of turn     *)
(* (NoHiddenSigner).  With what the calls know of their client this is       *)
(* inductive.                                                                *)
SignerIsShown ==
    /\ TypeOK /\ CallsKnowTheirClient
    /\ SignersOnTheirNetwork /\ NoHiddenSigner /\ ConnectedIsListed

(* A submission is confirmed only if the ledger applied it or nobody was     *)
(* asked (the two exceptions of ConfirmedIsApplied), and lands once unless   *)
(* it lost sight of a transaction; with what the runs know of what they      *)
(* sent, and the types, this is inductive.                                   *)
SubmissionsLandOnce == ConfirmedIsApplied /\ LandsOnceUnlessBlind /\ RunsKnowWhatTheySent

(* Connecting, restoring and submitting come to an end.                      *)
PageSettles == ConnectingEnds /\ RestoringEnds /\ SubmissionSettles
=============================================================================
