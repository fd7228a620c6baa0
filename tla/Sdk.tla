--------------------------------- MODULE Sdk ---------------------------------
(* An application of the SDK: a call of one of its clients, and an event     *)
(* listener beside it.                                                       *)
EXTENDS SdkTx, SdkEvents

vars == <<txVars, listenVars>>

(* The two share no state.  A listener runs beside a plain query, begun      *)
(* first, on a network that is otherwise quiet.                              *)
Init ==
    /\ TxInit /\ ListenInit
    /\ IF kind = "none"
       THEN \E b \in DOMAIN budget : budget[b] > 0
       ELSE call = Shape(isPaused, "token") /\ client = "token" /\ \A b \in DOMAIN budget : budget[b] = 0

Next ==
    \/ TxNext /\ UNCHANGED listenVars
    \/ pc # "start" /\ ListenNext /\ UNCHANGED txVars

(* Every await of the call ends: requests time out, polls are counted.  The  *)
(* listener's timers fire and its requests are answered.                     *)
Spec ==
    /\ Init /\ [][Next]_vars
    /\ WF_vars(ClientStep /\ UNCHANGED listenVars)
    /\ WF_vars(pc # "start" /\ ListenerStep /\ UNCHANGED txVars)

(* Every transaction that is sent has its reason, and offers a bounded fee,  *)
(* through resends, rebuilds and both layers of retries.                     *)
SendsAreJustified == TxTypeOK /\ RepeatsOnlyAfterSilence /\ OneIsOpen /\ FeeIsBounded

(* The calls, error names and event decoders written by hand in the SDK are  *)
(* those of the contracts, but for the exceptions named in the three parts.  *)
InterfaceMatchesContracts ==
    CallsMatchContract /\ ErrorsKeepTheirNames /\ DecodersMatchContracts

(* A listener hands over every event once and in the order of the chain,     *)
(* through failed requests, callbacks that throw and pages of any length.    *)
DeliveredInOrder == ListenTypeOK /\ InOrderOnce /\ NothingSkipped /\ ListenersRemember

(* Calls settle and listeners get to the end of the chain.                   *)
AppProgresses == CallSettles /\ EverythingArrives
=============================================================================
