------------------------------ MODULE MCToken ------------------------------
(* A small instance of Token for TLC.                                      *)
EXTENDS Token

CONSTANTS alice, bob

(* Where TLC goes on: lists of two, locks, the pause and caps while nobody *)
(* has been given an allowance or a role; and beyond that either           *)
(* allowances that expire or roles that come and go, over single           *)
(* operations, two tokens and two ledgers, where a spender makes no        *)
(* execute_from_contract.                                                  *)
NoAllowance == \A p \in Pairs : allowance[p] = EmptySnapshot.allowance[p]
NoRole == \A a \in Addr : roles[a] \cap RolesInPlay = {}
Narrow ==
    /\ supply <= 2 /\ seq <= 2 /\ maxSupply = MaxInt
    /\ Len(call.rest) <= 1 /\ \A a \in Spenders : nonce[a] = 0
Explored ==
    \/ NoAllowance /\ NoRole
    \/ (NoAllowance \/ NoRole) /\ Narrow
=============================================================================
