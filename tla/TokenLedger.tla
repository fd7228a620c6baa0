---------------------------- MODULE TokenLedger ----------------------------
(***************************************************************************)
(* What the token contract promises an observer who looks between calls:   *)
(* a ledger whose every step is an issue of new tokens under the cap, a    *)
(* payment that debits one account, a redemption by one account, a change  *)
(* of one account's lock, or a change of the settings.  Nobody's locked    *)
(* tokens are spent, and nothing moves while the ledger is frozen.         *)
(*                                                                         *)
(* How the contract computes these steps - one transfer, a list of them,   *)
(* an allowance - is the business of module Token, which implements this.  *)
(***************************************************************************)
EXTENDS Integers

CONSTANT Addr

VARIABLES
    bal,     \* the balance of every account
    total,   \* the reported total supply
    cap,     \* the most that may be issued
    locked,  \* the part of each balance that is locked
    frozen   \* nothing moves while TRUE

ledger == <<bal, total, cap, locked, frozen>>

Init ==
    /\ bal = [a \in Addr |-> 0]
    /\ total = 0
    /\ cap \in Nat
    /\ locked = [a \in Addr |-> 0]
    /\ frozen = FALSE

NotDebited(S) == \A a \in S : bal'[a] >= bal[a]

Issue ==
    /\ ~frozen
    /\ total < total' /\ total' <= cap
    /\ NotDebited(Addr)
    /\ UNCHANGED <<cap, locked, frozen>>

\* One account pays any number of others, out of what it has not locked.
Pay(f) ==
    /\ ~frozen
    /\ NotDebited(Addr \ {f})
    /\ bal'[f] >= locked[f]
    /\ UNCHANGED <<total, cap, locked, frozen>>

Redeem(f) ==
    /\ ~frozen
    /\ \E n \in 1..(bal[f] - locked[f]) :
          /\ bal' = [bal EXCEPT ![f] = @ - n]
          /\ total' = total - n
    /\ UNCHANGED <<cap, locked, frozen>>

\* A lock is raised within the balance, or released whole.
Reserve(f) ==
    /\ \E n \in {0} \cup ((locked[f] + 1)..bal[f]) :
          locked' = [locked EXCEPT ![f] = n]
    /\ UNCHANGED <<bal, total, cap, frozen>>

Configure ==
    /\ cap' \in Nat
    /\ frozen' \in BOOLEAN
    /\ UNCHANGED <<bal, total, locked>>

Next ==
    \/ Issue
    \/ \E f \in Addr : Pay(f) \/ Redeem(f) \/ Reserve(f)
    \/ Configure

Spec == Init /\ [][Next]_ledger
=============================================================================
