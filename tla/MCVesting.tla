----------------------------- MODULE MCVesting -----------------------------
(* Small instances of Vesting for TLC.                                     *)
EXTENDS Vesting

CONSTANTS alice, bob

MCAmounts == {-1, 3}

MCDelegations == {<<bob, alice>>}

\* No tranches, one that unlocks before any cliff, and two in order.
MCMilestones ==
    { <<>>,
      << [unlock |-> 1, amount |-> 2] >>,
      << [unlock |-> 2, amount |-> 1], [unlock |-> 3, amount |-> 1] >> }
=============================================================================
