------------------------------ MODULE MCSplit ------------------------------
(* Small instances of Split for TLC.                                       *)
EXTENDS Split

CONSTANTS alice, bob

To(p, n) == [to |-> p, amount |-> n]

MCLists == { <<To(alice, 1), To(bob, 2)>>, <<To(bob, 2), To(alice, 1)>>,
             <<To(alice, 1), To(alice, 2)>>, <<To(alice, 0)>> }
=============================================================================
