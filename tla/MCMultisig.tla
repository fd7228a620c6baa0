----------------------------- MODULE MCMultisig -----------------------------
(* Small instances of Multisig for TLC.                                    *)
EXTENDS Multisig

CONSTANTS alice, bob, carol

\* One or two signers of two, and a rotation that keeps one member.
MCPools == { << <<alice, bob>>, 1 >>, << <<alice, bob>>, 2 >>, << <<alice, carol>>, 2 >> }
=============================================================================
