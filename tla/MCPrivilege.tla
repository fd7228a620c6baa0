---------------------------- MODULE MCPrivilege ----------------------------
(* Small instances of Privilege for TLC.                                   *)
EXTENDS Privilege

CONSTANTS alice, bob

MCFees == {-1, 1}

MCPools == {<<alice, bob>>}
=============================================================================
