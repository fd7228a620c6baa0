------------------------------- MODULE MCSdk -------------------------------
(* Small instances of Sdk for TLC.                                           *)
EXTENDS Sdk

(* Either the account is shared and fees rise, or two reads go on beside the *)
(* call, or one for which the ledger is pinned, or nothing happens but the   *)
(* events a listener waits for.                                              *)
MCBudgets ==
    {[others |-> 1, fees |-> 1, throws |-> 2, reads |-> 0, pins |-> 0],
     [others |-> 0, fees |-> 0, throws |-> 0, reads |-> 2, pins |-> 0],
     [others |-> 0, fees |-> 0, throws |-> 0, reads |-> 1, pins |-> 1],
     [others |-> 0, fees |-> 0, throws |-> 0, reads |-> 0, pins |-> 0]}

MCStartLedgers == {-1, 0, 1}

Emitted(n, tx, topic, len) == [ledger |-> n, tx |-> tx, topic |-> topic, len |-> len]

(* A mint, a batch of two mints with a transfer and a burn in one ledger, a  *)
(* deposit with the vault's transfer, and an event the SDK does not know.    *)
MCEventLog ==
    <<Emitted(1, 1, "mint", 6),
      Emitted(2, 2, "mint", 6), Emitted(2, 2, "mint", 6), Emitted(2, 3, "xfer", 4), Emitted(2, 4, "burn", 5),
      Emitted(3, 5, "xfer_frm", 6), Emitted(3, 5, "deposit", 4), Emitted(3, 6, "locked", 4)>>
=============================================================================
