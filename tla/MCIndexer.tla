------------------------------ MODULE MCIndexer ------------------------------
(* Small instances of IndexerApi for TLC.                                    *)
EXTENDS IndexerApi, TLC

CONSTANTS alice, bob, t1, t2, w1, m1, m2, m3

Event(topic, from, to, amount) == [topic |-> topic, from |-> from, to |-> to, amount |-> amount]

(* t1 mints, and emits an event no case of the switch handles; t2 pays twice *)
(* in one transaction, burns, and makes a vault deposit; w1 burns what it     *)
(* mints; the others mint.                                                   *)
MCEventsOf ==
    (t1 :> <<Event("mint", alice, alice, 3), Event("other", alice, alice, 0)>>)
    @@ (t2 :> <<Event("xfer", alice, bob, 1), Event("xfer_frm", alice, bob, 1),
                Event("burn", bob, bob, 1), Event("deposit", bob, bob, 1)>>)
    @@ (w1 :> <<Event("mint", alice, alice, 1), Event("burn", alice, alice, 1)>>)
    @@ (m1 :> <<Event("mint", alice, alice, 1)>>)
    @@ (m2 :> <<Event("mint", alice, bob, 1)>>)
    @@ (m3 :> <<Event("mint", alice, alice, 1)>>)

Bounds(old, txs, n, reorgs, faults_, restarts_, resets, calls_, walks_) ==
    [old |-> old, txs |-> txs, ledgers |-> n, reorgs |-> reorgs, faults |-> faults_,
     restarts |-> restarts_, resets |-> resets, calls |-> calls_, walks |-> walks_]

(* The loop by itself: a reorganisation, a restart and a cursor reset; the   *)
(* same with faults; faults with full pages; the database of an older        *)
(* version; and a transaction that moves between ledgers twice.  Then the    *)
(* service with its webhooks, and with a client that pages while rows come   *)
(* and go.                                                                   *)
Loops == {Bounds(0, {t1, t2}, 3, 1, 0, 1, 1, 0, 0), Bounds(0, {t2}, 3, 1, 1, 1, 1, 0, 0),
          Bounds(0, {t1, t2}, 3, 0, 1, 1, 1, 0, 0), Bounds(3, {m1}, 4, 1, 1, 1, 1, 0, 0),
          Bounds(0, {m1}, 3, 2, 0, 2, 0, 0, 0)}
Hooks == {Bounds(0, {m1}, 2, 0, 0, 1, 0, 3, 0), Bounds(1, {w1}, 2, 0, 0, 0, 0, 2, 0)}
Pages == {Bounds(0, {m1, m2}, 3, 1, 0, 1, 0, 0, 1), Bounds(1, {m1, m2, m3}, 4, 0, 0, 0, 0, 0, 1)}
MCScenarios == Loops \cup Hooks \cup Pages

Ask(limit, address, from) == [limit |-> limit, where |-> [address |-> address, fromLedger |-> from]]
MCAsked == {Ask(1, "any", 0), Ask(2, alice, 2)}
=============================================================================
