-------------------------------- MODULE MCApp --------------------------------
EXTENDS App
CONSTANTS testnet, mainnet

Page(restore, storage, probes, outside, n) ==
    [restore |-> restore, storage |-> storage, probes |-> probes, outside |-> outside,
     events |-> n]

Busy == Page(TRUE, "works", TRUE, FALSE, 3)
Tabs == Page(TRUE, "works", TRUE, TRUE, 2)
Full == Page(TRUE, "full", FALSE, TRUE, 2)
Bare == Page(FALSE, "blocked", FALSE, TRUE, 3)
Plain == Page(TRUE, "works", FALSE, TRUE, 0)

MCPages == {Busy, Tabs, Full, Bare, Plain}
MCRemembered == {[wallet |-> "freighter", net |-> testnet],
                 [wallet |-> "albedo", net |-> mainnet]}
MCScenarios == {[page |-> p, calls |-> 0] : p \in {Busy, Tabs, Full, Bare}}
                 \union {[page |-> Plain, calls |-> MaxCalls]}
=============================================================================
