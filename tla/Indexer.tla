------------------------------ MODULE Indexer ------------------------------
(* The indexer process: a loop that polls the RPC for ledgers, checks that   *)
(* they continue the chain it has, stores the contract's events with the     *)
(* balances derived from them, and moves a persisted cursor.  The chain may  *)
(* be reorganised, the process may be restarted between any two steps, RPC   *)
(* calls may fail or answer with fewer ledgers than there are, events come   *)
(* in one page, and a database write may fail.  A ledger's hash is <<its     *)
(* number, the fork it was closed on>>.                                      *)
EXTENDS Integers, Sequences, FiniteSets, Functions

CONSTANTS
    Accounts,       \* holders
    Txs,            \* transactions that touch the contract
    EventsOf,       \* [Txs -> Seq(event)]: what each transaction emits, in order
    NoTx,           \* a ledger without such a transaction
    NoHash,         \* SQL NULL in the hash columns
    Batch,          \* how far a range reaches beyond its first ledger (1000 in the code)
    Lookback,       \* REORG_LOOKBACK_LEDGERS
    PageLimit,      \* events the RPC puts into an answer when no limit is asked for
    Scenarios       \* the ledger an older version of the indexer had reached (0: there
                    \* was none), and bounds: the transactions, and how many ledgers,
                    \* reorganisations, failed or partial RPC answers and failed writes
                    \* (faults), restarts, cursor resets by hand, webhook calls and walks
                    \* through the tables

(* What a transaction's event carries.                                       *)
Emitted == [topic : STRING, from : Accounts, to : Accounts, amount : Int]

ASSUME ChainAssumption ==
    /\ IsFiniteSet(Accounts)
    /\ EventsOf \in [Txs -> Seq(Emitted)]
    /\ NoTx \notin Txs /\ NoHash \notin Nat \X Nat

ASSUME BoundsAssumption ==
    /\ {Batch, Lookback, PageLimit} \subseteq Nat /\ Lookback > 0
    /\ \A s \in Scenarios : s.txs \subseteq Txs /\ s.old \in 0 .. s.ledgers
            /\ {s.ledgers, s.reorgs, s.faults, s.restarts, s.resets, s.calls, s.walks} \subseteq Nat
            /\ s.ledgers > 0

VARIABLES
    limits,         \* the scenario
    chain,          \* the network: a sequence of [hash, tx]
    forks,          \* reorganisations so far
    cursor,         \* LastIndexedLedger row; ledger = -1 when there is none
    checkpoints,    \* IndexedLedger rows
    rows,           \* event rows: [family, tx, index, ledger]
    holders,        \* Holder balances (0: no row)
    supply,         \* the latest SupplyPoint
    pc,             \* where the loop stands
    lastLedger,     \* the cursor as read when the process started
    startLedger, endLedger,
    currentLedger,  \* getLatestLedger's answer, exported to /healthz
    coordinates,    \* the ledgers fetched for this range
    events,         \* events of this range still to process
    pending,        \* an event whose row is stored and that is not published yet
    published,      \* events handed to subscribers and webhooks
    lost,           \* history: events the loop went past, or pruned, and left without a row
    rewound,        \* history: rows have been pruned by reconcileLedgerCursor
    reset,          \* history: times the operator has reset the cursor
    faults, restarts

network == <<chain, forks>>
database == <<cursor, checkpoints, rows, holders, supply>>
local == <<lastLedger, startLedger, endLedger, currentLedger, coordinates, events, pending>>
history == <<published, lost, rewound, reset>>
budget == <<limits, faults, restarts>>
indexerVars == <<network, database, pc, local, history, budget>>

-----------------------------------------------------------------------------
(* Ledger arithmetic and the decoding of events.                             *)

SupplyTopics == {"mint", "burn"}
TransferTopics == {"xfer", "xfer_frm"}

(* The table an event is stored in; "none" for a topic no case handles.      *)
Family(topic) ==
    CASE topic \in SupplyTopics -> topic
      [] topic \in TransferTopics -> "transfer"
      [] topic = "deposit" -> "vaultDeposit"
      [] topic \in {"wrap", "unwrap"} -> "wrapperUpdate"
      [] topic = "v_rel" -> "vestingClaim"
      [] topic = "pyo_succ" -> "splitDistribution"
      [] OTHER -> "none"

TokenFamilies == {"mint", "burn", "transfer"}
OtherFamilies == {"vaultDeposit", "wrapperUpdate", "vestingClaim", "splitDistribution"}

(* deltasFor: what an event does to each balance.                            *)
deltasFor(ev) ==
    [a \in Accounts |->
        (IF ev.topic # "burn" /\ Family(ev.topic) \in TokenFamilies /\ ev.to = a THEN ev.amount ELSE 0)
        - (IF ev.topic # "mint" /\ Family(ev.topic) \in TokenFamilies /\ ev.from = a THEN ev.amount ELSE 0)]

supplyDeltaFor(ev) ==
    CASE ev.topic = "mint" -> ev.amount
      [] ev.topic = "burn" -> -ev.amount
      [] OTHER -> 0

(* Mutant: the recipient of a transfer is credited, the sender never debited. *)
applyDeltasMutant(balances, ev) ==
    [a \in Accounts |-> balances[a] + (IF deltasFor(ev)[a] > 0 THEN deltasFor(ev)[a] ELSE 0)]

(* applyLedgerEventAggregates on the holders' table.                         *)
applyDeltas(balances, ev) == [a \in Accounts |-> balances[a] + deltasFor(ev)[a]]

(* The supply to store: the event's own new_supply, which mints and burns    *)
(* carry; an event that leaves the supply alone stores no point.             *)
resolveSupply(ev) == IF ev.topic \in SupplyTopics THEN ev.newSupply ELSE supply

-----------------------------------------------------------------------------
(* The network as the indexer reads it.                                      *)

Head0 == Len(chain)
HashAt(c, n) == IF n = 0 THEN <<0, 0>> ELSE <<n, c[n].hash>>

(* toLedgerCoordinate of ledger n.                                           *)
toLedgerCoordinate(n) ==
    [ledger |-> n, hash |-> HashAt(chain, n), parentHash |-> HashAt(chain, n - 1)]

(* getLedgers over a range, as far as the chain goes.                        *)
getLedgers(first, last) == {toLedgerCoordinate(n) : n \in {k \in first .. last : 1 <= k /\ k <= Head0}}

(* The mints and burns of the chain up to event i of ledger n, and the       *)
(* supply the contract reports after them.                                   *)
SupplyEvents(n, i) ==
    {e \in UNION {{chain[m].tx} \X DOMAIN EventsOf[chain[m].tx] : m \in {k \in 1 .. n : chain[k].tx # NoTx}} :
        /\ EventsOf[e[1]][e[2]].topic \in SupplyTopics
        /\ e[1] = chain[n].tx => e[2] <= i}
SupplyOf(S) == SumFunction([e \in S |-> supplyDeltaFor(EventsOf[e[1]][e[2]])])

(* The events of ledger n as getEvents answers them, each with the supply    *)
(* the contract reported when it was emitted.                                *)
EventsAt(n) ==
    LET tx == chain[n].tx
    IN  IF tx = NoTx THEN <<>>
        ELSE [i \in DOMAIN EventsOf[tx] |->
                [topic |-> EventsOf[tx][i].topic, from |-> EventsOf[tx][i].from,
                 to |-> EventsOf[tx][i].to, amount |-> EventsOf[tx][i].amount,
                 tx |-> tx, index |-> i, ledger |-> n, newSupply |-> SupplyOf(SupplyEvents(n, i))]]

getEvents(first, last) ==
    LET upTo[n \in 0 .. last] == IF n < first THEN <<>> ELSE upTo[n - 1] \o EventsAt(n)
    IN  upTo[last]

(* A ledger is closed, with or without a transaction of the contract.        *)
Close ==
    /\ Head0 < limits.ledgers
    /\ \E tx \in limits.txs \cup {NoTx} :
        /\ tx # NoTx => \A n \in DOMAIN chain : chain[n].tx # tx
        /\ chain' = Append(chain, [hash |-> forks, tx |-> tx])
    /\ UNCHANGED <<forks, database, pc, local, history, budget>>

(* The suffix from some ledger on is replaced; a transaction may be left     *)
(* out, be put into a later or an earlier ledger, or come in anew.           *)
Reorg ==
    /\ forks < limits.reorgs
    /\ \E n \in DOMAIN chain : \E new \in [n .. Head0 -> limits.txs \cup {NoTx}] :
        /\ \A k \in n .. Head0 : new[k] # NoTx =>
            (\A m \in 1 .. n - 1 : chain[m].tx # new[k]) /\ (\A m \in n .. Head0 : new[m] = new[k] => m = k)
        /\ chain' = [k \in DOMAIN chain |->
                        IF k < n THEN chain[k] ELSE [hash |-> forks + 1, tx |-> new[k]]]
    /\ forks' = forks + 1
    /\ UNCHANGED <<database, pc, local, history, budget>>

-----------------------------------------------------------------------------
(* The loop.                                                                 *)

NoCursor == [ledger |-> -1, hash |-> NoHash, parentHash |-> NoHash]
HasCursor(c) == c.ledger >= 0

Idle ==
    /\ startLedger = 0 /\ endLedger = 0 /\ currentLedger = 0
    /\ coordinates = {} /\ events = <<>> /\ pending = <<>>

(* A database that is empty, or that an indexer without checkpoints left     *)
(* behind at some ledger: a cursor whose hash columns are NULL.  It had met  *)
(* no transaction of the contract.                                           *)
IndexerInit ==
    /\ limits \in Scenarios
    /\ chain = [n \in 1 .. IF limits.old = 0 THEN 1 ELSE limits.old |-> [hash |-> 0, tx |-> NoTx]]
    /\ forks = 0
    /\ cursor = IF limits.old = 0 THEN NoCursor ELSE [NoCursor EXCEPT !.ledger = limits.old]
    /\ checkpoints = {} /\ rows = {}
    /\ holders = [a \in Accounts |-> 0] /\ supply = 0
    /\ pc = "boot" /\ lastLedger = NoCursor /\ Idle
    /\ published = {} /\ lost = {} /\ rewound = FALSE /\ reset = 0
    /\ faults = 0 /\ restarts = 0

(* An answer may end early, which is one of the faults.                      *)
Partly(partial) ==
    /\ partial => faults < limits.faults
    /\ faults' = IF partial THEN faults + 1 ELSE faults

(* seedLedgerCheckpoints: a cursor without a hash gets the hashes the RPC    *)
(* reports for it and for the ledgers below it, unless the answer ends       *)
(* before the cursor.                                                        *)
seedLedgerCheckpoints(c, partial) ==
    LET full == getLedgers(c.ledger - Lookback + 1, c.ledger)
        found == {k \in full : partial => k.ledger < c.ledger}
        at == {k \in found : k.ledger = c.ledger}
    IN  IF at = {} THEN UNCHANGED <<cursor, checkpoints>>
        ELSE /\ cursor' = CHOOSE k \in at : TRUE
             /\ checkpoints' = checkpoints \cup
                    {k \in found : \A o \in checkpoints : o.ledger # k.ledger}

(* runIndexer up to its loop.  lastLedger is the row as read, before the     *)
(* hashes are filled in, and is never read again.                            *)
Boot ==
    /\ pc = "boot"
    /\ lastLedger' = cursor
    /\ startLedger' = IF HasCursor(cursor) THEN cursor.ledger + 1 ELSE 1
    /\ IF cursor.ledger > 0 /\ cursor.hash = NoHash
       THEN \E partial \in BOOLEAN : Partly(partial) /\ seedLedgerCheckpoints(cursor, partial)
       ELSE UNCHANGED <<cursor, checkpoints, faults>>
    /\ pc' = "poll"
    /\ UNCHANGED <<network, rows, holders, supply, endLedger, currentLedger, coordinates, events,
                   pending, history, limits, restarts>>

(* getLatestLedger; the loop sleeps while the head has nothing new.          *)
Poll ==
    /\ pc = "poll"
    /\ currentLedger' = Head0
    /\ IF startLedger > Head0
       THEN UNCHANGED <<pc, endLedger>>
       ELSE /\ endLedger' = IF startLedger + Batch < Head0 THEN startLedger + Batch ELSE Head0
            /\ pc' = "ledgers"
    /\ UNCHANGED <<network, database, lastLedger, startLedger, coordinates, events, pending,
                   history, budget>>

(* The ledger before the range: the one read at start if that is where the   *)
(* range begins and its hash is known, otherwise whatever the RPC says now.  *)
PreviousHash ==
    IF lastLedger.ledger = startLedger - 1 /\ lastLedger.hash # NoHash
    THEN lastLedger.hash
    ELSE HashAt(chain, startLedger - 1)

(* hasContinuousParentChain, for the coordinates of one answer: its ledgers  *)
(* are linked to each other, so the first link decides.                      *)
hasContinuousParentChain(previous, ledgers) ==
    \A k \in ledgers : k.ledger = startLedger => k.parentHash = previous

(* getLedgers answers for the range.                                         *)
FetchLedgers ==
    /\ pc = "ledgers"
    /\ \E missing \in BOOLEAN :
        LET full == getLedgers(startLedger, endLedger)
            got == IF missing THEN {k \in full : k.ledger < endLedger} ELSE full
        IN  /\ Partly(missing)
            /\ coordinates' = got
            /\ pc' = IF /\ Cardinality(got) = endLedger - startLedger + 1
                        /\ hasContinuousParentChain(PreviousHash, got)
                     THEN "events"
                     ELSE IF HasCursor(lastLedger) THEN "reconcile" ELSE "poll"
    /\ UNCHANGED <<network, database, lastLedger, startLedger, endLedger, currentLedger, events,
                   pending, history, limits, restarts>>

(* The ledgers reconcileLedgerCursor scans.                                  *)
scanStart(c) == IF c.ledger - Lookback + 1 > 1 THEN c.ledger - Lookback + 1 ELSE 1
Scanned(c) == getLedgers(scanStart(c), scanStart(c) + Lookback - 1)

(* What it finds with the ledgers the RPC answers: whether a mismatch, and   *)
(* the last common checkpoint, NoCursor when there is none.  A ledger that   *)
(* is missing in the answer is a mismatch as much as one with another hash.  *)
Reconciliation(c, remote) ==
    LET persisted == {k \in checkpoints : scanStart(c) <= k.ledger /\ k.ledger <= c.ledger}
        wrong == persisted \ remote
        good == {k \in persisted : \A w \in wrong : k.ledger < w.ledger}
        cursorWrong == /\ c.hash # NoHash
                       /\ \A r \in remote : r.ledger = c.ledger =>
                            r.hash # c.hash \/ (c.parentHash # NoHash /\ r.parentHash # c.parentHash)
        parent == {r \in remote : r.ledger = c.ledger - 1 /\ r.hash = c.parentHash}
        common == IF persisted # {} THEN good ELSE IF cursorWrong THEN parent ELSE {}
    IN  [mismatch |-> \/ wrong # {}
                      \/ /\ \A k \in persisted : k.ledger # c.ledger
                         /\ cursorWrong,
         common |-> IF common = {} THEN NoCursor
                    ELSE CHOOSE k \in common : \A o \in common : o.ledger <= k.ledger]

(* The prune: token rows and checkpoints above the rewind, and the cursor.   *)
(* A row above it whose transaction has moved to a ledger below is lost.     *)
Rewind(common) ==
    LET n == IF HasCursor(common) THEN common.ledger ELSE 0
    IN  /\ rows' = {r \in rows : r.family \notin TokenFamilies \/ r.ledger <= n}
        /\ checkpoints' = {k \in checkpoints : k.ledger <= n}
        /\ cursor' = IF HasCursor(common) THEN common ELSE [NoCursor EXCEPT !.ledger = 0]
        /\ lost' = lost \cup {<<r.tx, r.index>> : r \in
                {q \in rows \ rows' : \E m \in DOMAIN chain : m <= n /\ chain[m].tx = q.tx}}
        /\ rewound' = TRUE

(* reconcileLedgerCursor with the cursor read at start, and then the throw   *)
(* that sends the loop round again; startLedger stays.                       *)
reconcileLedgerCursor ==
    /\ pc = "reconcile"
    /\ \E last \in 0 .. Head0 :
        LET remote == {k \in Scanned(lastLedger) : k.ledger <= last}
            found == Reconciliation(lastLedger, remote)
        IN  IF lastLedger.ledger > 0
            THEN /\ Partly(remote # Scanned(lastLedger))
                 /\ IF found.mismatch THEN Rewind(found.common)
                    ELSE UNCHANGED <<rows, checkpoints, cursor, lost, rewound>>
            ELSE UNCHANGED <<rows, checkpoints, cursor, lost, rewound, faults>>
    /\ pc' = "poll"
    /\ UNCHANGED <<network, holders, supply, local, published, reset, limits, restarts>>

RowOf(ev) == [family |-> Family(ev.topic), tx |-> ev.tx, index |-> ev.index, ledger |-> ev.ledger]
EventOf(r) == EventsOf[r.tx][r.index]

(* The unique index on txHash, one per table.                                *)
Stored(ev) == \E r \in rows : r.family = Family(ev.topic) /\ r.tx = ev.tx
SameEvent(ev) == \E r \in rows : r.family = Family(ev.topic) /\ r.tx = ev.tx /\ r.index = ev.index

(* The first page of an answer, and the events beyond it that have no row:   *)
(* no limit is asked for and the answer's cursor is not followed.            *)
FirstPage(all) == [i \in 1 .. IF Len(all) < PageLimit THEN Len(all) ELSE PageLimit |-> all[i]]
BeyondPage(all) ==
    {<<all[i].tx, all[i].index>> : i \in
        {j \in DOMAIN all : j > PageLimit /\ Family(all[j].topic) # "none" /\ ~SameEvent(all[j])}}

(* Mutant: the cursor moves before the range's events are processed. *)
FetchEventsMutant ==
    /\ pc = "events"
    /\ events' = FirstPage(getEvents(startLedger, endLedger))
    /\ lost' = lost \cup BeyondPage(getEvents(startLedger, endLedger))
    /\ cursor' = CHOOSE k \in coordinates : k.ledger = endLedger
    /\ pc' = "process"
    /\ UNCHANGED <<network, checkpoints, rows, holders, supply, lastLedger, startLedger, endLedger,
                   currentLedger, coordinates, pending, published, rewound, reset, budget>>

(* getEvents for the range: what does not fit into the answer is never asked *)
(* for again once the cursor has moved.                                      *)
FetchEvents ==
    /\ pc = "events"
    /\ events' = FirstPage(getEvents(startLedger, endLedger))
    /\ lost' = lost \cup BeyondPage(getEvents(startLedger, endLedger))
    /\ pc' = "process"
    /\ UNCHANGED <<network, database, lastLedger, startLedger, endLedger, currentLedger, coordinates,
                   pending, published, rewound, reset, budget>>

(* persistEventRow and persistIndexedRow: the row and, for a token event,    *)
(* the aggregates, in one transaction.                                       *)
Persist(ev) ==
    /\ rows' = rows \cup {RowOf(ev)}
    /\ IF Family(ev.topic) \in TokenFamilies
       THEN holders' = applyDeltas(holders, ev) /\ supply' = resolveSupply(ev)
       ELSE UNCHANGED <<holders, supply>>

(* Mutant: an event whose row is there already is published again.           *)
SkippedMutant(ev) ==
    /\ lost' = IF SameEvent(ev) THEN lost ELSE lost \cup {<<ev.tx, ev.index>>}
    /\ pending' = <<ev>>
    /\ pc' = "publish"
    /\ UNCHANGED <<rows, holders, supply, faults>>

(* The duplicate is dropped, be it this event or another of its transaction. *)
Skipped(ev) ==
    /\ lost' = IF SameEvent(ev) THEN lost ELSE lost \cup {<<ev.tx, ev.index>>}
    /\ UNCHANGED <<rows, holders, supply, pc, pending, faults>>

(* processEvent on the next event.  A duplicate txHash (P2002) and any other *)
(* database error are both caught here: the loop goes on to the next event.  *)
processEvent ==
    /\ pc = "process" /\ events # <<>>
    /\ LET ev == Head(events)
       IN  /\ events' = Tail(events)
           /\ \/ Family(ev.topic) = "none"
                 /\ UNCHANGED <<rows, holders, supply, pc, pending, lost, faults>>
              \/ Family(ev.topic) # "none" /\ Stored(ev) /\ Skipped(ev)
              \/ /\ Family(ev.topic) # "none" /\ faults < limits.faults
                 /\ faults' = faults + 1
                 /\ lost' = lost \cup {<<ev.tx, ev.index>>}
                 /\ UNCHANGED <<rows, holders, supply, pc, pending>>
              \/ /\ Family(ev.topic) # "none" /\ ~Stored(ev)
                 /\ Persist(ev)
                 /\ pending' = <<ev>>
                 /\ pc' = "publish"
                 /\ UNCHANGED <<lost, faults>>
    /\ UNCHANGED <<network, cursor, checkpoints, lastLedger, startLedger, endLedger, currentLedger,
                   coordinates, published, rewound, reset, limits, restarts>>

(* publishIndexerEvent, after the row is committed.                          *)
publishIndexerEvent ==
    /\ pc = "publish"
    /\ published' = published \cup {RowOf(pending[1])}
    /\ pending' = <<>>
    /\ pc' = "process"
    /\ UNCHANGED <<network, database, lastLedger, startLedger, endLedger, currentLedger, coordinates,
                   events, lost, rewound, reset, budget>>

(* Mutant: the next range begins where this one did.                         *)
CommitStuckMutant ==
    /\ pc = "process" /\ events = <<>>
    /\ checkpoints' = checkpoints \cup
            {k \in coordinates : \A o \in checkpoints : o.ledger # k.ledger /\ o.hash # k.hash}
    /\ cursor' = CHOOSE k \in coordinates : k.ledger = endLedger
    /\ pc' = "poll"
    /\ UNCHANGED <<network, rows, holders, supply, lastLedger, startLedger, endLedger, currentLedger,
                   coordinates, events, pending, history, budget>>

(* The range is done: its checkpoints (skipDuplicates) and the cursor, in    *)
(* one transaction; then startLedger moves on.                               *)
Commit ==
    /\ pc = "process" /\ events = <<>>
    /\ checkpoints' = checkpoints \cup
            {k \in coordinates : \A o \in checkpoints : o.ledger # k.ledger /\ o.hash # k.hash}
    /\ cursor' = CHOOSE k \in coordinates : k.ledger = endLedger
    /\ startLedger' = endLedger + 1
    /\ pc' = "poll"
    /\ UNCHANGED <<network, rows, holders, supply, lastLedger, endLedger, currentLedger, coordinates,
                   events, pending, history, budget>>

(* An awaited RPC call or the final transaction throws: caught, and the loop *)
(* starts over on the same range.                                            *)
IngestionError ==
    /\ pc \in {"poll", "ledgers", "reconcile", "events"} \/ (pc = "process" /\ events = <<>>)
    /\ faults < limits.faults
    /\ faults' = faults + 1
    /\ pc' = "poll"
    /\ UNCHANGED <<network, database, local, history, limits, restarts>>

(* The process is killed and started again: only the database survives.      *)
Restart ==
    /\ restarts < limits.restarts
    /\ restarts' = restarts + 1
    /\ pc' = "boot"
    /\ lastLedger' = NoCursor
    /\ startLedger' = 0 /\ endLedger' = 0 /\ currentLedger' = 0
    /\ coordinates' = {} /\ events' = <<>> /\ pending' = <<>>
    /\ UNCHANGED <<network, database, history, limits, faults>>

(* The documented cursor recovery: the ledger column is set back while the   *)
(* service is down; the hash columns keep their values.                      *)
ResetCursor ==
    /\ pc = "boot" /\ reset < limits.resets
    /\ cursor.ledger > 0
    /\ \E n \in 1 .. cursor.ledger - 1 : cursor' = [cursor EXCEPT !.ledger = n]
    /\ reset' = reset + 1
    /\ UNCHANGED <<network, checkpoints, rows, holders, supply, pc, local, published, lost, rewound,
                   budget>>

Outside == Close \/ Reorg \/ IngestionError \/ ResetCursor

-----------------------------------------------------------------------------
(* Properties.                                                               *)

IndexerTypeOK ==
    /\ limits \in Scenarios
    /\ Len(chain) \in 1 .. limits.ledgers /\ forks \in 0 .. limits.reorgs
    /\ cursor.ledger \in -1 .. limits.ledgers
    /\ \A k \in checkpoints : k.ledger \in 1 .. limits.ledgers
    /\ \A r \in rows : r.family \in TokenFamilies \cup OtherFamilies /\ r.tx \in Txs
    /\ IsFiniteSet(rows) /\ holders \in [Accounts -> Int] /\ supply \in Int
    /\ pc \in {"boot", "poll", "ledgers", "reconcile", "events", "process", "publish"}
    /\ startLedger \in 0 .. limits.ledgers + 1 /\ endLedger \in 0 .. limits.ledgers
    /\ events \in Seq(Range(events)) /\ (pc = "publish" <=> pending # <<>>)
    /\ faults \in 0 .. limits.faults /\ restarts \in 0 .. limits.restarts /\ reset \in 0 .. limits.resets

TokenRows == {r \in rows : r.family \in TokenFamilies}
FoldedBalances ==
    [a \in Accounts |-> SumFunction([r \in TokenRows |-> deltasFor(EventOf(r))[a]])]

(* Holder balances are the sum of the stored rows, whatever ledgers are      *)
(* indexed twice, whatever writes fail and wherever the process is killed:   *)
(* "in a single transaction so a re-index cannot apply an event twice"       *)
(* (indexer.ts:152).  A rewind prunes rows and leaves the balances.          *)
HoldersMatchRowsUntilRewind == ~rewound => holders = FoldedBalances

OnChain(k) == k.ledger <= Len(chain) /\ HashAt(chain, k.ledger) = k.hash

(* An event is done with: no table takes it, it was dropped, or it has a row. *)
Done(tx, i) ==
    \/ Family(EventsOf[tx][i].topic) = "none"
    \/ <<tx, i>> \in lost
    \/ \E r \in rows : r.tx = tx /\ r.index = i

(* Ledger n has a checkpoint.                                                *)
Checkpointed(n) == \E k \in checkpoints : k.ledger = n

(* A ledger with a checkpoint that is still on the chain has all its events  *)
(* stored, except those in lost: another event of the same transaction has   *)
(* the table's only row for it, the write failed, the RPC's page was full,   *)
(* or a rewind pruned the row of a transaction that had moved to a ledger    *)
(* below it.  The ledgers of an older version's database are excepted too:   *)
(* their checkpoints are those of the chain at the upgrade.                  *)
NothingStepsOver ==
    \A k \in checkpoints : k.ledger > limits.old /\ OnChain(k) /\ chain[k.ledger].tx # NoTx =>
        \A i \in DOMAIN EventsOf[chain[k.ledger].tx] : Done(chain[k.ledger].tx, i)

(* Until a rewind the checkpoints reach down without a gap from the cursor   *)
(* and from the range the loop is at, to where an older version had stopped; *)
(* and a cursor with a hash has its checkpoint, unless it was set by hand.   *)
CheckpointsReachDown ==
    ~rewound =>
        /\ \A c \in {cursor, lastLedger} :
            /\ \A n \in limits.old + 1 .. c.ledger : Checkpointed(n)
            /\ c.hash # NoHash => Checkpointed(c.ledger) \/ reset > 0
        /\ pc # "boot" => \A n \in limits.old + 1 .. startLedger - 1 : Checkpointed(n)

(* The chain: a ledger's fork is one there has been, a transaction is in one *)
(* place, and an older version had met none.                                 *)
ChainOK ==
    /\ chain \in Seq([hash : 0 .. forks, tx : Txs \cup {NoTx}]) /\ chain # <<>>
    /\ \A m, n \in DOMAIN chain : chain[m].tx = chain[n].tx /\ chain[m].tx # NoTx => m = n
    /\ limits.old <= Len(chain)
    /\ forks = 0 => \A n \in DOMAIN chain : n <= limits.old => chain[n].tx = NoTx

(* A ledger the RPC has answered with: on the chain, or on it before a fork. *)
Answer(k) ==
    \E n \in 1 .. Len(chain), f, g \in 0 .. forks :
        k = [ledger |-> n, hash |-> <<n, f>>, parentHash |-> <<n - 1, g>>]

(* What the process and the database know of ledgers came from the RPC.      *)
LedgersWereAnswered ==
    /\ \A k \in checkpoints \cup coordinates : Answer(k)
    /\ \A c \in {cursor, lastLedger} :
        /\ DOMAIN c = {"ledger", "hash", "parentHash"} /\ c.ledger \in -1 .. Len(chain)
        /\ c.hash = NoHash => c.ledger <= limits.old

(* The range: its ledgers were there when it was chosen, and once they have  *)
(* been fetched each of them has its coordinates.                            *)
RangeIsFetched ==
    /\ pc # "boot" => startLedger \in 1 .. Len(chain) + 1
    /\ pc \in {"ledgers", "events", "process", "publish"} => endLedger \in startLedger .. Len(chain)
    /\ pc \in {"events", "process", "publish"} => {k.ledger : k \in coordinates} = startLedger .. endLedger

(* What is stored or under way was emitted by a transaction.                 *)
Seen(e) == e.tx \in Txs /\ e.index \in DOMAIN EventsOf[e.tx] /\ e.ledger \in 1 .. Len(chain)
WasEmitted(ev) == Seen(ev) /\ \A x \in DOMAIN EventOf(ev) : ev[x] = EventOf(ev)[x]
EventsWereEmitted ==
    /\ \A r \in rows : /\ DOMAIN r = {"family", "tx", "index", "ledger"}
                       /\ Seen(r) /\ r.family = Family(EventOf(r).topic) /\ r.family # "none"
    /\ \A i \in DOMAIN events : WasEmitted(events[i]) /\ events[i].newSupply \in Int
    /\ pc = "publish" => RowOf(pending[1]) \in rows
    /\ ~rewound => published \subseteq rows

(* What a range's coordinates promise for when they become checkpoints: an   *)
(* event of a ledger that is still on the chain is done with, or to come.    *)
RangeIsUnderWay ==
    pc \in {"process", "publish"} =>
        \A k \in coordinates : OnChain(k) /\ chain[k.ledger].tx # NoTx =>
            LET tx == chain[k.ledger].tx
            IN  \A i \in DOMAIN EventsOf[tx] :
                    Done(tx, i) \/ \E j \in DOMAIN events : events[j].tx = tx /\ events[j].index = i

(* A kill between the rows and the cursor (indexer.ts:108-122) never makes   *)
(* the loop step over an event, whatever is reorganised meanwhile.  The      *)
(* events it does lose are those NothingStepsOver names: a full page of      *)
(* getEvents (indexer.ts:97-106) is the one that no retry or restart mends.  *)
CheckpointedIsIndexed ==
    /\ NothingStepsOver /\ CheckpointsReachDown
    /\ ChainOK /\ LedgersWereAnswered /\ RangeIsFetched /\ EventsWereEmitted /\ RangeIsUnderWay

(* On a chain that was never reorganised, until a rewind, and while every    *)
(* event got its row, the supply reported by the events is the sum of the    *)
(* derived balances.                                                         *)
SupplyMatchesHolders ==
    (forks = 0 /\ ~rewound /\ lost = {}) => supply = SumFunction(holders)

(* The balances add up to the mints less the burns that have rows.           *)
HoldersAddUp ==
    ~rewound => SumFunction(holders) =
        SupplyOf({<<r.tx, r.index>> : r \in {q \in rows : q.family \in SupplyTopics}})

(* Without a reorganisation what is stored or under way is on the chain, and *)
(* the events under way come in its order; and nothing is rewound, except by *)
(* an answer that ended early, in which a missing ledger counts as another   *)
(* one (cursor.ts:83-94), or by a cursor set by hand into the ledgers that   *)
(* an older version indexed without checkpoints.                             *)
InPlace(e) == chain[e.ledger].tx = e.tx
Earlier(d, e) == d.ledger < e.ledger \/ (d.ledger = e.ledger /\ d.index < e.index)
UndisturbedChain ==
    forks = 0 =>
        /\ faults = 0 /\ (reset = 0 \/ limits.old = 0) => ~rewound
        /\ \A r \in rows : InPlace(r)
        /\ \A i \in DOMAIN events : /\ InPlace(events[i])
                                    /\ pc \in {"process", "publish"} => events[i].ledger <= endLedger
                                    /\ events[i].newSupply = SupplyOf(SupplyEvents(events[i].ledger, events[i].index))
        /\ \A i, j \in DOMAIN events : i < j => Earlier(events[i], events[j])

(* Then, until a rewind and while no event is lost, the rows are those of    *)
(* the events up to some event of the chain.                                 *)
RowsAreAPrefix ==
    (forks = 0 /\ ~rewound /\ lost = {}) =>
        \A r \in rows, n \in DOMAIN chain : n <= r.ledger /\ chain[n].tx # NoTx =>
            \A i \in DOMAIN EventsOf[chain[n].tx] :
                n < r.ledger \/ i < r.index => Done(chain[n].tx, i)

(* Until a rewind no event is handed to subscribers and webhooks a second    *)
(* time, restarts and cursor resets included.                                *)
PublishedOnce ==
    [][(pending' # pending /\ pending' # <<>> /\ ~rewound)
            => \A r \in published : <<r.tx, r.index>> # <<pending'[1].tx, pending'[1].index>>]_indexerVars

(* The ledger the process started from is still on the chain.                *)
BootLedgerHolds ==
    lastLedger.hash # NoHash => OnChain(lastLedger)

(* If that is so from some point on, the cursor reaches the head of the      *)
(* chain and stays there, through failed calls, partial pages and restarts.  *)
CatchesUp == <>[]BootLedgerHolds => <>[](cursor.ledger = Len(chain))
=============================================================================
