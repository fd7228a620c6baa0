----------------------------- MODULE SdkEvents -----------------------------
(* The SDK's event listeners: loops that ask the RPC for a contract's events *)
(* from a ledger on, hand each to a callback and move the ledger.  Requests  *)
(* fail, answers hold a page at most, the callback may throw, and the user   *)
(* unsubscribes at any moment; the chain only grows.                         *)
EXTENDS Integers, Sequences, FiniteSets, SequencesExt

CONSTANTS
    EventLog,       \* what the contract emits: Seq of [ledger, tx, topic, len]
    PageLimit,      \* events in one answer of getEvents
    Kinds,          \* the listeners; "none" for an application without one
    StartLedgers,   \* the startLedger option; -1 when it is not given
    MaxFailures,    \* bound: requests that fail
    MaxThrows       \* bound: times the callback throws

Event == [ledger : Nat \ {0}, tx : Nat, topic : STRING, len : Nat]

ASSUME ListenerAssumption ==
    /\ PageLimit \in Nat \ {0} /\ MaxFailures \in Nat /\ MaxThrows \in Nat
    /\ StartLedgers \subseteq Nat \cup {-1}
    /\ EventLog \in Seq(Event)
    /\ \A i, j \in DOMAIN EventLog : i < j => EventLog[i].ledger <= EventLog[j].ledger

VARIABLES
    kind,           \* the listener
    strict,         \* the RPC refuses a request from ledger 0
    head,           \* the latest ledger
    phase,          \* "starting", "idle" (a timer is set), "asking", "over" or "failed"
    active,         \* FALSE once the user has unsubscribed
    lastLedger,     \* the ledger to ask from
    cursor,         \* pollEvents: the event to ask from
    seenTxHashes,
    handled,        \* events the callback took, in order
    threw,          \* history: the events the callback threw on
    cuts,           \* history: ledgers whose events a page ended in
    began,          \* history: lastLedger as it was first
    failures

listenVars == <<kind, strict, head, phase, active, lastLedger, cursor, seenTxHashes, handled,
                threw, cuts, began, failures>>

LastClosed == IF EventLog = <<>> THEN 1 ELSE Last(EventLog).ledger

-----------------------------------------------------------------------------
(* Decoding.  An event's data is a tuple of len elements.                    *)

bcForgeEventType ==
    {"init", "mint", "burn", "xfer", "xfer_frm", "approve", "own_xfer", "paused", "unpause",
     "clawback", "lock", "unlock"}

EVENT_SCHEMA_VERSION == 1

(* The version of a tuple with this many fields; -1 stands for null.  The    *)
(* last element of a longer tuple is the version its contract wrote.         *)
decodeVersionedTuple(ev, fieldCount) ==
    CASE ev.len = fieldCount + 1 -> EVENT_SCHEMA_VERSION
      [] ev.len = fieldCount -> 0
      [] OTHER -> -1

decodeMintEventData(ev) == decodeVersionedTuple(ev, 5)
decodeBurnEventData(ev) == decodeVersionedTuple(ev, 4)
decodeTransferEventData(ev) == decodeVersionedTuple(ev, 3)
decodeTransferFromEventData(ev) == decodeVersionedTuple(ev, 5)
decodeDepositEventData(ev) == decodeVersionedTuple(ev, 3)
decodeWithdrawEventData(ev) == decodeVersionedTuple(ev, 3)

(* Is the event decoded, or null?                                            *)
decodeEvent(ev) == ev.topic \in bcForgeEventType

(* What the contracts publish: the topic and the elements of the tuple.      *)
TokenTuples ==
    {<<"init", 4>>, <<"mint", 6>>, <<"burn", 5>>, <<"xfer", 4>>, <<"xfer_frm", 6>>, <<"approve", 5>>,
     <<"own_xfer", 3>>, <<"paused", 2>>, <<"unpause", 2>>, <<"locked", 4>>, <<"withdraw_locked", 3>>}
WrapperTuples ==
    {<<"deposit", 4>>, <<"withdrw", 4>>, <<"xfer", 3>>, <<"xfer_frm", 4>>, <<"burn", 2>>,
     <<"unlock", 2>>}

-----------------------------------------------------------------------------
(* The listeners: the events each looks at, whether it skips a transaction   *)
(* it has seen, and whether the data decodes.                                *)

subscribeEvents == [takes |-> bcForgeEventType, dedup |-> FALSE]
onMint == [takes |-> {"mint"}, dedup |-> TRUE]
onTransfer == [takes |-> {"xfer", "xfer_frm"}, dedup |-> TRUE]
onVaultDeposit == [takes |-> {"deposit"}, dedup |-> TRUE]

Listener ==
    CASE kind = "onMint" -> onMint
      [] kind = "onTransfer" -> onTransfer
      [] kind = "onVaultDeposit" -> onVaultDeposit
      [] OTHER -> subscribeEvents

(* onVaultDeposit goes by the topic alone.                                   *)
Takes(ev) ==
    \/ kind = "pollEvents"
    \/ ev.topic \in Listener.takes /\ (kind # "onVaultDeposit" => decodeEvent(ev))

Version(ev) ==
    CASE ev.topic = "mint" -> decodeMintEventData(ev)
      [] ev.topic = "xfer" -> decodeTransferEventData(ev)
      [] ev.topic = "xfer_frm" -> decodeTransferFromEventData(ev)
      [] OTHER -> decodeDepositEventData(ev)

Wanted(ev) == Takes(ev) /\ (Listener.dedup => Version(ev) >= 0)

-----------------------------------------------------------------------------
ListenInit ==
    /\ kind \in Kinds /\ strict \in BOOLEAN /\ head = 1
    /\ began \in StartLedgers /\ lastLedger = began
    /\ kind \in {"none", "pollEvents"} => began = 0
    /\ kind = "none" => ~strict
    /\ phase = CASE kind = "none" -> "over" [] kind = "pollEvents" -> "idle" [] OTHER -> "starting"
    /\ active = TRUE /\ cursor = 0 /\ seenTxHashes = {} /\ handled = <<>>
    /\ threw = <<>> /\ cuts = {} /\ failures = 0

(* A ledger is closed.                                                       *)
CloseLedger ==
    /\ kind # "none" /\ head < LastClosed
    /\ head' = head + 1
    /\ UNCHANGED <<kind, strict, phase, active, lastLedger, cursor, seenTxHashes, handled, threw,
                   cuts, began, failures>>

BeginAt(n) ==
    /\ lastLedger' = n /\ began' = n /\ phase' = "asking"
    /\ UNCHANGED <<kind, strict, head, active, cursor, seenTxHashes, handled, threw, cuts>>

(* The first ledger: the option, or the latest one; subscribeEvents takes 0  *)
(* for not given and rejects when the request fails, the others start from 0. *)
StartListening ==
    /\ phase = "starting"
    /\ LET given == lastLedger > 0 \/ (lastLedger = 0 /\ Listener.dedup)
       IN  \/ given /\ BeginAt(lastLedger) /\ UNCHANGED failures
           \/ ~given /\ BeginAt(head) /\ UNCHANGED failures
           \/ /\ ~given /\ failures < MaxFailures /\ failures' = failures + 1
              /\ IF Listener.dedup THEN BeginAt(0)
                 ELSE /\ phase' = "failed"
                      /\ UNCHANGED <<kind, strict, head, active, lastLedger, cursor, seenTxHashes,
                                     handled, threw, cuts, began>>

(* The timer fires, or the caller of pollEvents asks again.                  *)
poll ==
    /\ phase = "idle"
    /\ phase' = IF active THEN "asking" ELSE "over"
    /\ UNCHANGED <<kind, strict, head, active, lastLedger, cursor, seenTxHashes, handled, threw,
                   cuts, began, failures>>

Refused == strict /\ lastLedger = 0 /\ cursor = 0

(* The events of an answer, as positions in the log.                         *)
Available ==
    {i \in DOMAIN EventLog : EventLog[i].ledger <= head
        /\ (IF kind = "pollEvents" THEN i > cursor ELSE EventLog[i].ledger >= lastLedger)}
ThePage == {i \in Available : Cardinality({j \in Available : j < i}) < PageLimit}

(* The positions of a set, in the order of the chain.                        *)
InChainOrder(S) ==
    {s \in [1 .. Cardinality(S) -> S] :
        Range(s) = S /\ \A i, j \in DOMAIN s : i < j => s[i] < s[j]}

(* Passed over: an event of a transaction seen before.                       *)
Repeats(i) ==
    /\ Listener.dedup /\ Takes(EventLog[i])
    /\ \/ EventLog[i].tx \in seenTxHashes
       \/ \E j \in 1 .. i - 1 : EventLog[j].ledger >= lastLedger /\ Takes(EventLog[j]) /\ EventLog[j].tx = EventLog[i].tx

(* Mutant: the ledger is moved to the head.                                  *)
MovedFarMutant(fresh) == head + 1

(* lastLedger once these events are done with.                               *)
Moved(fresh) == Max({lastLedger} \cup {EventLog[i].ledger + 1 : i \in fresh})

(* getEvents answers, and the page is handed out in one go: active is not    *)
(* looked at before the end of it.  The callback may throw on an event `at`, *)
(* which ends the page; its transaction is seen by then, its ledger not      *)
(* passed.  An event that is passed over leaves the ledger where it is.      *)
Answered ==
    /\ phase = "asking" /\ ~Refused
    /\ LET page == ThePage
           beyond == Available \ page
       IN  \E at \in {0} \cup {i \in page : Wanted(EventLog[i]) /\ ~Repeats(i)} :
           LET reached == {i \in page : at = 0 \/ i < at}
               fresh == {i \in reached : ~Repeats(i)}
               marked == {i \in page : (i \in reached \/ i = at) /\ Takes(EventLog[i])}
           IN  /\ at # 0 => kind # "pollEvents" /\ Len(threw) < MaxThrows
               /\ \E taken \in InChainOrder({i \in fresh : Wanted(EventLog[i])}) :
                     handled' = handled \o taken
               /\ lastLedger' = IF kind = "pollEvents" THEN lastLedger ELSE Moved(fresh)
               /\ cursor' = IF kind = "pollEvents" THEN Max({cursor} \cup page) ELSE cursor
               /\ seenTxHashes' = IF Listener.dedup THEN seenTxHashes \cup {EventLog[i].tx : i \in marked}
                                  ELSE {}
               /\ threw' = IF at = 0 THEN threw ELSE Append(threw, at)
               /\ cuts' = cuts \cup {n \in {EventLog[i].ledger : i \in beyond} :
                                       \E i \in reached : EventLog[i].ledger = n}
    /\ phase' = IF active THEN "idle" ELSE "over"
    /\ UNCHANGED <<kind, strict, head, active, began, failures>>

(* Mutant: a failed request ends the loop.                                   *)
AskFailedMutant ==
    /\ phase = "asking"
    /\ failures < MaxFailures /\ failures' = failures + 1
    /\ phase' = "over"
    /\ UNCHANGED <<kind, strict, head, active, lastLedger, cursor, seenTxHashes, handled, threw,
                   cuts, began>>

(* The request fails, or is refused; caught, and the timer is set again.     *)
AskFailed ==
    /\ phase = "asking"
    /\ \/ Refused /\ UNCHANGED failures
       \/ failures < MaxFailures /\ failures' = failures + 1
    /\ phase' = IF active THEN "idle" ELSE "over"
    /\ UNCHANGED <<kind, strict, head, active, lastLedger, cursor, seenTxHashes, handled, threw,
                   cuts, began>>

(* The function the listener returned is called.                             *)
unsubscribe ==
    /\ kind \notin {"none", "pollEvents"} /\ active /\ phase \in {"idle", "asking"}
    /\ active' = FALSE
    /\ phase' = IF phase = "idle" /\ Listener.dedup THEN "over" ELSE phase
    /\ UNCHANGED <<kind, strict, head, lastLedger, cursor, seenTxHashes, handled, threw, cuts, began,
                   failures>>

ListenerStep == StartListening \/ poll \/ Answered \/ AskFailed
ListenNext == ListenerStep \/ CloseLedger \/ unsubscribe

-----------------------------------------------------------------------------
(* Properties.                                                               *)

ListenTypeOK ==
    /\ phase \in {"starting", "idle", "asking", "over", "failed"}
    /\ head \in 1 .. LastClosed /\ began \in Nat \cup {-1}
    /\ lastLedger \in -1 .. LastClosed + 1 \/ lastLedger = began
    /\ cursor \in 0 .. Len(EventLog) /\ failures \in 0 .. MaxFailures
    /\ handled \in Seq(DOMAIN EventLog) /\ threw \in Seq(DOMAIN EventLog)

(* The callback takes the events in the order of the chain and none twice,   *)
(* whatever requests fail, whichever events the callback threw on before and *)
(* wherever the pages end.                                                   *)
InOrderOnce == \A i, j \in DOMAIN handled : i < j => handled[i] < handled[j]

(* Why a listener may have gone past an event: its page ended in the middle  *)
(* of the event's ledger, the callback threw on it or on an earlier event of *)
(* that ledger, or an event of the same transaction came before it.          *)
Excused(i) ==
    /\ kind # "pollEvents"
    /\ \/ EventLog[i].ledger \in cuts
       \/ \E j \in Range(threw) : j <= i /\ EventLog[j].ledger = EventLog[i].ledger
       \/ Listener.dedup /\ \E j \in 1 .. i - 1 : Takes(EventLog[j]) /\ EventLog[j].tx = EventLog[i].tx

Due(i) == Wanted(EventLog[i]) /\ EventLog[i].ledger >= began
Passed(i) == IF kind = "pollEvents" THEN i <= cursor ELSE EventLog[i].ledger < lastLedger

(* Nothing else is skipped: an event the listener has moved past was taken   *)
(* or is excused (events.ts:340-360, 401-430).  A caller of pollEvents who   *)
(* passes the cursor on misses nothing at all.                               *)
NothingSkipped ==
    phase \notin {"starting", "failed"} =>
        \A i \in DOMAIN EventLog : (Due(i) /\ Passed(i)) => i \in Range(handled) \/ Excused(i)

(* What a listener remembers of the events behind it: those it handed over   *)
(* are behind the ledger it asks from; a transaction it has seen had an      *)
(* event behind that ledger, or one the callback threw on, and all earlier   *)
(* events of such a one are behind it.                                       *)
ListenersRemember ==
    /\ \A i \in Range(handled) : Passed(i)
    /\ phase \in {"starting", "failed"} =>
          kind # "pollEvents" /\ handled = <<>> /\ threw = <<>> /\ seenTxHashes = {}
    /\ \A h \in seenTxHashes : \E j \in DOMAIN EventLog :
          Takes(EventLog[j]) /\ EventLog[j].tx = h /\ (Passed(j) \/ j \in Range(threw))
    /\ Listener.dedup => \A j \in Range(threw) : \A i \in 1 .. j - 1 :
          Takes(EventLog[i]) /\ EventLog[i].tx = EventLog[j].tx => Passed(i)

Decoded ==
    /\ \A d \in TokenTuples \cup {<<"deposit", 4>>} :
        d[1] \in {"mint", "xfer", "xfer_frm", "deposit"}
            => Version([topic |-> d[1], len |-> d[2]]) = EVENT_SCHEMA_VERSION
    /\ \A d \in TokenTuples : d[1] = "burn" => decodeBurnEventData([len |-> d[2]]) = 1
    /\ \A d \in WrapperTuples :
        /\ d[1] = "withdrw" => decodeWithdrawEventData([len |-> d[2]]) = 1
        /\ d[1] = "xfer" => decodeTransferEventData([len |-> d[2]]) = 0
        /\ d[1] = "xfer_frm" => decodeTransferFromEventData([len |-> d[2]]) = -1
        /\ d[1] = "burn" => decodeBurnEventData([len |-> d[2]]) = -1
    /\ {t \in bcForgeEventType : \A d \in TokenTuples : d[1] # t} = {"clawback", "lock", "unlock"}

(* The decoders' field counts are those the token publishes with a version,  *)
(* the vault's deposits and withdrawals too; the types the SDK knows are the *)
(* token's but for "clawback", "lock" and "unlock", which is the wrapper's   *)
(* cleared lockup (events.ts:11-24 against contracts' events.rs); and of     *)
(* the wrapper only its plain transfers decode, as version 0.                *)
DecodersMatchContracts == phase = "starting" => Decoded

(* Every event the listener asks for is taken, or excused, in the end,       *)
(* unless it is unsubscribed, never began, or the RPC refuses its ledger 0.  *)
EverythingArrives ==
    <>[](\/ kind = "none" \/ ~active \/ phase = "failed" \/ Refused
         \/ \A i \in DOMAIN EventLog : (Due(i) /\ EventLog[i].ledger <= head)
                => i \in Range(handled) \/ Excused(i))
=============================================================================
