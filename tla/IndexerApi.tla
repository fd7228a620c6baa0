---------------------------- MODULE IndexerApi ----------------------------
(* The indexer as a service: every event whose row was committed is posted   *)
(* to the registered webhooks, apart from the loop, and clients page through *)
(* the tables while rows come and go.  The streams are written where the     *)
(* loop publishes.  A request that the rate limiter or the token check       *)
(* refuses changes nothing and is no step.                                   *)
EXTENDS Indexer

CONSTANTS
    Urls,           \* webhook targets
    Asked           \* what clients ask for: a page size and a where clause

ASSUME UrlAssumption == "load" \notin Urls
ASSUME AskedAssumption == \A ask \in Asked : ask.limit \in Nat \ {0}

VARIABLES
    hooks,          \* Webhook rows
    goneAt,         \* history: events published when a target was last removed
    count,          \* events published so far
    jobs,           \* webhook work under way: hooks being loaded, and POSTs
    posts,          \* history: POSTs a target took, and whether the answer arrived
    place,          \* where a row stands by createdAt, id: the highest is listed first
    walk,           \* one client paging through a table
    calls, walks    \* webhook calls and walks left

apiVars == <<hooks, goneAt, count, jobs, posts, place, walk, calls, walks>>

NoWalk == [table |-> "none", where |-> <<>>, limit |-> 1, cursor |-> {}, gone |-> FALSE, seen |-> {},
           inOrder |-> TRUE, due |-> {}, end |-> TRUE, broken |-> FALSE]

ApiInit ==
    /\ hooks = {} /\ goneAt = [u \in Urls |-> 0]
    /\ count = 0 /\ jobs = {} /\ posts = {} /\ place = [r \in {} |-> 0] /\ walk = NoWalk
    /\ calls = limits.calls /\ walks = limits.walks

-----------------------------------------------------------------------------
(* events.ts.                                                                *)

(* publishIndexerEvent: the webhooks are told in a task of its own, which    *)
(* finds none if none is registered and no call is left to do so.            *)
Publish ==
    /\ count' = count + 1
    /\ jobs' = IF hooks = {} /\ calls = 0 THEN jobs
               ELSE jobs \cup {[n |-> count + 1, url |-> "load", attempt |-> 0]}
    /\ UNCHANGED <<hooks, goneAt, posts, place, walk, calls, walks>>

(* The registered targets are loaded, or the query fails and nobody is told. *)
deliverIndexerEventToWebhooks(j) ==
    /\ j.url = "load"
    /\ \/ jobs' = (jobs \ {j}) \cup {[n |-> j.n, url |-> u, attempt |-> 1] : u \in hooks}
       \/ jobs' = jobs \ {j}
    /\ UNCHANGED <<hooks, goneAt, count, posts, place, walk, calls, walks>>

(* What is left to do after a failed attempt.                                *)
Failed(j) == IF j.attempt < 2 THEN {[j EXCEPT !.attempt = 2]} ELSE {}

(* One POST: answered 2xx; taken, but the answer was lost, late or not 2xx;  *)
(* or not taken.                                                             *)
deliverWebhook(j) ==
    /\ j.url # "load"
    /\ \/ /\ posts' = posts \cup {[n |-> j.n, url |-> j.url, attempt |-> j.attempt, ok |-> TRUE]}
          /\ jobs' = jobs \ {j}
       \/ /\ posts' = posts \cup {[n |-> j.n, url |-> j.url, attempt |-> j.attempt, ok |-> FALSE]}
          /\ jobs' = (jobs \ {j}) \cup Failed(j)
       \/ /\ posts' = posts
          /\ jobs' = (jobs \ {j}) \cup Failed(j)
    /\ UNCHANGED <<hooks, goneAt, count, place, walk, calls, walks>>

Deliver == \E j \in jobs : deliverIndexerEventToWebhooks(j) \/ deliverWebhook(j)

-----------------------------------------------------------------------------
(* api.ts: webhooks.                                                         *)

Called == calls > 0 /\ calls' = calls - 1

(* An upsert: registering a URL again returns the row there is.              *)
postWebhook(u) ==
    /\ Called
    /\ hooks' = hooks \cup {u}
    /\ UNCHANGED <<goneAt, count, jobs, posts, place, walk, walks>>

deleteWebhook(u) ==
    /\ Called /\ u \in hooks
    /\ hooks' = hooks \ {u} /\ goneAt' = [goneAt EXCEPT ![u] = count]
    /\ UNCHANGED <<count, jobs, posts, place, walk, walks>>

-----------------------------------------------------------------------------
(* api.ts: paging.                                                           *)

(* The columns an address filter is compared with.                           *)
AddressFields(table, ev) ==
    CASE table \in {"mint", "vestingClaim", "splitDistribution"} -> {ev.to}
      [] table = "transfer" -> {ev.from, ev.to}
      [] OTHER -> {ev.from}

(* The where clause: an address, a first ledger, both or neither.            *)
Matches(table, where, r) ==
    /\ r.family = table
    /\ where.address \in Accounts => where.address \in AddressFields(table, EventOf(r))
    /\ r.ledger >= where.fromLedger

Listed(table, where) == {r \in rows : Matches(table, where, r)}

(* A client begins to page; due are the rows it is to see.                   *)
startWalk ==
    /\ walks > 0 /\ walk.end
    /\ walks' = walks - 1
    /\ \E table \in TokenFamilies \cup OtherFamilies, ask \in Asked :
        /\ \E r \in rows : r.family = table
        /\ walk' = [NoWalk EXCEPT !.table = table, !.where = ask.where, !.limit = ask.limit,
                                  !.due = Listed(table, ask.where), !.end = FALSE]
    /\ UNCHANGED <<hooks, goneAt, count, jobs, posts, place, calls>>

(* The first n of some rows, and the last of them.                           *)
First(S, n) == {r \in S : Cardinality({q \in S : place[q] > place[r]}) < n}
LastOf(S) == {r \in S : \A q \in S : place[r] <= place[q]}

(* Mutant: the next cursor is the row that showed there is another page.     *)
NextCursorMutant(got, limit) == IF Cardinality(got) > limit THEN LastOf(got) ELSE {}

(* The last row of the page, when one row more was found.                    *)
NextCursor(got, limit) == IF Cardinality(got) > limit THEN LastOf(First(got, limit)) ELSE {}

(* handlePaginatedList for the next page: limit + 1 rows from the cursor,    *)
(* which is skipped.  A cursor whose row is gone is an error or an empty     *)
(* page.                                                                     *)
handlePaginatedList ==
    /\ ~walk.end
    /\ LET rest == {r \in Listed(walk.table, walk.where) : \A c \in walk.cursor : place[r] < place[c]}
           got == First(rest, walk.limit + 1)
           page == First(got, walk.limit)
           next == NextCursor(got, walk.limit)
       IN  walk' = IF walk.gone THEN [walk EXCEPT !.end = TRUE, !.broken = TRUE]
                   ELSE [walk EXCEPT !.seen = @ \cup page, !.cursor = next, !.end = next = {},
                                     !.inOrder = @ /\ \A s \in walk.seen, r \in page : place[r] < place[s]]
    /\ UNCHANGED <<hooks, goneAt, count, jobs, posts, place, calls, walks>>

Request ==
    \/ \E u \in Urls : postWebhook(u) \/ deleteWebhook(u)
    \/ startWalk \/ handlePaginatedList

-----------------------------------------------------------------------------
(* The service: the loop and the API in one process, over one database.      *)

serviceVars == <<indexerVars, apiVars>>

ServiceInit == IndexerInit /\ ApiInit

(* The tables as the loop leaves them.  A new row is listed first, or has    *)
(* the time of the first and an id below it, which only a client that pages  *)
(* can tell.  What a client has of a deleted row is not had again: its id is *)
(* not used for another.                                                     *)
Tables ==
    /\ \/ rows' \subseteq rows /\ place' = [q \in rows' |-> place[q]]
       \/ \E r \in rows' \ rows, top \in {0} \cup Range(place) :
            /\ \A q \in rows : place[q] <= top
            /\ \/ place' = [q \in rows' |-> IF q = r THEN top + 1 ELSE place[q]]
               \/ /\ limits.walks > 0 /\ top > 0
                  /\ place' = [q \in rows' |-> IF q = r THEN top
                                                ELSE IF place[q] = top THEN top + 1 ELSE place[q]]
    /\ walk' = [walk EXCEPT !.due = @ \cap rows', !.seen = @ \cap rows',
                            !.gone = @ \/ ~(walk.cursor \subseteq rows')]
    /\ UNCHANGED <<hooks, goneAt, count, jobs, posts, calls, walks>>

(* Killed and started again: deliveries are forgotten.                       *)
Killed ==
    /\ jobs' = {}
    /\ UNCHANGED <<hooks, goneAt, count, posts, place, walk, calls, walks>>

LoopStep ==
    \/ Boot /\ Tables
    \/ Poll /\ Tables
    \/ FetchLedgers /\ Tables
    \/ reconcileLedgerCursor /\ Tables
    \/ FetchEvents /\ Tables
    \/ processEvent /\ Tables
    \/ publishIndexerEvent /\ Publish
    \/ Commit /\ Tables

ServiceNext ==
    \/ LoopStep
    \/ Outside /\ UNCHANGED apiVars
    \/ Restart /\ Killed
    \/ (Deliver \/ Request) /\ UNCHANGED indexerVars

(* The loop has no exit and every wait in it is bounded, so it keeps taking  *)
(* steps; a POST is abandoned after ten seconds.  Nothing is assumed of the  *)
(* network, the operator, the clients or the faults.                         *)
ServiceSpec ==
    /\ ServiceInit /\ [][ServiceNext]_serviceVars
    /\ WF_serviceVars(LoopStep)
    /\ WF_serviceVars(Deliver /\ UNCHANGED indexerVars)

-----------------------------------------------------------------------------
(* Properties.                                                               *)

ServiceTypeOK ==
    /\ IndexerTypeOK
    /\ hooks \subseteq Urls
    /\ goneAt \in [Urls -> Nat] /\ count \in Nat
    /\ \A j \in jobs : /\ DOMAIN j = {"n", "url", "attempt"} /\ j.n \in 1 .. count
                       /\ IF j.url = "load" THEN j.attempt = 0 ELSE j.url \in Urls /\ j.attempt \in 1 .. 2
    /\ \A p \in posts : p.n \in 1 .. count /\ p.url \in Urls /\ p.attempt \in 1 .. 2
    /\ DOMAIN walk = DOMAIN NoWalk /\ walk.limit \in Nat \ {0}

(* A client that follows nextCursor to the end gets every row that was there *)
(* when it began and is still there, in one pass, newest first and none      *)
(* twice, whatever is inserted meanwhile: "pages stay stable when several    *)
(* rows share the same timestamp" (api.ts:271).  The exception is a rewind   *)
(* that deletes the row of the cursor.                                       *)
WalkSeesEveryRow ==
    /\ walk.inOrder
    /\ (walk.end /\ ~walk.broken) => walk.due \subseteq walk.seen

(* The rows stand in one order, and a walk that goes on has seen what is     *)
(* down to its cursor.                                                       *)
CursorDividesTheRows ==
    /\ place \in [rows -> Nat] /\ \A q, r \in rows : place[q] = place[r] => q = r
    /\ walk.seen \subseteq rows /\ walk.due \subseteq Listed(walk.table, walk.where)
    /\ ~walk.end /\ ~walk.gone =>
        \/ walk.cursor = {} /\ walk.seen = {}
        \/ \E c \in rows : /\ walk.cursor = {c}
                           /\ \A s \in walk.seen : place[s] >= place[c]
                           /\ \A r \in walk.due : r \in walk.seen \/ place[r] < place[c]

(* A target gets an event a second time only if its first answer did not     *)
(* arrive, never a third time, and once removed only events published before *)
(* (events.ts:54-90, 99-105).                                                *)
PostsAreWarranted ==
    /\ \A p \in posts : p.attempt <= 2
    /\ \A p, q \in posts : (p.n = q.n /\ p.url = q.url /\ p.attempt < q.attempt) => ~p.ok
    /\ \A j \in jobs : (j.url \in Urls /\ j.url \notin hooks) => j.n <= goneAt[j.url]

(* What is to be done for a target is not done yet: its earlier attempt      *)
(* failed, and while the targets are being loaded none has been called.      *)
JobsAreOpen ==
    /\ \A i, j \in jobs : i.n = j.n /\ (i.url = j.url \/ i.url = "load") => i = j
    /\ \A j \in jobs, p \in posts : j.n = p.n /\ j.url \in {p.url, "load"} =>
            j.url = p.url /\ p.attempt < j.attempt /\ ~p.ok

(* Every delivery ends: one broken or slow target never holds up the work    *)
(* for the others (events.ts:93-97).                                         *)
DeliveriesEnd == []<>(jobs = {})

(* The aggregates are those of the stored events, through restarts, failed   *)
(* writes, ledgers indexed twice and cursor resets, until a rewind: that     *)
(* prunes rows and leaves the aggregates, and the ledgers indexed again are  *)
(* then added a second time, also where an RPC answer that ended early was   *)
(* all there was to rewind for.                                              *)
AggregatesMatchRows ==
    /\ ServiceTypeOK /\ HoldersMatchRowsUntilRewind /\ SupplyMatchesHolders
    /\ HoldersAddUp /\ UndisturbedChain /\ RowsAreAPrefix

(* Paging clients and webhook targets get what they are due, and nothing     *)
(* twice without a reason, whatever the loop does meanwhile.                 *)
ClientsAreServed ==
    WalkSeesEveryRow /\ CursorDividesTheRows /\ PostsAreWarranted /\ JobsAreOpen

(* The loop reaches the head of the chain and every delivery ends.           *)
ServiceProgresses == CatchesUp /\ DeliveriesEnd
=============================================================================
