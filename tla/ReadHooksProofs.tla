-------------------------- MODULE ReadHooksProofs --------------------------
(* What a read hook shows belongs to its input, and no answer comes too old  *)
(* or too late, for every set of keys, every pairing of the hooks and every  *)
(* bound.  The invariant is stated of a page, the record a fetch is a        *)
(* function on, so that each function is dealt with once.                    *)
EXTENDS ReadHooks, FiniteSetTheorems, TLAPS

-----------------------------------------------------------------------------
(* What the proofs use of the table of hooks.                                *)

(* The hooks that reset when the wallet disconnects.                         *)
OfWallet == {"useBalance", "useWalletBalancePolling"}

HookOK(name, h) ==
    /\ h.guard \in {"latest", "mounted", "none"}
    /\ h.guard = "latest" => h.cache = "none" /\ h.okClears /\ h.loads /\ ~h.increments
    /\ h.cache = "evict" \/ h.approves => ~h.failData
    /\ name \in OfWallet => /\ h.guard = "latest" /\ ~h.approves /\ ~h.offFetches
                            /\ h.effNone = ResetAndBump /\ h.effOff = ResetAndBump
                            /\ h.none = Ignore /\ h.off = Ignore

(* Of the table: the hooks that number their requests share no cache, and    *)
(* the balance hooks ignore a call without input but reset in the effect.    *)
LEMMA HookFacts == ASSUME hook \in DOMAIN Table PROVE HookOK(hook, H)
<1>1. CASE hook = "useTokenMetadata"
  BY <1>1 DEF H, Table, HookOK, OfWallet, Plain, useTokenMetadata
<1>2. CASE hook = "useBcForgeToken"
  BY <1>2 DEF H, Table, HookOK, OfWallet, Plain, useBcForgeToken
<1>3. CASE hook = "useBalance"
  BY <1>3 DEF H, Table, HookOK, OfWallet, Plain, useBalance
<1>4. CASE hook = "useWalletBalancePolling"
  BY <1>4 DEF H, Table, HookOK, OfWallet, Plain, useBalance, useWalletBalancePolling
<1>5. CASE hook = "useTotalSupply"
  BY <1>5 DEF H, Table, HookOK, OfWallet, Plain, useTotalSupply
<1>6. CASE hook = "useAllowance"
  BY <1>6 DEF H, Table, HookOK, OfWallet, Plain, useAllowance
<1>7. CASE hook = "useVaultShareBalance"
  BY <1>7 DEF H, Table, HookOK, OfWallet, Plain, useVaultShareBalance
<1>8. CASE hook = "useAccountBalance"
  BY <1>8 DEF H, Table, HookOK, OfWallet, Plain, OfAddress, useAccountBalance
<1>9. CASE hook = "useTokenAllowance"
  BY <1>9 DEF H, Table, HookOK, OfWallet, Plain, OfAddress, useTokenAllowance
<1>10. CASE hook = "useHasRole"
  BY <1>10 DEF H, Table, HookOK, OfWallet, Plain, OfAddress, useHasRole
<1>11. CASE hook = "useLatestLedger"
  BY <1>11 DEF H, Table, HookOK, OfWallet, Plain, useLatestLedger
<1>12. CASE hook = "useRbacRoles"
  BY <1>12 DEF H, Table, HookOK, OfWallet, Plain, useRbacRoles
<1>13. CASE hook = "useRoleAdmins"
  BY <1>13 DEF H, Table, HookOK, OfWallet, Plain, useRoleAdmins
<1>14. CASE hook = "useVestingSchedule"
  BY <1>14 DEF H, Table, HookOK, OfWallet, Plain, useVestingSchedule
<1>15. CASE hook = "useBatchContractReads"
  BY <1>15 DEF H, Table, HookOK, OfWallet, Plain, useBatchContractReads
<1>16. CASE hook = "useFlashLoanGuardStatus"
  BY <1>16 DEF H, Table, HookOK, OfWallet, Plain, useFlashLoanGuardStatus
<1>17. CASE hook = "useSplitRecipientShares"
  BY <1>17 DEF H, Table, HookOK, OfWallet, Plain, useFlashLoanGuardStatus, useSplitRecipientShares
<1>18. CASE hook = "useContractEvents"
  BY <1>18 DEF H, Table, HookOK, OfWallet, Plain, useContractEvents
<1>19. CASE hook = "useAccountSequence"
  BY <1>19 DEF H, Table, HookOK, OfWallet, Plain, useAccountSequence
<1>20. CASE hook = "useContractTtl"
  BY <1>20 DEF H, Table, HookOK, OfWallet, Plain, useContractTtl
<1>21. CASE hook = "useRateLimitStatus"
  BY <1>21 DEF H, Table, HookOK, OfWallet, Plain, useAccountSequence, useRateLimitStatus
<1>22. hook \in {"useTokenMetadata", "useBcForgeToken", "useBalance",
           "useWalletBalancePolling", "useTotalSupply", "useAllowance",
           "useVaultShareBalance", "useAccountBalance", "useTokenAllowance",
           "useHasRole", "useLatestLedger", "useRbacRoles", "useRoleAdmins",
           "useVestingSchedule", "useBatchContractReads", "useFlashLoanGuardStatus",
           "useSplitRecipientShares", "useContractEvents", "useAccountSequence",
           "useContractTtl", "useRateLimitStatus"}
  BY DEF Table
<1> QED
  BY <1>1, <1>2, <1>3, <1>4, <1>5, <1>6, <1>7, <1>8, <1>9, <1>10, <1>11, <1>12, <1>13,
     <1>14, <1>15, <1>16, <1>17, <1>18, <1>19, <1>20, <1>21, <1>22

-----------------------------------------------------------------------------
(* The invariant of a page at version v.                                     *)

CallType(v) ==
    [i : Instances, key : Keys, req : Nat, p : Nat, at : 0 .. v, own : BOOLEAN, due : 0 .. v]
PageType(v) ==
    [inst : [Instances -> Instance], calls : SUBSET CallType(v), cache : [Keys -> -1 .. v],
     inflight : [Keys -> [p : Nat, at : 0 .. v]], n : Nat]

(* Promises are numbered, and one promise was sent at one moment.            *)
Numbered(q) ==
    /\ \A c \in q.calls : c.p \in 1 .. q.n
    /\ \A k \in Keys : q.inflight[k] = NoPromise \/ q.inflight[k].p \in 1 .. q.n
Kept(cs, inf) ==
    /\ \A c, d \in cs : c.p = d.p => c.at = d.at
    /\ \A k \in Keys, c \in cs : c.p = inf[k].p => c.at = inf[k].at
    /\ \A k, m \in Keys : inf[k].p = inf[m].p => inf[k].at = inf[m].at
    /\ H.cache = "evict" => \A c \in cs : c.due <= c.at
PageOK(q, v) == q \in PageType(v) /\ Numbered(q) /\ Kept(q.calls, q.inflight)

Away(st) == hook \in OfWallet /\ st.life = "mounted" /\ (st.key = NoKey \/ ~st.on)

(* Of the instance of a hook that numbers its requests: what its calls know, *)
(* what it shows, and what a disconnected one shows.                         *)
Behind(st, cs) == \A c \in cs : c.i = 1 /\ c.req <= st.req
Known(st, cs) == \A c \in cs : c.req = st.req => c.key = st.key
Settled(st) ==
    /\ st.error \in {Nothing, st.key}
    /\ (st.data # Nothing /\ st.data.key = st.key) \/ FailureKeepsData(st)
Asked(st, o) == ~o /\ st.life = "mounted" /\ Fetchable(st)
Current(st, cs, o) ==
    /\ st.life = "new" => st.req = 0
    /\ Behind(st, cs)
    /\ Asked(st, o) => Known(st, cs) /\ (~st.loading => Settled(st))
    /\ Away(st) => /\ \A c \in cs : c.req # st.req
                   /\ st.data = Nothing /\ st.error = Nothing /\ ~st.loading
Latest(q, o) ==
    H.guard = "latest" => q.inst[2].life = "new" /\ Current(q.inst[1], q.calls, o)

(* The rest of the state: submissions, and the versions they have made.      *)
RestOK ==
    /\ hook \in DOMAIN Table /\ submitter \in DOMAIN Submitters
    /\ version \in 0 .. MaxVersion /\ announced \in 0 .. version
    /\ writes \subseteq [key : Keys \cup {NoKey}, id : Nat, own : BOOLEAN, on : BOOLEAN]
    /\ \A w \in writes : w.own => H.approves /\ w.key \in Keys
    /\ IsFiniteSet(writes) /\ submitted \in 0 .. MaxVersion
    /\ version + Cardinality(writes) <= submitted

(* The invariant, taken apart.                                               *)
LEMMA TakenApart ==
    ShowsItsInput <=> RestOK /\ PageOK(Page, version) /\ Latest(Page, overlapped)
<1>1. TypeOK <=> RestOK /\ Page \in PageType(version) /\ Numbered(Page)
  <2>1. ASSUME TypeOK PROVE RestOK /\ Page \in PageType(version) /\ Numbered(Page)
    BY <2>1 DEF TypeOK, RestOK, Page, PageType, Numbered, CallType, NoPromise
  <2>2. ASSUME RestOK, Page \in PageType(version), Numbered(Page) PROVE TypeOK
    <3>1. calls \subseteq [i : Instances, key : Keys, req : Nat, p : 1 .. n, at : 0 .. version,
                           own : BOOLEAN, due : 0 .. version]
      BY <2>2 DEF RestOK, Page, PageType, Numbered, CallType
    <3>2. inflight \in [Keys -> {NoPromise} \cup [p : 1 .. n, at : 0 .. version]]
      BY <2>2 DEF RestOK, Page, PageType, Numbered, CallType
    <3> QED
      BY <2>2, <3>1, <3>2 DEF TypeOK, RestOK, Page, PageType
  <2> QED
    BY <2>1, <2>2
<1>2. PromisesAreKept <=> Kept(Page.calls, Page.inflight)
  BY DEF PromisesAreKept, Kept, Page
<1>3. ASSUME hook \in DOMAIN Table
      PROVE  CallsKnowTheirInput /\ SettledMeansCurrent /\ DisconnectedShowsNothing
             <=> Latest(Page, overlapped)
  <2>1. hook \in OfWallet => H.guard = "latest"
    BY <1>3, HookFacts DEF HookOK
  <2>2. Page.inst = inst /\ Page.calls = calls
    BY DEF Page
  <2> DEFINE st == inst[1]
  <2>3. CallsKnowTheirInput <=>
        (H.guard = "latest" =>
            /\ inst[2].life = "new" /\ (st.life = "new" => st.req = 0) /\ Behind(st, calls)
            /\ Asked(st, overlapped) => Known(st, calls)
            /\ Away(st) => \A c \in calls : c.req # st.req)
    BY DEF CallsKnowTheirInput, Behind, Known, Asked, Away, OfWallet, Mounted
  <2>4. SettledMeansCurrent <=>
        (H.guard = "latest" => (Asked(st, overlapped) /\ ~st.loading => Settled(st)))
    BY DEF SettledMeansCurrent, Settled, FailureKeepsData, Asked, Mounted
  <2>5. DisconnectedShowsNothing <=>
        (Away(st) => st.data = Nothing /\ st.error = Nothing /\ ~st.loading)
    BY DEF DisconnectedShowsNothing, Away, OfWallet, Mounted
  <2>6. Away(st) => H.guard = "latest"
    BY <2>1 DEF Away
  <2> QED
    BY <2>2, <2>3, <2>4, <2>5, <2>6, Zenon DEF Latest, Current
<1> QED
  BY <1>1, <1>2, <1>3 DEF ShowsItsInput, PageOK, TypeOK, RestOK

-----------------------------------------------------------------------------
(* The functions on pages.                                                   *)

(* A page with another instance is a page.                                   *)
LEMMA PutOK ==
    ASSUME NEW v, NEW q, PageOK(q, v), NEW i \in Instances, NEW t \in Instance
    PROVE  LET r == [q EXCEPT !.inst[i] = t]
           IN  /\ PageOK(r, v) /\ r.calls = q.calls
               /\ r.inst = [q.inst EXCEPT ![i] = t]
<1> DEFINE r == [q EXCEPT !.inst[i] = t]
<1>1. q \in PageType(v)
  BY DEF PageOK
<1>2. /\ r.inst = [q.inst EXCEPT ![i] = t] /\ r.calls = q.calls /\ r.cache = q.cache
      /\ r.inflight = q.inflight /\ r.n = q.n
  BY <1>1 DEF PageType
<1>3. r \in PageType(v)
  BY <1>1 DEF PageType
<1> HIDE DEF r
<1>4. Numbered(r) /\ Kept(r.calls, r.inflight)
  BY <1>2 DEF PageOK, Numbered
<1> QED
  BY <1>2, <1>3, <1>4 DEF PageOK, r

(* A page at one version is a page at the next.                              *)
LEMMA LaterOK ==
    ASSUME NEW v \in Nat, NEW q, PageOK(q, v)
    PROVE  PageOK(q, v + 1)
<1>1. CallType(v) \subseteq CallType(v + 1)
  BY DEF CallType
<1>2. [Keys -> -1 .. v] \subseteq [Keys -> -1 .. v + 1]
  <2>1. -1 .. v \subseteq -1 .. v + 1
    OBVIOUS
  <2> QED
    BY <2>1
<1>3. [Keys -> [p : Nat, at : 0 .. v]] \subseteq [Keys -> [p : Nat, at : 0 .. v + 1]]
  <2>1. [p : Nat, at : 0 .. v] \subseteq [p : Nat, at : 0 .. v + 1]
    OBVIOUS
  <2> QED
    BY <2>1
<1>4. q \in PageType(v + 1)
  BY <1>1, <1>2, <1>3 DEF PageOK, PageType
<1> QED
  BY <1>4 DEF PageOK

(* What a hook does with an input it cannot fetch leaves its input alone,    *)
(* and its requests where they were or one further.                          *)
LEMMA ReactOK ==
    ASSUME NEW st \in Instance, NEW r
    PROVE  /\ React(st, r) \in Instance
           /\ React(st, r).life = st.life /\ React(st, r).key = st.key
           /\ React(st, r).on = st.on /\ React(st, r).req >= st.req
<1> DEFINE d == IF r.data THEN Nothing ELSE st.data
           e == CASE r.error = "clear" -> Nothing
                  [] r.error = "set" -> BadKey
                  [] OTHER -> st.error
           l == IF r.loading THEN FALSE ELSE st.loading
           m == IF r.bump THEN st.req + 1 ELSE st.req
<1>1. React(st, r) = [st EXCEPT !.data = d, !.error = e, !.loading = l, !.req = m]
  BY DEF React, Instance
<1>2. /\ d \in Values \cup {Nothing} /\ e \in Keys \cup {NoKey, BadKey, Nothing}
      /\ l \in BOOLEAN /\ m \in Nat /\ m >= st.req
  <2>1. /\ st.data \in Values \cup {Nothing} /\ st.error \in Keys \cup {NoKey, BadKey, Nothing}
        /\ st.loading \in BOOLEAN /\ st.req \in Nat
    BY DEF Instance
  <2>2. l \in BOOLEAN
    BY <2>1, Zenon
  <2>3. d \in Values \cup {Nothing}
    BY <2>1, Zenon
  <2>4. e \in Keys \cup {NoKey, BadKey, Nothing}
    <3>1. e = Nothing \/ e = BadKey \/ e = st.error
      OBVIOUS
    <3> QED
      BY <2>1, <3>1
  <2>5. m \in Nat /\ m >= st.req
    <3>1. m = st.req + 1 \/ m = st.req
      BY Zenon
    <3> QED
      BY <2>1, <3>1
  <2> QED
    BY <2>2, <2>3, <2>4, <2>5
<1> HIDE DEF d, e, l, m
<1> QED
  BY <1>1, <1>2 DEF Instance

(* The balance hooks' reset: everything cleared, one request further.        *)
LEMMA ResetsAndBumps ==
    ASSUME NEW st \in Instance
    PROVE  LET t == React(st, ResetAndBump)
           IN  t.data = Nothing /\ t.error = Nothing /\ t.loading = FALSE /\ t.req = st.req + 1
BY DEF React, ResetAndBump, Reset, Instance

(* Ignoring changes nothing.                                                 *)
LEMMA Ignores ==
    ASSUME NEW st \in Instance
    PROVE  React(st, Ignore) = st
BY DEF React, Ignore, Instance

(* From q to r instance i alone changes, not in its input or life, and no    *)
(* call is dropped.                                                          *)
SameInput(st, t) == t.life = st.life /\ t.key = st.key /\ t.on = st.on
Touches(q, r, i) ==
    /\ \E t \in Instance : SameInput(q.inst[i], t) /\ r.inst = [q.inst EXCEPT ![i] = t]
    /\ q.calls \subseteq r.calls

(* From q to r instance i sends a request with the next number, for key k.   *)
Asks(q, r, i, k) ==
    \E t \in Instance :
        /\ SameInput(q.inst[i], t) /\ t.req = q.inst[i].req + 1 /\ t.loading
        /\ r.inst = [q.inst EXCEPT ![i] = t]
        /\ \E c : /\ c.i = i /\ c.key = k /\ c.req = t.req
                  /\ r.calls = q.calls \cup {c}

(* The promise a fetch awaits is the pending one or a new one, and a forced  *)
(* fetch that evicts awaits a new one.                                       *)
LEMMA PromiseOK ==
    ASSUME NEW v \in Nat, NEW q, PageOK(q, v), NEW k \in Keys, NEW force \in BOOLEAN
    PROVE  LET b == Promise(q, k, force, v)
           IN  /\ \/ b = q.inflight[k] /\ b # NoPromise
                  \/ b = [p |-> q.n + 1, at |-> v]
               /\ b \in [p : 1 .. q.n + 1, at : 0 .. v]
               /\ (H.cache = "evict" /\ force) => b.at = v
<1> DEFINE b == Promise(q, k, force, v)
<1>1. q.inflight[k] \in [p : Nat, at : 0 .. v] /\ q.n \in Nat
  BY DEF PageOK, PageType
<1>2. \/ b = q.inflight[k] /\ b # NoPromise /\ ~(force /\ H.cache = "evict")
      \/ b = [p |-> q.n + 1, at |-> v]
  BY DEF Promise
<1> HIDE DEF b
<1>3. CASE b = q.inflight[k] /\ b # NoPromise /\ ~(force /\ H.cache = "evict")
  <2>1. b.p \in 1 .. q.n
    BY <1>3 DEF PageOK, Numbered
  <2> QED
    BY <1>1, <1>3, <2>1 DEF b
<1>4. CASE b = [p |-> q.n + 1, at |-> v]
  BY <1>1, <1>4 DEF b
<1> QED
  BY <1>2, <1>3, <1>4

(* A fetch keeps the invariant of the page and touches its own instance.     *)
LEMMA FetchOK ==
    ASSUME NEW v \in 0 .. MaxVersion, NEW q, PageOK(q, v), NEW i \in Instances, NEW k \in Keys,
           NEW force \in BOOLEAN, NEW own \in BOOLEAN
    PROVE  LET r == Fetch(q, i, k, force, v, own)
           IN  PageOK(r, v) /\ Touches(q, r, i)
<1> DEFINE st == q.inst[i]
           b == Promise(q, k, force, v)
           req == IF H.guard = "latest" THEN st.req + 1 ELSE st.req
           started == [st EXCEPT !.req = req,
                                 !.loading = IF H.loads THEN TRUE ELSE @,
                                 !.error = IF H.clears THEN Nothing ELSE @]
           served == [st EXCEPT !.data = [key |-> k, ver |-> q.cache[k]],
                                !.error = Nothing, !.loading = FALSE]
           due == IF force THEN v ELSE 0
           c == [i |-> i, key |-> k, req |-> req, p |-> b.p, at |-> b.at, own |-> own,
                 due |-> due]
           ca == IF force /\ H.cache = "evict" THEN [q.cache EXCEPT ![k] = NoValue] ELSE q.cache
           inf == IF Shared THEN [q.inflight EXCEPT ![k] = b] ELSE q.inflight
           r == Fetch(q, i, k, force, v, own)
<1>0. MaxVersion \in Nat /\ v \in Nat
  BY BoundsAssumption
<1>1. q \in PageType(v) /\ st \in Instance /\ q.n \in Nat /\ q.cache[k] \in -1 .. v
  BY DEF PageOK, PageType
<1>2. \/ Hit(q, k, force) /\ r = [q EXCEPT !.inst[i] = served]
      \/ r = [inst |-> [q.inst EXCEPT ![i] = started], calls |-> q.calls \cup {c},
              cache |-> ca, inflight |-> inf, n |-> q.n + 1]
  BY DEF Fetch
<1>3. /\ \/ b = q.inflight[k] /\ b # NoPromise
         \/ b = [p |-> q.n + 1, at |-> v]
      /\ b \in [p : 1 .. q.n + 1, at : 0 .. v]
      /\ (H.cache = "evict" /\ force) => b.at = v
  BY <1>0, PromiseOK
<1>4. served \in Instance /\ SameInput(st, served)
  <2>1. [key |-> k, ver |-> q.cache[k]] \in Values
    BY <1>0, <1>1 DEF Values
  <2> QED
    BY <1>1, <2>1 DEF Instance, SameInput
<1>5. started \in Instance /\ SameInput(st, started) /\ req \in Nat
  <2> DEFINE l == IF H.loads THEN TRUE ELSE st.loading
             e == IF H.clears THEN Nothing ELSE st.error
  <2>1. started = [st EXCEPT !.req = req, !.loading = l, !.error = e]
    BY <1>1 DEF Instance
  <2>2. /\ st.error \in Keys \cup {NoKey, BadKey, Nothing}
        /\ st.loading \in BOOLEAN /\ st.req \in Nat
    BY <1>1 DEF Instance
  <2>3. l \in BOOLEAN /\ e \in Keys \cup {NoKey, BadKey, Nothing}
    BY <2>2, Zenon
  <2>4. req \in Nat
    BY <2>2
  <2> HIDE DEF l, e, req, started
  <2> QED
    BY <1>1, <2>1, <2>3, <2>4 DEF Instance, SameInput
<1>6. due \in 0 .. v /\ (H.cache = "evict" => due <= b.at)
  BY <1>0, <1>3
<1>7. c \in CallType(v) /\ c.p = b.p /\ c.at = b.at /\ c.due = due
  BY <1>3, <1>5, <1>6 DEF CallType
<1>8. ca \in [Keys -> -1 .. v]
  BY <1>0, <1>1 DEF PageType, NoValue
<1>9. inf \in [Keys -> [p : Nat, at : 0 .. v]] /\ \A m \in Keys : inf[m] \in {q.inflight[m], b}
  <2>1. q.inflight \in [Keys -> [p : Nat, at : 0 .. v]] /\ b \in [p : Nat, at : 0 .. v]
    BY <1>1, <1>3 DEF PageType
  <2> HIDE DEF b
  <2> QED
    BY <2>1
<1> HIDE DEF st, b, req, started, served, due, c, ca, inf, r
<1>10. CASE Hit(q, k, force) /\ r = [q EXCEPT !.inst[i] = served]
  <2>1. PageOK(r, v) /\ r.calls = q.calls /\ r.inst = [q.inst EXCEPT ![i] = served]
    BY <1>4, <1>10, PutOK
  <2> QED
    BY <1>4, <2>1 DEF Touches, r, st
<1>11. CASE r = [inst |-> [q.inst EXCEPT ![i] = started], calls |-> q.calls \cup {c},
                 cache |-> ca, inflight |-> inf, n |-> q.n + 1]
  <2>1. /\ r.inst = [q.inst EXCEPT ![i] = started] /\ r.calls = q.calls \cup {c}
        /\ r.inflight = inf /\ r.n = q.n + 1
    BY <1>11
  <2>2. r \in PageType(v)
    BY <1>1, <1>5, <1>7, <1>8, <1>9, <1>11 DEF PageType
  <2>3. Numbered(r)
    <3>1. ASSUME NEW d \in r.calls PROVE d.p \in 1 .. q.n + 1
      BY <1>1, <1>3, <1>7, <2>1 DEF PageOK, Numbered
    <3>2. ASSUME NEW m \in Keys PROVE inf[m] = NoPromise \/ inf[m].p \in 1 .. q.n + 1
      <4>1. q.inflight[m] = NoPromise \/ q.inflight[m].p \in 1 .. q.n
        BY DEF PageOK, Numbered
      <4> QED
        BY <1>1, <1>3, <1>9, <4>1
    <3> QED
      BY <2>1, <3>1, <3>2 DEF Numbered
  <2>4. Kept(q.calls \cup {c}, inf)
    <3>0. /\ Kept(q.calls, q.inflight) /\ Numbered(q)
          /\ \A m \in Keys : q.inflight[m] \in [p : Nat, at : 0 .. v]
      BY DEF PageOK, PageType
    <3>1. \A d \in q.calls : d.p = b.p => d.at = b.at
      BY <1>1, <1>3, <3>0 DEF Kept, Numbered
    <3>2. \A m \in Keys : q.inflight[m].p = b.p => q.inflight[m].at = b.at
      BY <1>1, <1>3, <3>0 DEF Kept, Numbered, NoPromise
    <3>3. \A d, e \in q.calls \cup {c} : d.p = e.p => d.at = e.at
      BY <1>7, <3>0, <3>1 DEF Kept
    <3>4. \A m \in Keys, d \in q.calls \cup {c} : d.p = inf[m].p => d.at = inf[m].at
      BY <1>7, <1>9, <3>0, <3>1, <3>2 DEF Kept
    <3>5. \A m, j \in Keys : inf[m].p = inf[j].p => inf[m].at = inf[j].at
      BY <1>9, <3>0, <3>2 DEF Kept
    <3>6. H.cache = "evict" => \A d \in q.calls \cup {c} : d.due <= d.at
      BY <1>6, <1>7, <3>0 DEF Kept
    <3> QED
      BY <3>3, <3>4, <3>5, <3>6 DEF Kept
  <2> QED
    BY <1>5, <2>1, <2>2, <2>3, <2>4 DEF PageOK, Touches, r, st
<1> QED
  BY <1>2, <1>10, <1>11

(* A fetch of a hook that numbers its requests sends one.                    *)
LEMMA FetchAsks ==
    ASSUME hook \in DOMAIN Table, H.guard = "latest",
           NEW v \in 0 .. MaxVersion, NEW q, PageOK(q, v), NEW i \in Instances, NEW k \in Keys,
           NEW force \in BOOLEAN, NEW own \in BOOLEAN
    PROVE  Asks(q, Fetch(q, i, k, force, v, own), i, k)
<1> DEFINE st == q.inst[i]
           b == Promise(q, k, force, v)
           e == IF H.clears THEN Nothing ELSE st.error
           t == [st EXCEPT !.req = st.req + 1, !.loading = TRUE, !.error = e]
           due == IF force THEN v ELSE 0
           c == [i |-> i, key |-> k, req |-> st.req + 1, p |-> b.p, at |-> b.at, own |-> own,
                 due |-> due]
           r == Fetch(q, i, k, force, v, own)
<1>1. H.cache = "none" /\ H.loads
  BY HookFacts DEF HookOK
<1>2. ~Hit(q, k, force)
  BY <1>1 DEF Hit, Shared
<1>3. st \in Instance
  BY DEF PageOK, PageType
<1>4. r.inst = [q.inst EXCEPT ![i] = t] /\ r.calls = q.calls \cup {c}
  BY <1>1, <1>2, <1>3 DEF Fetch, Instance
<1>5. e \in Keys \cup {NoKey, BadKey, Nothing}
  <2>1. st.error \in Keys \cup {NoKey, BadKey, Nothing}
    BY <1>3 DEF Instance
  <2> QED
    BY <2>1, Zenon
<1>6. c.i = i /\ c.key = k /\ c.req = st.req + 1
  OBVIOUS
<1> HIDE DEF st, b, e, due, c, r
<1>7. t \in Instance /\ SameInput(st, t) /\ t.req = st.req + 1 /\ t.loading = TRUE
  <2>1. st.req + 1 \in Nat /\ TRUE \in BOOLEAN
    BY <1>3 DEF Instance
  <2>2. t \in Instance
    BY <1>3, <1>5, <2>1 DEF Instance
  <2>3. t.req = st.req + 1 /\ t.loading = TRUE
    BY <1>3 DEF Instance
  <2> QED
    BY <1>3, <2>2, <2>3 DEF Instance, SameInput
<1> HIDE DEF t
<1> QED
  BY <1>4, <1>6, <1>7 DEF Asks, st, r

(* Sending a request for the present input keeps the instance current; one   *)
(* for another input does if an overlap is on record.                        *)
LEMMA AskedIsCurrent ==
    ASSUME NEW v, NEW q, PageOK(q, v), NEW o, H.guard = "latest", q.inst[2].life = "new",
           NEW r, NEW k, Asks(q, r, 1, k),
           q.inst[1].life # "new", Behind(q.inst[1], q.calls), ~Away(q.inst[1]),
           o \/ k = q.inst[1].key
    PROVE  Latest(r, o)
<1>1. PICK t \in Instance :
        /\ SameInput(q.inst[1], t) /\ t.req = q.inst[1].req + 1 /\ t.loading
        /\ r.inst = [q.inst EXCEPT ![1] = t]
        /\ \E c : c.i = 1 /\ c.key = k /\ c.req = t.req /\ r.calls = q.calls \cup {c}
  BY DEF Asks
<1>2. PICK c : c.i = 1 /\ c.key = k /\ c.req = t.req /\ r.calls = q.calls \cup {c}
  BY <1>1
<1>3. /\ q.inst \in [Instances -> Instance] /\ q.inst[1].req \in Nat
      /\ \A d \in q.calls : d.req \in Nat
  BY DEF PageOK, PageType, CallType, Instance, Instances
<1>4. r.inst[1] = t /\ r.inst[2] = q.inst[2]
  BY <1>1, <1>3 DEF Instances
<1>5. Behind(t, r.calls)
  BY <1>1, <1>2, <1>3 DEF Behind
<1>6. \A d \in q.calls : d.req # t.req
  BY <1>1, <1>3 DEF Behind
<1>7. ~o => Known(t, r.calls)
  BY <1>1, <1>2, <1>6 DEF Known, SameInput
<1>8. ~Away(t) /\ t.life # "new"
  BY <1>1 DEF Away, SameInput
<1>9. Current(t, r.calls, o)
  BY <1>1, <1>5, <1>7, <1>8 DEF Current, Asked
<1> QED
  BY <1>4, <1>9 DEF Latest

(* A page step keeps the invariant: of the page, and what is latest.         *)
Steps(q, r, i, v, o) == PageOK(r, v) /\ Latest(r, o) /\ Touches(q, r, i)

(* Half of what is latest: what a render may assume of the instance that it  *)
(* gives another input.                                                      *)
Waiting(q) ==
    H.guard = "latest" => /\ q.inst[2].life = "new" /\ q.inst[1].life = "mounted"
                          /\ Behind(q.inst[1], q.calls)

(* An instance a hook gives up its data with: it has no input to fetch, or   *)
(* none it can; a balance hook drops everything.                             *)
LEMMA ReactSteps ==
    ASSUME hook \in DOMAIN Table, NEW v, NEW q, PageOK(q, v), NEW i \in Instances,
           H.guard = "latest" => i = 1, Waiting(q), NEW x, NEW o,
           ~Fetchable(q.inst[i]),
           Away(q.inst[i]) => x = ResetAndBump
    PROVE  Steps(q, [q EXCEPT !.inst[i] = React(q.inst[i], x)], i, v, o)
<1> DEFINE st == q.inst[i]
           t == React(st, x)
           r == [q EXCEPT !.inst[i] = t]
<1>1. st \in Instance /\ q.inst \in [Instances -> Instance] /\ \A c \in q.calls : c.req \in Nat
  BY DEF PageOK, PageType, CallType
<1>2. t \in Instance /\ t.life = st.life /\ t.key = st.key /\ t.on = st.on /\ t.req >= st.req
  BY <1>1, ReactOK
<1>3. Away(st) => t.data = Nothing /\ t.error = Nothing /\ t.loading = FALSE /\ t.req = st.req + 1
  BY <1>1, ResetsAndBumps
<1>4. st.req \in Nat /\ t.req \in Nat
  BY <1>1, <1>2 DEF Instance
<1> HIDE DEF t
<1>5. PageOK(r, v) /\ r.calls = q.calls /\ r.inst = [q.inst EXCEPT ![i] = t]
  BY <1>2, PutOK
<1> HIDE DEF r
<1>6. Touches(q, r, i)
  BY <1>2, <1>5 DEF Touches, SameInput
<1>7. ASSUME H.guard = "latest" PROVE Latest(r, o)
  <2>1. i = 1 /\ r.inst[1] = t /\ r.inst[2] = q.inst[2]
    BY <1>1, <1>5, <1>7 DEF Instances
  <2>2. Behind(t, q.calls) /\ t.life = "mounted" /\ q.inst[2].life = "new"
    BY <1>1, <1>2, <1>4, <1>7, <2>1 DEF Waiting, Behind
  <2>3. ~Asked(t, o)
    BY <1>2 DEF Asked, Fetchable
  <2>4. Away(t) => Away(st)
    BY <1>2 DEF Away
  <2>5. Away(t) => \A c \in q.calls : c.req # t.req
    BY <1>1, <1>3, <1>4, <1>7, <2>1, <2>4 DEF Waiting, Behind
  <2>6. Current(t, q.calls, o)
    BY <1>3, <2>2, <2>3, <2>4, <2>5 DEF Current
  <2> QED
    BY <1>5, <2>1, <2>2, <2>6 DEF Latest
<1> QED
  BY <1>5, <1>6, <1>7 DEF Steps, Latest, r, t

(* A fetch, for the present input or with an overlap on record.              *)
LEMMA FetchSteps ==
    ASSUME hook \in DOMAIN Table, NEW v \in 0 .. MaxVersion, NEW q, PageOK(q, v),
           NEW i \in Instances, H.guard = "latest" => i = 1, Waiting(q), ~Away(q.inst[i]),
           NEW k \in Keys, NEW force \in BOOLEAN, NEW own \in BOOLEAN, NEW o,
           o \/ k = q.inst[i].key
    PROVE  Steps(q, Fetch(q, i, k, force, v, own), i, v, o)
<1> DEFINE r == Fetch(q, i, k, force, v, own)
<1>1. PageOK(r, v) /\ Touches(q, r, i)
  BY FetchOK
<1>2. ASSUME H.guard = "latest" PROVE Latest(r, o)
  <2>1. i = 1
    BY <1>2
  <2>2. Asks(q, r, i, k)
    BY <1>2, FetchAsks
  <2> HIDE DEF r
  <2> QED
    BY <1>2, <2>1, <2>2, AskedIsCurrent DEF Waiting
<1> QED
  BY <1>1, <1>2 DEF Steps, Latest

(* The effect, after a render with any input.                                *)
LEMMA EffectSteps ==
    ASSUME hook \in DOMAIN Table, version \in 0 .. MaxVersion, NEW q, PageOK(q, version),
           NEW i \in Instances, H.guard = "latest" => i = 1, Waiting(q), NEW o
    PROVE  Steps(q, Effect(q, i), i, version, o)
<1> DEFINE st == q.inst[i]
<1>1. st \in Instance
  BY DEF PageOK, PageType
<1>2. st.key \in Keys \cup {NoKey, BadKey}
  BY <1>1 DEF Instance
<1>3. HookOK(hook, H)
  BY HookFacts
<1>4. CASE ~st.on
  <2>1. Effect(q, i) = [q EXCEPT !.inst[i] = React(st, H.effOff)]
    BY <1>4 DEF Effect
  <2> QED
    BY <1>3, <1>4, <2>1, ReactSteps DEF Fetchable, Away, HookOK
<1>5. CASE st.on /\ st.key = NoKey
  <2>1. Effect(q, i) = [q EXCEPT !.inst[i] = React(st, H.effNone)]
    BY <1>5, BoundsAssumption DEF Effect
  <2> QED
    BY <1>3, <1>5, <2>1, ReactSteps, BoundsAssumption DEF Fetchable, Away, HookOK
<1>6. CASE st.on /\ st.key = BadKey
  <2>1. Effect(q, i) = [q EXCEPT !.inst[i] = React(st, H.bad)]
    BY <1>6, BoundsAssumption DEF Effect
  <2>2. ~Away(st) /\ ~Fetchable(st)
    BY <1>6, BoundsAssumption DEF Fetchable, Away
  <2> QED
    BY <2>1, <2>2, ReactSteps
<1>7. CASE st.on /\ st.key \in Keys
  <2>1. Effect(q, i) = Fetch(q, i, st.key, FALSE, version, FALSE)
    BY <1>7, BoundsAssumption DEF Effect
  <2>2. ~Away(st)
    BY <1>7, BoundsAssumption DEF Away
  <2>3. FALSE \in BOOLEAN
    OBVIOUS
  <2> QED
    BY <1>7, <2>1, <2>2, <2>3, FetchSteps, Zenon
<1> QED
  BY <1>2, <1>4, <1>5, <1>6, <1>7

(* Nothing happening is a step.                                              *)
LEMMA StillSteps ==
    ASSUME NEW v, NEW q, PageOK(q, v), NEW i \in Instances, NEW o, Latest(q, o)
    PROVE  Steps(q, q, i, v, o)
<1>1. q.inst \in [Instances -> Instance]
  BY DEF PageOK, PageType
<1>2. q.inst[i] \in Instance /\ q.inst = [q.inst EXCEPT ![i] = q.inst[i]]
  BY <1>1
<1> QED
  BY <1>2 DEF Steps, Touches, SameInput

(* refetch and polling.                                                      *)
LEMMA CallSteps ==
    ASSUME hook \in DOMAIN Table, version \in 0 .. MaxVersion, NEW q, PageOK(q, version),
           NEW i \in Instances, H.guard = "latest" => i = 1, Waiting(q), NEW o, Latest(q, o),
           NEW force \in BOOLEAN
    PROVE  Steps(q, Call(q, i, force), i, version, o)
<1> DEFINE st == q.inst[i]
<1>1. st \in Instance /\ q.inst \in [Instances -> Instance] /\ q \in PageType(version)
  BY DEF PageOK, PageType
<1>2. st.key \in Keys \cup {NoKey, BadKey}
  BY <1>1 DEF Instance
<1>3. HookOK(hook, H)
  BY HookFacts
<1>4. ASSUME NEW x, Call(q, i, force) = [q EXCEPT !.inst[i] = React(st, x)],
             ~Fetchable(st), Away(st) => x = Ignore
      PROVE  Steps(q, Call(q, i, force), i, version, o)
  <2>1. CASE Away(st)
    <3>1. React(st, x) = st
      BY <1>1, <1>4, <2>1, Ignores
    <3>2. [q EXCEPT !.inst[i] = st] = q
      BY <1>1 DEF PageType
    <3> QED
      BY <1>4, <3>1, <3>2, StillSteps
  <2>2. CASE ~Away(st)
    <3>1. Steps(q, [q EXCEPT !.inst[i] = React(st, x)], i, version, o)
      BY <1>4, <2>2, ReactSteps, Zenon
    <3> QED
      BY <1>4, <3>1
  <2> QED
    BY <2>1, <2>2
<1>5. CASE ~st.on /\ ~H.offFetches
  <2>1. Call(q, i, force) = [q EXCEPT !.inst[i] = React(st, H.off)]
    BY <1>5 DEF Call
  <2> QED
    BY <1>3, <1>4, <1>5, <2>1 DEF Fetchable, Away, HookOK
<1>6. CASE ~(~st.on /\ ~H.offFetches) /\ st.key = NoKey
  <2>1. Call(q, i, force) = [q EXCEPT !.inst[i] = React(st, H.none)]
    BY <1>6, BoundsAssumption DEF Call
  <2> QED
    BY <1>3, <1>4, <1>6, <2>1, BoundsAssumption DEF Fetchable, Away, HookOK
<1>7. CASE ~(~st.on /\ ~H.offFetches) /\ st.key = BadKey
  <2>1. Call(q, i, force) = [q EXCEPT !.inst[i] = React(st, H.bad)]
    BY <1>7, BoundsAssumption DEF Call
  <2>2. ~Away(st) /\ ~Fetchable(st)
    BY <1>3, <1>7, BoundsAssumption DEF Fetchable, Away, HookOK
  <2> QED
    BY <1>4, <2>1, <2>2
<1>8. CASE ~(~st.on /\ ~H.offFetches) /\ st.key \in Keys
  <2>1. Call(q, i, force) = Fetch(q, i, st.key, force, version, FALSE)
    BY <1>8, BoundsAssumption DEF Call
  <2>2. ~Away(st)
    BY <1>3, <1>8, BoundsAssumption DEF Away, HookOK
  <2>3. FALSE \in BOOLEAN
    OBVIOUS
  <2> QED
    BY <1>8, <2>1, <2>2, <2>3, FetchSteps, Zenon
<1> QED
  BY <1>2, <1>5, <1>6, <1>7, <1>8

-----------------------------------------------------------------------------
(* The actions.                                                              *)

Timely == ForcedIsFresh /\ QuietAfterUnmount

(* A step that becomes page q keeps the invariant if q has it.               *)
LEMMA Becomes ==
    ASSUME NEW q, Become(q), UNCHANGED hook, RestOK', PageOK(q, version'), Latest(q, overlapped')
    PROVE  ShowsItsInput'
<1>1. ShowsItsInput' <=> (RestOK /\ PageOK(Page, version) /\ Latest(Page, overlapped))'
  BY TakenApart, PTL
<1>2. Page' = q
  BY DEF Become, Page, PageOK, PageType
<1>3. H' = H
  BY DEF H
<1>4. PageOK(Page, version)'
  <2>1. (Page \in PageType(version))' /\ Numbered(Page)'
    BY <1>2 DEF PageOK, PageType, CallType, Numbered, NoPromise, Instance, Instances, Values
  <2>2. Kept(Page.calls, Page.inflight)'
    BY <1>2, <1>3 DEF PageOK, Kept
  <2> QED
    BY <2>1, <2>2 DEF PageOK
<1>5. Latest(Page, overlapped)'
  BY <1>2, <1>3 DEF Latest, Current, Behind, Known, Settled, FailureKeepsData, Asked, Away, Fetchable
<1> QED
  BY <1>1, <1>4, <1>5

(* A step that drops no call and changes one instance that is not gone.      *)
Gentle(i) == /\ calls \subseteq calls' /\ inst[i].life # "gone"
             /\ \A j \in Instances : j # i => inst'[j] = inst[j]

(* Such a step is timely.                                                    *)
LEMMA GentleIsTimely ==
    ASSUME NEW i \in Instances, Gentle(i)
    PROVE  Timely
BY DEF Gentle, Timely, ForcedIsFresh, QuietAfterUnmount

(* A step of the page that becomes r is gentle.                              *)
LEMMA TouchIsGentle ==
    ASSUME NEW q, NEW r, NEW i \in Instances, Touches(q, r, i), Become(r),
           q.calls = calls, \A j \in Instances : j # i => q.inst[j] = inst[j],
           q.inst \in [Instances -> Instance], inst[i].life # "gone"
    PROVE  Gentle(i)
BY DEF Touches, Become, Gentle

(* The invariant of the submissions, where they do not change.               *)
LEMMA RestKept ==
    ASSUME RestOK, UNCHANGED <<hook, submitter, version, writes, submitted, announced>>
    PROVE  RestOK'
BY DEF RestOK, H

(* A first render.                                                           *)
LEMMA MountKeeps ==
    ASSUME ShowsItsInput, NEW i \in Instances, Mount(i)
    PROVE  ShowsItsInput' /\ Timely
<1>1. RestOK /\ PageOK(Page, version) /\ Latest(Page, overlapped)
  BY TakenApart
<1>2. PICK a \in Inputs :
        Become(Effect([Page EXCEPT !.inst[i] = [Unmounted EXCEPT !.life = "mounted",
                                                  !.key = a.key, !.on = a.on]], i))
  BY DEF Mount
<1> DEFINE st == [Unmounted EXCEPT !.life = "mounted", !.key = a.key, !.on = a.on]
           q == [Page EXCEPT !.inst[i] = st]
           r == Effect(q, i)
<1>3. st \in Instance /\ st.life = "mounted" /\ st.req = 0
  <2>1. a.key \in Keys \cup {NoKey, BadKey} /\ a.on \in BOOLEAN
    BY DEF Inputs
  <2>2. Unmounted.req = 0 /\ Unmounted \in Instance
    BY DEF Unmounted, Instance
  <2> HIDE <1>2
  <2> QED
    BY <2>1, <2>2 DEF Instance
<1>4. Page.inst = inst /\ Page.calls = calls /\ inst \in [Instances -> Instance]
  BY <1>1 DEF Page, PageOK, PageType
<1> HIDE DEF st
<1>5. PageOK(q, version) /\ q.calls = calls /\ q.inst = [inst EXCEPT ![i] = st]
  BY <1>1, <1>3, <1>4, PutOK
<1> HIDE DEF q
<1>6. ASSUME H.guard = "latest"
      PROVE  /\ i = 1 /\ q.inst[2].life = "new" /\ q.inst[1].life = "mounted"
             /\ Behind(q.inst[1], q.calls)
  <2>1. H.cache = "none"
    BY <1>1, <1>6, HookFacts DEF RestOK, HookOK
  <2>2. i = 1 /\ inst[1].life = "new"
    BY <2>1 DEF Mount, Shared
  <2>3. inst[2].life = "new" /\ inst[1].req = 0 /\ Behind(inst[1], calls)
    BY <1>1, <1>4, <1>6, <2>2 DEF Latest, Current
  <2>4. q.inst[1] = st /\ q.inst[2] = inst[2]
    BY <1>4, <1>5, <2>2 DEF Instances
  <2> QED
    BY <1>3, <1>5, <2>2, <2>3, <2>4 DEF Behind
<1>7. Steps(q, r, i, version, overlapped)
  BY <1>1, <1>5, <1>6, EffectSteps DEF RestOK, Waiting
<1>8. /\ UNCHANGED <<hook, submitter, version, writes, submitted, announced, overlapped>>
      /\ inst[i].life # "gone" /\ Become(r)
  BY <1>2 DEF Mount, submitVars, q, st
<1> HIDE DEF r
<1>9. RestOK'
  BY <1>1, <1>8, RestKept
<1>10. Gentle(i)
  <2>1. /\ q.inst \in [Instances -> Instance]
        /\ \A j \in Instances : j # i => q.inst[j] = inst[j]
    BY <1>3, <1>4, <1>5
  <2> QED
    BY <1>5, <1>7, <1>8, <2>1, TouchIsGentle DEF Steps
<1> QED
  BY <1>7, <1>8, <1>9, <1>10, Becomes, GentleIsTimely DEF Steps

(* A render with another input.                                              *)
LEMMA RenderKeeps ==
    ASSUME ShowsItsInput, Render(1)
    PROVE  ShowsItsInput' /\ Timely
<1>1. RestOK /\ PageOK(Page, version) /\ Latest(Page, overlapped)
  BY TakenApart
<1>2. PICK a \in Inputs :
        Become(Effect([Page EXCEPT !.inst[1] = [inst[1] EXCEPT !.key = a.key, !.on = a.on]], 1))
  BY DEF Render
<1> DEFINE st == [inst[1] EXCEPT !.key = a.key, !.on = a.on]
           q == [Page EXCEPT !.inst[1] = st]
           r == Effect(q, 1)
<1>3. Page.inst = inst /\ Page.calls = calls /\ inst \in [Instances -> Instance]
  BY <1>1 DEF Page, PageOK, PageType
<1>4. st \in Instance /\ st.life = "mounted" /\ st.req = inst[1].req
  <2>1. a.key \in Keys \cup {NoKey, BadKey} /\ a.on \in BOOLEAN
    BY DEF Inputs
  <2>2. inst[1] \in Instance /\ inst[1].life = "mounted"
    BY <1>3 DEF Render, Mounted, Instances
  <2> HIDE <1>2
  <2> QED
    BY <2>1, <2>2 DEF Instance
<1> HIDE DEF st
<1>5. PageOK(q, version) /\ q.calls = calls /\ q.inst = [inst EXCEPT ![1] = st]
  BY <1>1, <1>3, <1>4, PutOK DEF Instances
<1> HIDE DEF q
<1>6. q.inst[1] = st /\ q.inst[2] = inst[2]
  BY <1>3, <1>5 DEF Instances
<1>7. Waiting(q)
  BY <1>1, <1>3, <1>4, <1>5, <1>6 DEF Waiting, Latest, Current, Behind
<1>8. Steps(q, r, 1, version, overlapped)
  BY <1>1, <1>5, <1>7, EffectSteps DEF RestOK, Instances
<1>9. /\ UNCHANGED <<hook, submitter, version, writes, submitted, announced, overlapped>>
      /\ inst[1].life # "gone" /\ Become(r)
  BY <1>2 DEF Render, Mounted, submitVars, q, st
<1> HIDE DEF r
<1>10. RestOK'
  BY <1>1, <1>9, RestKept
<1>11. Gentle(1)
  <2>1. /\ q.inst \in [Instances -> Instance] /\ 1 \in Instances
        /\ \A j \in Instances : j # 1 => q.inst[j] = inst[j]
    BY <1>3, <1>4, <1>5 DEF Instances
  <2> QED
    BY <1>5, <1>8, <1>9, <2>1, TouchIsGentle DEF Steps
<1> QED
  BY <1>8, <1>9, <1>10, <1>11, Becomes, GentleIsTimely DEF Steps, Instances

(* A refetch, forced or not, and a tick of the polling interval.             *)
LEMMA RefetchKeeps ==
    ASSUME ShowsItsInput, NEW i \in Instances, Refetch(i)
    PROVE  ShowsItsInput' /\ Timely
<1>1. RestOK /\ PageOK(Page, version) /\ Latest(Page, overlapped)
  BY TakenApart
<1>2. PICK force \in Forces : Become(Call(Page, i, force))
  BY DEF Refetch
<1> DEFINE r == Call(Page, i, force)
<1>3. Page.inst = inst /\ Page.calls = calls /\ inst \in [Instances -> Instance]
  BY <1>1 DEF Page, PageOK, PageType
<1>4. force \in BOOLEAN
  BY DEF Forces
<1>5. /\ UNCHANGED <<hook, submitter, version, writes, submitted, announced, overlapped>>
      /\ inst[i].life = "mounted" /\ Become(r)
  BY <1>2 DEF Refetch, Mounted, submitVars
<1>6. H.guard = "latest" => i = 1
  BY <1>1, <1>3, <1>5 DEF Latest, Instances
<1>7. Waiting(Page)
  BY <1>1, <1>3, <1>5, <1>6 DEF Waiting, Latest, Current
<1>8. Steps(Page, r, i, version, overlapped)
  BY <1>1, <1>4, <1>6, <1>7, CallSteps DEF RestOK
<1> HIDE DEF r
<1>9. RestOK'
  BY <1>1, <1>5, RestKept
<1>10. Gentle(i)
  BY <1>3, <1>5, <1>8, TouchIsGentle DEF Steps
<1> QED
  BY <1>5, <1>8, <1>9, <1>10, Becomes, GentleIsTimely DEF Steps

(* A step that changes nothing a hook holds, and drops no call, is timely.   *)
LEMMA StillIsTimely ==
    ASSUME UNCHANGED inst, calls \subseteq calls'
    PROVE  Timely
BY DEF Timely, ForcedIsFresh, QuietAfterUnmount

(* A step that only gives the first instance other contents.                 *)
LEMMA PutKeeps ==
    ASSUME ShowsItsInput, NEW t \in Instance, inst[1].life = "mounted",
           inst' = [inst EXCEPT ![1] = t], UNCHANGED <<calls, cache, inflight, n, hook, version>>,
           RestOK', H.guard = "latest" => Current(t, calls, overlapped')
    PROVE  ShowsItsInput' /\ Timely
<1>1. PageOK(Page, version) /\ Latest(Page, overlapped)
  BY TakenApart
<1>2. Page.inst = inst /\ Page.calls = calls /\ inst \in [Instances -> Instance] /\ 1 \in Instances
  BY <1>1 DEF Page, PageOK, PageType, Instances
<1> DEFINE q == [Page EXCEPT !.inst[1] = t]
<1>3. Become(q)
  BY DEF Become, Page
<1>4. PageOK(q, version) /\ q.calls = calls /\ q.inst = [inst EXCEPT ![1] = t]
  BY <1>1, <1>2, PutOK
<1> HIDE DEF q
<1>5. q.inst[1] = t /\ q.inst[2] = inst[2]
  BY <1>2, <1>4 DEF Instances
<1>6. Latest(q, overlapped')
  BY <1>1, <1>2, <1>4, <1>5 DEF Latest
<1>7. ShowsItsInput'
  BY <1>3, <1>4, <1>6, Becomes
<1>8. Gentle(1)
  BY <1>2 DEF Gentle
<1> QED
  BY <1>2, <1>7, <1>8, GentleIsTimely

(* The component goes away.                                                  *)
LEMMA UnmountKeeps ==
    ASSUME ShowsItsInput, Unmount(1)
    PROVE  ShowsItsInput' /\ Timely
<1>1. RestOK /\ PageOK(Page, version) /\ Latest(Page, overlapped)
  BY TakenApart
<1>2. Page.inst = inst /\ Page.calls = calls /\ inst[1] \in Instance
  BY <1>1 DEF Page, PageOK, PageType, Instances
<1> DEFINE t == [inst[1] EXCEPT !.life = "gone"]
<1>3. t \in Instance /\ t.life = "gone" /\ t.req = inst[1].req
  BY <1>2 DEF Instance
<1>4. /\ inst' = [inst EXCEPT ![1] = t] /\ inst[1].life = "mounted"
      /\ UNCHANGED <<hook, submitter, calls, cache, inflight, n, version, writes, submitted,
                     announced, overlapped>>
  BY DEF Unmount, Mounted, submitVars
<1> HIDE DEF t
<1>5. RestOK'
  BY <1>1, <1>4, RestKept
<1>6. H.guard = "latest" => Current(t, calls, overlapped')
  BY <1>1, <1>2, <1>3 DEF Latest, Current, Behind, Asked, Away
<1> QED
  BY <1>3, <1>4, <1>5, <1>6, PutKeeps

(* The local guess of a sequence number.                                     *)
LEMMA IncrementKeeps ==
    ASSUME ShowsItsInput, incrementSequence(1)
    PROVE  ShowsItsInput' /\ Timely
<1>1. RestOK /\ PageOK(Page, version)
  BY TakenApart
<1>2. inst[1] \in Instance /\ inst \in [Instances -> Instance]
  BY <1>1 DEF Page, PageOK, PageType, Instances
<1> DEFINE d == inst[1].data
           x == [d EXCEPT !.ver = d.ver + 1]
           t == [inst[1] EXCEPT !.data = x]
<1>3. /\ inst[1].life = "mounted" /\ H.increments /\ d # Nothing /\ d.ver < MaxVersion
      /\ inst' = [inst EXCEPT ![1] = t]
      /\ UNCHANGED <<hook, submitter, calls, cache, inflight, n, version, writes, submitted,
                     announced, overlapped>>
  BY <1>2 DEF incrementSequence, Mounted, submitVars
<1>4. x \in Values
  <2>1. d \in Values
    BY <1>2, <1>3 DEF Instance
  <2> HIDE DEF d
  <2> QED
    BY <1>3, <2>1, BoundsAssumption DEF Values
<1> HIDE DEF x
<1>5. t \in Instance
  BY <1>2, <1>4 DEF Instance
<1> HIDE DEF t
<1>6. H.guard # "latest"
  BY <1>1, <1>3, HookFacts DEF RestOK, HookOK
<1>7. RestOK'
  BY <1>1, <1>3, RestKept
<1> QED
  BY <1>3, <1>5, <1>6, <1>7, PutKeeps

(* One more submission, with a write or none.                                *)
LEMMA SubmissionCounts ==
    ASSUME RestOK, submitted < MaxVersion, submitted' = submitted + 1,
           UNCHANGED <<hook, submitter, version, announced>>,
           \/ UNCHANGED writes
           \/ \E w \in [key : Keys \cup {NoKey}, id : Nat, own : BOOLEAN, on : BOOLEAN] :
                /\ w.own => H.approves /\ w.key \in Keys
                /\ writes' = writes \cup {w}
    PROVE  RestOK'
<1>0. Cardinality(writes) \in Nat /\ version \in Nat /\ submitted \in Nat
  BY FS_CardinalityType, BoundsAssumption DEF RestOK
<1>1. CASE UNCHANGED writes
  BY <1>0, <1>1, BoundsAssumption DEF RestOK, H
<1>2. ASSUME NEW w \in [key : Keys \cup {NoKey}, id : Nat, own : BOOLEAN, on : BOOLEAN],
             w.own => H.approves /\ w.key \in Keys, writes' = writes \cup {w}
      PROVE  RestOK'
  <2>1. /\ IsFiniteSet(writes \cup {w})
        /\ Cardinality(writes \cup {w}) \in {Cardinality(writes), Cardinality(writes) + 1}
    BY FS_AddElement DEF RestOK
  <2>2. \A x \in writes' : x.own => H.approves /\ x.key \in Keys
    BY <1>2 DEF RestOK
  <2>3. version + Cardinality(writes') <= submitted'
    BY <1>0, <1>2, <2>1 DEF RestOK
  <2>4. submitted' \in 0 .. MaxVersion
    BY <1>0, BoundsAssumption DEF RestOK
  <2> QED
    BY <1>2, <2>1, <2>2, <2>3, <2>4 DEF RestOK, H
<1> QED
  BY <1>1, <1>2

(* A submission of the other hook.                                           *)
LEMMA StartKeeps ==
    ASSUME ShowsItsInput, Start
    PROVE  ShowsItsInput' /\ Timely
<1>1. RestOK /\ PageOK(Page, version) /\ Latest(Page, overlapped)
  BY TakenApart
<1>2. /\ submitted < MaxVersion /\ submitted' = submitted + 1
      /\ UNCHANGED <<hook, submitter, inst, calls, cache, inflight, n, version, announced,
                     overlapped>>
  BY DEF Start
<1>3. \/ UNCHANGED writes
      \/ \E k \in Keys \cup {NoKey} :
           writes' = writes \cup {[key |-> k, id |-> submitted, own |-> FALSE, on |-> TRUE]}
  BY DEF Start
<1>4. ASSUME NEW k \in Keys \cup {NoKey}
      PROVE  LET w == [key |-> k, id |-> submitted, own |-> FALSE, on |-> TRUE]
             IN  /\ w \in [key : Keys \cup {NoKey}, id : Nat, own : BOOLEAN, on : BOOLEAN]
                 /\ w.own => H.approves /\ w.key \in Keys
  BY <1>1 DEF RestOK
<1>5. RestOK'
  BY <1>1, <1>2, <1>3, <1>4, SubmissionCounts
<1>6. Become(Page)
  BY <1>2 DEF Become, Page
<1> QED
  BY <1>1, <1>2, <1>5, <1>6, Becomes, StillIsTimely

(* approveAndRefetch, up to its transaction.                                 *)
LEMMA ApproveKeeps ==
    ASSUME ShowsItsInput, approveAndRefetch
    PROVE  ShowsItsInput' /\ Timely
<1>1. RestOK /\ PageOK(Page, version) /\ Latest(Page, overlapped)
  BY TakenApart
<1>2. Page.inst = inst /\ Page.calls = calls /\ inst \in [Instances -> Instance]
      /\ inst[1] \in Instance
  BY <1>1 DEF Page, PageOK, PageType, Instances
<1> DEFINE st == inst[1]
           s == [st EXCEPT !.loading = TRUE, !.error = Nothing]
           e == [st EXCEPT !.error = st.key]
           w == [key |-> st.key, id |-> submitted, own |-> TRUE, on |-> st.on]
<1>3. /\ H.approves /\ st.life = "mounted" /\ submitted < MaxVersion
      /\ submitted' = submitted + 1
      /\ UNCHANGED <<hook, submitter, calls, cache, inflight, n, version, announced, overlapped>>
      /\ \/ /\ st.key \in Keys /\ inst' = [inst EXCEPT ![1] = s]
            /\ writes' = writes \cup {w}
         \/ inst' = [inst EXCEPT ![1] = e] /\ UNCHANGED writes
  BY <1>2 DEF approveAndRefetch, Mounted
<1>4. ~Away(st) /\ hook \notin OfWallet
  BY <1>1, <1>3, HookFacts DEF RestOK, HookOK, Away
<1>5. s \in Instance /\ SameInput(st, s) /\ s.req = st.req /\ s.loading = TRUE
  BY <1>2 DEF Instance, SameInput
<1>6. e \in Instance /\ SameInput(st, e) /\ e.req = st.req /\ e.error = st.key
  BY <1>2 DEF Instance, SameInput
<1>7. st.key \in Keys => /\ w \in [key : Keys \cup {NoKey}, id : Nat, own : BOOLEAN, on : BOOLEAN]
                         /\ w.key \in Keys
  BY <1>1, <1>2 DEF RestOK, Instance
<1>8. RestOK'
  BY <1>1, <1>3, <1>7, SubmissionCounts
<1> HIDE DEF s, e, w
<1>9. H.guard = "latest" => Current(s, calls, overlapped')
  <2>1. H.guard = "latest" => Current(st, calls, overlapped)
    BY <1>1, <1>2 DEF Latest
  <2> QED
    BY <1>3, <1>4, <1>5, <2>1 DEF Current, Behind, Known, Asked, Away, Fetchable, SameInput
<1>10. H.guard = "latest" => Current(e, calls, overlapped')
  <2>1. H.guard = "latest" => Current(st, calls, overlapped)
    BY <1>1, <1>2 DEF Latest
  <2>2. Fetchable(e) => Settled(e)
    BY <1>1, <1>3, <1>6, HookFacts DEF Settled, FailureKeepsData, SameInput, RestOK, HookOK
  <2> QED
    BY <1>3, <1>4, <1>6, <2>1, <2>2 DEF Current, Behind, Known, Asked, Away, Fetchable, SameInput
<1> QED
  BY <1>3, <1>5, <1>6, <1>8, <1>9, <1>10, PutKeeps

(* The event of a confirmed transaction, at version v.                       *)
LEMMA NotifySteps ==
    ASSUME hook \in DOMAIN Table, NEW v \in 0 .. MaxVersion, PageOK(Page, v), NEW o,
           Latest(Page, o), NEW event, NEW k
    PROVE  /\ Steps(Page, notifyTransactionConfirmed(Page, event, k, v), 1, v, o)
           /\ ~Mounted(1) => notifyTransactionConfirmed(Page, event, k, v) = Page
<1>1. Page.inst = inst /\ Page.calls = calls /\ 1 \in Instances
  BY DEF Page, Instances
<1>2. CASE Hears(event, k)
  <2>1. inst[1].life = "mounted" /\ inst[1].on /\ inst[1].key \in Keys
    BY <1>2 DEF Hears, Mounted, Fetchable
  <2>2. ~Away(inst[1])
    BY <2>1, BoundsAssumption DEF Away
  <2>3. Waiting(Page)
    BY <1>1, <2>1 DEF Waiting, Latest, Current
  <2>4. FALSE \in BOOLEAN
    OBVIOUS
  <2>5. Steps(Page, Fetch(Page, 1, inst[1].key, FALSE, v, FALSE), 1, v, o)
    BY <1>1, <2>1, <2>2, <2>3, <2>4, FetchSteps, Zenon
  <2> QED
    BY <1>1, <1>2, <2>1, <2>5 DEF notifyTransactionConfirmed, Mounted
<1>3. CASE ~Hears(event, k)
  BY <1>1, <1>3, StillSteps DEF notifyTransactionConfirmed
<1> QED
  BY <1>2, <1>3

(* A submission settles, and a version more or none.                         *)
LEMMA SettlementCounts ==
    ASSUME RestOK, NEW w \in writes, writes' = writes \ {w},
           version' \in {version, version + 1}, announced' \in {announced, version'},
           UNCHANGED <<hook, submitter, submitted>>
    PROVE  RestOK' /\ version + 1 <= MaxVersion
<1>0. Cardinality(writes) \in Nat /\ version \in Nat /\ submitted \in Nat /\ announced \in 0 .. version
  BY FS_CardinalityType, BoundsAssumption DEF RestOK
<1>1. IsFiniteSet(writes') /\ Cardinality(writes') = Cardinality(writes) - 1
      /\ Cardinality(writes') \in Nat
  BY FS_RemoveElement, FS_CardinalityType DEF RestOK
<1>2. version + 1 <= MaxVersion /\ version' + Cardinality(writes') <= submitted
  BY <1>0, <1>1, BoundsAssumption DEF RestOK
<1>3. version' \in 0 .. MaxVersion /\ announced' \in 0 .. version'
  BY <1>0, <1>2, BoundsAssumption
<1>4. writes' \subseteq writes
  OBVIOUS
<1> QED
  BY <1>1, <1>2, <1>3, <1>4 DEF RestOK, H

(* A submission of the other hook settles.                                   *)
LEMMA SettleKeeps ==
    ASSUME ShowsItsInput, Settle
    PROVE  ShowsItsInput' /\ Timely
<1>1. RestOK /\ PageOK(Page, version) /\ Latest(Page, overlapped)
  BY TakenApart
<1>2. PICK w \in writes, ok \in BOOLEAN, v \in {version, version + 1} :
        /\ writes' = writes \ {w} /\ version' = v /\ announced' \in {announced, v}
        /\ Become(IF ok THEN notifyTransactionConfirmed(Page, S.notifies, w.key, v) ELSE Page)
        /\ UNCHANGED <<hook, submitter, submitted, overlapped>>
  BY DEF Settle
<1>3. RestOK' /\ v \in 0 .. MaxVersion
  BY <1>1, <1>2, SettlementCounts DEF RestOK
<1>4. PageOK(Page, v)
  <2>1. version \in Nat
    BY <1>1 DEF RestOK
  <2>2. PageOK(Page, version + 1)
    BY <1>1, <2>1, LaterOK
  <2> QED
    BY <1>1, <1>2, <2>2
<1>5. Page.inst = inst /\ Page.calls = calls /\ 1 \in Instances /\ inst \in [Instances -> Instance]
  BY <1>1 DEF Page, PageOK, PageType, Instances
<1> DEFINE p == notifyTransactionConfirmed(Page, S.notifies, w.key, v)
<1>6. Steps(Page, p, 1, v, overlapped) /\ (~Mounted(1) => p = Page)
  BY <1>1, <1>3, <1>4, NotifySteps DEF RestOK
<1>7. CASE ok /\ Mounted(1)
  <2>1. Become(p)
    BY <1>2, <1>7
  <2> HIDE DEF p
  <2>2. ShowsItsInput'
    BY <1>2, <1>3, <1>6, <2>1, Becomes DEF Steps
  <2>3. Gentle(1)
    BY <1>5, <1>6, <1>7, <2>1, TouchIsGentle DEF Steps, Mounted
  <2> QED
    BY <1>5, <2>2, <2>3, GentleIsTimely
<1>8. CASE ~(ok /\ Mounted(1))
  <2>1. Become(Page)
    BY <1>2, <1>6, <1>8
  <2>2. ShowsItsInput'
    BY <1>1, <1>2, <1>3, <1>4, <2>1, Becomes
  <2>3. Timely
    BY <1>5, <2>1, StillIsTimely DEF Become
  <2> QED
    BY <2>2, <2>3
<1> QED
  BY <1>7, <1>8

(* An approveAndRefetch settles: the event, then its own fetch or its error. *)
LEMMA ApproveSettlesKeeps ==
    ASSUME ShowsItsInput, approveSettles
    PROVE  ShowsItsInput' /\ Timely
<1>1. RestOK /\ PageOK(Page, version) /\ Latest(Page, overlapped)
  BY TakenApart
<1> DEFINE v == version + 1
<1>2. PICK w \in writes, ok \in BOOLEAN :
        LET told == notifyTransactionConfirmed(Page, "approve", w.key, v)
            lost == IF Mounted(1)
                    THEN [Page EXCEPT !.inst[1].error = w.key, !.inst[1].loading = FALSE]
                    ELSE Page
        IN  /\ w.own
            /\ writes' = writes \ {w}
            /\ version' = IF ok THEN v ELSE version
            /\ Become(CASE ok /\ w.on /\ Mounted(1) -> Fetch(told, 1, w.key, FALSE, v, TRUE)
                        [] ok /\ ~w.on /\ Mounted(1) -> [told EXCEPT !.inst[1].loading = FALSE]
                        [] ok /\ ~Mounted(1) -> told
                        [] OTHER -> lost)
            /\ announced' = IF ok /\ Hears("approve", w.key) THEN v ELSE announced
            /\ overlapped' = (overlapped \/ calls # {} \/ w.key # inst[1].key \/ ~w.on)
            /\ UNCHANGED <<hook, submitter, submitted>>
  BY DEF approveSettles
<1> DEFINE told == notifyTransactionConfirmed(Page, "approve", w.key, v)
<1>3. RestOK' /\ v \in 0 .. MaxVersion
  <2>1. version' \in {version, version + 1} /\ announced' \in {announced, version'}
    BY <1>2
  <2>2. RestOK' /\ version + 1 <= MaxVersion
    BY <1>1, <1>2, <2>1, SettlementCounts
  <2> QED
    BY <1>1, <2>2, BoundsAssumption DEF RestOK
<1>4. PageOK(Page, v)
  <2>1. version \in Nat
    BY <1>1 DEF RestOK
  <2> QED
    BY <1>1, <2>1, LaterOK
<1>5. Page.inst = inst /\ Page.calls = calls /\ 1 \in Instances /\ inst \in [Instances -> Instance]
  BY <1>1 DEF Page, PageOK, PageType, Instances
<1>6. H.approves /\ w.key \in Keys /\ w.key # Nothing
  BY <1>1, <1>2, BoundsAssumption DEF RestOK
<1>7. hook \notin OfWallet
  BY <1>1, <1>6, HookFacts DEF RestOK, HookOK
<1>8. Latest(Page, overlapped')
  <2>1. overlapped' = (overlapped \/ calls # {} \/ w.key # inst[1].key \/ ~w.on)
    BY <1>2
  <2>2. overlapped => overlapped'
    BY <2>1, Zenon
  <2> QED
    BY <1>1, <2>2 DEF Latest, Current, Asked
<1>9. Steps(Page, told, 1, v, overlapped') /\ (~Mounted(1) => told = Page)
  BY <1>1, <1>3, <1>4, <1>8, NotifySteps DEF RestOK
<1> HIDE DEF v, told
<1>10. CASE ok /\ w.on /\ Mounted(1)
  <2> DEFINE r == Fetch(told, 1, w.key, FALSE, v, TRUE)
  <2>1. Become(r) /\ version' = v
    BY <1>2, <1>10 DEF told
  <2>2. PICK t \in Instance : SameInput(inst[1], t) /\ told.inst = [inst EXCEPT ![1] = t]
    BY <1>5, <1>9 DEF Steps, Touches
  <2>3. told.inst[1] = t /\ t.life = "mounted" /\ t.key = inst[1].key
    BY <1>5, <1>10, <2>2 DEF SameInput, Mounted
  <2>4. PageOK(told, v) /\ Waiting(told) /\ ~Away(told.inst[1])
    BY <1>7, <1>9, <2>3 DEF Steps, Waiting, Latest, Current, Away
  <2>5. overlapped' \/ w.key = told.inst[1].key
    BY <1>2, <2>3
  <2>6. FALSE \in BOOLEAN /\ TRUE \in BOOLEAN /\ hook \in DOMAIN Table
    BY <1>1 DEF RestOK
  <2>7. Steps(told, r, 1, v, overlapped')
    BY <1>3, <1>5, <1>6, <2>4, <2>5, <2>6, FetchSteps, Zenon
  <2> HIDE DEF r
  <2>8. ShowsItsInput'
    BY <1>2, <1>3, <2>1, <2>7, Becomes DEF Steps
  <2>9. Gentle(1)
    BY <1>5, <1>9, <1>10, <2>1, <2>2, <2>7 DEF Steps, Touches, Become, Gentle, Mounted
  <2> QED
    BY <1>5, <2>8, <2>9, GentleIsTimely
<1>11. CASE ok /\ ~w.on /\ Mounted(1)
  <2> DEFINE t == [told.inst[1] EXCEPT !.loading = FALSE]
             r == [told EXCEPT !.inst[1] = t]
  <2>1. PageOK(told, v) /\ Latest(told, overlapped') /\ Touches(Page, told, 1)
    BY <1>9 DEF Steps
  <2>2. told \in PageType(v) /\ told.inst[1] \in Instance /\ told.inst \in [Instances -> Instance]
    BY <1>5, <2>1 DEF PageOK, PageType
  <2>3. r = [told EXCEPT !.inst[1].loading = FALSE]
    BY <1>5, <2>2 DEF PageType, Instance
  <2>4. Become(r) /\ version' = v
    BY <1>2, <1>11, <2>3 DEF told
  <2>5. t \in Instance /\ SameInput(told.inst[1], t) /\ t.req = told.inst[1].req
    BY <2>2 DEF Instance, SameInput
  <2> HIDE DEF t
  <2>6. PageOK(r, v) /\ r.calls = told.calls /\ r.inst = [told.inst EXCEPT ![1] = t]
    BY <1>5, <2>1, <2>5, PutOK
  <2> HIDE DEF r
  <2>7. r.inst[1] = t /\ r.inst[2] = told.inst[2]
    BY <2>2, <2>6 DEF Instances
  <2>8. Latest(r, overlapped')
    BY <1>2, <1>7, <1>11, <2>1, <2>5, <2>6, <2>7 DEF Latest, Current, Behind, Asked, Away, SameInput
  <2>9. ShowsItsInput'
    BY <1>2, <1>3, <2>4, <2>6, <2>8, Becomes
  <2>10. Gentle(1)
    <3>1. \A j \in Instances : j # 1 => told.inst[j] = inst[j]
      BY <1>5, <2>1 DEF Touches
    <3> QED
      BY <1>5, <1>11, <2>1, <2>2, <2>4, <2>6, <3>1 DEF Touches, Become, Gentle, Mounted
  <2> QED
    BY <1>5, <2>9, <2>10, GentleIsTimely
<1>12. CASE ~Mounted(1)
  <2>1. Become(Page)
    BY <1>2, <1>9, <1>12 DEF told
  <2>2. PageOK(Page, version')
    BY <1>1, <1>2, <1>4
  <2>3. ShowsItsInput'
    BY <1>2, <1>3, <1>8, <2>1, <2>2, Becomes
  <2>4. Timely
    BY <1>5, <2>1, StillIsTimely DEF Become
  <2> QED
    BY <2>3, <2>4
<1>13. CASE ~ok /\ Mounted(1)
  <2> DEFINE t == [inst[1] EXCEPT !.error = w.key, !.loading = FALSE]
  <2>0. inst[1] \in Instance
    BY <1>5
  <2>1. Become([Page EXCEPT !.inst[1].error = w.key, !.inst[1].loading = FALSE])
        /\ version' = version
    BY <1>2, <1>13
  <2>2. inst' = [inst EXCEPT ![1] = t] /\ UNCHANGED <<calls, cache, inflight, n, hook>>
    BY <1>2, <1>5, <2>0, <2>1 DEF Become, Page, Instance
  <2>3. t \in Instance /\ SameInput(inst[1], t) /\ t.req = inst[1].req /\ t.error = w.key
    BY <1>6, <2>0 DEF Instance, SameInput
  <2> HIDE DEF t
  <2>6. ~H.failData
    BY <1>1, <1>6, HookFacts DEF RestOK, HookOK
  <2>4. ~overlapped' => Settled(t)
    BY <1>2, <1>6, <2>3, <2>6 DEF Settled, FailureKeepsData, SameInput
  <2>5. H.guard = "latest" => Current(t, calls, overlapped')
    BY <1>5, <1>7, <1>8, <2>3, <2>4
       DEF Latest, Current, Behind, Known, Asked, Away, Fetchable, SameInput
  <2> QED
    BY <1>3, <1>13, <2>1, <2>2, <2>3, <2>5, PutKeeps DEF Mounted
<1> QED
  BY <1>10, <1>11, <1>12, <1>13

(* t is what the answer v to call c leaves of instance st.                   *)
Leaves(st, c, v, t) ==
    /\ t \in Instance /\ SameInput(st, t) /\ t.req = st.req /\ t.loading = FALSE
    /\ (H.okClears /\ c.key = st.key) => Settled(t)
    /\ (~H.failData /\ t.data # st.data) => v # NoValue /\ t.data.ver = v

(* An answer settles a call for the instance's input, keeps the input, and   *)
(* brings only data of its own version unless failures overwrite data.       *)
LEMMA ShownOK ==
    ASSUME NEW st \in Instance, NEW c \in CallType(version), NEW v \in -1 .. MaxVersion
    PROVE  Leaves(st, c, v, Shown(st, c, v))
<1> DEFINE d == CASE v # NoValue -> [key |-> c.key, ver |-> v]
                  [] v = NoValue /\ H.failData -> [key |-> c.key, ver |-> NoValue]
                  [] OTHER -> st.data
           e == CASE v = NoValue -> c.key
                  [] v # NoValue /\ H.okClears -> Nothing
                  [] OTHER -> st.error
           t == [st EXCEPT !.data = d, !.error = e, !.loading = FALSE]
<1>1. Shown(st, c, v) = t
  BY DEF Shown
<1>2. st.data \in Values \cup {Nothing} /\ st.error \in Keys \cup {NoKey, BadKey, Nothing}
  BY DEF Instance
<1>3. /\ [key |-> c.key, ver |-> v] \in Values /\ [key |-> c.key, ver |-> NoValue] \in Values
      /\ c.key # Nothing
  BY BoundsAssumption DEF CallType, Values, NoValue
<1>4. d \in Values \cup {Nothing}
  <2>1. \/ d = [key |-> c.key, ver |-> v] \/ d = [key |-> c.key, ver |-> NoValue] \/ d = st.data
    BY Zenon
  <2> HIDE DEF d
  <2> QED
    BY <1>2, <1>3, <2>1, Zenon
<1>5. e \in Keys \cup {NoKey, BadKey, Nothing}
  <2>1. e = c.key \/ e = Nothing \/ e = st.error
    BY Zenon
  <2>2. c.key \in Keys
    BY DEF CallType
  <2> HIDE DEF e
  <2> QED
    BY <1>2, <2>1, <2>2, Zenon
<1>6. (H.okClears /\ c.key = st.key) =>
        /\ e \in {Nothing, st.key}
        /\ \/ d \in {[key |-> c.key, ver |-> v], [key |-> c.key, ver |-> NoValue]}
           \/ e = c.key /\ ~H.failData
  BY <1>3
<1>7. (~H.failData /\ d # st.data) => v # NoValue /\ d = [key |-> c.key, ver |-> v]
  OBVIOUS
<1>8. /\ d = [key |-> c.key, ver |-> v] => d # Nothing /\ d.key = c.key /\ d.ver = v
      /\ d = [key |-> c.key, ver |-> NoValue] => d # Nothing /\ d.key = c.key
  BY <1>3, BoundsAssumption DEF Values
<1> HIDE DEF d, e
<1>9. /\ t \in Instance /\ SameInput(st, t) /\ t.req = st.req /\ t.loading = FALSE
      /\ t.data = d /\ t.error = e
  BY <1>4, <1>5 DEF Instance, SameInput
<1> HIDE DEF t
<1> QED
  BY <1>1, <1>6, <1>7, <1>8, <1>9 DEF Leaves, Settled, FailureKeepsData, SameInput

(* A promise settles.                                                        *)
LEMMA AnswerKeeps ==
    ASSUME ShowsItsInput, Answer
    PROVE  ShowsItsInput' /\ Timely
<1>1. RestOK /\ PageOK(Page, version) /\ Latest(Page, overlapped)
  BY TakenApart
<1>2. PICK c0 \in calls, v \in {NoValue} \cup 0 .. version :
        LET settled == {c \in calls : c.p = c0.p}
            mine(i) == {c \in settled : c.i = i}
            pass(i) == {c \in mine(i) : Passes(c)}
        IN  /\ v # NoValue => c0.at <= v
            /\ inst' = [i \in Instances |->
                    IF pass(i) # {} THEN Shown(inst[i], CHOOSE c \in pass(i) : TRUE, v)
                    ELSE IF Mounted(i) /\ \E c \in mine(i) : c.own
                    THEN [inst[i] EXCEPT !.loading = FALSE]
                    ELSE inst[i]]
            /\ calls' = calls \ settled
            /\ cache' = IF Shared /\ v # NoValue THEN [cache EXCEPT ![c0.key] = v] ELSE cache
            /\ inflight' = IF Shared THEN [inflight EXCEPT ![c0.key] = NoPromise] ELSE inflight
            /\ overlapped' = (overlapped \/ \E c \in settled : c.own /\ ~Passes(c))
            /\ UNCHANGED <<hook, submitter, n, renders, version, submitVars, announced>>
  BY DEF Answer
<1> DEFINE settled == {c \in calls : c.p = c0.p}
           late(c, i) == c.i = i /\ c.own /\ ~Passes(c)
<1>3. /\ v # NoValue => c0.at <= v
      /\ calls' = calls \ settled
      /\ cache' = cache \/ (v # NoValue /\ cache' = [cache EXCEPT ![c0.key] = v])
      /\ inflight' = inflight \/ inflight' = [inflight EXCEPT ![c0.key] = NoPromise]
      /\ overlapped' = (overlapped \/ \E c \in settled : c.own /\ ~Passes(c))
      /\ UNCHANGED <<hook, submitter, n, version, writes, submitted, announced>>
  BY <1>2 DEF submitVars
<1>4. ASSUME NEW i \in Instances
      PROVE  \/ \E c \in settled : c.i = i /\ Passes(c) /\ inst'[i] = Shown(inst[i], c, v)
             \/ /\ Mounted(i) /\ \E c \in settled : late(c, i)
                /\ inst'[i] = [inst[i] EXCEPT !.loading = FALSE]
             \/ inst'[i] = inst[i]
  <2> DEFINE mine == {c \in settled : c.i = i}
             pass == {c \in mine : Passes(c)}
             chosen == CHOOSE c \in pass : TRUE
  <2>1. inst'[i] = IF pass # {} THEN Shown(inst[i], chosen, v)
                   ELSE IF Mounted(i) /\ \E c \in mine : c.own
                   THEN [inst[i] EXCEPT !.loading = FALSE]
                   ELSE inst[i]
    BY <1>2
  <2>2. CASE pass # {}
    <3>1. chosen \in pass
      BY <2>2
    <3> HIDE DEF chosen
    <3> QED
      BY <2>1, <2>2, <3>1
  <2>3. CASE pass = {}
    BY <2>1, <2>3
  <2> QED
    BY <2>2, <2>3
<1> HIDE <1>2
<1>5. /\ Page.inst = inst /\ Page.calls = calls /\ inst \in [Instances -> Instance]
      /\ calls \subseteq CallType(version) /\ cache \in [Keys -> -1 .. version] /\ n \in Nat
      /\ inflight \in [Keys -> [p : Nat, at : 0 .. version]]
  BY <1>1 DEF Page, PageOK, PageType
<1>6. /\ version \in Nat /\ v \in -1 .. MaxVersion /\ v \in -1 .. version /\ c0.key \in Keys
      /\ NoPromise \in [p : Nat, at : 0 .. version] /\ NoPromise.p = 0 /\ NoPromise.at = 0
  <2>1. version \in Nat /\ MaxVersion \in Nat /\ version <= MaxVersion
    BY <1>1, BoundsAssumption DEF RestOK
  <2> QED
    BY <1>5, <2>1 DEF CallType, NoValue, NoPromise
<1>7. \A c \in settled : c \in calls /\ c \in CallType(version) /\ c.at = c0.at
  BY <1>1, <1>5 DEF PageOK, Kept, CallType
<1>8. ASSUME NEW i \in Instances
      PROVE  /\ inst'[i] \in Instance /\ SameInput(inst[i], inst'[i])
             /\ inst'[i].req = inst[i].req
  <2>1. inst[i] \in Instance
    BY <1>5
  <2>2. ASSUME NEW c \in settled, inst'[i] = Shown(inst[i], c, v)
        PROVE  /\ inst'[i] \in Instance /\ SameInput(inst[i], inst'[i])
               /\ inst'[i].req = inst[i].req
    <3>1. Leaves(inst[i], c, v, Shown(inst[i], c, v))
      BY <1>6, <1>7, <2>1, ShownOK
    <3> QED
      BY <2>2, <3>1 DEF Leaves
  <2>3. LET t == [inst[i] EXCEPT !.loading = FALSE]
        IN  t \in Instance /\ SameInput(inst[i], t) /\ t.req = inst[i].req
    BY <2>1 DEF Instance, SameInput
  <2> QED
    BY <1>4, <2>1, <2>2, <2>3 DEF SameInput
<1>9. inst' \in [Instances -> Instance]
  BY <1>2, <1>8
<1> DEFINE q == [inst |-> inst', calls |-> calls', cache |-> cache', inflight |-> inflight', n |-> n']
<1>10. q.inst = inst' /\ q.calls = calls' /\ q.inflight = inflight' /\ q.n = n /\ Become(q)
  BY <1>3 DEF Become
<1>11. PageOK(q, version')
  <2>1. cache' \in [Keys -> -1 .. version] /\ inflight' \in [Keys -> [p : Nat, at : 0 .. version]]
    BY <1>3, <1>5, <1>6
  <2>2. q \in PageType(version')
    BY <1>3, <1>5, <1>9, <2>1 DEF PageType
  <2>3. \A k \in Keys : inflight'[k] \in {inflight[k], NoPromise}
    BY <1>3, <1>5
  <2>4. /\ Kept(calls, inflight) /\ \A c \in calls : c.p \in 1 .. n
        /\ \A k \in Keys : inflight[k] = NoPromise \/ inflight[k].p \in 1 .. n
    BY <1>1 DEF PageOK, Page, Numbered
  <2>5. calls' \subseteq calls
    BY <1>3
  <2>6. \A c \in calls', k \in Keys : c.p = inflight'[k].p => c.at = inflight'[k].at
    BY <1>5, <1>6, <2>3, <2>4, <2>5 DEF Kept
  <2>7. \A k, m \in Keys : inflight'[k].p = inflight'[m].p => inflight'[k].at = inflight'[m].at
    <3>1. \A k \in Keys : inflight[k].p = 0 => inflight[k].at = 0
      BY <1>5, <1>6, <2>4
    <3> QED
      BY <1>6, <2>3, <2>4, <3>1 DEF Kept
  <2>8. Kept(calls', inflight')
    BY <2>4, <2>5, <2>6, <2>7 DEF Kept
  <2>9. Numbered(q)
    BY <1>10, <2>3, <2>4, <2>5 DEF Numbered
  <2> QED
    BY <1>10, <2>2, <2>8, <2>9 DEF PageOK
<1>12. ASSUME H.guard = "latest" PROVE Latest(q, overlapped')
  <2> DEFINE st == inst[1]
             t == inst'[1]
  <2>1. inst[2].life = "new" /\ Current(st, calls, overlapped)
    BY <1>1, <1>5, <1>12 DEF Latest
  <2>2. t \in Instance /\ SameInput(st, t) /\ t.req = st.req /\ inst'[2].life = inst[2].life
    BY <1>8 DEF Instances, SameInput
  <2>3. calls' \subseteq calls /\ H.okClears
    BY <1>1, <1>3, <1>12, HookFacts DEF RestOK, HookOK
  <2>4. Behind(t, calls') /\ (t.life = "new" => t.req = 0)
    BY <2>1, <2>2, <2>3 DEF Current, Behind, SameInput
  <2>5. overlapped => overlapped'
    BY <1>3, Zenon
  <2>6. Asked(t, overlapped') => Asked(st, overlapped)
    BY <2>2, <2>5 DEF Asked, Fetchable, SameInput
  <2>7. Asked(t, overlapped') => Known(t, calls')
    BY <2>1, <2>2, <2>3, <2>6 DEF Current, Known, SameInput
  <2>8. ASSUME Asked(t, overlapped'), ~t.loading PROVE Settled(t)
    <3>1. ASSUME NEW c \in settled, c.i = 1, Passes(c), t = Shown(st, c, v) PROVE Settled(t)
      <4>1. c.req = st.req
        BY <1>12, <3>1 DEF Passes
      <4>2. c.key = st.key
        BY <1>7, <2>1, <2>6, <2>8, <3>1, <4>1 DEF Current, Known
      <4>3. st \in Instance
        BY <1>5 DEF Instances
      <4>4. Leaves(st, c, v, Shown(st, c, v))
        BY <1>6, <1>7, <4>3, ShownOK
      <4> QED
        BY <2>3, <3>1, <4>2, <4>4 DEF Leaves
    <3>2. ~\E c \in settled : late(c, 1)
      <4>1. ~overlapped'
        BY <2>8 DEF Asked
      <4> QED
        BY <1>3, <4>1, Zenon
    <3>3. ASSUME t = st PROVE Settled(t)
      BY <2>1, <2>6, <2>8, <3>3 DEF Current
    <3>4. 1 \in Instances
      BY DEF Instances
    <3> HIDE DEF settled, late
    <3> QED
      BY <1>4, <3>1, <3>2, <3>3, <3>4
  <2>9. ASSUME Away(t)
        PROVE  /\ \A c \in calls' : c.req # t.req
               /\ t.data = Nothing /\ t.error = Nothing /\ ~t.loading
    <3>1. Away(st)
      BY <2>2, <2>9 DEF Away, SameInput
    <3>2. /\ \A c \in calls : c.req # st.req
          /\ st.data = Nothing /\ st.error = Nothing /\ ~st.loading
      BY <2>1, <3>1 DEF Current
    <3>3. ~\E c \in settled : c.i = 1 /\ Passes(c) /\ t = Shown(st, c, v)
      BY <1>7, <1>12, <3>2 DEF Passes
    <3>4. t = [st EXCEPT !.loading = FALSE] \/ t = st
      BY <1>4, <3>3 DEF Instances
    <3>5. st \in Instance
      BY <1>5 DEF Instances
    <3>6. t.data = st.data /\ t.error = st.error /\ (t.loading = FALSE \/ t.loading = st.loading)
      BY <3>4, <3>5 DEF Instance
    <3> QED
      BY <2>2, <2>3, <3>2, <3>6
  <2>10. Current(t, calls', overlapped')
    BY <2>4, <2>7, <2>8, <2>9 DEF Current
  <2> QED
    BY <1>10, <2>1, <2>2, <2>10 DEF Latest
<1>13. Latest(q, overlapped')
  BY <1>12 DEF Latest
<1>14. RestOK'
  BY <1>1, <1>3, RestKept
<1> HIDE DEF q
<1>15. ShowsItsInput'
  BY <1>3, <1>10, <1>11, <1>13, <1>14, Becomes
<1>16. ForcedIsFresh
  <2> SUFFICES ASSUME H.cache = "evict", NEW c \in calls \ calls', NEW i \in Instances, i = c.i,
                      inst'[i].data # inst[i].data
               PROVE  inst'[i].data.ver >= c.due
    BY DEF ForcedIsFresh
  <2>1. c \in settled /\ c.at = c0.at
    BY <1>3, <1>7
  <2>2. inst[i] \in Instance /\ c0.at \in Int /\ c.at \in Int /\ c.due \in Int /\ v \in Int
    BY <1>5, <1>6 DEF CallType
  <2>3. ~H.failData
    BY <1>1, HookFacts DEF RestOK, HookOK
  <2>4. inst'[i] # inst[i] /\ inst'[i] # [inst[i] EXCEPT !.loading = FALSE]
    BY <2>2 DEF Instance
  <2>5. PICK d \in settled : inst'[i] = Shown(inst[i], d, v)
    BY <1>4, <2>4
  <2>6. v # NoValue /\ inst'[i].data.ver = v
    <3>1. Leaves(inst[i], d, v, Shown(inst[i], d, v))
      BY <1>6, <1>7, <2>2, ShownOK
    <3> QED
      BY <2>3, <2>5, <3>1 DEF Leaves
  <2>7. c.due <= c.at
    BY <1>1, <1>5 DEF PageOK, Kept
  <2> QED
    BY <1>3, <2>1, <2>2, <2>6, <2>7
<1>17. QuietAfterUnmount
  <2> SUFFICES ASSUME NEW i \in Instances, H.guard # "none", inst[i].life = "gone"
               PROVE  inst'[i] = inst[i]
    BY DEF QuietAfterUnmount
  <2>1. ~Mounted(i)
    BY DEF Mounted
  <2>2. H.guard \in {"latest", "mounted", "none"}
    BY <1>1, HookFacts DEF RestOK, HookOK
  <2>3. \A c \in settled : c.i = i => ~Passes(c)
    BY <2>1, <2>2 DEF Passes
  <2> QED
    BY <1>4, <2>1, <2>3
<1> QED
  BY <1>15, <1>16, <1>17 DEF Timely

-----------------------------------------------------------------------------
(* The theorems.                                                             *)

(* Every step keeps what the hooks show right, and is timely.                *)
LEMMA StepKeeps == ShowsItsInput /\ [Next]_vars => ShowsItsInput' /\ (Timely \/ UNCHANGED vars)
<1> SUFFICES ASSUME ShowsItsInput, [Next]_vars
             PROVE  ShowsItsInput' /\ (Timely \/ UNCHANGED vars)
  OBVIOUS
<1>1. ASSUME NEW i \in Instances, Mount(i) PROVE ShowsItsInput' /\ Timely
  BY <1>1, MountKeeps
<1>2. ASSUME NEW i \in Instances, Refetch(i) PROVE ShowsItsInput' /\ Timely
  BY <1>2, RefetchKeeps
<1>3. CASE Render(1)
  BY <1>3, RenderKeeps
<1>4. CASE Unmount(1)
  BY <1>4, UnmountKeeps
<1>5. CASE incrementSequence(1)
  BY <1>5, IncrementKeeps
<1>6. CASE Answer
  BY <1>6, AnswerKeeps
<1>7. CASE Start
  BY <1>7, StartKeeps
<1>8. CASE Settle
  BY <1>8, SettleKeeps
<1>9. CASE approveAndRefetch
  BY <1>9, ApproveKeeps
<1>10. CASE approveSettles
  BY <1>10, ApproveSettlesKeeps
<1>11. CASE UNCHANGED vars
  <2>1. RestOK /\ PageOK(Page, version) /\ Latest(Page, overlapped)
    BY TakenApart
  <2>2. UNCHANGED <<hook, submitter, version, writes, submitted, announced, overlapped>> /\ Become(Page)
    BY <1>11 DEF vars, submitVars, Become, Page
  <2>3. RestOK'
    BY <2>1, <2>2, RestKept
  <2> QED
    BY <1>11, <2>1, <2>2, <2>3, Becomes
<1> QED
  BY <1>1, <1>2, <1>3, <1>4, <1>5, <1>6, <1>7, <1>8, <1>9, <1>10, <1>11 DEF Next

(* The hooks start with nothing to show.                                     *)
LEMMA InitShows == Init => ShowsItsInput
<1> SUFFICES ASSUME Init PROVE ShowsItsInput
  OBVIOUS
<1>1. PICK pair \in Pairs : hook = pair[1] /\ submitter = pair[2]
  BY DEF Init
<1>2. hook \in DOMAIN Table /\ submitter \in DOMAIN Submitters
  BY <1>1, PairsAssumption
<1>3. /\ inst = [i \in Instances |-> Unmounted] /\ calls = {} /\ n = 0 /\ version = 0
      /\ cache = [k \in Keys |-> NoValue] /\ inflight = [k \in Keys |-> NoPromise]
      /\ writes = {} /\ submitted = 0 /\ announced = 0
  BY DEF Init
<1>4. RestOK
  BY <1>2, <1>3, FS_EmptySet, BoundsAssumption DEF RestOK
<1>5. Unmounted \in Instance /\ Unmounted.life = "new" /\ Unmounted.req = 0
  BY DEF Unmounted, Instance
<1>6. PageOK(Page, version)
  <2>1. Page \in PageType(version)
    BY <1>3, <1>5 DEF Page, PageType, NoPromise, NoValue
  <2>2. Numbered(Page) /\ Kept(Page.calls, Page.inflight)
    BY <1>3 DEF Page, Numbered, Kept
  <2> QED
    BY <2>1, <2>2 DEF PageOK
<1>7. Latest(Page, overlapped)
  BY <1>3, <1>5 DEF Latest, Page, Current, Behind, Asked, Away, Instances
<1> QED
  BY <1>4, <1>6, <1>7, TakenApart

(* ShowsItsInput, for every set of keys, every pairing and every bound: a    *)
(* hook that numbers its requests settles on data and error of its present   *)
(* input in whatever order answers come, unless the fetch failed and its     *)
(* failures keep the data, or an approveAndRefetch overlapped; and a         *)
(* disconnected balance hook shows nothing.                                  *)
THEOREM HooksShowTheirInput == Spec => []ShowsItsInput
BY InitShows, StepKeeps, PTL DEF Spec

(* AnswersAreTimely: a forced metadata fetch is never answered with a state  *)
(* older than the request, and a hook that tracks mounting is never written  *)
(* to after its component is gone.                                           *)
THEOREM AnswersComeInTime == Spec => AnswersAreTimely
<1>1. ShowsItsInput /\ [Next]_vars => [ForcedIsFresh /\ QuietAfterUnmount]_vars
  BY StepKeeps DEF Timely
<1> QED
  BY <1>1, HooksShowTheirInput, PTL DEF Spec, AnswersAreTimely
=============================================================================
