------------------------------- MODULE Wallet -------------------------------
(***************************************************************************)
(* The provider side of the React package: the network switch of           *)
(* BcForgeProvider, which builds a new client for every network, and the   *)
(* wallet machine of WalletProvider, whose connect, disconnect and silent  *)
(* reconnect run concurrently over one connectAttempt counter, one         *)
(* activeAdapter reference and one stored session.  Every connect call     *)
(* makes its own adapter object, so an adapter is named by the number of   *)
(* its attempt.  The steps of a call between two awaits are one action.    *)
(***************************************************************************)
EXTENDS Naturals, Sequences

CONSTANTS
    Networks,     \* the selectable networks
    Home,         \* the network of the provider's config
    NONE,         \* no session, no reported network, nothing selected
    Pages,        \* the kinds of page: restoreSession, storage, hardware probe,
                  \* earlier visits, other tabs, and how many events are looked at
    Remembered,   \* the sessions an earlier visit or another tab may store
    MaxEvents     \* bound on what the user and the browser do

ASSUME HomeAssumption == Home \in Networks /\ NONE \notin Networks

WALLET_NAMES == {"freighter", "albedo"}
AllPages == [restore : BOOLEAN, storage : {"works", "blocked", "full"},
             probes : BOOLEAN, outside : BOOLEAN, events : 0..MaxEvents]
AllSessions == [wallet : WALLET_NAMES, net : Networks]

ASSUME PagesAssumption == Pages \subseteq AllPages
ASSUME RememberedAssumption == Remembered \subseteq AllSessions
ASSUME EventsAssumption == MaxEvents \in Nat

(* One event makes at most one call and at most one client, and the first   *)
(* render one call more.                                                    *)
MaxAttempts == MaxEvents + 1
MaxClients == MaxEvents + 1

VARIABLES
    env,        \* the page: restoreSession, its storage, the hardware probe
    nets,       \* nets[g] is the network of the g-th client; the last is current
    chosen,     \* selectedNetworkId
    signer,     \* signer[g]: the adapter held by the g-th token and vault client
    attempt,    \* connectAttempt
    task,       \* task[a]: where the connect call with attempt a stands
    adapter,    \* adapter[a]: the adapter object that call made
    active,     \* activeAdapter
    machine,    \* the reducer's state
    session,    \* the remembered session, as loadWalletSession reads it
    restoring,
    due,        \* the reconnect effect has been scheduled and not run
    script,     \* the Albedo intent script
    watched,    \* a reconnect waits to hear whether that script failed
    extension,  \* the Freighter global is usable
    available,  \* the wallets the page lists as installed
    waiting,    \* connectWallet calls waiting for the script: their clients
    quit,       \* ghost: the user disconnected and asked for nothing since
    crossed,    \* ghost: how a call went on out of turn since the last connect
                \* or disconnect of the current client (below)
    events      \* what the user and the browser may still do

walletVars == <<env, nets, chosen, signer, attempt, task, adapter,
                active, machine, session, restoring, due, script,
                watched, extension, available, waiting, quit, crossed, events>>

pageVars == <<env, nets, chosen>>

-----------------------------------------------------------------------------
(* Browser storage and wallet detection.                                    *)

gen == Len(nets)
Scrubbed == [connected |-> FALSE, key |-> FALSE, net |-> NONE]

(* A write into a full storage fails, and the old value is what is read.    *)
writeStoredValue(old, new) == IF env.storage = "full" THEN old ELSE new

(* What survives a reload: the storage, and never the in-memory fallback.   *)
Kept(value) == IF env.storage = "blocked" THEN NONE ELSE value

isFreighterInstalled == extension
isAlbedoAvailable == script = "ready"

detectWallets ==
    [freighter |-> isFreighterInstalled, albedo |-> isAlbedoAvailable,
     loadFailed |-> script = "failed"]

usableNow(w) == IF w = "freighter" THEN isFreighterInstalled ELSE isAlbedoAvailable

(* A stored value changed: with restoreSession the provider listens and     *)
(* probes the wallets again.                                                *)
Notified == IF env.restore THEN detectWallets ELSE available

(* One load is in flight at a time; a failed tag is not retried.            *)
loadAlbedoScript == IF script = "absent" THEN "loading" ELSE script

-----------------------------------------------------------------------------
disconnectedState == [status |-> "disconnected", adapter |-> 0, wallet |-> NONE]

walletReducer(type, w, a) ==
    CASE type = "disconnected" -> disconnectedState
      [] type = "connecting"   -> [status |-> type, adapter |-> 0, wallet |-> w]
      [] OTHER                 -> [status |-> type, adapter |-> a, wallet |-> w]

(* The first adapter a call finds to take over.                             *)
Previous ==
    IF active # 0 THEN active
    ELSE IF machine.adapter # 0 THEN machine.adapter ELSE signer[gen]

(* useWallet: the state a component renders from.                           *)
useWallet ==
    LET shown == IF machine.adapter # 0 THEN machine.adapter
                 ELSE IF machine.status = "disconnected" THEN signer[gen] ELSE 0
        net   == IF shown = 0 THEN NONE ELSE adapter[shown].net
    IN  IF machine.status \in {"connecting", "error", "wrong-network"}
        THEN machine.status
        ELSE IF shown # 0 /\ adapter[shown].connected /\ adapter[shown].key
        THEN IF net \notin {NONE, nets[gen]} THEN "wrong-network" ELSE "connected"
        ELSE "disconnected"

NoTask == [at |-> "none", wallet |-> NONE, gen |-> 0, via |-> "none", usable |-> FALSE]

WalletInit ==
    /\ env \in Pages
    /\ nets = <<Home>> /\ chosen = NONE
    /\ signer = [g \in 1..MaxClients |-> 0]
    /\ attempt = 0 /\ active = 0
    /\ task = [a \in 1..MaxAttempts |-> NoTask]
    /\ adapter = [a \in 1..MaxAttempts |-> Scrubbed]
    /\ machine = disconnectedState
    /\ session \in {NONE} \union
                  IF env.outside /\ env.storage = "works" THEN Remembered ELSE {}
    /\ restoring = env.restore /\ due = env.restore
    /\ script = "absent" /\ watched = FALSE
    /\ extension \in IF env.outside THEN BOOLEAN ELSE {TRUE}
    /\ available = detectWallets
    /\ waiting = <<>>
    /\ quit = FALSE /\ crossed = {}
    /\ events = env.events

-----------------------------------------------------------------------------
(* A call with the g-th client and attempt a goes on out of turn: its       *)
(* client was replaced by a network switch, or a newer call overtook it     *)
(* during its hardware probe.  Neither is looked at again before the call   *)
(* writes.                                                                  *)
Crossed(g, a) ==
    crossed \union (IF g = gen THEN {} ELSE {"client"})
            \union (IF a = attempt THEN {} ELSE {"probe"})

(* Mutant: the signers of the former wallet stay set while connecting.      *)
connectMutant(w, g, via, asked) ==
    /\ attempt' = attempt + 1
    /\ active' = attempt + 1
    /\ UNCHANGED signer
    /\ machine' = walletReducer("connecting", w, 0)
    /\ task' = [task EXCEPT ![attempt + 1] =
                   [at |-> "connect", wallet |-> w, gen |-> g, via |-> via,
                    usable |-> usableNow(w)]]
    /\ quit' = (quit /\ ~asked)
    /\ crossed' = (IF g = gen THEN {} ELSE crossed \union {"client"})
                     \union (IF quit /\ ~asked THEN {"script"} ELSE {})

(* connect: the call takes the next attempt number, unsets the signers of   *)
(* the client its closure holds and waits for adapter.connect().  It is     *)
(* either asked for now, or one that was asked for before it waited for the *)
(* Albedo script: that one does not look whether the user disconnected      *)
(* meanwhile.                                                               *)
connect(w, g, via, asked) ==
    /\ attempt' = attempt + 1
    /\ active' = attempt + 1
    /\ signer' = [signer EXCEPT ![g] = 0]
    /\ machine' = walletReducer("connecting", w, 0)
    /\ task' = [task EXCEPT ![attempt + 1] =
                   [at |-> "connect", wallet |-> w, gen |-> g, via |-> via,
                    usable |-> usableNow(w)]]
    /\ quit' = (quit /\ ~asked)
    /\ crossed' = (IF g = gen THEN {} ELSE crossed \union {"client"})
                     \union (IF quit /\ ~asked THEN {"script"} ELSE {})

(* What happens when the call with attempt a returns to its caller.         *)
Returned(a) ==
    /\ task' = [task EXCEPT ![a] = [NoTask EXCEPT !.at = "ended"]]
    /\ restoring' = IF task[a].via = "restore" /\ task[a].gen = gen
                    THEN FALSE ELSE restoring

(* The end of a successful call, reached without another look at attempt.   *)
Attach(a) ==
    /\ signer' = [signer EXCEPT ![task[a].gen] = a]
    /\ session' = writeStoredValue(session,
                     [wallet |-> task[a].wallet, net |-> nets[task[a].gen]])
    /\ machine' = walletReducer("connected", task[a].wallet, a)
    /\ crossed' = Crossed(task[a].gen, a)
    /\ Returned(a)

(* Mutant: the failure handler returns without a dispatch.                  *)
FailedMutant(a) ==
    /\ signer' = [signer EXCEPT ![task[a].gen] = 0]
    /\ active' = a
    /\ session' = NONE
    /\ UNCHANGED machine
    /\ crossed' = Crossed(task[a].gen, a)
    /\ Returned(a)

(* The catch block of the attempt that is still the current one.            *)
Failed(a) ==
    /\ signer' = [signer EXCEPT ![task[a].gen] = 0]
    /\ active' = a
    /\ session' = NONE
    /\ machine' = walletReducer("error", task[a].wallet, a)
    /\ crossed' = Crossed(task[a].gen, a)
    /\ Returned(a)

WrongNetwork(a) ==
    /\ signer' = [signer EXCEPT ![task[a].gen] = 0]
    /\ session' = writeStoredValue(session,
                     [wallet |-> task[a].wallet, net |-> nets[task[a].gen]])
    /\ machine' = walletReducer("wrong-network", task[a].wallet, a)
    /\ crossed' = Crossed(task[a].gen, a)
    /\ Returned(a)

(* connectWallet looks again when its call ends; every other end is noticed *)
(* by the session it writes or clears, which a superseded call does not.    *)
listed(a) ==
    IF task[a].via = "connectWallet" THEN detectWallets
    ELSE IF a = attempt \/ task[a].at = "probe" THEN Notified ELSE available

(* adapter.connect() throws.                                                *)
Rejected(a) ==
    /\ task[a].at = "connect"
    /\ IF a = attempt
       THEN Failed(a)
       ELSE Returned(a) /\ UNCHANGED <<signer, active, session, machine, crossed>>
    /\ available' = listed(a)
    /\ UNCHANGED <<pageVars, attempt, adapter, due, script, watched,
                   extension, waiting, quit, events>>

(* adapter.connect() answers with an account on network n, or an account    *)
(* that reports no network.                                                 *)
Answered(a, n) ==
    /\ task[a].at = "connect" /\ task[a].usable
    /\ adapter' = [adapter EXCEPT ![a] =
                      IF a # attempt THEN Scrubbed
                      ELSE [connected |-> TRUE, key |-> TRUE, net |-> n]]
    /\ IF a # attempt
       THEN Returned(a) /\ UNCHANGED <<signer, session, machine, crossed>>
       ELSE IF n \notin {NONE, nets[task[a].gen]}
       THEN WrongNetwork(a)
       ELSE IF task[a].wallet = "freighter" /\ env.probes
       THEN /\ task' = [task EXCEPT ![a].at = "probe"]
            /\ UNCHANGED <<signer, session, machine, crossed, restoring>>
       ELSE Attach(a)
    /\ available' = IF task'[a].at = "ended" THEN listed(a) ELSE available
    /\ UNCHANGED <<pageVars, attempt, active, due, script, watched,
                   extension, waiting, quit, events>>

(* The hardware probe answers or throws: either way the call goes on.       *)
Probed(a) ==
    /\ task[a].at = "probe"
    /\ Attach(a)
    /\ available' = listed(a)
    /\ UNCHANGED <<pageVars, attempt, adapter, active, due, script,
                   watched, extension, waiting, quit, events>>

-----------------------------------------------------------------------------
(* The reconnect effect: it runs before any other event, on the first       *)
(* render and whenever the client was rebuilt.                              *)
isSessionWalletUsable(w) == w = "albedo" \/ isFreighterInstalled

Restore ==
    /\ due /\ due' = FALSE
    /\ IF session # NONE /\ isSessionWalletUsable(session.wallet)
       THEN /\ connect(session.wallet, gen, "restore", TRUE)
            /\ script' = IF session.wallet = "albedo" THEN loadAlbedoScript ELSE script
            /\ watched' = (watched \/ (session.wallet = "albedo" /\ script' = "loading"))
            /\ UNCHANGED <<session, restoring, available>>
       ELSE /\ session' = NONE /\ restoring' = FALSE
            /\ available' = IF session = NONE THEN available ELSE Notified
            /\ UNCHANGED <<attempt, active, signer, machine, task, script,
                           watched, quit, crossed>>
    /\ UNCHANGED <<pageVars, adapter, extension, waiting,
                   events>>

(* The script loads, fails or runs out of its time.  A reconnect that       *)
(* waited for it forgets the session if nothing is connected by then.       *)
ScriptSettles ==
    /\ script = "loading" /\ ~due
    /\ script' \in {"ready", "failed"}
    /\ watched' = FALSE
    /\ session' = IF watched /\ script' = "failed" /\ machine.status = "disconnected"
                  THEN NONE ELSE session
    /\ UNCHANGED <<pageVars, signer, attempt, task, adapter, active, machine,
                   restoring, due, extension, available, waiting,
                   quit, crossed, events>>

(* A connectWallet call goes on once the script has settled.                *)
Resume ==
    /\ script # "loading" /\ waiting # <<>> /\ ~due
    /\ connect("albedo", Head(waiting), "connectWallet", FALSE)
    /\ waiting' = Tail(waiting)
    /\ UNCHANGED <<pageVars, adapter, session, restoring, due, script,
                   watched, extension, available, events>>

-----------------------------------------------------------------------------
(* Events: only when no callback is due.                                    *)
Event ==
    /\ ~due /\ (script = "loading" \/ waiting = <<>>)
    /\ events > 0 /\ events' = events - 1

(* The stored preference it also writes is read by the wallet dialog only.  *)
connectWallet(w) ==
    /\ Event
    /\ machine.status # "connecting"
    /\ available' = Notified
    /\ IF w = "albedo" /\ ~isAlbedoAvailable
       THEN /\ script' = loadAlbedoScript
            /\ waiting' = Append(waiting, gen)
            /\ quit' = FALSE
            /\ UNCHANGED <<attempt, active, signer, machine, task, crossed>>
       ELSE connect(w, gen, "connectWallet", TRUE) /\ UNCHANGED <<script, waiting>>
    /\ UNCHANGED <<pageVars, adapter, session, restoring, due, watched, extension>>

(* The connect of the hook's result, called directly.                       *)
connectNow(w) ==
    /\ Event
    /\ connect(w, gen, "connect", TRUE)
    /\ UNCHANGED <<pageVars, adapter, session, restoring, due, script,
                   watched, extension, available, waiting>>

(* Mutant: disconnect leaves connectAttempt alone.                          *)
disconnectMutant ==
    /\ Event
    /\ adapter' = IF Previous = 0 THEN adapter ELSE [adapter EXCEPT ![Previous] = Scrubbed]
    /\ active' = 0
    /\ signer' = [signer EXCEPT ![gen] = 0]
    /\ machine' = walletReducer("disconnected", NONE, 0)
    /\ session' = NONE
    /\ available' = Notified
    /\ quit' = TRUE /\ crossed' = {}
    /\ UNCHANGED <<pageVars, attempt, task, restoring, due, script,
                   watched, extension, waiting>>

disconnect ==
    /\ Event
    /\ attempt' = attempt + 1
    /\ adapter' = IF Previous = 0 THEN adapter ELSE [adapter EXCEPT ![Previous] = Scrubbed]
    /\ active' = 0
    /\ signer' = [signer EXCEPT ![gen] = 0]
    /\ machine' = walletReducer("disconnected", NONE, 0)
    /\ session' = NONE
    /\ available' = Notified
    /\ quit' = TRUE /\ crossed' = {}
    /\ UNCHANGED <<pageVars, task, restoring, due, script, watched,
                   extension, waiting>>

(* setNetwork: an unknown id only sets the switch error and the selected    *)
(* one changes nothing; another network rebuilds the clients, without their *)
(* signers, and reruns the reconnect effect.                                *)
setNetwork(id) ==
    /\ Event
    /\ id # chosen
    /\ chosen' = id
    /\ nets' = Append(nets, id)
    /\ due' = env.restore
    /\ UNCHANGED <<env, signer, attempt, task, adapter, active, machine, session,
                   restoring, script, watched, extension, available, waiting,
                   quit, crossed>>

(* The page is reloaded: only what the storage holds survives.              *)
Reload ==
    /\ Event /\ env.outside
    /\ nets' = <<Home>> /\ chosen' = NONE
    /\ signer' = [g \in 1..MaxClients |-> 0]
    /\ attempt' = 0 /\ active' = 0
    /\ task' = [a \in 1..MaxAttempts |-> NoTask]
    /\ adapter' = [a \in 1..MaxAttempts |-> Scrubbed]
    /\ machine' = disconnectedState
    /\ session' = Kept(session)
    /\ restoring' = env.restore /\ due' = env.restore
    /\ script' = "absent" /\ watched' = FALSE
    /\ available' = [freighter |-> extension, albedo |-> FALSE, loadFailed |-> FALSE]
    /\ waiting' = <<>>
    /\ quit' = FALSE /\ crossed' = {}
    /\ UNCHANGED <<env, extension>>

(* The extension injects its global late, after the first probe.            *)
ExtensionInjected ==
    /\ Event /\ env.outside
    /\ ~extension /\ extension' = TRUE
    /\ UNCHANGED <<pageVars, signer, attempt, task, adapter, active, machine,
                   session, restoring, due, script, watched,
                   available, waiting, quit, crossed>>

(* Another tab of the same origin writes or clears the session.             *)
OtherTab ==
    /\ Event
    /\ env.outside /\ env.storage = "works"
    /\ session' \in {NONE} \union Remembered
    /\ available' = Notified
    /\ quit' = FALSE
    /\ UNCHANGED <<pageVars, signer, attempt, task, adapter, active, machine,
                   restoring, due, script, watched, extension,
                   waiting, crossed>>

(* What the wallets, the script and the event loop do.                      *)
WalletAnswers ==
    \/ \E a \in 1..MaxAttempts :
          /\ ~due
          /\ \/ Rejected(a)
             \/ \E n \in Networks \union {NONE} : Answered(a, n)
             \/ Probed(a)
    \/ Restore
    \/ ScriptSettles
    \/ Resume

WalletEvents ==
    \/ \E w \in WALLET_NAMES : connectWallet(w) \/ connectNow(w)
    \/ disconnect
    \/ \E id \in Networks : setNetwork(id)
    \/ Reload
    \/ ExtensionInjected
    \/ OtherTab

-----------------------------------------------------------------------------
Task == [at : {"none", "connect", "probe", "ended"}, wallet : WALLET_NAMES \union {NONE},
         gen : 0..MaxClients, via : {"none", "connect", "connectWallet", "restore"},
         usable : BOOLEAN]

Adapter == [connected : BOOLEAN, key : BOOLEAN, net : Networks \union {NONE}]

Machine == [status : {"disconnected", "connecting", "connected", "wrong-network", "error"},
            adapter : 0..MaxAttempts, wallet : WALLET_NAMES \union {NONE}]

(* The last two conjuncts say why the bounds are never met: what is still   *)
(* to come, with the calls that wait, has numbers left.                      *)
WalletTypeOK ==
    /\ env \in Pages
    /\ nets \in Seq(Networks) /\ gen \in 1..MaxClients
    /\ chosen \in Networks \union {NONE}
    /\ signer \in [1..MaxClients -> 0..MaxAttempts]
    /\ attempt \in 0..MaxAttempts /\ active \in 0..MaxAttempts
    /\ task \in [1..MaxAttempts -> Task]
    /\ adapter \in [1..MaxAttempts -> Adapter]
    /\ \A a \in 1..MaxAttempts : a > attempt => task[a] = NoTask
    /\ machine \in Machine
    /\ session \in AllSessions \union {NONE}
    /\ script \in {"absent", "loading", "ready", "failed"}
    /\ restoring \in BOOLEAN /\ due \in BOOLEAN /\ watched \in BOOLEAN
    /\ extension \in BOOLEAN /\ quit \in BOOLEAN
    /\ available \in [freighter : BOOLEAN, albedo : BOOLEAN, loadFailed : BOOLEAN]
    /\ waiting \in Seq(1..gen)
    /\ crossed \subseteq {"probe", "client", "script"}
    /\ events \in Nat
    /\ attempt + Len(waiting) + (IF due THEN 1 ELSE 0) + events <= MaxAttempts
    /\ gen + events <= MaxClients

listedNow(w) == IF w = "freighter" THEN available.freighter ELSE available.albedo

UnderWay(a) == task[a].at \in {"connect", "probe"}

(* What the calls know: one under way goes on with a client that was made,  *)
(* and a wallet found usable stays so; one that waits for its probe has an  *)
(* adapter of its client's network, still connected if no call or           *)
(* disconnect came after it.  Clients yet to be made have no signer, a      *)
(* signer is the adapter of a call that ended, and until a call goes on out *)
(* of turn the current signer is the adapter the machine shows; with        *)
(* restoreSession the wallet the machine shows as connected is usable and   *)
(* listed.                                                                  *)
CallsKnowTheirClient ==
    /\ \A g \in 1..MaxClients : g > gen => signer[g] = 0
    /\ \A g \in 1..MaxClients : signer[g] # 0 => task[signer[g]].at = "ended"
    /\ \A a \in 1..MaxAttempts : UnderWay(a) =>
          /\ task[a].gen \in 1..gen /\ task[a].wallet \in WALLET_NAMES
          /\ task[a].usable => usableNow(task[a].wallet)
    /\ \A a \in 1..MaxAttempts : task[a].at = "probe" =>
          /\ task[a].usable
          /\ adapter[a].connected => adapter[a].net \in {NONE, nets[task[a].gen]}
          /\ a = attempt => adapter[a].connected /\ adapter[a].key
    /\ (signer[gen] # 0 /\ crossed \intersect {"probe", "client"} = {}) =>
          /\ machine.status = "connected" /\ machine.adapter = signer[gen]
          /\ adapter[signer[gen]].connected /\ adapter[signer[gen]].key
    /\ (env.restore /\ machine.status = "connected") =>
          usableNow(machine.wallet) /\ listedNow(machine.wallet)

(* No client ever holds an adapter that reports another network: what a     *)
(* write hook signs is meant for the network it is sent to, whatever        *)
(* switches, answers and probes overlap (context.tsx 908-926, 951).         *)
SignersOnTheirNetwork ==
    \A g \in 1..gen :
        LET a == signer[g]
        IN  (a # 0 /\ adapter[a].connected) => adapter[a].net \in {NONE, nets[g]}

(* The current client holds a signer only while the page shows a connected  *)
(* wallet: nothing can be signed behind a "disconnected", "connecting" or   *)
(* "error" screen, unless since the last connect or disconnect of that      *)
(* client a call went on out of turn: a superseded one whose hardware probe *)
(* answered (context.tsx 928-951), or one of a client that a network switch *)
(* replaced, which writes the machine and the session of the page but the   *)
(* signers of its own client (context.tsx 882, 951, 996).                   *)
NoHiddenSigner ==
    (signer[gen] # 0 /\ crossed \intersect {"probe", "client"} = {}) =>
        useWallet = "connected"

(* After a disconnect, and until something new is asked for, no late        *)
(* answer brings the wallet, its signer or the session back, with two       *)
(* exceptions: the answer of a hardware probe (context.tsx 928-954), and a  *)
(* connectWallet that waited for the Albedo script when the user            *)
(* disconnected, which goes on to connect (context.tsx 994-996).  But for   *)
(* the second, no call under way has the current number any more.           *)
DisconnectHolds ==
    quit =>
        /\ crossed \intersect {"probe", "script"} = {} =>
              machine.status = "disconnected" /\ signer[gen] = 0 /\ session = NONE
        /\ "script" \notin crossed => attempt # 0 /\ ~UnderWay(attempt)

(* A wallet the page shows as connected is one it lists as installed, with  *)
(* restoreSession: every end of a connect refreshes the list, however late  *)
(* the extension or the script arrived.                                     *)
ConnectedIsListed ==
    (env.restore /\ useWallet = "connected" /\ machine.status = "connected"
        /\ env.storage # "full") =>
        listedNow(machine.wallet)

(* The machine does not stay in "connecting": whatever overlaps, the last   *)
(* attempt reports, once the wallets answer.                                *)
ConnectingEnds == (machine.status = "connecting") ~> (machine.status # "connecting")

(* The restoring flag falls, whether the session connects, is refused, is   *)
(* superseded or the provider is rebuilt in between.                        *)
RestoringEnds == restoring ~> ~restoring
=============================================================================
