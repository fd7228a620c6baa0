-------------------------------- MODULE Cli --------------------------------
(***************************************************************************)
(* The bc-forge command line (src/cli/src) and the RBAC migration script   *)
(* (src/migrations/rbac-migration.ts): operators' processes that read and  *)
(* write the same files and send transactions to the same contract.        *)
(*                                                                         *)
(* A process runs one command at a time.  Between two awaits, and between  *)
(* two system calls on a file, every other process may run; a process may  *)
(* be killed at any of these points.  files holds the documents of CliDocs *)
(* and the upgrade history; chain is what the network has applied; pool    *)
(* holds, per account, the transaction that was sent and has neither been  *)
(* applied nor dropped.  told, owed and spoiled are history variables for  *)
(* the properties: the chain facts that successful commands reported, the  *)
(* contents that the completed writes of a document add up to, and the     *)
(* documents of which two writers overlapped, or whose writer was killed.  *)
(*                                                                         *)
(* chain.serves is the set of calls that the contracts the operators name  *)
(* accept, with the arguments the command line gives them.  Any contract   *)
(* id may be named; OwnCalls are the calls that the contracts of this      *)
(* repository accept, and they are not all that the commands make: nothing *)
(* under contracts/ exports has_admin, migrate_admin, set_admin_contract,  *)
(* set_token or set_fee_contract, the Role of has_role is a union where    *)
(* the callers send a symbol, and upgrade takes two arguments, not one.    *)
(*                                                                         *)
(* External, modelled from their use: the network (a second transaction of *)
(* an account whose first is still queued is not queued) and the stellar   *)
(* binary that deploy spawns.                                              *)
(***************************************************************************)
EXTENDS CliDocs

CONSTANTS Procs,       \* operators' processes
          Accounts,    \* accounts whose keys the operators hold
          Hashes,      \* WASM hashes
          Given,       \* the contracts that each process's command lines name to connect
          Named,       \* the ids that command lines give to export-deployments
          Scenarios    \* what the operators may do: a menu of commands, with bounds on
                       \* the commands started (re-run migrations apart), on the failed,
                       \* lost or dropped answers, and on the processes killed; and the
                       \* calls that the contracts accept

VARIABLES menu, left, files, chain, pool, proc, told, owed, spoiled
vars == <<menu, left, files, chain, pool, proc, told, owed, spoiled>>

Files == Documents \cup {"history"}

\* Commands that write a document, and which one.
Target == [register |-> "registry", export |-> "registry", deploy |-> "registry",
           initSuperAdmin |-> "config", connect |-> "config", orchestrate |-> "config",
           accountAdd |-> "book", accountRemove |-> "book", upgrade |-> "history"]
Commands == DOMAIN Target \cup {"resolve", "rollback", "smokeTest", "migrate", "dryRun",
                                "multisig", "pause"}

Args(c) ==
  CASE c \in {"register", "resolve"} -> Aliases
    [] c \in {"accountAdd", "accountRemove"} -> Names
    [] c = "upgrade" -> Hashes
    [] c = "rollback" -> {None}
    [] c = "deploy" -> {"vault", "vaultAndFee", "dryRun"}
    [] c = "export" -> [vault : Named \cup {None}, fee : Named \cup {None}]
    [] OTHER -> Accounts

\* The calls the commands make, and those that the contracts of the repository accept.
Calls == {"initialize", "admin", "has_role", "has_admin", "migrate_admin", "mint", "transfer",
          "upgrade", "multisig", "pause", "initializeVault", "set_fee_contract"}
           \cup {Links[i] : i \in DOMAIN Links}
OwnCalls == {"initialize", "admin", "mint", "transfer", "multisig", "pause", "initializeVault"}

\* An entry of the upgrade history, and the complete contents of a file.
Entry == [previousHash : Hashes, newHash : Hashes]
Contents(f) == IF f = "history" THEN Seq(Entry) ELSE Document(f)

\* None and Torn stand for the absence of a value and for bytes that are no document;
\* the aliases and the artifact are different parts of the registry.
ASSUME CliAssumption ==
  /\ \A s \in Scenarios : /\ s.starts \in Nat /\ s.faults \in Nat /\ s.crashes \in Nat
                           /\ s.menu \subseteq Commands /\ s.serves \subseteq Calls
  /\ Accounts # {} /\ Aliases \cap ArtifactKeys = {}
  /\ Given \in [Procs -> SUBSET Contracts] /\ Named \subseteq Ids
  /\ None \notin Procs /\ None \notin Accounts /\ None \notin Hashes /\ None \notin Ids
  /\ None \notin Commands /\ None # 1
  /\ \A f \in Files : Torn \notin Contents(f) /\ None \notin Contents(f)

Idle == [cmd |-> None, pc |-> "idle", arg |-> None, base |-> None, upd |-> None, last |-> None,
         vault |-> None, fee |-> None, fate |-> None, tries |-> 0, facts |-> {}]

\* The source account a process signs with.
Signer(p) == IF proc[p].arg \in Accounts THEN proc[p].arg ELSE CHOOSE a \in Accounts : TRUE

\* The token's initialize: set_admin stores the admin and gives it the Admin role, which
\* implies the others.
initialize(c, x) ==
  [c EXCEPT !.admin = x, !.done = @ \cup {<<"admin", x>>, <<"role", x>>, <<"initialized", None>>}]

\* migrate_admin: the stored admin's SuperAdmin entry, which has_role does not read.
migrate_admin(c) == [c EXCEPT !.done = @ \cup {<<"entry", c.admin>>}]

Init ==
  /\ \E s \in Scenarios :
       /\ menu = s.menu
       /\ left = [starts |-> s.starts, faults |-> s.faults, crashes |-> s.crashes]
       \* a fresh contract; one that a legacy admin owns without a role; an initialized one
       /\ LET fresh == [admin |-> None, done |-> {}, serves |-> s.serves]
              a == CHOOSE b \in Accounts : TRUE
              legacy == [fresh EXCEPT !.admin = a, !.done = {<<"admin", a>>, <<"initialized", None>>}]
          IN chain \in {fresh, legacy, initialize(fresh, a)}
  /\ files = [f \in Files |-> IF f = "history" THEN <<>> ELSE Empty(f)]
  /\ pool = [a \in Accounts |-> None]
  /\ proc = [p \in Procs |-> Idle]
  /\ told = {} /\ owed = [f \in Documents |-> Empty(f)] /\ spoiled = {}

----------------------------------------------------------------------------
(* Steps of a process *)

At(p, pc) == proc[p].pc = pc
Now(p, r) == proc' = [proc EXCEPT ![p] = r]
Goto(p, pc) == Now(p, [proc[p] EXCEPT !.pc = pc])
\* The command ends; a success reports the facts to the operator.
Succeed(p, facts) == Now(p, Idle) /\ told' = told \cup facts
Fail(p) == Now(p, Idle) /\ UNCHANGED told
Fault == left.faults > 0 /\ left' = [left EXCEPT !.faults = @ - 1]

\* What a call does that the contract accepts. (external: any contract may be named)
Apply(c, op, x) ==
  CASE op = "initialize" -> initialize(c, x)
    [] op = "migrate_admin" -> migrate_admin(c)
    [] OTHER -> [c EXCEPT !.done = @ \cup {<<op, x>>}]

\* A query or a simulation that the contract does not accept fails; any may fail.
Refused(call) == \/ call \notin chain.serves /\ UNCHANGED left
                 \/ Fault

\* An awaited call of the SDK client (SdkTx models its inside): applied; failed on the
\* ledger (result.success is false); thrown before it was sent, as a call that the
\* contract does not accept always is; or thrown with the transaction still queued.
SdkCall(p, op, x, outcome) ==
  /\ outcome = "throw" \/ op \in chain.serves
  /\ CASE outcome = "ok" -> chain' = Apply(chain, op, x) /\ UNCHANGED <<pool, left>>
       [] outcome = "lost" -> /\ Fault /\ pool[Signer(p)] = None /\ UNCHANGED chain
                              /\ pool' = [pool EXCEPT ![Signer(p)] =
                                            [op |-> op, arg |-> x, by |-> None]]
       [] outcome = "false" -> Fault /\ UNCHANGED <<chain, pool>>
       [] OTHER -> Refused(op) /\ UNCHANGED <<chain, pool>>
  /\ UNCHANGED <<menu, files, owed, spoiled>>
Outcomes == {"ok", "false", "throw", "lost"}

----------------------------------------------------------------------------
(* Files.  The registry is replaced by a rename; the others are truncated   *)
(* and filled again by fs.writeFileSync.                                    *)

\* The file of process record me.
File(me) == Target[me.cmd]

\* What the command will write, given the raw contents it has just read.
Content(me, raw) ==
  CASE me.cmd = "register" -> Registered(readDeploymentsDocument(raw), me.arg, 1)
    [] me.cmd = "export" -> Exported(raw, me.last, me.arg)
    [] me.cmd = "accountAdd" -> Saved(raw, me.arg)
    [] me.cmd = "accountRemove" -> Removed(raw, me.arg)
    [] me.cmd = "upgrade" -> Appended(raw, me.last, me.arg)
    [] me.pc = "loadAdmin" -> Spread(loadConfigFile(raw), AdminConfig)
    [] OTHER -> Spread(loadConfigFile(raw), LinkedConfig(Known(loadConfigFile(raw), me.last)))

\* What the write adds to a document, told from the command and not from the merge.
Adds(me) ==
  CASE me.cmd = "register" -> [a \in {me.arg} |-> 1]
    [] me.cmd = "export" ->
         LET new == aliasEntries(me.last, me.arg)
         IN [k \in ArtifactKeys \cup {a \in DOMAIN new : new[a] # None} |->
               CASE k = "contracts.vault" -> me.arg.vault [] k = "contracts.fee" -> me.arg.fee
                 [] OTHER -> new[k]]
    [] me.cmd = "deploy" -> [k \in ArtifactKeys |-> IF k = "contracts.vault" THEN me.vault ELSE me.fee]
    [] me.cmd = "accountAdd" -> [n \in {me.arg} |-> 1]
    [] me.cmd = "accountRemove" -> [n \in {me.arg} |-> None]
    [] me.pc \in {"initialize", "verify", "save", "saving"} -> [k \in {"token"} |-> 1]
    [] OTHER -> LinkedConfig(Known(loadConfigFile(me.base), me.last))

\* The contents are read, and what will be written is computed from them.
Load(p, next) ==
  LET raw == files[File(proc[p])] IN
  /\ Now(p, [proc[p] EXCEPT !.base = raw, !.upd = Content(proc[p], raw), !.pc = next])
  /\ UNCHANGED <<menu, left, files, chain, pool, told, owed, spoiled>>

\* A write that replaces contents other than the ones its command read.
Overlap(p) == IF files[File(proc[p])] = proc[p].base THEN {} ELSE {File(proc[p])}

\* Where fs.writeFileSync has truncated a file and not yet filled it.
Filling == {"fill", "saving", "recording"}

\* fs.writeFileSync opens the file and truncates it ...
Truncate(p, from, to) ==
  /\ At(p, from) /\ Goto(p, to)
  /\ files' = [files EXCEPT ![File(proc[p])] = Torn]
  /\ spoiled' = spoiled \cup Overlap(p)
                 \cup (IF files[File(proc[p])] = Torn THEN {File(proc[p])} ELSE {})
  /\ UNCHANGED <<menu, left, chain, pool, told, owed>>

\* ... and then fills it.
Fill(p) ==
  /\ files' = [files EXCEPT ![File(proc[p])] = proc[p].upd]
  /\ spoiled' = spoiled \cup (IF files[File(proc[p])] = Torn THEN {} ELSE {File(proc[p])})
  /\ owed' = IF File(proc[p]) = "history" THEN owed
             ELSE [owed EXCEPT ![File(proc[p])] = Spread(@, Adds(proc[p]))]
  /\ UNCHANGED <<menu, left, chain, pool>>

\* writeJsonAtomic: a temporary file is written and synced, then renamed over the
\* target.  A failure of either ends register and export, and is not looked at by deploy.
writeJsonAtomic(p) ==
  \/ /\ At(p, "temp") /\ Goto(p, "rename")
     /\ UNCHANGED <<menu, left, files, chain, pool, told, owed, spoiled>>
  \/ /\ At(p, "temp") \/ At(p, "rename")
     /\ Fault
     /\ IF proc[p].cmd = "deploy" THEN Succeed(p, proc[p].facts) ELSE Fail(p)
     /\ UNCHANGED <<menu, files, chain, pool, owed, spoiled>>
  \/ /\ At(p, "rename") /\ Succeed(p, proc[p].facts)
     /\ files' = [files EXCEPT !["registry"] = proc[p].upd]
     /\ spoiled' = spoiled \cup Overlap(p)
     /\ owed' = [owed EXCEPT !["registry"] = Spread(@, Adds(proc[p]))]
     /\ UNCHANGED <<menu, left, chain, pool>>

\* deployments register: a strict read, the merge, the rename.
registerDeploymentAlias(p) ==
  /\ proc[p].cmd = "register" /\ At(p, "start")
  /\ IF files["registry"] = Torn
     THEN Fail(p) /\ UNCHANGED <<menu, left, files, chain, pool, owed, spoiled>>
     ELSE Load(p, "temp")

\* deployments resolve, and every command that is given an alias.
resolveContractReference(p) ==
  /\ proc[p].cmd = "resolve" /\ At(p, "start")
  /\ IF files["registry"] = Torn \/ readDeploymentsDocument(files["registry"])[proc[p].arg] = None
     THEN Fail(p) ELSE Succeed(p, {})
  /\ UNCHANGED <<menu, left, files, chain, pool, owed, spoiled>>

\* export-deployments: the configuration, then the old document, not strictly.  The vault
\* and the fee contract are the ones the command line names; nothing is asked of them.
exportDeployments(p) ==
  /\ proc[p].cmd = "export"
  /\ \/ /\ At(p, "start")
        /\ Now(p, [proc[p] EXCEPT !.last = loadConfigFile(files["config"]), !.pc = "document",
                      !.facts = {<<"exported", <<proc[p].arg.vault, proc[p].arg.fee>>>>}])
        /\ UNCHANGED <<menu, left, files, chain, pool, told, owed, spoiled>>
     \/ At(p, "document") /\ Load(p, "temp")

\* account add and account remove: a file that is not JSON is refused, and so is the
\* removal of a name that is not there.
saveAccount(p) ==
  /\ proc[p].cmd \in {"accountAdd", "accountRemove"}
  /\ LET raw == files["book"] IN
     \/ /\ At(p, "start")
        /\ IF raw = Torn \/ (proc[p].cmd = "accountRemove" /\ raw[proc[p].arg] = None)
           THEN Fail(p) /\ UNCHANGED <<menu, left, files, chain, pool, owed, spoiled>>
           ELSE Load(p, "write")
     \/ Truncate(p, "write", "fill")
     \/ At(p, "fill") /\ Fill(p) /\ Succeed(p, {})

----------------------------------------------------------------------------
(* Transactions that a command builds and submits itself *)

\* The call of the command's current transaction.
Call(me) ==
  CASE me.cmd = "upgrade" -> <<"upgrade", me.arg>>
    [] me.cmd = "rollback" -> <<"upgrade", me.last>>
    [] me.cmd = "migrate" -> <<"migrate_admin", me.arg>>
    [] OTHER -> <<IF me.facts = {} THEN "mint" ELSE "transfer", me.arg>>

Queue(p, by) == pool' = [pool EXCEPT ![Signer(p)] =
                           [op |-> Call(proc[p])[1], arg |-> Call(proc[p])[2], by |-> by]]

\* prepareSignAndSubmit: the account, the simulation and the submission, each of which
\* may fail; the submission may throw although the transaction was taken.
prepareSignAndSubmit(p) ==
  \/ /\ At(p, "prepare")
     /\ \/ Call(proc[p])[1] \in chain.serves /\ Goto(p, "send") /\ UNCHANGED <<left, told>>
        \/ Refused(Call(proc[p])[1]) /\ Fail(p)
     /\ UNCHANGED <<menu, files, chain, pool, owed, spoiled>>
  \/ /\ At(p, "send")
     /\ \/ /\ pool[Signer(p)] = None /\ Queue(p, p) /\ UNCHANGED <<left, told>>
           /\ Now(p, [proc[p] EXCEPT !.pc = "poll", !.fate = "pending"])
        \/ /\ pool[Signer(p)] # None /\ UNCHANGED <<left, told, pool>>
           /\ Now(p, [proc[p] EXCEPT !.pc = "poll", !.fate = "unknown"])
        \/ pool[Signer(p)] = None /\ Fault /\ Queue(p, None) /\ Fail(p)
        \/ Fault /\ Fail(p) /\ UNCHANGED pool
     /\ UNCHANGED <<menu, files, chain, owed, spoiled>>

\* Nobody polls for this transaction any more.
Forget(p) == pool' = [a \in Accounts |->
  IF pool[a] # None /\ pool[a].by = p THEN [pool[a] EXCEPT !.by = None] ELSE pool[a]]

\* What a command does once its transaction is confirmed.
Confirmed(p) ==
  CASE proc[p].cmd = "upgrade" -> Goto(p, "recall") /\ UNCHANGED told
    [] proc[p].cmd = "migrate" -> Goto(p, "verifyRole") /\ UNCHANGED told
    [] proc[p].cmd = "smokeTest" /\ proc[p].facts = {} ->
         /\ Now(p, [proc[p] EXCEPT !.facts = {Call(proc[p])}, !.pc = "prepare", !.fate = None])
         /\ UNCHANGED told
    [] OTHER -> Succeed(p, proc[p].facts \cup {Call(proc[p])})

\* Mutant: a transaction that was not found before the deadline counts as confirmed.
pollForConfirmationMutant(p) ==
  /\ At(p, "poll")
  /\ \/ proc[p].fate = "failed" /\ Fail(p)
     \/ proc[p].fate # "failed" /\ Confirmed(p)
  /\ Forget(p) /\ UNCHANGED <<menu, left, files, chain, owed, spoiled>>

\* Mutant: the loop has no deadline.
pollForConfirmationEndlessMutant(p) ==
  /\ At(p, "poll")
  /\ \/ proc[p].fate = "ok" /\ Confirmed(p)
     \/ proc[p].fate = "failed" /\ Fail(p)
  /\ UNCHANGED <<menu, left, files, chain, pool, owed, spoiled>>

\* pollForConfirmation, and the migration's own polling loop: confirmed, failed on the
\* ledger, given up while the network does not know the transaction, or thrown.
pollForConfirmation(p) ==
  /\ At(p, "poll")
  /\ \/ proc[p].fate = "ok" /\ Confirmed(p) /\ UNCHANGED left
     \/ proc[p].fate # "ok" /\ Fail(p) /\ UNCHANGED left
     \/ Fault /\ Fail(p)
  /\ Forget(p) /\ UNCHANGED <<menu, files, chain, owed, spoiled>>

\* upgrade: the hash of the WASM file is installed and, once confirmed, appended to the
\* history with the hash to roll back to; with --to-last-good that hash is installed.
runUpgrade(p) ==
  /\ proc[p].cmd \in {"upgrade", "rollback"}
  /\ \/ /\ At(p, "start")
        /\ IF proc[p].cmd = "upgrade" THEN Goto(p, "prepare") /\ UNCHANGED told
           ELSE IF getLastGoodHash(files["history"]) = None THEN Fail(p)
           ELSE /\ Now(p, [proc[p] EXCEPT !.last = getLastGoodHash(files["history"]), !.pc = "prepare"])
                /\ UNCHANGED told
        /\ UNCHANGED <<menu, left, files, chain, pool, owed, spoiled>>
     \/ \* --dry-run and --estimate only simulate
        /\ At(p, "start")
        /\ \/ "upgrade" \in chain.serves /\ Succeed(p, {}) /\ UNCHANGED left
           \/ Refused("upgrade") /\ Fail(p)
        /\ UNCHANGED <<menu, files, chain, pool, owed, spoiled>>
     \/ /\ At(p, "recall")
        /\ LET good == getLastGoodHash(files["history"])
           IN Now(p, [proc[p] EXCEPT !.last = IF good = None THEN proc[p].arg ELSE good, !.pc = "append"])
        /\ UNCHANGED <<menu, left, files, chain, pool, told, owed, spoiled>>
     \/ At(p, "append") /\ Load(p, "write")
     \/ Truncate(p, "write", "fill")
     \/ At(p, "fill") /\ Fill(p) /\ Succeed(p, {<<"upgrade", proc[p].arg>>})

\* smoke-test: a mint, then a transfer, each through prepareSignAndSubmit.
runSmokeTest(p) ==
  /\ proc[p].cmd = "smokeTest" /\ At(p, "start") /\ Goto(p, "prepare")
  /\ UNCHANGED <<menu, left, files, chain, pool, told, owed, spoiled>>

----------------------------------------------------------------------------
(* The RBAC migration *)

MAX_RETRIES == 3

\* withRetry around a query: three attempts, then the error ends the command.
withRetry(p, call, answer) ==
  \/ call \in chain.serves /\ answer /\ UNCHANGED left
  \/ /\ Refused(call)
     /\ IF proc[p].tries + 1 < MAX_RETRIES
        THEN Now(p, [proc[p] EXCEPT !.tries = @ + 1]) /\ UNCHANGED told
        ELSE Fail(p)

hasRole(a) == <<"role", a>> \in chain.done

\* migrateContract: has_admin, then has_role, then migrate_admin is sent (or, in a dry
\* run, simulated), polled for, and has_role is asked again.
migrateContract(p) ==
  /\ proc[p].cmd \in {"migrate", "dryRun"}
  /\ \/ /\ At(p, "start")
        /\ withRetry(p, "has_admin",
             IF chain.admin = None THEN Fail(p)
             ELSE Now(p, [proc[p] EXCEPT !.pc = "already", !.tries = 0]) /\ UNCHANGED told)
     \/ /\ At(p, "already")
        /\ withRetry(p, "has_role",
             IF hasRole(proc[p].arg) THEN Succeed(p, {<<"role", proc[p].arg>>})
             ELSE /\ Now(p, [proc[p] EXCEPT !.tries = 0,
                               !.pc = IF proc[p].cmd = "dryRun" THEN "simulate" ELSE "prepare"])
                  /\ UNCHANGED told)
     \/ /\ At(p, "simulate")
        /\ \/ "migrate_admin" \in chain.serves /\ Succeed(p, {}) /\ UNCHANGED left
           \/ Refused("migrate_admin") /\ Fail(p)
     \/ /\ At(p, "verifyRole")
        /\ withRetry(p, "has_role",
             IF hasRole(proc[p].arg) THEN Succeed(p, {<<"role", proc[p].arg>>}) ELSE Fail(p))
  /\ UNCHANGED <<menu, files, chain, pool, owed, spoiled>>

----------------------------------------------------------------------------
(* init-superadmin, connect and orchestrate *)

\* The first step reports its facts (none when it failed); the orchestrator goes on to
\* connect the contracts either way.
AdminStepEnds(p, facts) ==
  /\ told' = told \cup facts
  /\ Now(p, IF proc[p].cmd = "orchestrate" THEN [proc[p] EXCEPT !.pc = "loadLinks", !.facts = {}]
            ELSE Idle)

\* The deployer must hold SuperAdmin, or be the stored admin; the client answers a query
\* that failed with no.  A verification that the operator asked to skip, or that throws,
\* is no failure: the deployer is reported as the SuperAdmin all the same.
verifySuperAdmin(p) ==
  LET me == proc[p].arg
      found == (IF "has_role" \in chain.serves /\ hasRole(me) THEN {<<"role", me>>} ELSE {})
               \cup (IF "admin" \in chain.serves /\ chain.admin = me THEN {<<"admin", me>>} ELSE {})
  IN \/ /\ found # {} /\ UNCHANGED <<left, told>>
        /\ Now(p, [proc[p] EXCEPT !.pc = "save", !.facts = found])
     \/ found = {} /\ AdminStepEnds(p, {}) /\ UNCHANGED left
     \/ Fault /\ AdminStepEnds(p, {})
     \/ /\ Now(p, [proc[p] EXCEPT !.pc = "save",
                      !.facts = {<<"superAdmin", me>>, <<"initialized", None>>}])
        /\ UNCHANGED <<left, told>>

\* initializeSuperAdmin: the configuration is read first and written last, over what
\* anybody else wrote meanwhile.  A contract that is already initialized is no error.
initializeSuperAdmin(p) ==
  /\ proc[p].cmd \in {"initSuperAdmin", "orchestrate"}
  /\ \/ At(p, "loadAdmin") /\ Load(p, "initialize")
     \/ /\ At(p, "initialize") /\ chain.admin # None
        /\ \/ "initialize" \in chain.serves /\ Goto(p, "verify") /\ UNCHANGED <<left, told>>
           \/ Refused("initialize") /\ AdminStepEnds(p, {})
        /\ UNCHANGED <<menu, files, chain, pool, owed, spoiled>>
     \/ /\ At(p, "initialize") /\ chain.admin = None
        /\ \E outcome \in Outcomes :
             /\ SdkCall(p, "initialize", proc[p].arg, outcome)
             /\ IF outcome = "ok" THEN Goto(p, "verify") /\ UNCHANGED told
                ELSE AdminStepEnds(p, {})
     \/ /\ At(p, "verify") /\ verifySuperAdmin(p)
        /\ UNCHANGED <<menu, files, chain, pool, owed, spoiled>>
     \/ Truncate(p, "save", "saving")
     \/ At(p, "saving") /\ Fill(p) /\ AdminStepEnds(p, proc[p].facts)
     \/ /\ At(p, "save") /\ Fault /\ AdminStepEnds(p, proc[p].facts)
        /\ UNCHANGED <<menu, files, chain, pool, owed, spoiled>>

\* connectContractIds: one call per link of which both ends are known, reported as linked
\* and verified and written to the configuration whatever became of the call.
connectContractIds(p) ==
  LET doc == loadConfigFile(IF At(p, "loadLinks") THEN files["config"] ELSE proc[p].base)
      known == Known(doc, proc[p].last)
  IN
  /\ proc[p].cmd \in {"connect", "orchestrate"}
  /\ \/ /\ At(p, "loadLinks") /\ known \cap {"token", "admin"} # {} /\ Load(p, "link1")
     \/ /\ At(p, "loadLinks") /\ known \cap {"token", "admin"} = {} /\ Fail(p)
        /\ UNCHANGED <<menu, left, files, chain, pool, owed, spoiled>>
     \/ \E i \in DOMAIN Links :
          /\ At(p, <<"link1", "link2", "link3">>[i])
          /\ LET next == [proc[p] EXCEPT !.pc = <<"link2", "link3", "record">>[i]]
             IN \/ /\ i \in Linked(known) /\ UNCHANGED told
                   /\ \E outcome \in Outcomes : SdkCall(p, Links[i], 1, outcome)
                   /\ Now(p, [next EXCEPT !.facts = @ \cup {<<Links[i], 1>>}])
                \/ /\ i \notin Linked(known) /\ Now(p, next)
                   /\ UNCHANGED <<menu, left, files, chain, pool, told, owed, spoiled>>
     \/ Truncate(p, "record", "recording")
     \/ At(p, "recording") /\ Fill(p) /\ Succeed(p, proc[p].facts)
     \/ /\ At(p, "record") /\ Fault /\ Succeed(p, proc[p].facts)
        /\ UNCHANGED <<menu, files, chain, pool, owed, spoiled>>

----------------------------------------------------------------------------
(* deploy *)

FreshId == CHOOSE i \in Ids : <<"deploy", i>> \notin chain.done

\* runStellar: the child applies its operation and exits with 0; or it fails, before or
\* after the operation was applied, and the deployment ends with what it had made.
runStellar(p, call, facts, r) ==
  /\ \/ /\ call \in chain.serves \cup {"upload", "deploy"} /\ Now(p, r) /\ UNCHANGED <<left, told>>
        /\ chain' = [chain EXCEPT !.done = @ \cup facts]
     \/ call \notin {"upload", "deploy"} /\ Refused(call) /\ Fail(p) /\ UNCHANGED chain
     \/ /\ Fault /\ Fail(p)
        /\ \/ UNCHANGED chain
           \/ facts # {} /\ chain' = [chain EXCEPT !.done = @ \cup facts]
  /\ UNCHANGED <<menu, files, pool, owed, spoiled>>

\* uploadWasm and deployFromHash.  A child that exits with 0 and prints nothing leaves
\* the hash or the id undefined, and the steps that need it are skipped.
uploadWasm(p, next, skip) ==
  \/ runStellar(p, "upload", {}, [proc[p] EXCEPT !.pc = next])
  \/ Fault /\ Goto(p, skip) /\ UNCHANGED <<menu, files, chain, pool, told, owed, spoiled>>
deployFromHash(p, next, skip) ==
  \/ /\ \E i \in Ids : <<"deploy", i>> \notin chain.done
     /\ runStellar(p, "deploy", {<<"deploy", FreshId>>},
                   IF At(p, "deployVault") THEN [proc[p] EXCEPT !.pc = next, !.vault = FreshId]
                   ELSE [proc[p] EXCEPT !.pc = next, !.fee = FreshId])
  \/ Fault /\ Goto(p, skip) /\ UNCHANGED <<menu, files, chain, pool, told, owed, spoiled>>

\* invokeContract
invokeContract(p, call, next) ==
  runStellar(p, call[1], {call}, [proc[p] EXCEPT !.pc = next, !.facts = @ \cup {call}])

WithFee(p) == proc[p].arg = "vaultAndFee"

\* deployVault: upload, deploy and initialize the vault; upload and deploy the fee
\* contract and link it to the vault, if there is one; write the artifact if a path was
\* given.  A dry run only prints the commands.
deployVault(p) ==
  LET fee == IF WithFee(p) THEN "uploadFee" ELSE "export"
      link == IF proc[p].vault = None THEN "export" ELSE "linkFee"
  IN
  /\ proc[p].cmd = "deploy"
  /\ \/ /\ At(p, "start") /\ proc[p].arg = "dryRun" /\ Goto(p, "export")
        /\ UNCHANGED <<menu, left, files, chain, pool, told, owed, spoiled>>
     \/ At(p, "start") /\ proc[p].arg # "dryRun" /\ uploadWasm(p, "deployVault", fee)
     \/ At(p, "deployVault") /\ deployFromHash(p, "initVault", fee)
     \/ At(p, "initVault") /\ invokeContract(p, <<"initializeVault", proc[p].vault>>, fee)
     \/ At(p, "uploadFee") /\ uploadWasm(p, "deployFee", "export")
     \/ At(p, "deployFee") /\ deployFromHash(p, link, "export")
     \/ At(p, "linkFee") /\ invokeContract(p, <<"set_fee_contract", <<proc[p].vault, proc[p].fee>>>>,
                                           "export")
     \/ /\ At(p, "export")
        /\ \/ Succeed(p, proc[p].facts)
           \/ /\ Now(p, [proc[p] EXCEPT !.pc = "temp",
                           !.upd = buildDeploymentArtifacts(proc[p].vault, proc[p].fee)])
              /\ UNCHANGED told
        /\ UNCHANGED <<menu, left, files, chain, pool, owed, spoiled>>

----------------------------------------------------------------------------
(* multisig and pause: one SDK call *)

\* assertSuccess throws unless result.success.
assertSuccess(p, outcome) == outcome = "ok"

\* multisig propose, approve, execute: offline, the unsigned transaction is only written
\* to a file; with a signature file or a key it is submitted.
runMultisigCommand(p) ==
  /\ proc[p].cmd = "multisig" /\ At(p, "start")
  /\ \/ Succeed(p, {}) /\ UNCHANGED <<menu, left, files, chain, pool, owed, spoiled>>
     \/ \E outcome \in Outcomes :
          /\ SdkCall(p, "multisig", proc[p].arg, outcome)
          /\ IF assertSuccess(p, outcome) THEN Succeed(p, {<<"multisig", proc[p].arg>>}) ELSE Fail(p)

\* pause and unpause report the transaction as confirmed without looking at its result.
runPauseCommand(p) ==
  /\ proc[p].cmd = "pause" /\ At(p, "start")
  /\ \/ Succeed(p, {}) /\ UNCHANGED <<menu, left, files, chain, pool, owed, spoiled>>
     \/ \E outcome \in Outcomes :
          /\ SdkCall(p, "pause", proc[p].arg, outcome)
          /\ IF outcome \in {"ok", "false"} THEN Succeed(p, {<<"pause", proc[p].arg>>}) ELSE Fail(p)

----------------------------------------------------------------------------
(* The operators, the network, and the whole *)

\* A command is started.  The migration is started again until it has succeeded; every
\* other command counts against the bound.
Rerun(c, x) == c = "migrate" /\ x = chain.admin /\ <<"role", x>> \notin told

buildProgram(p, c, x) ==
  /\ proc[p] = Idle /\ c \in menu /\ x \in Args(c)
  /\ \/ Rerun(c, x) /\ UNCHANGED left
     \/ ~Rerun(c, x) /\ left.starts > 0 /\ left' = [left EXCEPT !.starts = @ - 1]
  /\ Now(p, [Idle EXCEPT !.cmd = c, !.arg = x,
               !.last = CASE c = "connect" -> Given[p] [] c = "orchestrate" -> Given[p] \cup {"token"}
                          [] OTHER -> None,
               !.pc = CASE c \in {"initSuperAdmin", "orchestrate"} -> "loadAdmin"
                        [] c = "connect" -> "loadLinks"
                        [] OTHER -> "start"])
  /\ UNCHANGED <<menu, files, chain, pool, told, owed, spoiled>>

\* The process is killed. (external)
Crash(p) ==
  /\ proc[p] # Idle /\ left.crashes > 0
  /\ left' = [left EXCEPT !.crashes = @ - 1]
  /\ Fail(p) /\ Forget(p)
  /\ spoiled' = spoiled \cup (IF proc[p].pc \in Filling THEN {File(proc[p])} ELSE {})
  /\ UNCHANGED <<menu, files, chain, owed>>

Fated(t, fate) == IF t.by = None THEN UNCHANGED proc ELSE Now(t.by, [proc[t.by] EXCEPT !.fate = fate])

\* A queued transaction is applied ... (external)
Land(a) ==
  /\ pool[a] # None
  /\ chain' = IF pool[a].op = "initialize" /\ chain.admin # None THEN chain
              ELSE Apply(chain, pool[a].op, pool[a].arg)
  /\ Fated(pool[a], "ok")
  /\ pool' = [pool EXCEPT ![a] = None]
  /\ UNCHANGED <<menu, left, files, told, owed, spoiled>>

\* ... or fails on the ledger, or is never heard of again. (external)
Lose(a) ==
  /\ pool[a] # None /\ Fault
  /\ \E fate \in {"failed", "unknown"} : Fated(pool[a], fate)
  /\ pool' = [pool EXCEPT ![a] = None]
  /\ UNCHANGED <<menu, files, chain, told, owed, spoiled>>

Run(p) ==
  \/ registerDeploymentAlias(p) \/ resolveContractReference(p) \/ exportDeployments(p)
  \/ writeJsonAtomic(p) \/ saveAccount(p)
  \/ prepareSignAndSubmit(p) \/ pollForConfirmation(p) \/ runUpgrade(p) \/ runSmokeTest(p)
  \/ migrateContract(p) \/ initializeSuperAdmin(p) \/ connectContractIds(p)
  \/ deployVault(p) \/ runMultisigCommand(p) \/ runPauseCommand(p)

Next ==
  \/ \E p \in Procs : Run(p) \/ Crash(p) \/ \E c \in menu : \E x \in Args(c) : buildProgram(p, c, x)
  \/ \E a \in Accounts : Land(a) \/ Lose(a)

\* A started command keeps running unless it is killed, the network settles what it has
\* taken, and an operator runs the migration again while it has not succeeded.
Fairness ==
  /\ \A p \in Procs : WF_vars(Run(p)) /\ WF_vars(\E x \in Accounts : Rerun("migrate", x)
                                                   /\ buildProgram(p, "migrate", x))
  /\ \A a \in Accounts : WF_vars(Land(a))

Spec == Init /\ [][Next]_vars /\ Fairness

----------------------------------------------------------------------------
(* Properties *)

\* The positions a command passes through, and those between reading its file and
\* having written it.
AdminPart == {"loadAdmin", "initialize", "verify", "save", "saving"}
LinkPart == {"loadLinks", "link1", "link2", "link3", "record", "recording"}
Sending == {"start", "prepare", "send", "poll"}
Positions(c) ==
  CASE c = "register" -> {"start", "temp", "rename"}
    [] c = "export" -> {"start", "document", "temp", "rename"}
    [] c = "deploy" -> {"start", "deployVault", "initVault", "uploadFee", "deployFee", "linkFee",
                        "export", "temp", "rename"}
    [] c \in {"accountAdd", "accountRemove"} -> {"start", "write", "fill"}
    [] c = "upgrade" -> Sending \cup {"recall", "append", "write", "fill"}
    [] c \in {"rollback", "smokeTest"} -> Sending
    [] c = "migrate" -> Sending \cup {"already", "verifyRole"}
    [] c = "dryRun" -> {"start", "already", "simulate"}
    [] c = "initSuperAdmin" -> AdminPart
    [] c = "connect" -> LinkPart
    [] c = "orchestrate" -> AdminPart \cup LinkPart
    [] OTHER -> {"start"}
Loaded == (AdminPart \cup LinkPart \cup {"temp", "rename", "write", "fill"})
            \ {"loadAdmin", "loadLinks"}

\* The record of a process: what it runs, with which argument, and where it is.
ProcessOK(me, cmds) ==
  /\ DOMAIN me = DOMAIN Idle
  /\ me.cmd = None => me.pc = "idle"
  /\ me.cmd # None => me.cmd \in cmds /\ me.arg \in Args(me.cmd) /\ me.pc \in Positions(me.cmd)
  /\ me.tries \in Nat /\ me.tries < MAX_RETRIES

\* Types of the files, the processes and the bounds.
TypeOK ==
  /\ left \in [starts : Nat, faults : Nat, crashes : Nat]
  /\ menu \subseteq Commands
  /\ DOMAIN files = Files /\ \A f \in Files : files[f] \in Contents(f) \cup {Torn}
  /\ DOMAIN owed = Documents /\ \A f \in Documents : owed[f] \in Document(f)
  /\ DOMAIN chain = {"admin", "done", "serves"}
  /\ DOMAIN proc = Procs /\ \A p \in Procs : ProcessOK(proc[p], menu)
  /\ DOMAIN pool = Accounts
  /\ \A a \in Accounts : pool[a] # None => /\ DOMAIN pool[a] = {"op", "arg", "by"}
                                           /\ pool[a].by \in Procs \cup {None}
  /\ spoiled \subseteq Files

\* Reports that no answer of the chain stands behind: pause looks at no result, connect
\* reports every link it tried as linked and verified, a skipped verification counts as
\* passed, and export-deployments writes the ids it is given.
Unchecked == {"pause", "superAdmin", "exported"} \cup {Links[i] : i \in DOMAIN Links}

\* What a command reports as done has been applied on the chain, through timeouts, lost
\* answers, failures on the ledger and refused calls: the upgrade and the roll-back, both
\* halves of the smoke test, the role of a migrated and of a verified admin, every vault
\* that was initialized and linked, every multisig call.  The exceptions are the reports
\* of Unchecked: `pause` is "confirmed" for a transaction that failed; a link is reported
\* as linked and verified although its call failed or threw; a deployer whose role was
\* not verified (--skip-verify) is reported as SuperAdmin, of which is only true that the
\* contract has been initialized, perhaps by somebody else; an export names any ids.
Backed(facts, done) == \A fact \in facts : fact[1] \in Unchecked \/ fact \in done
ReportedIsApplied == Backed(told, chain.done)

\* The registry is a complete document at every moment, whoever is killed between the
\* temporary file and the rename: no reader of an alias ever fails on half a file.
RegistryNeverTorn == files["registry"] # Torn

\* Unless two writers of a document overlapped or a writer was killed inside its write,
\* the document is the sum of what the completed commands wrote: no merge drops an alias,
\* a contract, a link or an account that an earlier command saved.  (deploy --out replaces
\* the document, and counts as an overlap.)
NothingForgotten ==
  \A f \in Documents : f \in spoiled \/ files[f] = Torn \/ files[f] = owed[f]

\* The history names only hashes that were installed: `upgrade --to-last-good` never
\* proposes the hash of an upgrade that failed, timed out or was never sent.
Installed(entries, done) ==
  \A i \in DOMAIN entries :
    {<<"upgrade", entries[i].newHash>>, <<"upgrade", entries[i].previousHash>>} \subseteq done
HistoryWasInstalled == files["history"] # Torn => Installed(files["history"], chain.done)

\* A vault that the artifact names has been initialized, and linked to the fee contract
\* the artifact names, although the artifact is written by a process that may have failed
\* or been killed after any of the six calls before; except for the ids that an operator
\* gave to export-deployments (--vault-id, --fee-id), which are written as they are.
Ready(vault, fee, done) ==
  vault # None =>
    /\ <<"initializeVault", vault>> \in done
    /\ fee # None => <<"set_fee_contract", <<vault, fee>>>> \in done
ReadyDocument(doc, done, reports) ==
  \/ <<"exported", <<doc["contracts.vault"], doc["contracts.fee"]>>>> \in reports
  \/ Ready(doc["contracts.vault"], doc["contracts.fee"], done)
ArtifactsAreReady ==
  files["registry"] # Torn => ReadyDocument(files["registry"], chain.done, told)

\* Every command that is started ends, whatever the network does not answer.
CommandEnds == \A p \in Procs : proc[p] # Idle ~> proc[p] = Idle

\* docs/UPGRADE_GUIDE.md on the migration script: it "verifies the admin now has the
\* SuperAdmin role", and is safe to run again.  So, run often enough with the admin's key,
\* it reports that role.  (It does not: see the run cli_migration.)
MigrationConverges ==
  \A a \in Accounts : ("migrate" \in menu /\ chain.admin = a) ~> <<"role", a>> \in told

\* What a process will report, enter or write has already been applied, at every position
\* at which it relies on it.
Justified(me, done, reports) ==
  /\ Backed(me.facts, done)
  /\ me.pc = "verify" => <<"initialized", None>> \in done
  /\ me.pc = "poll" /\ me.fate = "ok" /\ me.cmd # "migrate" => Call(me) \in done
  /\ me.cmd = "upgrade" =>
       /\ me.pc \in {"recall", "append", "write", "fill"} => <<"upgrade", me.arg>> \in done
       /\ me.pc \in {"append", "write", "fill"} => me.last \in Hashes /\ <<"upgrade", me.last>> \in done
       /\ me.pc \in {"write", "fill"} => Installed(me.upd, done)
  /\ me.cmd = "deploy" =>
       /\ me.pc = "start" => me.vault = None
       /\ me.pc \in {"start", "deployVault", "initVault", "uploadFee", "deployFee"} => me.fee = None
       /\ me.pc = "deployVault" => me.vault = None
       /\ me.pc \in {"uploadFee", "deployFee", "linkFee"} => Ready(me.vault, None, done)
       /\ me.pc = "export" => Ready(me.vault, me.fee, done)
  /\ me.pc \in {"temp", "rename"} => ReadyDocument(me.upd, done, reports \cup me.facts)
  /\ me.cmd = "export" /\ me.pc # "start" =>
       <<"exported", <<me.arg.vault, me.arg.fee>>>> \in me.facts

\* A queued transaction that is polled for is the current call of the process that polls.
Polled(t) == t # None /\ t.by # None =>
  proc[t.by].pc = "poll" /\ Call(proc[t.by]) = <<t.op, t.arg>>

ProcessesAreJustified ==
  /\ chain.admin # None => {<<"admin", chain.admin>>, <<"initialized", None>>} \subseteq chain.done
  /\ \A p \in Procs : Justified(proc[p], chain.done, told)
  /\ \A a \in Accounts : Polled(pool[a])

\* What a process is about to write is a complete document: the one it read, with what
\* its command adds to it.
Merging(me) ==
  /\ me.cmd = "export" /\ me.pc # "start" => me.last \in Document("config")
  /\ me.cmd \in {"connect", "orchestrate"} => me.last \subseteq Contracts
  /\ me.cmd = "deploy" => /\ me.base = None
                          /\ me.vault \in Ids \cup {None} /\ me.fee \in Ids \cup {None}
  /\ me.pc \in Loaded =>
       /\ me.upd \in Contents(File(me))
       /\ me.cmd \notin {"deploy", "upgrade"} /\ me.base # Torn =>
            me.base \in Document(File(me)) /\ me.upd = Spread(me.base, Adds(me))

\* Unless a document is spoiled, the process that has truncated it is the only one, and
\* read exactly what the completed writes add up to.
Truncated(f, p) == proc[p].pc \in Filling /\ File(proc[p]) = f
WriterIsAlone(f) ==
  \A p \in Procs : Truncated(f, p) =>
    /\ files[f] = Torn /\ proc[p].base = owed[f]
    /\ \A q \in Procs : Truncated(f, q) => q = p

WritersAreOrderly ==
  /\ \A p \in Procs : Merging(proc[p])
  /\ \A f \in Documents \ spoiled : WriterIsAlone(f)

\* What a command reported, entered into the history or wrote into the artifact has
\* happened on the chain, whatever answers were lost and wherever it was killed; except
\* the reports of Unchecked, and the artifact of an export that was given its ids.
ReportsAreTrue ==
  ReportedIsApplied /\ HistoryWasInstalled /\ ArtifactsAreReady /\ ProcessesAreJustified

\* The files keep what was written to them, through kills and other writers.
FilesAreKept == TypeOK /\ RegistryNeverTorn /\ NothingForgotten /\ WritersAreOrderly
============================================================================
