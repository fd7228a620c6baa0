----------------------------- MODULE CliProofs -----------------------------
(***************************************************************************)
(* Proofs about the command line: what its commands report, enter into the *)
(* history or write into the artifact has been applied, and its files keep *)
(* what was written to them, for any number of processes, accounts and     *)
(* commands.                                                               *)
(***************************************************************************)
EXTENDS Cli, TLAPS

Values == {None, 1} \cup Ids

----------------------------------------------------------------------------
(* Documents *)

\* The names of the documents and the files, and the keys of each document.
LEMMA FileNames ==
  /\ Documents = {"registry", "config", "book"}
  /\ Files = {"registry", "config", "book", "history"}
  /\ KeysOf["registry"] = Aliases \cup ArtifactKeys
  /\ KeysOf["config"] = ConfigKeys /\ KeysOf["book"] = Names
  BY DEF Documents, Files, KeysOf

\* The complete contents of each file.
LEMMA ContentsOf ==
  /\ Contents("registry") = [Aliases \cup ArtifactKeys -> Values]
  /\ Contents("config") = [ConfigKeys -> Values]
  /\ Contents("book") = [Names -> Values]
  /\ Contents("history") = Seq(Entry)
  /\ \A f \in Documents : Contents(f) = Document(f)
  BY FileNames DEF Contents, Document, Values

\* No complete contents are torn, and none are missing.
LEMMA NotTorn ==
  \A f \in Files : Torn \notin Contents(f) /\ None \notin Contents(f)
  BY CliAssumption

\* An empty document is a document.
LEMMA EmptyIsDocument == \A f \in Documents : Empty(f) \in Document(f)
  BY DEF Empty, Document

\* Spreading values over a document yields a document with the same keys.
LEMMA SpreadTyped ==
  ASSUME NEW K, NEW doc \in [K -> Values], NEW upd,
         \A k \in DOMAIN upd : upd[k] \in Values
  PROVE  Spread(doc, upd) \in [K -> Values]
  BY DEF Spread

\* registerDeploymentAlias's document is the old one with the one alias set: neither
\* another alias nor the artifact is lost.
LEMMA RegisteredMerges ==
  ASSUME NEW doc \in Document("registry"), NEW alias \in Aliases
  PROVE  /\ Registered(doc, alias, 1) = Spread(doc, [a \in {alias} |-> 1])
         /\ Registered(doc, alias, 1) \in Document("registry")
         /\ \A k \in ArtifactKeys : Registered(doc, alias, 1)[k] = doc[k]
<1> DEFINE new == [a \in {alias} |-> 1]
           picked == [a \in {b \in DOMAIN new : new[b] # None} |-> new[a]]
           nets == networksFromDocument(doc)
           merged == mergeNetworkAliases(nets, new)
<1>1. DOMAIN new = {alias} /\ new[alias] = 1 /\ 1 # None  BY CliAssumption
<1>2. DOMAIN picked = {alias} /\ picked[alias] = 1  BY <1>1
<1>3. nets = [a \in Aliases |-> doc[a]]  BY DEF networksFromDocument
<1>4. merged = Spread(nets, picked)  BY DEF mergeNetworkAliases
<1> HIDE DEF new, picked
<1>5. /\ DOMAIN merged = Aliases
      /\ \A a \in Aliases : merged[a] = IF a = alias THEN 1 ELSE doc[a]
  BY <1>2, <1>3, <1>4 DEF Spread
<1>6. doc \in [Aliases \cup ArtifactKeys -> Values]  BY FileNames DEF Document, Values
<1>7. Registered(doc, alias, 1) = Spread(doc, merged)  BY DEF Registered, new
<1> HIDE DEF merged, nets
<1>8. \A k \in Aliases \cup ArtifactKeys : Spread(doc, merged)[k] = IF k = alias THEN 1 ELSE doc[k]
  BY <1>5, <1>6 DEF Spread
<1>9. DOMAIN Spread(doc, merged) = Aliases \cup ArtifactKeys  BY <1>6 DEF Spread
<1>10. Spread(doc, merged) = Spread(doc, new)
  BY <1>1, <1>5, <1>6 DEF Spread
<1>11. Spread(doc, new) \in [Aliases \cup ArtifactKeys -> Values]
  BY <1>1, <1>6, SpreadTyped DEF Values
<1>12. \A k \in ArtifactKeys : Spread(doc, merged)[k] = doc[k]
  BY <1>8, CliAssumption
<1> QED BY <1>7, <1>10, <1>11, <1>12, FileNames DEF new, Document, Values

\* The artifact of a deployment is a document.
LEMMA ArtifactsTyped ==
  ASSUME NEW vault \in Ids \cup {None}, NEW fee \in Ids \cup {None}
  PROVE  LET doc == buildDeploymentArtifacts(vault, fee) IN
         /\ doc \in Document("registry")
         /\ doc["contracts.vault"] = vault /\ doc["contracts.fee"] = fee
<1>1. Empty("registry") = [k \in Aliases \cup ArtifactKeys |-> None]  BY FileNames DEF Empty
<1>2. {"contracts.vault", "contracts.fee"} \subseteq Aliases \cup ArtifactKeys  BY DEF ArtifactKeys
<1> QED BY <1>1, <1>2, FileNames DEF buildDeploymentArtifacts, Document

\* The ids that a command line gives to export-deployments.
GivenIds == [vault : Ids \cup {None}, fee : Ids \cup {None}]

\* export-deployments keeps the aliases of the file, adds the contracts of the
\* configuration and of the command line, and replaces the artifact.
ExportAdds(config, ids) ==
  LET new == aliasEntries(config, ids)
  IN [k \in ArtifactKeys \cup {a \in DOMAIN new : new[a] # None} |->
        CASE k = "contracts.vault" -> ids.vault [] k = "contracts.fee" -> ids.fee
          [] OTHER -> new[k]]

\* The new aliases are values under known names.
LEMMA EntriesTyped ==
  ASSUME NEW config \in Document("config"), NEW ids \in GivenIds
  PROVE  /\ DOMAIN aliasEntries(config, ids) \subseteq Aliases
         /\ \A a \in DOMAIN aliasEntries(config, ids) : aliasEntries(config, ids)[a] \in Values
<1>1. config \in [ConfigKeys -> Values] /\ Contracts \subseteq ConfigKeys
  BY FileNames DEF Document, Values, ConfigKeys
<1>2. DOMAIN ids = {"vault", "fee"} /\ \A a \in DOMAIN ids : ids[a] \in Values
  BY DEF GivenIds, Values
<1> QED BY <1>1, <1>2 DEF aliasEntries

\* So is everything that an export adds to the document.
LEMMA ExportAddsTyped ==
  ASSUME NEW config \in Document("config"), NEW ids \in GivenIds
  PROVE  /\ \A k \in DOMAIN ExportAdds(config, ids) : ExportAdds(config, ids)[k] \in Values
         /\ ArtifactKeys \subseteq DOMAIN ExportAdds(config, ids)
         /\ ExportAdds(config, ids)["contracts.vault"] = ids.vault
         /\ ExportAdds(config, ids)["contracts.fee"] = ids.fee
<1> DEFINE new == aliasEntries(config, ids)
<1>1. \A a \in DOMAIN new : new[a] \in Values  BY EntriesTyped
<1>2. ids.vault \in Values /\ ids.fee \in Values  BY DEF GivenIds, Values
<1>3. ExportAdds(config, ids) =
        [k \in ArtifactKeys \cup {a \in DOMAIN new : new[a] # None} |->
           CASE k = "contracts.vault" -> ids.vault [] k = "contracts.fee" -> ids.fee
             [] OTHER -> new[k]]
  BY DEF ExportAdds
<1> HIDE DEF new
<1> QED BY <1>1, <1>2, <1>3 DEF ArtifactKeys

\* The document export-deployments writes merges the file it read with those.
LEMMA ExportedMerges ==
  ASSUME NEW raw \in Document("registry"), NEW config \in Document("config"), raw # Torn,
         NEW ids \in GivenIds
  PROVE  /\ Exported(raw, config, ids) = Spread(raw, ExportAdds(config, ids))
         /\ Exported(raw, config, ids) \in Document("registry")
         /\ Exported(raw, config, ids)["contracts.vault"] = ids.vault
         /\ Exported(raw, config, ids)["contracts.fee"] = ids.fee
<1> DEFINE new == aliasEntries(config, ids)
           named == {b \in DOMAIN new : new[b] # None}
           picked == [a \in named |-> new[a]]
           nets == networksFromDocument(raw)
           merged == mergeNetworkAliases(nets, new)
           fresh == buildDeploymentArtifacts(ids.vault, ids.fee)
           adds == ExportAdds(config, ids)
<1>1. DOMAIN new \subseteq Aliases  BY EntriesTyped
<1>2. adds = [k \in ArtifactKeys \cup named |->
                CASE k = "contracts.vault" -> ids.vault [] k = "contracts.fee" -> ids.fee
                  [] OTHER -> new[k]]
  BY DEF ExportAdds
<1>3. nets = [a \in Aliases |-> raw[a]]  BY DEF networksFromDocument
<1>4. merged = Spread(nets, picked)  BY DEF mergeNetworkAliases
<1>5. Exported(raw, config, ids) = Spread(fresh, merged)
  BY DEF Exported, readDeploymentsDocument
<1> HIDE DEF new
<1>6. named \subseteq Aliases /\ Aliases \cap ArtifactKeys = {}  BY <1>1, CliAssumption
<1>7. DOMAIN picked = named /\ \A a \in named : picked[a] = new[a]  OBVIOUS
<1> HIDE DEF picked, named, adds
<1>8. /\ DOMAIN merged = Aliases
      /\ \A a \in Aliases : merged[a] = IF a \in named THEN new[a] ELSE raw[a]
  BY <1>3, <1>4, <1>7 DEF Spread
<1>9. raw \in [Aliases \cup ArtifactKeys -> Values]  BY FileNames DEF Document, Values
<1>10. ids.vault \in Ids \cup {None} /\ ids.fee \in Ids \cup {None}  BY DEF GivenIds
<1>11. fresh \in [Aliases \cup ArtifactKeys -> Values]
       /\ fresh["contracts.vault"] = ids.vault /\ fresh["contracts.fee"] = ids.fee
  BY <1>10, ArtifactsTyped, FileNames DEF Document, Values
<1> HIDE DEF merged, nets, fresh
<1>12. \A k \in ArtifactKeys : k = "contracts.vault" \/ k = "contracts.fee"  BY DEF ArtifactKeys
<1>13. /\ DOMAIN adds = ArtifactKeys \cup named
       /\ \A k \in ArtifactKeys : adds[k] = fresh[k]
       /\ \A k \in named : adds[k] = new[k]
  <2>1. DOMAIN adds = ArtifactKeys \cup named  BY <1>2
  <2>2. ASSUME NEW k \in ArtifactKeys PROVE adds[k] = fresh[k]
    BY <1>2, <1>11, <1>12, <2>2
  <2>3. ASSUME NEW k \in named PROVE adds[k] = new[k]
    <3>1. k \notin ArtifactKeys  BY <1>6, <2>3
    <3>2. k # "contracts.vault" /\ k # "contracts.fee"  BY <3>1 DEF ArtifactKeys
    <3> QED BY <1>2, <2>3, <3>2
  <2> QED BY <2>1, <2>2, <2>3
<1>14. Spread(fresh, merged) = Spread(raw, adds)
  <2>1. Spread(fresh, merged) = [k \in Aliases \cup ArtifactKeys |->
                                   IF k \in Aliases THEN merged[k] ELSE fresh[k]]
    BY <1>8, <1>11 DEF Spread
  <2>2. Spread(raw, adds) = [k \in Aliases \cup ArtifactKeys |->
                               IF k \in ArtifactKeys \cup named THEN adds[k] ELSE raw[k]]
    BY <1>9, <1>13 DEF Spread
  <2>3. ASSUME NEW k \in Aliases \cup ArtifactKeys
        PROVE  (IF k \in Aliases THEN merged[k] ELSE fresh[k])
                 = (IF k \in ArtifactKeys \cup named THEN adds[k] ELSE raw[k])
    <3>1. CASE k \in Aliases  BY <1>6, <1>8, <1>13, <3>1
    <3>2. CASE k \notin Aliases  BY <1>13, <3>2
    <3> QED BY <3>1, <3>2
  <2> QED BY <2>1, <2>2, <2>3
<1>15. Spread(raw, adds) \in [Aliases \cup ArtifactKeys -> Values]
  <2>1. \A k \in DOMAIN adds : adds[k] \in Values  BY ExportAddsTyped DEF adds
  <2> QED BY <1>9, <2>1, SpreadTyped
<1>16. /\ Spread(raw, adds)["contracts.vault"] = ids.vault
       /\ Spread(raw, adds)["contracts.fee"] = ids.fee
  <2>1. {"contracts.vault", "contracts.fee"} \subseteq ArtifactKeys  BY DEF ArtifactKeys
  <2> QED BY <1>9, <1>11, <1>13, <2>1 DEF Spread
<1> QED BY <1>5, <1>14, <1>15, <1>16, FileNames DEF adds, Document, Values

----------------------------------------------------------------------------
(* The parts of the invariant *)

\* Everything that is claimed of one process, given the commands on the menu and what
\* has been applied.
GoodRecord(me, cmds, done, said) == ProcessOK(me, cmds) /\ Justified(me, done, said) /\ Merging(me)

BoundsOK == left \in [starts : Nat, faults : Nat, crashes : Nat] /\ menu \subseteq Commands
ChainOK ==
  /\ DOMAIN chain = {"admin", "done", "serves"}
  /\ chain.admin # None => {<<"admin", chain.admin>>, <<"initialized", None>>} \subseteq chain.done
ProcsOK == DOMAIN proc = Procs /\ \A p \in Procs : GoodRecord(proc[p], menu, chain.done, told)
PoolOK ==
  /\ DOMAIN pool = Accounts
  /\ \A a \in Accounts : pool[a] # None => /\ DOMAIN pool[a] = {"op", "arg", "by"}
                                           /\ pool[a].by \in Procs \cup {None}
  /\ \A a \in Accounts : Polled(pool[a])
FilesOK ==
  /\ DOMAIN files = Files /\ \A f \in Files : files[f] \in Contents(f) \cup {Torn}
  /\ DOMAIN owed = Documents /\ \A f \in Documents : owed[f] \in Document(f)
  /\ spoiled \subseteq Files
  /\ HistoryWasInstalled /\ ArtifactsAreReady /\ RegistryNeverTorn /\ NothingForgotten
  /\ \A f \in Documents \ spoiled : WriterIsAlone(f)

\* The inductive invariant is what the run checks.
IndInv == ReportsAreTrue /\ FilesAreKept

\* It is the conjunction of its parts.
LEMMA Parts ==
  IndInv <=> BoundsOK /\ ChainOK /\ ProcsOK /\ PoolOK /\ FilesOK /\ ReportedIsApplied
  BY DEF IndInv, ReportsAreTrue, FilesAreKept, TypeOK, ProcessesAreJustified, WritersAreOrderly,
         BoundsOK, ChainOK, ProcsOK, PoolOK, FilesOK, GoodRecord

\* What was installed, and ready, stays so as the chain grows.
LEMMA InstalledGrows ==
  ASSUME NEW h, NEW d, NEW e, d \subseteq e, Installed(h, d)
  PROVE  Installed(h, e)
  BY DEF Installed

\* A vault that is ready stays ready.
LEMMA ReadyGrows ==
  ASSUME NEW v, NEW f, NEW d, NEW e, d \subseteq e, Ready(v, f, d)
  PROVE  Ready(v, f, e)
  BY DEF Ready

\* What justifies a process goes on justifying it.
LEMMA JustifiedGrows ==
  ASSUME NEW me, NEW d, NEW e, d \subseteq e, NEW s, NEW t, s \subseteq t, Justified(me, d, s)
  PROVE  Justified(me, e, t)
<1>1. Installed(me.upd, d) => Installed(me.upd, e)  BY InstalledGrows
<1>2. /\ Ready(me.vault, me.fee, d) => Ready(me.vault, me.fee, e)
      /\ Ready(me.vault, None, d) => Ready(me.vault, None, e)
  BY ReadyGrows
<1>3. ReadyDocument(me.upd, d, s \cup me.facts) => ReadyDocument(me.upd, e, t \cup me.facts)
  BY ReadyGrows DEF ReadyDocument
<1>4. Backed(me.facts, d) => Backed(me.facts, e)  BY DEF Backed
<1> QED BY <1>1, <1>2, <1>3, <1>4 DEF Justified

\* A step of one process keeps what is claimed of all of them.
LEMMA ProcsStep ==
  ASSUME ProcsOK, NEW p \in Procs, NEW r, proc' = [proc EXCEPT ![p] = r], menu' = menu,
         told \subseteq told',
         chain.done \subseteq chain'.done, GoodRecord(r, menu, chain'.done, told)
  PROVE  ProcsOK'
<1>1. DOMAIN proc' = Procs  BY DEF ProcsOK
<1>2. ASSUME NEW q \in Procs PROVE GoodRecord(proc'[q], menu, chain'.done, told')
  <2>1. CASE q = p
    <3>1. proc'[q] = r  BY <2>1 DEF ProcsOK
    <3>2. Justified(r, chain'.done, told')  BY JustifiedGrows DEF GoodRecord
    <3> QED BY <3>1, <3>2 DEF GoodRecord
  <2>2. CASE q # p
    <3>1. proc'[q] = proc[q]  BY <2>2 DEF ProcsOK
    <3>2. GoodRecord(proc[q], menu, chain.done, told)  BY DEF ProcsOK
    <3>3. Justified(proc[q], chain'.done, told')  BY <3>2, JustifiedGrows DEF GoodRecord
    <3> QED BY <3>1, <3>2, <3>3 DEF GoodRecord
  <2> QED BY <2>1, <2>2
<1> QED BY <1>1, <1>2 DEF ProcsOK

\* The files are none the worse for a step that leaves them alone.
LEMMA FilesQuiet ==
  ASSUME FilesOK, ProcsOK, NEW p \in Procs, NEW r, proc' = [proc EXCEPT ![p] = r],
         told \subseteq told',
         UNCHANGED <<files, owed, spoiled>>, chain.done \subseteq chain'.done,
         proc[p].pc \notin Filling, r.pc \notin Filling
  PROVE  FilesOK'
<1>1. HistoryWasInstalled'  BY InstalledGrows DEF FilesOK, HistoryWasInstalled
<1>2. ArtifactsAreReady'  BY ReadyGrows DEF FilesOK, ArtifactsAreReady, ReadyDocument
<1>3. RegistryNeverTorn' /\ NothingForgotten'  BY DEF FilesOK, RegistryNeverTorn, NothingForgotten
<1>4. \A f, q : q \in Procs => (Truncated(f, q)' <=> Truncated(f, q))
  BY DEF Truncated, ProcsOK
<1>5. \A q \in Procs : proc'[q].pc \in Filling => proc'[q] = proc[q]  BY DEF ProcsOK
<1>6. ASSUME NEW f \in Documents \ spoiled' PROVE WriterIsAlone(f)'
  <2>1. WriterIsAlone(f)  BY <1>6 DEF FilesOK
  <2> QED BY <2>1, <1>4, <1>5 DEF WriterIsAlone, Truncated
<1> QED BY <1>1, <1>2, <1>3, <1>6 DEF FilesOK

\* The queue is none the worse for a step of a process that does not poll.
LEMMA PoolQuiet ==
  ASSUME PoolOK, ProcsOK, NEW p \in Procs, NEW r, proc' = [proc EXCEPT ![p] = r], pool' = pool,
         proc[p].pc # "poll"
  PROVE  PoolOK'
<1>1. ASSUME NEW a \in Accounts PROVE Polled(pool[a])'
  <2>1. Polled(pool[a]) /\ (pool[a] # None => pool[a].by \in Procs \cup {None})  BY DEF PoolOK
  <2>2. CASE pool[a] = None \/ pool[a].by = None  BY <2>2 DEF Polled
  <2>3. CASE pool[a] # None /\ pool[a].by # None
    <3>1. pool[a].by \in Procs /\ pool[a].by # p  BY <2>1, <2>3 DEF Polled
    <3>2. proc'[pool[a].by] = proc[pool[a].by]  BY <3>1 DEF ProcsOK
    <3> QED BY <2>1, <3>2 DEF Polled
  <2> QED BY <2>2, <2>3
<1> QED BY <1>1 DEF PoolOK

\* ... nor for one that stops polling and is forgotten.
LEMMA PoolForget ==
  ASSUME PoolOK, ProcsOK, NEW p \in Procs, NEW r, proc' = [proc EXCEPT ![p] = r], Forget(p)
  PROVE  PoolOK'
<1>0. None \notin Procs  BY CliAssumption
<1>1. ASSUME NEW a \in Accounts
      PROVE /\ pool'[a] # None => /\ DOMAIN pool'[a] = {"op", "arg", "by"}
                                  /\ pool'[a].by \in Procs \cup {None}
            /\ Polled(pool[a])'
  <2>1. /\ Polled(pool[a])
        /\ pool[a] # None => DOMAIN pool[a] = {"op", "arg", "by"} /\ pool[a].by \in Procs \cup {None}
    BY DEF PoolOK
  <2>2. CASE pool[a] # None /\ pool[a].by = p
    <3>1. pool'[a] = [pool[a] EXCEPT !.by = None]  BY <2>2 DEF Forget
    <3>2. pool'[a].by = None /\ DOMAIN pool'[a] = {"op", "arg", "by"}  BY <2>1, <2>2, <3>1
    <3> QED BY <3>2 DEF Polled
  <2>3. CASE ~(pool[a] # None /\ pool[a].by = p)
    <3>1. pool'[a] = pool[a]  BY <2>3 DEF Forget
    <3>2. ASSUME pool[a] # None, pool[a].by # None PROVE proc'[pool[a].by] = proc[pool[a].by]
      BY <2>1, <2>3, <3>2 DEF ProcsOK
    <3> QED BY <2>1, <3>1, <3>2 DEF Polled
  <2> QED BY <2>2, <2>3
<1>2. DOMAIN pool' = Accounts  BY DEF Forget
<1> QED BY <1>1, <1>2 DEF PoolOK

\* The parts, one step later.
LEMMA PartsNext ==
  IndInv' <=> BoundsOK' /\ ChainOK' /\ ProcsOK' /\ PoolOK' /\ FilesOK' /\ ReportedIsApplied'
  BY Parts, PTL

\* A process that runs nothing claims nothing.
LEMMA IdleFields ==
  /\ DOMAIN Idle = {"cmd", "pc", "arg", "base", "upd", "last", "vault", "fee", "fate", "tries",
                    "facts"}
  /\ Idle.cmd = None /\ Idle.pc = "idle" /\ Idle.tries = 0 /\ Idle.facts = {}
  BY DEF Idle

\* So its record is good, whatever the commands and the chain.
LEMMA IdleIsGood == \A cmds, done, said : GoodRecord(Idle, cmds, done, said)
<1>1. None \notin Commands  BY CliAssumption
<1>2. {"export", "deploy", "upgrade", "connect", "orchestrate"} \subseteq Commands
  BY DEF Commands, Target
<1>3. /\ None # "export" /\ None # "deploy" /\ None # "upgrade"
      /\ None # "connect" /\ None # "orchestrate"
  BY <1>1, <1>2
<1>4. \A cmds : ProcessOK(Idle, cmds)  BY IdleFields DEF ProcessOK, MAX_RETRIES
<1>5. \A done, said : Justified(Idle, done, said)  BY <1>3, IdleFields DEF Justified, Backed
<1>6. "idle" \notin Loaded  BY DEF Loaded, AdminPart, LinkPart
<1>7. Merging(Idle)  BY <1>3, <1>6, IdleFields DEF Merging
<1> QED BY <1>4, <1>5, <1>7 DEF GoodRecord

\* Reports of what has been applied remain true.
LEMMA ReportsStep ==
  ASSUME ReportedIsApplied, NEW X, told' = told \cup X, Backed(X, chain'.done),
         chain.done \subseteq chain'.done
  PROVE  ReportedIsApplied'
  BY DEF ReportedIsApplied, Backed

\* A bound that a step uses stays a number.
LEMMA BoundsStep ==
  ASSUME BoundsOK, menu' = menu, left' = left \/ Fault
  PROVE  BoundsOK'
  BY DEF BoundsOK, Fault

\* A step of one process that leaves the files alone.
LEMMA QuietStep ==
  ASSUME IndInv, NEW p \in Procs, NEW r, proc' = [proc EXCEPT ![p] = r],
         UNCHANGED <<menu, files, owed, spoiled>>, left' = left \/ Fault,
         ChainOK', chain.done \subseteq chain'.done, PoolOK',
         GoodRecord(r, menu, chain'.done, told), proc[p].pc \notin Filling, r.pc \notin Filling,
         NEW X, told' = told \cup X, Backed(X, chain'.done)
  PROVE  IndInv'
<1>1. BoundsOK /\ ChainOK /\ ProcsOK /\ PoolOK /\ FilesOK /\ ReportedIsApplied  BY Parts
<1>2. menu' = menu /\ UNCHANGED <<files, owed, spoiled>>  OBVIOUS
<1>3. BoundsOK'  BY <1>1, <1>2, BoundsStep
<1>4. ProcsOK'  BY <1>1, <1>2, ProcsStep
<1>5. FilesOK'  BY <1>1, <1>2, FilesQuiet
<1>6. ReportedIsApplied'  BY <1>1, ReportsStep
<1> QED BY <1>3, <1>4, <1>5, <1>6, PartsNext

\* A step of one process, not polling, that changes nothing outside it but the reports.
LEMMA LocalStep ==
  ASSUME IndInv, NEW p \in Procs, NEW r, proc' = [proc EXCEPT ![p] = r],
         UNCHANGED <<menu, files, chain, pool, owed, spoiled>>, left' = left \/ Fault,
         GoodRecord(r, menu, chain.done, told), proc[p].pc \notin Filling, proc[p].pc # "poll",
         r.pc \notin Filling, NEW X, told' = told \cup X, Backed(X, chain.done)
  PROVE  IndInv'
<1>1. BoundsOK /\ ChainOK /\ ProcsOK /\ PoolOK /\ FilesOK /\ ReportedIsApplied  BY Parts
<1>2. ChainOK'  BY <1>1 DEF ChainOK
<1>3. PoolOK'  BY <1>1, PoolQuiet
<1>4. chain' = chain /\ UNCHANGED <<menu, files, owed, spoiled>>  OBVIOUS
<1>5. GoodRecord(r, menu, chain'.done, told) /\ Backed(X, chain'.done) /\ chain.done \subseteq chain'.done
  BY <1>4
<1> QED BY <1>2, <1>3, <1>4, <1>5, QuietStep

\* What a command that ends reports: nothing, or facts that have been applied.
LEMMA EndsLocally ==
  ASSUME IndInv, NEW p \in Procs, UNCHANGED <<menu, files, chain, pool, owed, spoiled>>,
         left' = left \/ Fault, proc[p].pc \notin Filling, proc[p].pc # "poll",
         \/ Fail(p)
         \/ \E X : Succeed(p, X) /\ Backed(X, chain.done)
  PROVE  IndInv'
<1>1. PICK X : Now(p, Idle) /\ told' = told \cup X /\ Backed(X, chain.done)
  <2>1. Backed({}, chain.done) /\ told = told \cup {}  BY DEF Backed
  <2> QED BY <2>1 DEF Fail, Succeed
<1>2. proc' = [proc EXCEPT ![p] = Idle]  BY <1>1 DEF Now
<1>3. Idle.pc \notin Filling  BY IdleFields DEF Filling
<1>4. GoodRecord(Idle, menu, chain.done, told)  BY IdleIsGood
<1> QED BY <1>1, <1>2, <1>3, <1>4, LocalStep

\* A process that moves on with nothing else changed.
LEMMA MovesLocally ==
  ASSUME IndInv, NEW p \in Procs, UNCHANGED <<menu, files, chain, pool, told, owed, spoiled>>,
         left' = left \/ Fault, proc[p].pc \notin Filling, proc[p].pc # "poll",
         NEW r, Now(p, r), GoodRecord(r, menu, chain.done, told), r.pc \notin Filling
  PROVE  IndInv'
<1>1. told' = told \cup {} /\ Backed({}, chain.done)  BY DEF Backed
<1>2. proc' = [proc EXCEPT ![p] = r]  BY DEF Now
<1>3. UNCHANGED <<menu, files, chain, pool, owed, spoiled>>  OBVIOUS
<1> QED BY <1>1, <1>2, <1>3, LocalStep

\* What the invariant says of one process.
LEMMA OneProcess ==
  ASSUME IndInv, NEW p \in Procs
  PROVE  /\ GoodRecord(proc[p], menu, chain.done, told) /\ menu \subseteq Commands
         /\ ProcessOK(proc[p], menu) /\ Justified(proc[p], chain.done, told) /\ Merging(proc[p])
  BY Parts DEF ProcsOK, BoundsOK, GoodRecord

----------------------------------------------------------------------------
(* Positions and records *)

\* Which commands a position belongs to.
LEMMA Where ==
  ASSUME NEW me, NEW cmds, cmds \subseteq Commands, ProcessOK(me, cmds)
  PROVE  /\ me.pc \in {"temp", "rename"} => me.cmd \in {"register", "export", "deploy"}
         /\ me.pc \in {"write", "fill"} => me.cmd \in {"accountAdd", "accountRemove", "upgrade"}
         /\ me.pc \in AdminPart => me.cmd \in {"initSuperAdmin", "orchestrate"}
         /\ me.pc \in LinkPart => me.cmd \in {"connect", "orchestrate"}
         /\ me.pc \in {"prepare", "send", "poll"} =>
              me.cmd \in {"upgrade", "rollback", "smokeTest", "migrate"}
         /\ me.cmd # None => me.cmd \in Commands /\ me.arg \in Args(me.cmd) /\ me.pc \in Positions(me.cmd)
         /\ me.cmd = None => me.pc = "idle"
<1>1. me.cmd # None => me.cmd \in Commands /\ me.arg \in Args(me.cmd) /\ me.pc \in Positions(me.cmd)
  BY DEF ProcessOK
<1>2. me.cmd = None => me.pc = "idle"  BY DEF ProcessOK
<1>3. ASSUME me.cmd \in Commands, me.pc \in Positions(me.cmd)
      PROVE  /\ me.pc \in {"temp", "rename"} => me.cmd \in {"register", "export", "deploy"}
             /\ me.pc \in {"write", "fill"} => me.cmd \in {"accountAdd", "accountRemove", "upgrade"}
             /\ me.pc \in AdminPart => me.cmd \in {"initSuperAdmin", "orchestrate"}
             /\ me.pc \in LinkPart => me.cmd \in {"connect", "orchestrate"}
             /\ me.pc \in {"prepare", "send", "poll"} =>
                  me.cmd \in {"upgrade", "rollback", "smokeTest", "migrate"}
  BY <1>3 DEF Positions, AdminPart, LinkPart, Sending, Commands, Target
<1> QED BY <1>1, <1>2, <1>3 DEF AdminPart, LinkPart

\* A record in which only the position has changed.
LEMMA MovedFields ==
  ASSUME NEW me, DOMAIN me = DOMAIN Idle, NEW x, NEW r, r = [me EXCEPT !.pc = x]
  PROVE  /\ DOMAIN r = DOMAIN Idle /\ r.pc = x
         /\ r.cmd = me.cmd /\ r.arg = me.arg /\ r.base = me.base /\ r.upd = me.upd
         /\ r.last = me.last /\ r.vault = me.vault /\ r.fee = me.fee /\ r.fate = me.fate
         /\ r.tries = me.tries /\ r.facts = me.facts
  BY IdleFields

\* smoke-test
LEMMA SmokeTestKeeps ==
  ASSUME IndInv, NEW p \in Procs, runSmokeTest(p)
  PROVE  IndInv'
<1> DEFINE me == proc[p]
           r == [me EXCEPT !.pc = "prepare"]
<1>1. GoodRecord(me, menu, chain.done, told) /\ me.cmd = "smokeTest" /\ me.pc = "start"
  BY OneProcess DEF runSmokeTest, At
<1>2. Now(p, r) /\ UNCHANGED <<menu, left, files, chain, pool, told, owed, spoiled>>
  BY DEF runSmokeTest, Goto
<1> HIDE DEF me, r
<1>4. r = [me EXCEPT !.pc = "prepare"] /\ DOMAIN me = DOMAIN Idle  BY <1>1 DEF r, GoodRecord, ProcessOK
<1>5. /\ DOMAIN r = DOMAIN Idle /\ r.pc = "prepare"
      /\ r.cmd = me.cmd /\ r.arg = me.arg /\ r.base = me.base /\ r.upd = me.upd
      /\ r.last = me.last /\ r.vault = me.vault /\ r.fee = me.fee /\ r.fate = me.fate
      /\ r.tries = me.tries /\ r.facts = me.facts
  BY <1>4, MovedFields
<1> HIDE DEF r
<1>6. GoodRecord(r, menu, chain.done, told)
  BY <1>1, <1>5, CliAssumption DEF GoodRecord, ProcessOK, Justified, Merging, Positions, Sending, Loaded, AdminPart, LinkPart, Commands, Target
<1> QED BY <1>1, <1>2, <1>5, <1>6, MovesLocally DEF Filling, me

\* A record whose command neither has a file in hand, polls, nor is one of those of
\* which more is claimed.
LEMMA SimpleIsGood ==
  ASSUME NEW cmds, NEW done, NEW said, NEW me, ProcessOK(me, cmds), me.cmd # None,
         NEW r, DOMAIN r = DOMAIN Idle, r.cmd = me.cmd, r.arg = me.arg,
         r.tries \in Nat, r.tries < MAX_RETRIES, Backed(r.facts, done),
         r.pc \in Positions(r.cmd), r.pc \notin Loaded, r.pc # "poll",
         r.cmd \notin {"upgrade", "deploy", "export"},
         r.cmd \in {"connect", "orchestrate"} => r.last \subseteq Contracts
  PROVE  GoodRecord(r, cmds, done, said)
<1>1. ProcessOK(r, cmds)  BY DEF ProcessOK
<1>2. r.pc \notin {"temp", "rename", "verify"}  BY DEF Loaded, AdminPart
<1>3. Justified(r, done, said)  BY <1>2 DEF Justified
<1>4. Merging(r)  BY DEF Merging
<1> QED BY <1>1, <1>3, <1>4 DEF GoodRecord

\* A retried query: the answer, another attempt, or the end of the command.
LEMMA RetryStep ==
  ASSUME IndInv, NEW p \in Procs, proc[p].cmd \in {"migrate", "dryRun"},
         proc[p].pc \notin Loaded, proc[p].pc # "poll",
         UNCHANGED <<menu, files, chain, pool, owed, spoiled>>, left' = left \/ Fault,
         IF proc[p].tries + 1 < MAX_RETRIES
         THEN Now(p, [proc[p] EXCEPT !.tries = @ + 1]) /\ UNCHANGED told
         ELSE Fail(p)
  PROVE  IndInv'
<1> DEFINE me == proc[p]
           r == [me EXCEPT !.tries = @ + 1]
<1>1. /\ menu \subseteq Commands /\ ProcessOK(me, menu) /\ Justified(me, chain.done, told)  BY OneProcess
<1>2. me.pc \notin Filling  BY DEF Loaded, Filling, AdminPart, LinkPart
<1>3. CASE me.tries + 1 < MAX_RETRIES
  <2>1. Now(p, r) /\ told' = told  BY <1>3
  <2>2. me.tries \in Nat /\ DOMAIN me = DOMAIN Idle  BY <1>1 DEF ProcessOK
  <2>3. /\ DOMAIN r = DOMAIN Idle /\ r.pc = me.pc /\ r.cmd = me.cmd /\ r.arg = me.arg
        /\ r.facts = me.facts /\ r.tries = me.tries + 1
    BY <2>2, IdleFields
  <2>4. Backed(me.facts, chain.done)  BY <1>1 DEF Justified
  <2>5. me.cmd # None  BY CliAssumption DEF Commands
  <2>6. me.pc \in Positions(me.cmd)  BY <1>1, <2>5 DEF ProcessOK
  <2>7. r.tries \in Nat /\ r.tries < MAX_RETRIES  BY <1>3, <2>2, <2>3
  <2>8. me.cmd \notin {"upgrade", "deploy", "export", "connect", "orchestrate"}  OBVIOUS
  <2> HIDE DEF me, r
  <2>9. GoodRecord(r, menu, chain.done, told)
    <3>1. Backed(r.facts, chain.done) /\ r.pc \in Positions(r.cmd) /\ r.pc \notin Loaded /\ r.pc # "poll"
      BY <2>3, <2>4, <2>6 DEF me
    <3>2. r.cmd \notin {"upgrade", "deploy", "export", "connect", "orchestrate"}  BY <2>3, <2>8
    <3> QED BY <1>1, <2>3, <2>5, <2>7, <3>1, <3>2, SimpleIsGood
  <2>10. r.pc \notin Filling /\ proc[p].pc \notin Filling /\ proc[p].pc # "poll"  BY <1>2, <2>3 DEF me
  <2>11. UNCHANGED <<menu, files, chain, pool, told, owed, spoiled>>  BY <2>1
  <2> QED BY <2>1, <2>9, <2>10, <2>11, MovesLocally
<1>4. CASE ~(me.tries + 1 < MAX_RETRIES)
  BY <1>2, <1>4, EndsLocally
<1> QED BY <1>3, <1>4

\* The RBAC migration
LEMMA MigrateKeeps ==
  ASSUME IndInv, NEW p \in Procs, migrateContract(p)
  PROVE  IndInv'
<1> DEFINE me == proc[p]
           asks == [me EXCEPT !.pc = "already", !.tries = 0]
           next == IF me.cmd = "dryRun" THEN "simulate" ELSE "prepare"
           goes == [me EXCEPT !.tries = 0, !.pc = next]
           known == {<<"role", me.arg>>}
<1>1. /\ menu \subseteq Commands /\ ProcessOK(me, menu) /\ Justified(me, chain.done, told)  BY OneProcess
<1>2. me.cmd \in {"migrate", "dryRun"} /\ UNCHANGED <<menu, files, chain, pool, owed, spoiled>>
  BY DEF migrateContract
<1>3. me.cmd # None  BY <1>2, CliAssumption DEF Commands
<1>4. DOMAIN me = DOMAIN Idle /\ Backed(me.facts, chain.done)  BY <1>1 DEF ProcessOK, Justified
<1>5. /\ "start" \notin Loaded /\ "already" \notin Loaded /\ "verifyRole" \notin Loaded
      /\ "simulate" \notin Loaded /\ "prepare" \notin Loaded
      /\ Filling \subseteq Loaded
  BY DEF Loaded, Filling, AdminPart, LinkPart
<1>6. GoodRecord(asks, menu, chain.done, told) /\ asks.pc \notin Filling
  <2>1. /\ DOMAIN asks = DOMAIN Idle /\ asks.pc = "already" /\ asks.cmd = me.cmd
        /\ asks.arg = me.arg /\ asks.facts = me.facts /\ asks.tries = 0
    BY <1>4, IdleFields
  <2> HIDE DEF asks, me
  <2>2. asks.pc \in Positions(asks.cmd)  BY <1>2, <2>1 DEF Positions, me
  <2>3. asks.cmd \notin {"upgrade", "deploy", "export", "connect", "orchestrate"}  BY <1>2, <2>1 DEF me
  <2>4. asks.tries \in Nat /\ asks.tries < MAX_RETRIES  BY <2>1 DEF MAX_RETRIES
  <2>5. Backed(asks.facts, chain.done) /\ asks.pc \notin Loaded /\ asks.pc # "poll"
    BY <1>4, <1>5, <2>1
  <2> QED BY <1>1, <1>3, <1>5, <2>1, <2>2, <2>3, <2>4, <2>5, SimpleIsGood
<1>7. GoodRecord(goes, menu, chain.done, told) /\ goes.pc \notin Filling
  <2>1. /\ DOMAIN goes = DOMAIN Idle /\ goes.pc = next /\ goes.cmd = me.cmd
        /\ goes.arg = me.arg /\ goes.facts = me.facts /\ goes.tries = 0
    BY <1>4, IdleFields
  <2>2. next \in Positions(me.cmd) /\ next \in {"simulate", "prepare"}
    BY <1>2 DEF Positions, Sending
  <2> HIDE DEF goes, me, next
  <2>3. goes.cmd \notin {"upgrade", "deploy", "export", "connect", "orchestrate"}  BY <1>2, <2>1 DEF me
  <2>4. goes.tries \in Nat /\ goes.tries < MAX_RETRIES  BY <2>1 DEF MAX_RETRIES
  <2>5. Backed(goes.facts, chain.done) /\ goes.pc \notin Loaded /\ goes.pc # "poll"
    BY <1>4, <1>5, <2>1, <2>2
  <2> QED BY <1>1, <1>3, <1>5, <2>1, <2>2, <2>3, <2>4, <2>5, SimpleIsGood
<1>8. hasRole(me.arg) => Backed(known, chain.done)  BY DEF hasRole, Backed
<1>9. Backed({}, chain.done)  BY DEF Backed
<1>10. CASE /\ At(p, "start")
            /\ withRetry(p, "has_admin", IF chain.admin = None THEN Fail(p)
                            ELSE Now(p, asks) /\ UNCHANGED told)
  <2>1. me.pc = "start" /\ me.pc \notin Filling /\ me.pc # "poll" /\ me.pc \notin Loaded
    BY <1>5, <1>10 DEF At
  <2> HIDE DEF asks
  <2>2. CASE Fail(p) /\ UNCHANGED left  BY <1>2, <2>1, <2>2, EndsLocally
  <2>3. CASE Now(p, asks) /\ UNCHANGED told /\ UNCHANGED left
    BY <1>2, <1>6, <2>1, <2>3, MovesLocally
  <2>4. CASE /\ left' = left \/ Fault
             /\ IF me.tries + 1 < MAX_RETRIES
                THEN Now(p, [me EXCEPT !.tries = @ + 1]) /\ UNCHANGED told ELSE Fail(p)
    BY <1>2, <2>1, <2>4, RetryStep
  <2> QED BY <1>10, <2>2, <2>3, <2>4 DEF withRetry, Refused
<1>11. CASE /\ At(p, "already")
            /\ withRetry(p, "has_role", IF hasRole(me.arg) THEN Succeed(p, known)
                            ELSE Now(p, goes) /\ UNCHANGED told)
  <2>1. me.pc = "already" /\ me.pc \notin Filling /\ me.pc # "poll" /\ me.pc \notin Loaded
    BY <1>5, <1>11 DEF At
  <2> HIDE DEF goes
  <2>2. CASE hasRole(me.arg) /\ Succeed(p, known) /\ UNCHANGED left
    BY <1>2, <1>8, <2>1, <2>2, EndsLocally
  <2>3. CASE Now(p, goes) /\ UNCHANGED told /\ UNCHANGED left
    BY <1>2, <1>7, <2>1, <2>3, MovesLocally
  <2>4. CASE /\ left' = left \/ Fault
             /\ IF me.tries + 1 < MAX_RETRIES
                THEN Now(p, [me EXCEPT !.tries = @ + 1]) /\ UNCHANGED told ELSE Fail(p)
    BY <1>2, <2>1, <2>4, RetryStep
  <2> QED BY <1>11, <2>2, <2>3, <2>4 DEF withRetry, Refused
<1>12. CASE /\ At(p, "simulate")
            /\ \/ "migrate_admin" \in chain.serves /\ Succeed(p, {}) /\ UNCHANGED left
               \/ Refused("migrate_admin") /\ Fail(p)
  <2>1. me.pc \notin Filling /\ me.pc # "poll"  BY <1>5, <1>12 DEF At
  <2> QED BY <1>2, <1>9, <1>12, <2>1, EndsLocally DEF Refused
<1>13. CASE /\ At(p, "verifyRole")
            /\ withRetry(p, "has_role", IF hasRole(me.arg) THEN Succeed(p, known) ELSE Fail(p))
  <2>1. me.pc \notin Filling /\ me.pc # "poll" /\ me.pc \notin Loaded  BY <1>5, <1>13 DEF At
  <2>2. CASE hasRole(me.arg) /\ Succeed(p, known) /\ UNCHANGED left
    BY <1>2, <1>8, <2>1, <2>2, EndsLocally
  <2>3. CASE Fail(p) /\ UNCHANGED left  BY <1>2, <2>1, <2>3, EndsLocally
  <2>4. CASE /\ left' = left \/ Fault
             /\ IF me.tries + 1 < MAX_RETRIES
                THEN Now(p, [me EXCEPT !.tries = @ + 1]) /\ UNCHANGED told ELSE Fail(p)
    BY <1>2, <2>1, <2>4, RetryStep
  <2> QED BY <1>13, <2>2, <2>3, <2>4 DEF withRetry, Refused
<1> QED BY <1>10, <1>11, <1>12, <1>13 DEF migrateContract

----------------------------------------------------------------------------
(* Reading a file *)

\* A record that has just read its file is good when what it will write is complete and
\* merges what it read, and what it claims of the chain holds.
LEMMA LoadedIsGood ==
  ASSUME NEW cmds, NEW done, NEW said, NEW me, ProcessOK(me, cmds), Justified(me, done, said), me.cmd # None,
         me.cmd \notin {"deploy", "export"},
         NEW x, NEW b, NEW u, NEW r, r = [me EXCEPT !.base = b, !.upd = u, !.pc = x],
         x \in Loaded, x \in Positions(me.cmd),
         u \in Contents(File(me)),
         me.cmd # "upgrade" /\ b # Torn => b \in Document(File(me)) /\ u = Spread(b, Adds(r)),
         x \in {"temp", "rename"} => ReadyDocument(u, done, said), x # "verify",
         me.cmd \in {"connect", "orchestrate"} => me.last \subseteq Contracts,
         me.cmd = "upgrade" => me.pc = "append" /\ Installed(u, done)
  PROVE  GoodRecord(r, cmds, done, said)
<1>1. /\ DOMAIN r = DOMAIN Idle /\ r.pc = x /\ r.base = b /\ r.upd = u
      /\ r.cmd = me.cmd /\ r.arg = me.arg /\ r.last = me.last
      /\ r.tries = me.tries /\ r.facts = me.facts
  <2>1. DOMAIN me = DOMAIN Idle  BY DEF ProcessOK
  <2> QED BY <2>1, IdleFields
<1>2. x # "poll"  BY DEF Loaded, AdminPart, LinkPart
<1>3. File(r) = File(me)  BY <1>1 DEF File
<1>4. ProcessOK(r, cmds)  BY <1>1 DEF ProcessOK
<1>5. Justified(r, done, said)
  <2>1. x \in {"temp", "rename"} => ReadyDocument(r.upd, done, said \cup r.facts)
    BY <1>1 DEF ReadyDocument
  <2> QED BY <1>1, <1>2, <2>1 DEF Justified
<1>6. Merging(r)  BY <1>1, <1>3 DEF Merging
<1> QED BY <1>4, <1>5, <1>6 DEF GoodRecord

\* deployments register
LEMMA RegisterKeeps ==
  ASSUME IndInv, NEW p \in Procs, registerDeploymentAlias(p)
  PROVE  IndInv'
<1> DEFINE me == proc[p]
           raw == files["registry"]
           u == Content(me, raw)
           r == [me EXCEPT !.base = raw, !.upd = u, !.pc = "temp"]
<1>1. /\ menu \subseteq Commands /\ ProcessOK(me, menu) /\ Justified(me, chain.done, told)  BY OneProcess
<1>2. me.cmd = "register" /\ me.pc = "start"  BY DEF registerDeploymentAlias, At
<1>3. raw # Torn  BY Parts DEF FilesOK, RegistryNeverTorn
<1>4. File(me) = "registry"  BY <1>2 DEF File, Target
<1>5. Load(p, "temp")  BY <1>3 DEF registerDeploymentAlias
<1>6. Now(p, r) /\ UNCHANGED <<menu, left, files, chain, pool, told, owed, spoiled>>
  BY <1>4, <1>5 DEF Load
<1>7. raw \in Document("registry")  BY <1>3, Parts, FileNames, ContentsOf DEF FilesOK
<1>8. me.cmd # None  BY <1>2, CliAssumption DEF Commands, Target
<1>9. me.arg \in Aliases  BY <1>1, <1>2, <1>8 DEF ProcessOK, Args
<1>10. u = Registered(raw, me.arg, 1)
  BY <1>2, <1>3 DEF Content, readDeploymentsDocument
<1>11. /\ u = Spread(raw, [a \in {me.arg} |-> 1]) /\ u \in Document("registry")
       /\ \A k \in ArtifactKeys : u[k] = raw[k]
  BY <1>7, <1>9, <1>10, RegisteredMerges
<1>12. ReadyDocument(raw, chain.done, told)  BY <1>3, Parts DEF FilesOK, ArtifactsAreReady
<1>13. ReadyDocument(u, chain.done, told)  BY <1>11, <1>12 DEF ReadyDocument, ArtifactKeys
<1> HIDE DEF u
<1>14. r.cmd = "register" /\ r.arg = me.arg /\ r.pc = "temp"
  BY <1>1, <1>2, IdleFields DEF ProcessOK
<1> HIDE DEF r
<1>15. Adds(r) = [a \in {me.arg} |-> 1]  BY <1>14 DEF Adds
<1>16. u \in Contents(File(me))  BY <1>4, <1>11, ContentsOf, FileNames
<1>17. "temp" \in Loaded /\ "temp" \in Positions(me.cmd)
  BY <1>2 DEF Loaded, Positions, AdminPart, LinkPart
<1>18. GoodRecord(r, menu, chain.done, told)
  <2>1. r = [me EXCEPT !.base = raw, !.upd = u, !.pc = "temp"]  BY DEF r
  <2>2. raw \in Document(File(me)) /\ u = Spread(raw, Adds(r))  BY <1>4, <1>7, <1>11, <1>15
  <2>3. me.cmd \notin {"deploy", "export", "upgrade", "connect", "orchestrate"}  BY <1>2
  <2> HIDE DEF me, raw
  <2> QED BY <1>1, <1>8, <1>13, <1>16, <1>17, <2>1, <2>2, <2>3, LoadedIsGood
<1>19. me.pc \notin Filling /\ me.pc # "poll" /\ r.pc \notin Filling  BY <1>2, <1>14 DEF Filling
<1> QED BY <1>6, <1>18, <1>19, MovesLocally

\* deployments resolve
LEMMA ResolveKeeps ==
  ASSUME IndInv, NEW p \in Procs, resolveContractReference(p)
  PROVE  IndInv'
<1>1. proc[p].pc \notin Filling /\ proc[p].pc # "poll"
  BY DEF resolveContractReference, At, Filling
<1>2. Fail(p) \/ (Succeed(p, {}) /\ Backed({}, chain.done))
  BY DEF resolveContractReference, Backed
<1>3. left' = left /\ UNCHANGED <<menu, files, chain, pool, owed, spoiled>>
  BY DEF resolveContractReference
<1> QED BY <1>1, <1>2, <1>3, EndsLocally

\* The configuration that a command works with is a document.
LEMMA ConfigLoaded ==
  ASSUME FilesOK
  PROVE  loadConfigFile(files["config"]) \in Document("config")
<1>1. files["config"] = Torn \/ files["config"] \in Document("config")
  BY FileNames, ContentsOf DEF FilesOK
<1> QED BY <1>1, EmptyIsDocument, FileNames DEF loadConfigFile

\* export-deployments
LEMMA ExportKeeps ==
  ASSUME IndInv, NEW p \in Procs, exportDeployments(p)
  PROVE  IndInv'
<1> DEFINE me == proc[p]
<1>1. /\ menu \subseteq Commands /\ ProcessOK(me, menu) /\ Justified(me, chain.done, told) /\ Merging(me)
  BY OneProcess
<1>2. me.cmd = "export"  BY DEF exportDeployments
<1>3. me.cmd # None  BY <1>2, CliAssumption DEF Commands, Target
<1>4. DOMAIN me = DOMAIN Idle /\ Backed(me.facts, chain.done)  BY <1>1 DEF ProcessOK, Justified
<1>0. me.arg \in GivenIds
  BY <1>1, <1>2, <1>3, CliAssumption DEF ProcessOK, Args, GivenIds
<1>5. CASE At(p, "start")
  <2> DEFINE config == loadConfigFile(files["config"])
             named == <<"exported", <<me.arg.vault, me.arg.fee>>>>
             r == [me EXCEPT !.last = config, !.pc = "document", !.facts = {named}]
  <2>1. Now(p, r) /\ UNCHANGED <<menu, left, files, chain, pool, told, owed, spoiled>>
    BY <1>5 DEF exportDeployments, At, Load
  <2>2. config \in Document("config")  BY Parts, ConfigLoaded
  <2> HIDE DEF config
  <2>3. /\ DOMAIN r = DOMAIN Idle /\ r.pc = "document" /\ r.cmd = me.cmd /\ r.last = config
        /\ r.arg = me.arg /\ r.facts = {named} /\ r.tries = me.tries
    BY <1>4, IdleFields
  <2>9. Backed({named}, chain.done)  BY DEF Backed, Unchecked
  <2>10. <<"exported", <<r.arg.vault, r.arg.fee>>>> \in r.facts  BY <2>3
  <2> HIDE DEF r, named
  <2>4. ProcessOK(r, menu)  BY <1>1, <1>2, <1>3, <2>3 DEF ProcessOK, Positions
  <2>5. Justified(r, chain.done, told)  BY <1>1, <1>2, <2>3, <2>9, <2>10 DEF Justified
  <2>6. Merging(r)  BY <1>2, <2>2, <2>3 DEF Merging, Loaded, AdminPart, LinkPart
  <2>7. me.pc \notin Filling /\ me.pc # "poll" /\ r.pc \notin Filling  BY <1>5, <2>3 DEF At, Filling
  <2>8. GoodRecord(r, menu, chain.done, told)  BY <2>4, <2>5, <2>6 DEF GoodRecord
  <2> QED BY <2>1, <2>7, <2>8, MovesLocally
<1>6. CASE At(p, "document")
  <2> DEFINE raw == files["registry"]
             u == Content(me, raw)
             r == [me EXCEPT !.base = raw, !.upd = u, !.pc = "temp"]
  <2>1. File(me) = "registry"  BY <1>2 DEF File, Target
  <2>2. Load(p, "temp")  BY <1>6 DEF exportDeployments, At
  <2>3. Now(p, r) /\ UNCHANGED <<menu, left, files, chain, pool, told, owed, spoiled>>
    BY <2>1, <2>2 DEF Load
  <2>4. raw # Torn  BY Parts DEF FilesOK, RegistryNeverTorn
  <2>5. raw \in Document("registry")  BY <2>4, Parts, FileNames, ContentsOf DEF FilesOK
  <2>6. me.last \in Document("config")  BY <1>1, <1>2, <1>6 DEF Merging, At
  <2>7. u = Exported(raw, me.last, me.arg)  BY <1>2, <1>6 DEF Content, At
  <2>8. /\ u = Spread(raw, ExportAdds(me.last, me.arg)) /\ u \in Document("registry")
        /\ u["contracts.vault"] = me.arg.vault /\ u["contracts.fee"] = me.arg.fee
    BY <1>0, <2>4, <2>5, <2>6, <2>7, ExportedMerges
  <2>18. <<"exported", <<me.arg.vault, me.arg.fee>>>> \in me.facts
    BY <1>1, <1>2, <1>6 DEF Justified, At
  <2>9. ReadyDocument(u, chain.done, told \cup me.facts)  BY <2>8, <2>18 DEF ReadyDocument
  <2> HIDE DEF u
  <2>10. /\ DOMAIN r = DOMAIN Idle /\ r.pc = "temp" /\ r.cmd = me.cmd /\ r.last = me.last
         /\ r.arg = me.arg /\ r.facts = me.facts /\ r.tries = me.tries /\ r.base = raw /\ r.upd = u
    BY <1>4, IdleFields
  <2> HIDE DEF r
  <2>11. Adds(r) = ExportAdds(me.last, me.arg)  BY <1>2, <2>10 DEF Adds, ExportAdds
  <2>12. File(r) = "registry"  BY <2>1, <2>10 DEF File
  <2>13. ProcessOK(r, menu)  BY <1>1, <1>2, <1>3, <2>10 DEF ProcessOK, Positions
  <2>14. Justified(r, chain.done, told)  BY <1>2, <1>4, <2>9, <2>10, <2>18 DEF Justified
  <2>15. Merging(r)
    <3>1. r.upd \in Contents(File(r))  BY <2>8, <2>10, <2>12, FileNames, ContentsOf
    <3>2. r.base \in Document(File(r)) /\ r.upd = Spread(r.base, Adds(r))
      BY <2>5, <2>8, <2>10, <2>11, <2>12
    <3> QED BY <1>2, <2>6, <2>10, <3>1, <3>2 DEF Merging
  <2>16. me.pc \notin Filling /\ me.pc # "poll" /\ r.pc \notin Filling  BY <1>6, <2>10 DEF At, Filling
  <2>17. GoodRecord(r, menu, chain.done, told)  BY <2>13, <2>14, <2>15 DEF GoodRecord
  <2> QED BY <2>3, <2>16, <2>17, MovesLocally
<1> QED BY <1>5, <1>6 DEF exportDeployments

----------------------------------------------------------------------------
(* Writing a file *)

\* What a command adds to a document are values.
LEMMA AddsTyped ==
  ASSUME NEW me, Merging(me), me.pc # "start", me.cmd = "export" => me.arg \in GivenIds,
         me.pc \in AdminPart => me.cmd \in {"initSuperAdmin", "orchestrate"}
  PROVE  \A k \in DOMAIN Adds(me) : Adds(me)[k] \in Values
<1>1. CASE me.cmd = "register"
  <2>1. Adds(me) = [a \in {me.arg} |-> 1]  BY <1>1 DEF Adds, AdminPart
  <2> QED BY <2>1 DEF Values
<1>2. CASE me.cmd = "export"
  <2>1. Adds(me) = ExportAdds(me.last, me.arg)  BY <1>2 DEF Adds, AdminPart, ExportAdds
  <2>2. me.last \in Document("config") /\ me.arg \in GivenIds  BY <1>2 DEF Merging
  <2> QED BY <2>1, <2>2, ExportAddsTyped
<1>3. CASE me.cmd = "deploy"
  <2>1. Adds(me) = [k \in ArtifactKeys |-> IF k = "contracts.vault" THEN me.vault ELSE me.fee]
    BY <1>3 DEF Adds, AdminPart
  <2>2. me.vault \in Values /\ me.fee \in Values  BY <1>3 DEF Merging, Values
  <2> QED BY <2>1, <2>2
<1>4. CASE me.cmd = "accountAdd"
  <2>1. Adds(me) = [n \in {me.arg} |-> 1]  BY <1>4 DEF Adds, AdminPart
  <2> QED BY <2>1 DEF Values
<1>5. CASE me.cmd = "accountRemove"
  <2>1. Adds(me) = [n \in {me.arg} |-> None]  BY <1>5 DEF Adds, AdminPart
  <2> QED BY <2>1 DEF Values
<1>6. CASE me.cmd \notin {"register", "export", "deploy", "accountAdd", "accountRemove"}
  <2>1. PICK known : known = Known(loadConfigFile(me.base), me.last)  OBVIOUS
  <2>2. Adds(me) = [k \in {"token"} |-> 1] \/ Adds(me) = LinkedConfig(known)  BY <1>6, <2>1 DEF Adds
  <2>3. \A k \in DOMAIN LinkedConfig(known) : LinkedConfig(known)[k] = 1  BY DEF LinkedConfig
  <2> QED BY <2>2, <2>3 DEF Values
<1> QED BY <1>1, <1>2, <1>3, <1>4, <1>5, <1>6

\* The argument of an export names a vault and a fee contract, or neither.
LEMMA ExportArg ==
  ASSUME NEW me, NEW cmds, ProcessOK(me, cmds), me.cmd = "export"
  PROVE  me.arg \in GivenIds
<1>1. me.cmd # None  BY CliAssumption DEF Commands, Target
<1> QED BY <1>1, CliAssumption DEF ProcessOK, Args, GivenIds

\* The file of each command, where it writes.
LEMMA FileOf ==
  ASSUME NEW me, NEW cmds, cmds \subseteq Commands, ProcessOK(me, cmds)
  PROVE  /\ me.pc \in {"temp", "rename"} => File(me) = "registry"
         /\ me.pc \in Loaded => me.cmd \in DOMAIN Target /\ File(me) \in Files
         /\ me.pc \in Loaded /\ File(me) = "registry" => me.pc \in {"temp", "rename"}
         /\ me.pc \in Loaded /\ File(me) = "history" => me.cmd = "upgrade" /\ me.pc \in {"write", "fill"}
         /\ me.pc \in AdminPart \cup LinkPart => File(me) = "config"
<1>1. Loaded \subseteq AdminPart \cup LinkPart \cup {"temp", "rename", "write", "fill"}  BY DEF Loaded
<1>2. /\ me.pc \in {"temp", "rename"} => me.cmd \in {"register", "export", "deploy"}
      /\ me.pc \in {"write", "fill"} => me.cmd \in {"accountAdd", "accountRemove", "upgrade"}
      /\ me.pc \in AdminPart => me.cmd \in {"initSuperAdmin", "orchestrate"}
      /\ me.pc \in LinkPart => me.cmd \in {"connect", "orchestrate"}
  BY Where
<1>3. me.pc \in {"temp", "rename"} => File(me) = "registry" /\ me.cmd \in DOMAIN Target
  BY <1>2 DEF File, Target
<1>4. me.pc \in {"write", "fill"} => /\ me.cmd \in DOMAIN Target
                                     /\ File(me) = IF me.cmd = "upgrade" THEN "history" ELSE "book"
  BY <1>2 DEF File, Target
<1>5. me.pc \in AdminPart \cup LinkPart => File(me) = "config" /\ me.cmd \in DOMAIN Target
  BY <1>2 DEF File, Target
<1> QED BY <1>1, <1>3, <1>4, <1>5, FileNames

\* fs.writeFileSync opens and truncates.
LEMMA FilesTruncate ==
  ASSUME FilesOK, ProcsOK, BoundsOK, NEW p \in Procs, NEW from, NEW to, Truncate(p, from, to),
         <<from, to>> \in {<<"write", "fill">>, <<"save", "saving">>, <<"record", "recording">>}
  PROVE  FilesOK'
<1> DEFINE me == proc[p]
           f == File(me)
<1>1. /\ me.pc = from /\ proc' = [proc EXCEPT ![p] = [me EXCEPT !.pc = to]]
      /\ files' = [files EXCEPT ![f] = Torn] /\ owed' = owed /\ chain' = chain /\ told' = told
      /\ spoiled' = spoiled \cup Overlap(p) \cup (IF files[f] = Torn THEN {f} ELSE {})
  BY DEF Truncate, At, Goto, Now
<1>2. ProcessOK(me, menu) /\ menu \subseteq Commands  BY DEF ProcsOK, GoodRecord, BoundsOK
<1>3. from \in Loaded /\ from \notin {"temp", "rename"} /\ to \in Filling
  BY DEF Loaded, AdminPart, LinkPart, Filling
<1>4. f \in Files /\ f # "registry"  BY <1>1, <1>2, <1>3, FileOf
<1>5. proc'[p].base = me.base /\ proc'[p].pc = to /\ File(proc'[p]) = f
  BY <1>1, <1>2, IdleFields DEF ProcsOK, ProcessOK, File
<1>6. \A q \in Procs : q # p => proc'[q] = proc[q]  BY <1>1 DEF ProcsOK
<1> HIDE DEF f
<1>7. files'[f] = Torn /\ \A g \in Files : g # f => files'[g] = files[g]  BY <1>1, <1>4 DEF FilesOK
<1>8. f \notin spoiled' => f \notin spoiled /\ files[f] = me.base /\ files[f] # Torn
  BY <1>1 DEF Overlap, f
<1>9. spoiled \subseteq spoiled' /\ spoiled' \subseteq Files  BY <1>1, <1>4 DEF Overlap, FilesOK, f
<1>10. ASSUME NEW g \in Documents \ spoiled' PROVE WriterIsAlone(g)'
  <2>1. g \in Documents \ spoiled /\ WriterIsAlone(g)  BY <1>9, <1>10 DEF FilesOK
  <2>2. CASE g = f
    <3>1. files[f] = me.base /\ files[f] # Torn  BY <1>8, <1>10, <2>2
    <3>2. files[f] = owed[f]  BY <2>1, <2>2, <3>1 DEF FilesOK, NothingForgotten
    <3>3. \A q \in Procs : ~Truncated(f, q)  BY <2>1, <2>2, <3>1 DEF WriterIsAlone
    <3>4. \A q \in Procs : Truncated(g, q)' => q = p  BY <1>6, <2>2, <3>3 DEF Truncated
    <3>5. proc'[p].base = owed'[g] /\ files'[g] = Torn  BY <1>1, <1>5, <1>7, <2>2, <3>1, <3>2
    <3> QED BY <3>4, <3>5 DEF WriterIsAlone
  <2>3. CASE g # f
    <3>1. \A q \in Procs : Truncated(g, q)' => q # p /\ Truncated(g, q)
      BY <1>5, <1>6, <2>3 DEF Truncated
    <3>2. files'[g] = files[g] /\ owed'[g] = owed[g]  BY <1>1, <1>7, <2>1, <2>3 DEF Files
    <3> QED BY <1>6, <2>1, <3>1, <3>2 DEF WriterIsAlone
  <2> QED BY <2>2, <2>3
<1>11. NothingForgotten'  BY <1>1, <1>7, <1>9 DEF FilesOK, NothingForgotten, Files
<1>12. RegistryNeverTorn' /\ ArtifactsAreReady'
  BY <1>1, <1>4, <1>7, FileNames DEF FilesOK, RegistryNeverTorn, ArtifactsAreReady
<1>13. HistoryWasInstalled'
  BY <1>1, <1>4, <1>7, FileNames DEF FilesOK, HistoryWasInstalled
<1>14. DOMAIN files' = Files /\ \A g \in Files : files'[g] \in Contents(g) \cup {Torn}
  BY <1>1, <1>7 DEF FilesOK
<1> QED BY <1>1, <1>9, <1>10, <1>11, <1>12, <1>13, <1>14 DEF FilesOK

\* ... and fills.
LEMMA FilesFill ==
  ASSUME FilesOK, ProcsOK, BoundsOK, NEW p \in Procs, proc[p].pc \in Filling, Fill(p),
         NEW r, proc' = [proc EXCEPT ![p] = r], r.pc \notin Filling, told \subseteq told'
  PROVE  FilesOK'
<1> DEFINE me == proc[p]
           f == File(me)
<1>1. /\ files' = [files EXCEPT ![f] = me.upd] /\ chain' = chain
      /\ spoiled' = spoiled \cup (IF files[f] = Torn THEN {} ELSE {f})
      /\ owed' = IF f = "history" THEN owed ELSE [owed EXCEPT ![f] = Spread(@, Adds(me))]
  BY DEF Fill
<1>2. /\ ProcessOK(me, menu) /\ menu \subseteq Commands /\ Merging(me) /\ Justified(me, chain.done, told)
  BY DEF ProcsOK, GoodRecord, BoundsOK
<1>3. me.pc \in Loaded /\ me.pc \notin {"temp", "rename", "start"}
  BY DEF Loaded, AdminPart, LinkPart, Filling
<1>4. /\ f \in Files /\ f # "registry" /\ me.cmd \in DOMAIN Target
      /\ f = "history" => me.cmd = "upgrade" /\ me.pc \in {"write", "fill"}
  BY <1>2, <1>3, FileOf
<1>5. me.upd \in Contents(f)  BY <1>2, <1>3 DEF Merging
<1>6. \A q \in Procs : q # p => proc'[q] = proc[q]  BY DEF ProcsOK
<1>7. proc'[p].pc \notin Filling  BY DEF ProcsOK
<1>8. \A k \in DOMAIN Adds(me) : Adds(me)[k] \in Values  BY <1>2, <1>3, Where, ExportArg, AddsTyped
<1>9. f # "history" => me.cmd \notin {"upgrade", "deploy"}
  BY <1>4, FileNames DEF File, Target
<1> HIDE DEF f
<1>10. files'[f] = me.upd /\ \A g \in Files : g # f => files'[g] = files[g]  BY <1>1, <1>4 DEF FilesOK
<1>11. f # "history" => f \in Documents  BY <1>4 DEF Files
<1>12. /\ DOMAIN owed' = Documents
       /\ \A g \in Documents : g # f => owed'[g] = owed[g]
       /\ f # "history" => owed'[f] = Spread(owed[f], Adds(me))
  BY <1>1, <1>11 DEF FilesOK
<1>13. \A g \in Documents : owed'[g] \in Document(g)
  <2>1. f # "history" => Spread(owed[f], Adds(me)) \in Document(f)
    BY <1>8, <1>11, SpreadTyped DEF FilesOK, Document, Values
  <2>2. "history" \notin Documents  BY FileNames
  <2> QED BY <1>12, <2>1, <2>2 DEF FilesOK
<1>14. spoiled \subseteq spoiled' /\ spoiled' \subseteq Files
  BY <1>1, <1>4 DEF FilesOK
<1>15. f \notin spoiled' => f \notin spoiled /\ files[f] = Torn  BY <1>1
<1>16. ASSUME NEW g \in Documents, g \notin spoiled' PROVE files'[g] = Torn \/ files'[g] = owed'[g]
  <2>1. CASE g = f
    <3>1. f \notin spoiled /\ files[f] = Torn /\ f # "history"  BY <1>15, <1>16, <2>1, FileNames
    <3>2. WriterIsAlone(f)  BY <1>16, <2>1, <3>1 DEF FilesOK
    <3>3. me.base = owed[f]  BY <3>2 DEF WriterIsAlone, Truncated, f
    <3>4. me.base # Torn
      <4>1. owed[f] \in Contents(f)  BY <1>11, <3>1, ContentsOf DEF FilesOK
      <4> QED BY <1>4, <3>3, <4>1, NotTorn
    <3>5. me.upd = Spread(me.base, Adds(me))  BY <1>2, <1>3, <1>9, <3>1, <3>4 DEF Merging, f
    <3> QED BY <1>10, <1>12, <2>1, <3>1, <3>3, <3>5
  <2>2. CASE g # f
    <3>1. files'[g] = files[g] /\ owed'[g] = owed[g]  BY <1>10, <1>12, <2>2 DEF Files
    <3>2. g \notin spoiled  BY <1>14, <1>16
    <3> QED BY <3>1, <3>2 DEF FilesOK, NothingForgotten
  <2> QED BY <2>1, <2>2
<1>17. ASSUME NEW g \in Documents \ spoiled' PROVE WriterIsAlone(g)'
  <2>1. g \in Documents \ spoiled /\ WriterIsAlone(g)  BY <1>14, <1>17 DEF FilesOK
  <2>2. \A q \in Procs : Truncated(g, q)' => q # p /\ Truncated(g, q)
    BY <1>6, <1>7 DEF Truncated
  <2>3. CASE g = f
    <3>1. Truncated(f, p)  BY DEF Truncated, f
    <3>2. \A q \in Procs : ~Truncated(g, q)'  BY <2>1, <2>2, <2>3, <3>1 DEF WriterIsAlone
    <3> QED BY <3>2 DEF WriterIsAlone
  <2>4. CASE g # f
    <3>1. files'[g] = files[g] /\ owed'[g] = owed[g]  BY <1>10, <1>12, <2>1, <2>4 DEF Files
    <3> QED BY <1>6, <2>1, <2>2, <3>1 DEF WriterIsAlone
  <2> QED BY <2>3, <2>4
<1>18. RegistryNeverTorn' /\ ArtifactsAreReady'
  <2>1. "registry" \in Files /\ files'["registry"] = files["registry"]  BY <1>4, <1>10, FileNames
  <2> QED BY <1>1, <2>1 DEF FilesOK, RegistryNeverTorn, ArtifactsAreReady, ReadyDocument
<1>19. HistoryWasInstalled'
  <2>1. f = "history" => Installed(me.upd, chain.done)  BY <1>2, <1>4 DEF Justified
  <2> QED BY <1>1, <1>10, <2>1, FileNames DEF FilesOK, HistoryWasInstalled
<1>20. DOMAIN files' = Files /\ \A g \in Files : files'[g] \in Contents(g) \cup {Torn}
  BY <1>1, <1>5, <1>10 DEF FilesOK
<1>21. NothingForgotten'  BY <1>16 DEF NothingForgotten
<1> QED BY <1>12, <1>13, <1>14, <1>17, <1>18, <1>19, <1>20, <1>21 DEF FilesOK

\* writeJsonAtomic renames the temporary file over the registry.
LEMMA FilesRename ==
  ASSUME FilesOK, ProcsOK, BoundsOK, NEW p \in Procs, proc[p].pc = "rename",
         files' = [files EXCEPT !["registry"] = proc[p].upd], chain' = chain,
         spoiled' = spoiled \cup Overlap(p),
         owed' = [owed EXCEPT !["registry"] = Spread(@, Adds(proc[p]))],
         proc' = [proc EXCEPT ![p] = Idle], told' = told \cup proc[p].facts
  PROVE  FilesOK'
<1> DEFINE me == proc[p]
<1>1. /\ ProcessOK(me, menu) /\ menu \subseteq Commands /\ Merging(me) /\ Justified(me, chain.done, told)
  BY DEF ProcsOK, GoodRecord, BoundsOK
<1>2. File(me) = "registry" /\ me.pc \in Loaded
  BY <1>1, FileOf DEF Loaded
<1>3. me.upd \in Contents("registry")  BY <1>1, <1>2 DEF Merging
<1>4. "registry" \in Documents /\ "registry" \in Files /\ Documents \subseteq Files  BY FileNames DEF Files
<1>5. ReadyDocument(me.upd, chain.done, told')  BY <1>1 DEF Justified
<1>6. \A k \in DOMAIN Adds(me) : Adds(me)[k] \in Values
  <2>1. me.pc \in AdminPart => me.cmd \in {"initSuperAdmin", "orchestrate"}  BY <1>1, Where
  <2>2. me.cmd = "export" => me.arg \in GivenIds  BY <1>1, ExportArg
  <2> QED BY <1>1, <2>1, <2>2, AddsTyped
<1>7. files'["registry"] = me.upd /\ \A g \in Files : g # "registry" => files'[g] = files[g]
  BY <1>4 DEF FilesOK
<1>8. /\ DOMAIN owed' = Documents
      /\ \A g \in Documents : g # "registry" => owed'[g] = owed[g]
      /\ owed'["registry"] = Spread(owed["registry"], Adds(me))
  BY <1>4 DEF FilesOK
<1>9. Spread(owed["registry"], Adds(me)) \in Document("registry")
  BY <1>4, <1>6, SpreadTyped DEF FilesOK, Document, Values
<1>10. spoiled \subseteq spoiled' /\ spoiled' \subseteq Files  BY <1>2, <1>4 DEF Overlap, FilesOK
<1>11. files'["registry"] # Torn  BY <1>3, <1>4, <1>7, NotTorn
<1>12. ASSUME "registry" \notin spoiled' PROVE files'["registry"] = owed'["registry"]
  <2>1. "registry" \notin spoiled /\ files["registry"] = me.base  BY <1>2, <1>12 DEF Overlap
  <2>2. files["registry"] # Torn  BY DEF FilesOK, RegistryNeverTorn
  <2>3. files["registry"] = owed["registry"]
    BY <1>4, <2>1, <2>2 DEF FilesOK, NothingForgotten
  <2>4. me.cmd # "deploy"
    <3>1. me.base \in Contents("registry")  BY <1>4, <2>1, <2>2 DEF FilesOK
    <3>2. me.base # None  BY <1>4, <3>1, NotTorn
    <3> QED BY <1>1, <3>2 DEF Merging
  <2>5. me.cmd # "upgrade"  BY <1>1, Where
  <2>6. me.upd = Spread(me.base, Adds(me))  BY <1>1, <1>2, <2>1, <2>2, <2>4, <2>5 DEF Merging
  <2> QED BY <1>7, <1>8, <2>1, <2>3, <2>6
<1>13. NothingForgotten'
  <2>1. ASSUME NEW g \in Documents, g \notin spoiled' PROVE files'[g] = Torn \/ files'[g] = owed'[g]
    BY <1>4, <1>7, <1>8, <1>10, <1>12, <2>1 DEF FilesOK, NothingForgotten
  <2> QED BY <2>1 DEF NothingForgotten
<1>14. \A q \in Procs : ~Truncated("registry", q)
  <2> SUFFICES ASSUME NEW q \in Procs, Truncated("registry", q) PROVE FALSE  OBVIOUS
  <2>1. ProcessOK(proc[q], menu)  BY DEF ProcsOK, GoodRecord
  <2>2. proc[q].pc \in Loaded /\ proc[q].pc \notin {"temp", "rename"}
    BY DEF Truncated, Filling, Loaded, AdminPart, LinkPart
  <2> QED BY <1>1, <2>1, <2>2, FileOf DEF Truncated
<1>15. \A q \in Procs : proc'[q] = IF q = p THEN Idle ELSE proc[q]  BY DEF ProcsOK
<1>16. Idle.pc \notin Filling  BY IdleFields DEF Filling
<1>17. ASSUME NEW g \in Documents \ spoiled' PROVE WriterIsAlone(g)'
  <2>1. WriterIsAlone(g)  BY <1>10, <1>17 DEF FilesOK
  <2>2. \A q \in Procs : Truncated(g, q)' => proc'[q] = proc[q] /\ Truncated(g, q)
    BY <1>15, <1>16 DEF Truncated
  <2>3. CASE g = "registry"  BY <1>14, <2>2, <2>3 DEF WriterIsAlone
  <2>4. CASE g # "registry"
    <3>1. files'[g] = files[g] /\ owed'[g] = owed[g]  BY <1>4, <1>7, <1>8, <1>17, <2>4
    <3> QED BY <2>1, <2>2, <3>1 DEF WriterIsAlone
  <2> QED BY <2>3, <2>4
<1>18. RegistryNeverTorn' /\ ArtifactsAreReady'
  BY <1>5, <1>7, <1>11 DEF RegistryNeverTorn, ArtifactsAreReady
<1>19. HistoryWasInstalled'  BY <1>7, FileNames DEF FilesOK, HistoryWasInstalled
<1>20. DOMAIN files' = Files /\ \A g \in Files : files'[g] \in Contents(g) \cup {Torn}
  BY <1>3, <1>7 DEF FilesOK
<1>21. \A g \in Documents : owed'[g] \in Document(g)  BY <1>8, <1>9 DEF FilesOK
<1> QED BY <1>8, <1>10, <1>13, <1>17, <1>18, <1>19, <1>20, <1>21 DEF FilesOK

\* A record that moves on with its file in hand.
LEMMA StaysLoaded ==
  ASSUME NEW cmds, cmds \subseteq Commands, NEW done, NEW more, done \subseteq more, NEW said,
         NEW me, GoodRecord(me, cmds, done, said), me.pc \in Loaded,
         NEW r, DOMAIN r = DOMAIN Idle, r.cmd = me.cmd, r.arg = me.arg, r.base = me.base,
         r.upd = me.upd, r.last = me.last, r.vault = me.vault, r.fee = me.fee, r.tries = me.tries,
         Backed(r.facts, more), r.pc \in Loaded, r.pc \in Positions(r.cmd),
         r.pc = "verify" => <<"initialized", None>> \in more,
         r.pc \in AdminPart <=> me.pc \in AdminPart,
         r.pc \in {"temp", "rename"} => me.pc \in {"temp", "rename"} /\ r.facts = me.facts
  PROVE  GoodRecord(r, cmds, more, said)
<1>1. ProcessOK(me, cmds) /\ Justified(me, more, said) /\ Merging(me)
  BY JustifiedGrows DEF GoodRecord
<1>2. me.cmd # None
  <2>1. "idle" \notin Loaded  BY DEF Loaded, AdminPart, LinkPart
  <2> QED BY <1>1, <2>1 DEF ProcessOK
<1>3. ProcessOK(r, cmds)  BY <1>1, <1>2 DEF ProcessOK
<1>4. r.pc # "poll"  BY DEF Loaded, AdminPart, LinkPart
<1>5. r.cmd = "upgrade" => me.pc \in {"write", "fill"} /\ r.pc \in {"write", "fill"}
  BY <1>1, <1>3, Where DEF Loaded
<1>6. r.cmd = "deploy" => r.pc \in {"temp", "rename"}
  BY <1>3, Where DEF Loaded
<1>12. r.cmd = "export" => r.pc \in {"temp", "rename"} /\ me.pc # "start"
  BY <1>3, Where DEF Loaded
<1>7. Justified(r, more, said)  BY <1>1, <1>4, <1>5, <1>6, <1>12 DEF Justified
<1>8. Adds(r) = Adds(me)  BY DEF Adds, AdminPart, Loaded, LinkPart
<1>9. File(r) = File(me)  BY DEF File
<1>10. me.cmd = "export" => me.pc # "start"  BY DEF Loaded, AdminPart, LinkPart
<1>11. Merging(r)  BY <1>1, <1>8, <1>9, <1>10 DEF Merging
<1> QED BY <1>3, <1>7, <1>11 DEF GoodRecord

\* The whole step of truncating a file.
LEMMA TruncateKeeps ==
  ASSUME IndInv, NEW p \in Procs, NEW from, NEW to, Truncate(p, from, to),
         <<from, to>> \in {<<"write", "fill">>, <<"save", "saving">>, <<"record", "recording">>}
  PROVE  IndInv'
<1> DEFINE me == proc[p]
           r == [me EXCEPT !.pc = to]
<1>1. BoundsOK /\ ChainOK /\ ProcsOK /\ PoolOK /\ FilesOK /\ ReportedIsApplied  BY Parts
<1>2. /\ me.pc = from /\ proc' = [proc EXCEPT ![p] = r]
      /\ UNCHANGED <<menu, left, chain, pool, told, owed>>
  BY DEF Truncate, At, Goto, Now
<1>3. GoodRecord(me, menu, chain.done, told) /\ menu \subseteq Commands /\ ProcessOK(me, menu)  BY OneProcess
<1>4. /\ DOMAIN r = DOMAIN Idle /\ r.pc = to
      /\ r.cmd = me.cmd /\ r.arg = me.arg /\ r.base = me.base /\ r.upd = me.upd
      /\ r.last = me.last /\ r.vault = me.vault /\ r.fee = me.fee /\ r.fate = me.fate
      /\ r.tries = me.tries /\ r.facts = me.facts
  BY <1>3, MovedFields DEF ProcessOK
<1>5. Backed(me.facts, chain.done)  BY <1>3 DEF GoodRecord, Justified
<1>6. from \in Loaded /\ to \in Loaded /\ (to \in AdminPart <=> from \in AdminPart)
      /\ from # "poll" /\ to \notin {"temp", "rename", "verify"}
  BY DEF Loaded, AdminPart, LinkPart
<1>7. me.cmd \in Commands /\ me.pc \in Positions(me.cmd)
  <2>1. me.pc # "idle"  BY <1>2
  <2> QED BY <1>3, <2>1, Where
<1>8. to \in Positions(me.cmd)
  BY <1>2, <1>7 DEF Positions, Sending, AdminPart, LinkPart, Commands, Target
<1> HIDE DEF r
<1>9. GoodRecord(r, menu, chain.done, told)
  <2>1. Backed(r.facts, chain.done) /\ r.pc \in Loaded /\ r.pc \in Positions(r.cmd) /\ me.pc \in Loaded
    BY <1>2, <1>4, <1>5, <1>6, <1>8
  <2>2. (r.pc \in AdminPart <=> me.pc \in AdminPart) /\ r.pc \notin {"temp", "rename", "verify"}
    BY <1>2, <1>4, <1>6
  <2> QED BY <1>3, <1>4, <2>1, <2>2, StaysLoaded
<1>10. FilesOK'  BY <1>1, FilesTruncate
<1>11. ProcsOK'
  <2>1. menu' = menu /\ chain.done \subseteq chain'.done /\ chain' = chain  BY <1>2
  <2> QED BY <1>1, <1>2, <1>9, <2>1, ProcsStep
<1>12. PoolOK'  BY <1>1, <1>2, <1>6, PoolQuiet
<1>13. BoundsOK' /\ ChainOK' /\ ReportedIsApplied'
  BY <1>1, <1>2 DEF BoundsOK, ChainOK, ReportedIsApplied
<1> QED BY <1>10, <1>11, <1>12, <1>13, PartsNext

\* The whole step of filling it and going on as r.
LEMMA FillKeeps ==
  ASSUME IndInv, NEW p \in Procs, proc[p].pc \in Filling, Fill(p),
         NEW r, proc' = [proc EXCEPT ![p] = r], r.pc \notin Filling,
         GoodRecord(r, menu, chain.done, told), NEW X, told' = told \cup X, Backed(X, chain.done)
  PROVE  IndInv'
<1>1. BoundsOK /\ ChainOK /\ ProcsOK /\ PoolOK /\ FilesOK /\ ReportedIsApplied  BY Parts
<1>2. UNCHANGED <<menu, left, chain, pool>>  BY DEF Fill
<1>3. menu' = menu /\ chain.done \subseteq chain'.done /\ chain' = chain /\ pool' = pool  BY <1>2
<1>10. told \subseteq told'  OBVIOUS
<1>4. FilesOK'  BY <1>1, <1>10, FilesFill
<1>5. ProcsOK'  BY <1>1, <1>3, ProcsStep
<1>6. proc[p].pc # "poll"  BY DEF Filling
<1>7. PoolOK'  BY <1>1, <1>3, <1>6, PoolQuiet
<1>8. BoundsOK' /\ ChainOK'  BY <1>1, <1>2 DEF BoundsOK, ChainOK
<1>9. ReportedIsApplied'  BY <1>1, <1>3, ReportsStep
<1> QED BY <1>4, <1>5, <1>7, <1>8, <1>9, PartsNext

\* The command ends with the write.
LEMMA FillEnds ==
  ASSUME IndInv, NEW p \in Procs, proc[p].pc \in Filling, Fill(p),
         NEW X, Succeed(p, X), Backed(X, chain.done)
  PROVE  IndInv'
<1>1. proc' = [proc EXCEPT ![p] = Idle] /\ told' = told \cup X  BY DEF Succeed, Now
<1>2. GoodRecord(Idle, menu, chain.done, told) /\ Idle.pc \notin Filling
  BY IdleIsGood, IdleFields DEF Filling
<1> QED BY <1>1, <1>2, FillKeeps

\* Facts that a process has gathered may be reported.
LEMMA FactsReported ==
  ASSUME IndInv, NEW p \in Procs
  PROVE  Backed(proc[p].facts, chain.done)
  BY OneProcess DEF Justified, Backed

\* writeJsonAtomic
LEMMA WriteAtomicKeeps ==
  ASSUME IndInv, NEW p \in Procs, writeJsonAtomic(p)
  PROVE  IndInv'
<1> DEFINE me == proc[p]
           r == [me EXCEPT !.pc = "rename"]
<1>1. GoodRecord(me, menu, chain.done, told) /\ menu \subseteq Commands /\ ProcessOK(me, menu)  BY OneProcess
<1>2. Backed(me.facts, chain.done)  BY FactsReported
<1>3. CASE /\ At(p, "temp") /\ Goto(p, "rename")
           /\ UNCHANGED <<menu, left, files, chain, pool, told, owed, spoiled>>
  <2>1. Now(p, r) /\ me.pc = "temp"  BY <1>3 DEF Goto, At
  <2>2. /\ DOMAIN r = DOMAIN Idle /\ r.pc = "rename"
        /\ r.cmd = me.cmd /\ r.arg = me.arg /\ r.base = me.base /\ r.upd = me.upd
        /\ r.last = me.last /\ r.vault = me.vault /\ r.fee = me.fee /\ r.fate = me.fate
        /\ r.tries = me.tries /\ r.facts = me.facts
    BY <1>1, MovedFields DEF ProcessOK
  <2> HIDE DEF r
  <2>3. Backed(me.facts, chain.done)  BY <1>1 DEF GoodRecord, Justified
  <2>4. me.cmd \in {"register", "export", "deploy"}  BY <1>1, <2>1, Where
  <2>5. "rename" \in Positions(me.cmd)  BY <2>4 DEF Positions
  <2>6. /\ "temp" \in Loaded /\ "rename" \in Loaded /\ "temp" \notin AdminPart /\ "rename" \notin AdminPart
        /\ "temp" \notin Filling /\ "rename" \notin Filling
    BY DEF Loaded, AdminPart, LinkPart, Filling
  <2>7. GoodRecord(r, menu, chain.done, told)
    <3>1. Backed(r.facts, chain.done) /\ r.pc \in Loaded /\ r.pc \in Positions(r.cmd) /\ me.pc \in Loaded
      BY <2>1, <2>2, <2>3, <2>5, <2>6
    <3>2. (r.pc \in AdminPart <=> me.pc \in AdminPart) /\ me.pc \in {"temp", "rename"}
      BY <2>1, <2>2, <2>6
    <3> QED BY <1>1, <2>2, <3>1, <3>2, StaysLoaded
  <2>8. me.pc \notin Filling /\ me.pc # "poll" /\ r.pc \notin Filling  BY <2>1, <2>2, <2>6
  <2>9. UNCHANGED <<menu, files, chain, pool, told, owed, spoiled>> /\ left' = left  BY <1>3
  <2> QED BY <2>1, <2>7, <2>8, <2>9, MovesLocally
<1>4. CASE /\ At(p, "temp") \/ At(p, "rename")
           /\ Fault
           /\ IF me.cmd = "deploy" THEN Succeed(p, me.facts) ELSE Fail(p)
           /\ UNCHANGED <<menu, files, chain, pool, owed, spoiled>>
  <2>1. me.pc \notin Filling /\ me.pc # "poll"  BY <1>4 DEF At, Filling
  <2>2. Fail(p) \/ (Succeed(p, me.facts) /\ Backed(me.facts, chain.done))  BY <1>2, <1>4
  <2>3. Fault /\ UNCHANGED <<menu, files, chain, pool, owed, spoiled>>  BY <1>4
  <2> QED BY <2>1, <2>2, <2>3, EndsLocally
<1>5. CASE /\ At(p, "rename") /\ Succeed(p, me.facts)
           /\ files' = [files EXCEPT !["registry"] = me.upd]
           /\ spoiled' = spoiled \cup Overlap(p)
           /\ owed' = [owed EXCEPT !["registry"] = Spread(@, Adds(me))]
           /\ UNCHANGED <<menu, left, chain, pool>>
  <2>1. BoundsOK /\ ChainOK /\ ProcsOK /\ PoolOK /\ FilesOK /\ ReportedIsApplied  BY Parts
  <2>2. /\ me.pc = "rename" /\ proc' = [proc EXCEPT ![p] = Idle] /\ told' = told \cup me.facts
    BY <1>5 DEF At, Succeed, Now
  <2>3. menu' = menu /\ chain.done \subseteq chain'.done /\ chain' = chain /\ pool' = pool  BY <1>5
  <2>4. FilesOK'  BY <1>5, <2>1, <2>2, <2>3, FilesRename
  <2>5. ProcsOK'  BY <2>1, <2>2, <2>3, IdleIsGood, ProcsStep
  <2>6. PoolOK'  BY <2>1, <2>2, <2>3, PoolQuiet
  <2>7. BoundsOK' /\ ChainOK'  BY <1>5, <2>1 DEF BoundsOK, ChainOK
  <2>8. ReportedIsApplied'  BY <1>2, <2>1, <2>2, <2>3, ReportsStep
  <2> QED BY <2>4, <2>5, <2>6, <2>7, <2>8, PartsNext
<1> QED BY <1>3, <1>4, <1>5 DEF writeJsonAtomic

\* account add and account remove
LEMMA SaveAccountKeeps ==
  ASSUME IndInv, NEW p \in Procs, saveAccount(p)
  PROVE  IndInv'
<1> DEFINE me == proc[p]
           raw == files["book"]
           u == Content(me, raw)
           r == [me EXCEPT !.base = raw, !.upd = u, !.pc = "write"]
<1>1. /\ menu \subseteq Commands /\ ProcessOK(me, menu) /\ Justified(me, chain.done, told)  BY OneProcess
<1>2. me.cmd \in {"accountAdd", "accountRemove"}  BY DEF saveAccount
<1>3. me.cmd # None  BY <1>2, CliAssumption DEF Commands, Target
<1>4. CASE /\ At(p, "start")
           /\ IF raw = Torn \/ (me.cmd = "accountRemove" /\ raw[me.arg] = None)
              THEN Fail(p) /\ UNCHANGED <<menu, left, files, chain, pool, owed, spoiled>>
              ELSE Load(p, "write")
  <2>1. me.pc = "start" /\ me.pc \notin Filling /\ me.pc # "poll"  BY <1>4 DEF At, Filling
  <2>2. CASE Fail(p) /\ UNCHANGED <<menu, left, files, chain, pool, owed, spoiled>>
    BY <2>1, <2>2, EndsLocally
  <2>3. CASE raw # Torn /\ Load(p, "write")
    <3>1. File(me) = "book"  BY <1>2 DEF File, Target
    <3>2. Now(p, r) /\ UNCHANGED <<menu, left, files, chain, pool, told, owed, spoiled>>
      BY <2>3, <3>1 DEF Load
    <3>3. raw \in Document("book")  BY <2>3, Parts, FileNames, ContentsOf DEF FilesOK
    <3>4. u = Spread(raw, [n \in {me.arg} |-> IF me.cmd = "accountAdd" THEN 1 ELSE None])
      <4>1. CASE me.cmd = "accountAdd"  BY <2>1, <4>1 DEF Content, Saved
      <4>2. CASE me.cmd = "accountRemove"  BY <2>1, <4>2 DEF Content, Removed
      <4> QED BY <1>2, <4>1, <4>2
    <3>5. u \in Document("book")
      BY <3>3, <3>4, SpreadTyped DEF Document, Values
    <3> HIDE DEF u
    <3>6. r.cmd = me.cmd /\ r.arg = me.arg /\ r.pc = "write"
      BY <1>1, IdleFields DEF ProcessOK
    <3> HIDE DEF r
    <3>7. Adds(r) = [n \in {me.arg} |-> IF me.cmd = "accountAdd" THEN 1 ELSE None]
      <4>1. CASE me.cmd = "accountAdd"  BY <3>6, <4>1 DEF Adds
      <4>2. CASE me.cmd = "accountRemove"  BY <3>6, <4>2 DEF Adds
      <4> QED BY <1>2, <4>1, <4>2
    <3>8. u \in Contents(File(me))  BY <3>1, <3>5, ContentsOf, FileNames
    <3>9. "write" \in Loaded /\ "write" \in Positions(me.cmd)
      BY <1>2 DEF Loaded, Positions, AdminPart, LinkPart
    <3>10. GoodRecord(r, menu, chain.done, told)
      <4>1. r = [me EXCEPT !.base = raw, !.upd = u, !.pc = "write"]  BY DEF r
      <4>2. raw \in Document(File(me)) /\ u = Spread(raw, Adds(r))  BY <3>1, <3>3, <3>4, <3>7
      <4>3. me.cmd \notin {"deploy", "export", "upgrade", "connect", "orchestrate"}  BY <1>2
      <4> HIDE DEF me, raw
      <4> QED BY <1>1, <1>3, <3>8, <3>9, <4>1, <4>2, <4>3, LoadedIsGood
    <3>11. r.pc \notin Filling  BY <3>6 DEF Filling
    <3> QED BY <2>1, <3>2, <3>10, <3>11, MovesLocally
  <2> QED BY <1>4, <2>2, <2>3
<1>5. CASE Truncate(p, "write", "fill")  BY <1>5, TruncateKeeps
<1>6. CASE At(p, "fill") /\ Fill(p) /\ Succeed(p, {})
  <2>1. me.pc \in Filling /\ Backed({}, chain.done)  BY <1>6 DEF At, Filling, Backed
  <2> QED BY <1>6, <2>1, FillEnds
<1> QED BY <1>4, <1>5, <1>6 DEF saveAccount

----------------------------------------------------------------------------
(* Transactions *)

\* The account of a process is one of the accounts.
LEMMA SignerIsAccount == \A p : Signer(p) \in Accounts
  BY CliAssumption DEF Signer

\* A call is a pair.
LEMMA CallIsPair == \A me : Call(me) = <<Call(me)[1], Call(me)[2]>>
<1> TAKE me
<1>1. CASE me.cmd = "upgrade"  BY <1>1 DEF Call
<1>2. CASE me.cmd = "rollback"  BY <1>2 DEF Call
<1>3. CASE me.cmd = "migrate"  BY <1>3 DEF Call
<1>4. CASE me.cmd \notin {"upgrade", "rollback", "migrate"}
  <2>1. Call(me) = <<IF me.facts = {} THEN "mint" ELSE "transfer", me.arg>>  BY <1>4 DEF Call
  <2> QED BY <2>1
<1> QED BY <1>1, <1>2, <1>3, <1>4

\* Two records with the same command, argument and facts make the same call.
LEMMA SameCall ==
  ASSUME NEW me, NEW r, r.cmd = me.cmd, r.arg = me.arg, r.last = me.last, r.facts = me.facts
  PROVE  Call(r) = Call(me)
  BY DEF Call

\* A record on the way to its transaction.
LEMMA SendingIsGood ==
  ASSUME NEW cmds, cmds \subseteq Commands, NEW done, NEW said, NEW me,
         GoodRecord(me, cmds, done, said),
         me.cmd \in {"upgrade", "rollback", "smokeTest", "migrate"},
         NEW r, DOMAIN r = DOMAIN Idle, r.cmd = me.cmd, r.arg = me.arg, r.tries = me.tries,
         Backed(r.facts, done), r.pc \in {"prepare", "send", "poll"},
         r.pc = "poll" => r.fate # "ok"
  PROVE  GoodRecord(r, cmds, done, said)
<1>1. ProcessOK(r, cmds)
  <2>1. r.pc \in Positions(r.cmd)  BY DEF Positions, Sending
  <2>2. me.cmd # None  BY CliAssumption DEF Commands, Target
  <2> QED BY <2>1, <2>2 DEF GoodRecord, ProcessOK
<1>2. Justified(r, done, said)  BY DEF Justified
<1>3. Merging(r)  BY DEF Merging, Loaded, AdminPart, LinkPart
<1> QED BY <1>1, <1>2, <1>3 DEF GoodRecord

\* A transaction is queued: the process polls for it, or nobody does.
LEMMA PoolQueue ==
  ASSUME PoolOK, ProcsOK, NEW p \in Procs, NEW r, proc' = [proc EXCEPT ![p] = r], NEW a \in Accounts,
         NEW t, pool' = [pool EXCEPT ![a] = t], proc[p].pc # "poll",
         DOMAIN t = {"op", "arg", "by"},
         t.by = None \/ (t.by = p /\ r.pc = "poll" /\ Call(r) = <<t.op, t.arg>>)
  PROVE  PoolOK'
<1>1. ASSUME NEW b \in Accounts
      PROVE /\ pool'[b] # None => /\ DOMAIN pool'[b] = {"op", "arg", "by"}
                                  /\ pool'[b].by \in Procs \cup {None}
            /\ Polled(pool[b])'
  <2>1. /\ Polled(pool[b])
        /\ pool[b] # None => DOMAIN pool[b] = {"op", "arg", "by"} /\ pool[b].by \in Procs \cup {None}
    BY DEF PoolOK
  <2>2. CASE b = a
    <3>1. pool'[b] = t /\ proc'[p] = r  BY <2>2 DEF PoolOK, ProcsOK
    <3> QED BY <3>1 DEF Polled
  <2>3. CASE b # a
    <3>1. pool'[b] = pool[b]  BY <2>3 DEF PoolOK
    <3>2. ASSUME pool[b] # None, pool[b].by # None PROVE proc'[pool[b].by] = proc[pool[b].by]
      BY <2>1, <3>2 DEF ProcsOK, Polled
    <3> QED BY <2>1, <3>1, <3>2 DEF Polled
  <2> QED BY <2>2, <2>3
<1>2. DOMAIN pool' = Accounts  BY DEF PoolOK
<1> QED BY <1>1, <1>2 DEF PoolOK

\* prepareSignAndSubmit
LEMMA SubmitKeeps ==
  ASSUME IndInv, NEW p \in Procs, prepareSignAndSubmit(p)
  PROVE  IndInv'
<1> DEFINE me == proc[p]
           a == Signer(p)
           tx(by) == [op |-> Call(me)[1], arg |-> Call(me)[2], by |-> by]
<1>1. GoodRecord(me, menu, chain.done, told) /\ menu \subseteq Commands /\ ProcessOK(me, menu)  BY OneProcess
<1>2. me.pc \in {"prepare", "send"}  BY DEF prepareSignAndSubmit, At
<1>3. me.cmd \in {"upgrade", "rollback", "smokeTest", "migrate"}  BY <1>1, <1>2, Where
<1>4. me.pc \notin Filling /\ me.pc # "poll"  BY <1>2 DEF Filling
<1>5. DOMAIN me = DOMAIN Idle /\ Backed(me.facts, chain.done)
  BY <1>1 DEF GoodRecord, ProcessOK, Justified
<1>6. BoundsOK /\ ChainOK /\ ProcsOK /\ PoolOK /\ FilesOK /\ ReportedIsApplied  BY Parts
<1>7. UNCHANGED <<menu, files, chain, owed, spoiled>>  BY DEF prepareSignAndSubmit
<1>8. a \in Accounts  BY SignerIsAccount
<1>9. chain' = chain /\ chain.done \subseteq chain'.done /\ ChainOK'  BY <1>6, <1>7 DEF ChainOK
<1>10. Backed({}, chain.done) /\ told = told \cup {}  BY DEF Backed
<1>11. CASE Fail(p) /\ pool' = pool /\ (left' = left \/ Fault)
  BY <1>4, <1>7, <1>11, EndsLocally
<1>12. CASE At(p, "prepare") /\ Goto(p, "send") /\ UNCHANGED <<left, told>> /\ pool' = pool
  <2> DEFINE r == [me EXCEPT !.pc = "send"]
  <2>1. Now(p, r)  BY <1>12 DEF Goto
  <2>2. /\ DOMAIN r = DOMAIN Idle /\ r.pc = "send" /\ r.cmd = me.cmd /\ r.arg = me.arg
        /\ r.tries = me.tries /\ r.facts = me.facts
    BY <1>5, MovedFields
  <2> HIDE DEF r
  <2>3. GoodRecord(r, menu, chain.done, told)  BY <1>1, <1>3, <1>5, <2>2, SendingIsGood
  <2>4. r.pc \notin Filling  BY <2>2 DEF Filling
  <2> QED BY <1>4, <1>7, <1>12, <2>1, <2>3, <2>4, MovesLocally
<1>13. ASSUME NEW fate \in {"pending", "unknown"}, UNCHANGED <<left, told>>,
              Now(p, [me EXCEPT !.pc = "poll", !.fate = fate]),
              \/ pool' = pool
              \/ fate = "pending" /\ Queue(p, p)
       PROVE  IndInv'
  <2> DEFINE r == [me EXCEPT !.pc = "poll", !.fate = fate]
  <2>1. /\ DOMAIN r = DOMAIN Idle /\ r.pc = "poll" /\ r.cmd = me.cmd /\ r.arg = me.arg
        /\ r.tries = me.tries /\ r.facts = me.facts /\ r.fate = fate /\ r.last = me.last
    BY <1>5, IdleFields
  <2>2. proc' = [proc EXCEPT ![p] = r]  BY <1>13 DEF Now
  <2> HIDE DEF r
  <2>3. r.fate # "ok"  BY <2>1
  <2>4. GoodRecord(r, menu, chain.done, told)  BY <1>1, <1>3, <1>5, <2>1, <2>3, SendingIsGood
  <2>5. PoolOK'
    <3>1. CASE pool' = pool  BY <1>4, <1>6, <2>2, <3>1, PoolQuiet
    <3>2. CASE Queue(p, p)
      <4>1. pool' = [pool EXCEPT ![a] = tx(p)]  BY <3>2 DEF Queue
      <4>2. Call(r) = Call(me)  BY <2>1, SameCall
      <4>3. Call(r) = <<tx(p).op, tx(p).arg>> /\ tx(p).by = p /\ DOMAIN tx(p) = {"op", "arg", "by"}
        BY <4>2, CallIsPair
      <4> HIDE DEF a, tx
      <4> QED BY <1>4, <1>6, <1>8, <2>1, <2>2, <4>1, <4>3, PoolQueue
    <3> QED BY <1>13, <3>1, <3>2
  <2>6. r.pc \notin Filling  BY <2>1 DEF Filling
  <2>7. told' = told \cup {} /\ left' = left  BY <1>10, <1>13
  <2> QED BY <1>4, <1>7, <1>9, <1>10, <2>2, <2>4, <2>5, <2>6, <2>7, QuietStep
<1>14. CASE Fault /\ Queue(p, None) /\ Fail(p)
  <2>1. proc' = [proc EXCEPT ![p] = Idle] /\ told' = told \cup {}  BY <1>10, <1>14 DEF Fail, Now
  <2>2. pool' = [pool EXCEPT ![a] = tx(None)]  BY <1>14 DEF Queue
  <2>3. tx(None).by = None /\ DOMAIN tx(None) = {"op", "arg", "by"}  OBVIOUS
  <2> HIDE DEF a, tx
  <2>4. PoolOK'  BY <1>4, <1>6, <1>8, <2>1, <2>2, <2>3, PoolQueue
  <2>5. GoodRecord(Idle, menu, chain.done, told) /\ Idle.pc \notin Filling
    BY IdleIsGood, IdleFields DEF Filling
  <2> QED BY <1>4, <1>7, <1>9, <1>10, <1>14, <2>1, <2>4, <2>5, QuietStep
<1>15. CASE At(p, "prepare")
  <2>1. pool' = pool  BY <1>2, <1>15 DEF prepareSignAndSubmit, At
  <2>2. \/ Goto(p, "send") /\ UNCHANGED <<left, told>>
        \/ Fail(p) /\ (left' = left \/ Fault)
    BY <1>15 DEF prepareSignAndSubmit, At, Refused
  <2> QED BY <1>11, <1>12, <1>15, <2>1, <2>2
<1>16. CASE At(p, "send")
  BY <1>11, <1>13, <1>14, <1>16 DEF prepareSignAndSubmit, At
<1> QED BY <1>2, <1>15, <1>16 DEF At

\* pollForConfirmation
LEMMA PollKeeps ==
  ASSUME IndInv, NEW p \in Procs, pollForConfirmation(p)
  PROVE  IndInv'
<1> DEFINE me == proc[p]
<1>1. /\ GoodRecord(me, menu, chain.done, told) /\ menu \subseteq Commands /\ ProcessOK(me, menu)
      /\ Justified(me, chain.done, told)
  BY OneProcess
<1>2. me.pc = "poll" /\ Forget(p) /\ UNCHANGED <<menu, files, chain, owed, spoiled>>
  BY DEF pollForConfirmation, At
<1>3. me.cmd \in {"upgrade", "rollback", "smokeTest", "migrate"}  BY <1>1, <1>2, Where
<1>4. me.pc \notin Filling  BY <1>2 DEF Filling
<1>5. DOMAIN me = DOMAIN Idle /\ Backed(me.facts, chain.done)  BY <1>1 DEF ProcessOK, Justified
<1>6. BoundsOK /\ ChainOK /\ ProcsOK /\ PoolOK /\ FilesOK /\ ReportedIsApplied  BY Parts
<1>7. chain' = chain /\ chain.done \subseteq chain'.done /\ ChainOK'  BY <1>2, <1>6 DEF ChainOK
<1>8. ASSUME NEW r, proc' = [proc EXCEPT ![p] = r], GoodRecord(r, menu, chain.done, told),
             r.pc \notin Filling, left' = left \/ Fault,
             NEW X, told' = told \cup X, Backed(X, chain.done)
      PROVE  IndInv'
  <2>1. PoolOK'  BY <1>2, <1>6, <1>8, PoolForget
  <2>2. GoodRecord(r, menu, chain'.done, told) /\ Backed(X, chain'.done)  BY <1>7, <1>8
  <2> QED BY <1>2, <1>4, <1>7, <1>8, <2>1, <2>2, QuietStep
<1>9. Backed({}, chain.done) /\ told = told \cup {}  BY DEF Backed
<1>10. GoodRecord(Idle, menu, chain.done, told) /\ Idle.pc \notin Filling
  BY IdleIsGood, IdleFields DEF Filling
<1>11. ASSUME Fail(p), left' = left \/ Fault PROVE IndInv'
  <2>1. proc' = [proc EXCEPT ![p] = Idle] /\ told' = told \cup {}  BY <1>9, <1>11 DEF Fail, Now
  <2> QED BY <1>8, <1>9, <1>10, <1>11, <2>1
<1>12. ASSUME me.fate = "ok", Confirmed(p), left' = left PROVE IndInv'
  <2>1. CASE me.cmd = "upgrade"
    <3> DEFINE r == [me EXCEPT !.pc = "recall"]
    <3>1. proc' = [proc EXCEPT ![p] = r] /\ told' = told \cup {}
      BY <1>9, <1>12, <2>1 DEF Confirmed, Goto, Now
    <3>2. /\ DOMAIN r = DOMAIN Idle /\ r.pc = "recall" /\ r.cmd = me.cmd /\ r.arg = me.arg
          /\ r.tries = me.tries /\ r.facts = me.facts
      BY <1>5, MovedFields
    <3> HIDE DEF r
    <3>3. <<"upgrade", me.arg>> \in chain.done
      <4>1. Call(me) = <<"upgrade", me.arg>>  BY <2>1 DEF Call
      <4>2. Call(me) \in chain.done  BY <1>1, <1>2, <1>12, <2>1 DEF Justified
      <4> QED BY <4>1, <4>2
    <3>4. ProcessOK(r, menu)
      <4>1. me.cmd # None  BY <2>1, CliAssumption DEF Commands, Target
      <4> QED BY <1>1, <2>1, <3>2, <4>1 DEF ProcessOK, Positions
    <3>5. Justified(r, chain.done, told)  BY <1>5, <2>1, <3>2, <3>3 DEF Justified
    <3>6. Merging(r)  BY <2>1, <3>2 DEF Merging, Loaded, AdminPart, LinkPart
    <3>7. r.pc \notin Filling  BY <3>2 DEF Filling
    <3>8. GoodRecord(r, menu, chain.done, told)  BY <3>4, <3>5, <3>6 DEF GoodRecord
    <3> QED BY <1>8, <1>9, <1>12, <3>1, <3>7, <3>8
  <2>2. CASE me.cmd = "migrate"
    <3> DEFINE r == [me EXCEPT !.pc = "verifyRole"]
    <3>1. proc' = [proc EXCEPT ![p] = r] /\ told' = told \cup {}
      BY <1>9, <1>12, <2>2 DEF Confirmed, Goto, Now
    <3>2. /\ DOMAIN r = DOMAIN Idle /\ r.pc = "verifyRole" /\ r.cmd = me.cmd /\ r.arg = me.arg
          /\ r.tries = me.tries /\ r.facts = me.facts
      BY <1>5, MovedFields
    <3> HIDE DEF r
    <3>3. me.cmd # None  BY <2>2, CliAssumption DEF Commands, Target
    <3>4. r.pc \in Positions(r.cmd)  BY <2>2, <3>2 DEF Positions
    <3>5. r.tries \in Nat /\ r.tries < MAX_RETRIES  BY <1>1, <3>2 DEF ProcessOK
    <3>6. /\ Backed(r.facts, chain.done) /\ r.pc \notin Loaded /\ r.pc # "poll" /\ r.pc \notin Filling
          /\ r.cmd \notin {"upgrade", "deploy", "export", "connect", "orchestrate"}
      BY <1>5, <2>2, <3>2 DEF Loaded, AdminPart, LinkPart, Filling
    <3>7. GoodRecord(r, menu, chain.done, told)  BY <1>1, <3>2, <3>3, <3>4, <3>5, <3>6, SimpleIsGood
    <3> QED BY <1>8, <1>9, <1>12, <3>1, <3>6, <3>7
  <2>3. Call(me) \in chain.done \/ me.cmd = "migrate"  BY <1>1, <1>2, <1>12 DEF Justified
  <2>4. CASE me.cmd = "smokeTest" /\ me.facts = {}
    <3> DEFINE r == [me EXCEPT !.facts = {Call(me)}, !.pc = "prepare", !.fate = None]
    <3>1. proc' = [proc EXCEPT ![p] = r] /\ told' = told \cup {}
      BY <1>9, <1>12, <2>4 DEF Confirmed, Now
    <3>2. /\ DOMAIN r = DOMAIN Idle /\ r.pc = "prepare" /\ r.cmd = me.cmd /\ r.arg = me.arg
          /\ r.tries = me.tries /\ r.facts = {Call(me)}
      BY <1>5, IdleFields
    <3> HIDE DEF r
    <3>3. Backed(r.facts, chain.done) /\ r.pc \notin Filling  BY <2>3, <2>4, <3>2 DEF Filling, Backed
    <3>4. GoodRecord(r, menu, chain.done, told)  BY <1>1, <1>3, <3>2, <3>3, SendingIsGood
    <3> QED BY <1>8, <1>9, <1>12, <3>1, <3>3, <3>4
  <2>5. CASE me.cmd = "rollback" \/ (me.cmd = "smokeTest" /\ me.facts # {})
    <3>1. Succeed(p, me.facts \cup {Call(me)})  BY <1>12, <2>5 DEF Confirmed
    <3>2. proc' = [proc EXCEPT ![p] = Idle] /\ told' = told \cup (me.facts \cup {Call(me)})
      BY <3>1 DEF Succeed, Now
    <3>3. Backed(me.facts \cup {Call(me)}, chain.done)  BY <1>5, <2>3, <2>5 DEF Backed
    <3> QED BY <1>8, <1>10, <1>12, <3>2, <3>3
  <2> QED BY <1>3, <2>1, <2>2, <2>4, <2>5
<1> QED BY <1>11, <1>12 DEF pollForConfirmation

\* What the history gives as the hash to return to has been installed.
LEMMA LastGoodInstalled ==
  ASSUME FilesOK, getLastGoodHash(files["history"]) # None
  PROVE  LET good == getLastGoodHash(files["history"]) IN
         good \in Hashes /\ <<"upgrade", good>> \in chain.done
<1> DEFINE raw == files["history"]
           n == Len(raw)
<1>1. raw # Torn /\ raw # <<>> /\ getLastGoodHash(raw) = raw[n].previousHash
  BY DEF getLastGoodHash, readHistoryFile
<1>2. raw \in Seq(Entry)  BY <1>1, FileNames, ContentsOf DEF FilesOK
<1>3. n \in 1 .. Len(raw) /\ n \in DOMAIN raw  BY <1>1, <1>2
<1>4. raw[n] \in Entry  BY <1>2, <1>3
<1>5. Installed(raw, chain.done)  BY <1>1 DEF FilesOK, HistoryWasInstalled
<1> QED BY <1>1, <1>3, <1>4, <1>5 DEF Entry, Installed

\* An appended entry keeps a history complete and installed.
LEMMA AppendedInstalled ==
  ASSUME FilesOK, NEW prev \in Hashes, NEW new \in Hashes,
         <<"upgrade", prev>> \in chain.done, <<"upgrade", new>> \in chain.done
  PROVE  /\ Appended(files["history"], prev, new) \in Seq(Entry)
         /\ Installed(Appended(files["history"], prev, new), chain.done)
<1> DEFINE raw == files["history"]
           old == readHistoryFile(raw)
           e == [previousHash |-> prev, newHash |-> new]
<1>1. old \in Seq(Entry)
  <2>1. raw # Torn => raw \in Seq(Entry)  BY FileNames, ContentsOf DEF FilesOK
  <2> QED BY <2>1 DEF readHistoryFile
<1>2. Installed(old, chain.done)
  <2>1. raw # Torn => Installed(raw, chain.done)  BY DEF FilesOK, HistoryWasInstalled
  <2>2. Installed(<<>>, chain.done)  BY DEF Installed
  <2> QED BY <2>1, <2>2 DEF readHistoryFile
<1>3. e \in Entry /\ e.previousHash = prev /\ e.newHash = new  BY DEF Entry
<1>4. Appended(raw, prev, new) = Append(old, e)  BY DEF Appended
<1> HIDE DEF old, e
<1>5. Append(old, e) \in Seq(Entry)  BY <1>1, <1>3
<1>6. ASSUME NEW i \in DOMAIN Append(old, e)
      PROVE  {<<"upgrade", Append(old, e)[i].newHash>>, <<"upgrade", Append(old, e)[i].previousHash>>}
               \subseteq chain.done
  <2>1. i \in DOMAIN old \/ Append(old, e)[i] = e  BY <1>1, <1>6
  <2>2. i \in DOMAIN old => Append(old, e)[i] = old[i]  BY <1>1
  <2> QED BY <1>2, <1>3, <2>1, <2>2 DEF Installed
<1> QED BY <1>4, <1>5, <1>6 DEF Installed

\* upgrade, and upgrade --to-last-good
LEMMA UpgradeKeeps ==
  ASSUME IndInv, NEW p \in Procs, runUpgrade(p)
  PROVE  IndInv'
<1> DEFINE me == proc[p]
           good == getLastGoodHash(files["history"])
<1>1. /\ GoodRecord(me, menu, chain.done, told) /\ menu \subseteq Commands /\ ProcessOK(me, menu)
      /\ Justified(me, chain.done, told)
  BY OneProcess
<1>2. me.cmd \in {"upgrade", "rollback"}  BY DEF runUpgrade
<1>3. DOMAIN me = DOMAIN Idle /\ Backed(me.facts, chain.done)  BY <1>1 DEF ProcessOK, Justified
<1>4. BoundsOK /\ ChainOK /\ ProcsOK /\ PoolOK /\ FilesOK /\ ReportedIsApplied  BY Parts
<1>5. me.cmd # None  BY <1>2, CliAssumption DEF Commands, Target
<1>6. me.cmd = "upgrade" => me.arg \in Hashes  BY <1>1, <1>5 DEF ProcessOK, Args
<1>7. me.cmd = "rollback" => me.pc \in Sending  BY <1>1, <1>5 DEF ProcessOK, Positions
<1>8. Backed({}, chain.done)  BY DEF Backed
<1>9. ASSUME NEW r, Now(p, r), UNCHANGED <<menu, left, files, chain, pool, told, owed, spoiled>>,
             me.pc = "start", DOMAIN r = DOMAIN Idle, r.pc = "prepare", r.cmd = me.cmd, r.arg = me.arg,
             r.tries = me.tries, r.facts = me.facts
      PROVE  IndInv'
  <2>1. GoodRecord(r, menu, chain.done, told)  BY <1>1, <1>2, <1>3, <1>9, SendingIsGood
  <2>2. r.pc \notin Filling /\ me.pc \notin Filling /\ me.pc # "poll"  BY <1>9 DEF Filling
  <2> QED BY <1>9, <2>1, <2>2, MovesLocally
<1>10. CASE /\ At(p, "start")
            /\ IF me.cmd = "upgrade" THEN Goto(p, "prepare") /\ UNCHANGED told
               ELSE IF good = None THEN Fail(p)
               ELSE Now(p, [me EXCEPT !.last = good, !.pc = "prepare"]) /\ UNCHANGED told
            /\ UNCHANGED <<menu, left, files, chain, pool, owed, spoiled>>
  <2>1. me.pc = "start" /\ me.pc \notin Filling /\ me.pc # "poll"  BY <1>10 DEF At, Filling
  <2>2. CASE Goto(p, "prepare") /\ UNCHANGED told
    <3> DEFINE r == [me EXCEPT !.pc = "prepare"]
    <3>1. Now(p, r)  BY <2>2 DEF Goto
    <3>2. /\ DOMAIN r = DOMAIN Idle /\ r.pc = "prepare" /\ r.cmd = me.cmd /\ r.arg = me.arg
          /\ r.tries = me.tries /\ r.facts = me.facts
      BY <1>3, MovedFields
    <3> HIDE DEF r
    <3> QED BY <1>9, <1>10, <2>1, <2>2, <3>1, <3>2
  <2>3. CASE Fail(p)  BY <1>10, <2>1, <2>3, EndsLocally
  <2>4. CASE Now(p, [me EXCEPT !.last = good, !.pc = "prepare"]) /\ UNCHANGED told
    <3> DEFINE r == [me EXCEPT !.last = good, !.pc = "prepare"]
    <3>1. Now(p, r)  BY <2>4
    <3>2. /\ DOMAIN r = DOMAIN Idle /\ r.pc = "prepare" /\ r.cmd = me.cmd /\ r.arg = me.arg
          /\ r.tries = me.tries /\ r.facts = me.facts
      BY <1>3, IdleFields
    <3> HIDE DEF r
    <3> QED BY <1>9, <1>10, <2>1, <2>4, <3>1, <3>2
  <2> QED BY <1>10, <2>2, <2>3, <2>4
<1>11. CASE /\ At(p, "start")
            /\ \/ "upgrade" \in chain.serves /\ Succeed(p, {}) /\ UNCHANGED left
               \/ Refused("upgrade") /\ Fail(p)
            /\ UNCHANGED <<menu, files, chain, pool, owed, spoiled>>
  <2>1. me.pc \notin Filling /\ me.pc # "poll"  BY <1>11 DEF At, Filling
  <2>2. (left' = left \/ Fault) /\ (Fail(p) \/ Succeed(p, {}))  BY <1>11 DEF Refused
  <2> QED BY <1>8, <1>11, <2>1, <2>2, EndsLocally
<1>12. CASE /\ At(p, "recall")
            /\ Now(p, [me EXCEPT !.last = IF good = None THEN me.arg ELSE good, !.pc = "append"])
            /\ UNCHANGED <<menu, left, files, chain, pool, told, owed, spoiled>>
  <2> DEFINE last == IF good = None THEN me.arg ELSE good
             r == [me EXCEPT !.last = last, !.pc = "append"]
  <2>1. me.pc = "recall" /\ me.cmd = "upgrade"  BY <1>2, <1>7, <1>12 DEF At, Sending
  <2>2. <<"upgrade", me.arg>> \in chain.done  BY <1>1, <2>1 DEF Justified
  <2>3. good # None => good \in Hashes /\ <<"upgrade", good>> \in chain.done  BY <1>4, LastGoodInstalled
  <2>4. last \in Hashes /\ <<"upgrade", last>> \in chain.done  BY <1>6, <2>1, <2>2, <2>3
  <2> HIDE DEF last
  <2>5. /\ DOMAIN r = DOMAIN Idle /\ r.pc = "append" /\ r.cmd = me.cmd /\ r.arg = me.arg
        /\ r.tries = me.tries /\ r.facts = me.facts /\ r.last = last
    BY <1>3, IdleFields
  <2>6. Now(p, r)  BY <1>12 DEF last
  <2> HIDE DEF r
  <2>7. ProcessOK(r, menu)  BY <1>1, <1>5, <2>1, <2>5 DEF ProcessOK, Positions
  <2>8. Justified(r, chain.done, told)  BY <1>3, <2>1, <2>2, <2>4, <2>5 DEF Justified
  <2>9. Merging(r)  BY <2>1, <2>5 DEF Merging, Loaded, AdminPart, LinkPart
  <2>10. GoodRecord(r, menu, chain.done, told)  BY <2>7, <2>8, <2>9 DEF GoodRecord
  <2>11. r.pc \notin Filling /\ me.pc \notin Filling /\ me.pc # "poll"  BY <2>1, <2>5 DEF Filling
  <2> QED BY <1>12, <2>6, <2>10, <2>11, MovesLocally
<1>13. CASE At(p, "append") /\ Load(p, "write")
  <2> DEFINE raw == files["history"]
             u == Content(me, raw)
             r == [me EXCEPT !.base = raw, !.upd = u, !.pc = "write"]
  <2>1. me.pc = "append" /\ me.cmd = "upgrade"  BY <1>2, <1>7, <1>13 DEF At, Sending
  <2>2. File(me) = "history"  BY <2>1 DEF File, Target
  <2>3. Now(p, r) /\ UNCHANGED <<menu, left, files, chain, pool, told, owed, spoiled>>
    BY <1>13, <2>2 DEF Load
  <2>4. u = Appended(raw, me.last, me.arg)  BY <2>1 DEF Content
  <2>5. /\ me.last \in Hashes /\ <<"upgrade", me.last>> \in chain.done
        /\ <<"upgrade", me.arg>> \in chain.done
    BY <1>1, <2>1 DEF Justified
  <2>6. u \in Seq(Entry) /\ Installed(u, chain.done)
    BY <1>4, <1>6, <2>1, <2>4, <2>5, AppendedInstalled
  <2> HIDE DEF u
  <2>7. u \in Contents(File(me))  BY <2>2, <2>6, ContentsOf
  <2>8. "write" \in Loaded /\ "write" \in Positions(me.cmd)
    BY <2>1 DEF Loaded, Positions, AdminPart, LinkPart
  <2>9. r.pc = "write"  BY <1>3, IdleFields
  <2> HIDE DEF r
  <2>10. GoodRecord(r, menu, chain.done, told)
    <3>1. r = [me EXCEPT !.base = raw, !.upd = u, !.pc = "write"]  BY DEF r
    <3> HIDE DEF me, raw
    <3> QED BY <1>1, <1>5, <2>1, <2>6, <2>7, <2>8, <3>1, LoadedIsGood
  <2>11. r.pc \notin Filling /\ me.pc \notin Filling /\ me.pc # "poll"  BY <2>1, <2>9 DEF Filling
  <2> QED BY <2>3, <2>10, <2>11, MovesLocally
<1>14. CASE Truncate(p, "write", "fill")  BY <1>14, TruncateKeeps
<1>15. CASE At(p, "fill") /\ Fill(p) /\ Succeed(p, {<<"upgrade", me.arg>>})
  <2>1. me.pc = "fill" /\ me.cmd = "upgrade"  BY <1>2, <1>7, <1>15 DEF At, Sending
  <2>2. <<"upgrade", me.arg>> \in chain.done  BY <1>1, <2>1 DEF Justified
  <2>3. Backed({<<"upgrade", me.arg>>}, chain.done) /\ me.pc \in Filling
    BY <2>1, <2>2 DEF Backed, Filling
  <2> QED BY <1>15, <2>3, FillEnds
<1> QED BY <1>10, <1>11, <1>12, <1>13, <1>14, <1>15 DEF runUpgrade

----------------------------------------------------------------------------
(* Calls through the SDK *)

\* The chain only grows by a call, and an admin that a call leaves has been set.
LEMMA ApplyGrows ==
  ASSUME ChainOK, NEW op, NEW x
  PROVE  LET c == Apply(chain, op, x) IN
         /\ DOMAIN c = {"admin", "done", "serves"}
         /\ c.admin # None => {<<"admin", c.admin>>, <<"initialized", None>>} \subseteq c.done
         /\ chain.done \subseteq c.done
         /\ op = "initialize" => <<"initialized", None>> \in c.done
         /\ op \notin {"initialize", "migrate_admin"} => <<op, x>> \in c.done
<1>1. DOMAIN chain = {"admin", "done", "serves"}  BY DEF ChainOK
<1>2. CASE op = "initialize"
  <2>1. Apply(chain, op, x) =
          [chain EXCEPT !.admin = x,
                        !.done = @ \cup {<<"admin", x>>, <<"role", x>>, <<"initialized", None>>}]
    BY <1>2 DEF Apply, initialize
  <2> QED BY <1>1, <1>2, <2>1
<1>3. CASE op = "migrate_admin"
  <2>1. Apply(chain, op, x) = [chain EXCEPT !.done = @ \cup {<<"entry", chain.admin>>}]
    BY <1>3 DEF Apply, migrate_admin
  <2> QED BY <1>1, <1>3, <2>1 DEF ChainOK
<1>4. CASE op \notin {"initialize", "migrate_admin"}
  <2>1. Apply(chain, op, x) = [chain EXCEPT !.done = @ \cup {<<op, x>>}]  BY <1>4 DEF Apply
  <2> QED BY <1>1, <1>4, <2>1 DEF ChainOK
<1> QED BY <1>2, <1>3, <1>4

\* Whatever becomes of an SDK call, the chain has only grown, the queue is in order, and
\* a call that succeeded has been applied.
LEMMA SdkCallStep ==
  ASSUME IndInv, NEW p \in Procs, NEW op, NEW x, NEW outcome \in Outcomes,
         SdkCall(p, op, x, outcome), NEW r, proc' = [proc EXCEPT ![p] = r], proc[p].pc # "poll"
  PROVE  /\ ChainOK' /\ chain.done \subseteq chain'.done /\ PoolOK' /\ (left' = left \/ Fault)
         /\ UNCHANGED <<menu, files, owed, spoiled>>
         /\ outcome = "ok" /\ op \notin {"initialize", "migrate_admin"} => <<op, x>> \in chain'.done
         /\ outcome = "ok" /\ op = "initialize" => <<"initialized", None>> \in chain'.done
<1>1. BoundsOK /\ ChainOK /\ ProcsOK /\ PoolOK /\ FilesOK /\ ReportedIsApplied  BY Parts
<1>2. UNCHANGED <<menu, files, owed, spoiled>>  BY DEF SdkCall
<1>3. CASE outcome = "ok"
  <2>1. chain' = Apply(chain, op, x) /\ pool' = pool /\ left' = left  BY <1>3 DEF SdkCall
  <2>2. ChainOK' /\ chain.done \subseteq chain'.done
        /\ (op \notin {"initialize", "migrate_admin"} => <<op, x>> \in chain'.done)
        /\ (op = "initialize" => <<"initialized", None>> \in chain'.done)
    BY <1>1, <2>1, ApplyGrows DEF ChainOK
  <2>3. PoolOK'  BY <1>1, <2>1, PoolQuiet
  <2> QED BY <1>2, <2>1, <2>2, <2>3
<1>4. CASE outcome = "lost"
  <2> DEFINE t == [op |-> op, arg |-> x, by |-> None]
  <2>1. Fault /\ chain' = chain /\ pool' = [pool EXCEPT ![Signer(p)] = t]  BY <1>4 DEF SdkCall
  <2>2. DOMAIN t = {"op", "arg", "by"} /\ t.by = None  OBVIOUS
  <2>3. Signer(p) \in Accounts  BY SignerIsAccount
  <2> HIDE DEF t
  <2>4. PoolOK'  BY <1>1, <2>1, <2>2, <2>3, PoolQueue
  <2>5. ChainOK' /\ chain.done \subseteq chain'.done  BY <1>1, <2>1 DEF ChainOK
  <2> QED BY <1>2, <1>4, <2>1, <2>4, <2>5
<1>5. CASE outcome \notin {"ok", "lost"}
  <2>1. (left' = left \/ Fault) /\ chain' = chain /\ pool' = pool  BY <1>5 DEF SdkCall, Refused
  <2>2. ChainOK' /\ chain.done \subseteq chain'.done  BY <1>1, <2>1 DEF ChainOK
  <2>3. PoolOK'  BY <1>1, <2>1, PoolQuiet
  <2> QED BY <1>2, <1>5, <2>1, <2>2, <2>3
<1> QED BY <1>3, <1>4, <1>5

\* A command that is one SDK call, and ends with it.
LEMMA OneCallKeeps ==
  ASSUME IndInv, NEW p \in Procs, NEW op, NEW x, NEW outcome \in Outcomes, SdkCall(p, op, x, outcome),
         proc[p].pc = "start", op \notin {"initialize", "migrate_admin"},
         \/ Fail(p)
         \/ Succeed(p, {<<op, x>>}) /\ (outcome = "ok" \/ op = "pause")
  PROVE  IndInv'
<1>1. PICK X : Now(p, Idle) /\ told' = told \cup X /\ (X = {} \/ (X = {<<op, x>>} /\ (outcome = "ok" \/ op = "pause")))
  <2>1. told = told \cup {}  OBVIOUS
  <2> QED BY <2>1 DEF Fail, Succeed
<1>2. proc' = [proc EXCEPT ![p] = Idle]  BY <1>1 DEF Now
<1>3. proc[p].pc # "poll" /\ proc[p].pc \notin Filling  BY DEF Filling
<1>4. /\ ChainOK' /\ chain.done \subseteq chain'.done /\ PoolOK' /\ (left' = left \/ Fault)
      /\ UNCHANGED <<menu, files, owed, spoiled>>
      /\ outcome = "ok" => <<op, x>> \in chain'.done
  BY <1>2, <1>3, SdkCallStep
<1>5. Backed(X, chain'.done)
  <2>1. CASE X = {}  BY <2>1 DEF Backed
  <2>2. CASE X = {<<op, x>>} /\ outcome = "ok"  BY <1>4, <2>2 DEF Backed
  <2>3. CASE X = {<<op, x>>} /\ op = "pause"  BY <2>3 DEF Backed, Unchecked
  <2> QED BY <1>1, <2>1, <2>2, <2>3
<1>6. GoodRecord(Idle, menu, chain'.done, told) /\ Idle.pc \notin Filling
  BY IdleIsGood, IdleFields DEF Filling
<1> QED BY <1>1, <1>2, <1>3, <1>4, <1>5, <1>6, QuietStep

\* multisig and pause
LEMMA MultisigAndPauseKeep ==
  ASSUME IndInv, NEW p \in Procs, runMultisigCommand(p) \/ runPauseCommand(p)
  PROVE  IndInv'
<1>1. proc[p].pc = "start" /\ proc[p].pc # "poll" /\ proc[p].pc \notin Filling
  BY DEF runMultisigCommand, runPauseCommand, At, Filling
<1>2. CASE Succeed(p, {}) /\ UNCHANGED <<menu, left, files, chain, pool, owed, spoiled>>
  <2>1. Backed({}, chain.done)  BY DEF Backed
  <2> QED BY <1>1, <1>2, <2>1, EndsLocally
<1>3. ASSUME NEW outcome \in Outcomes, SdkCall(p, "multisig", proc[p].arg, outcome),
             IF assertSuccess(p, outcome) THEN Succeed(p, {<<"multisig", proc[p].arg>>}) ELSE Fail(p)
      PROVE  IndInv'
  BY <1>1, <1>3, OneCallKeeps DEF assertSuccess
<1>4. ASSUME NEW outcome \in Outcomes, SdkCall(p, "pause", proc[p].arg, outcome),
             IF outcome \in {"ok", "false"} THEN Succeed(p, {<<"pause", proc[p].arg>>}) ELSE Fail(p)
      PROVE  IndInv'
  BY <1>1, <1>4, OneCallKeeps
<1> QED BY <1>2, <1>3, <1>4 DEF runMultisigCommand, runPauseCommand

----------------------------------------------------------------------------
(* init-superadmin, connect and orchestrate *)

\* How the first step of an orchestration, or init-superadmin, ends.
LEMMA AdminEnds ==
  ASSUME IndInv, NEW p \in Procs, proc[p].cmd \in {"initSuperAdmin", "orchestrate"},
         NEW facts, AdminStepEnds(p, facts), NEW done
  PROVE  \E r : /\ proc' = [proc EXCEPT ![p] = r] /\ GoodRecord(r, menu, done, told)
                /\ r.pc \notin Filling /\ told' = told \cup facts
<1> DEFINE me == proc[p]
           r == [me EXCEPT !.pc = "loadLinks", !.facts = {}]
<1>1. menu \subseteq Commands /\ ProcessOK(me, menu) /\ Merging(me)  BY OneProcess
<1>2. me.cmd # None  BY CliAssumption DEF Commands, Target
<1>3. told' = told \cup facts  BY DEF AdminStepEnds
<1>4. CASE me.cmd = "orchestrate"
  <2>1. proc' = [proc EXCEPT ![p] = r]  BY <1>4 DEF AdminStepEnds, Now
  <2>2. /\ DOMAIN r = DOMAIN Idle /\ r.pc = "loadLinks" /\ r.cmd = me.cmd /\ r.arg = me.arg
        /\ r.tries = me.tries /\ r.facts = {} /\ r.last = me.last
    BY <1>1, IdleFields DEF ProcessOK
  <2> HIDE DEF r
  <2>3. r.pc \in Positions(r.cmd)  BY <1>4, <2>2 DEF Positions, LinkPart
  <2>4. r.tries \in Nat /\ r.tries < MAX_RETRIES  BY <1>1, <2>2 DEF ProcessOK
  <2>5. /\ r.pc \notin Loaded /\ r.pc # "poll" /\ r.pc \notin Filling
        /\ r.cmd \notin {"upgrade", "deploy", "export"}
    BY <1>4, <2>2 DEF Loaded, AdminPart, LinkPart, Filling
  <2>6. Backed(r.facts, done) /\ r.last \subseteq Contracts  BY <1>1, <1>4, <2>2 DEF Backed, Merging
  <2>7. GoodRecord(r, menu, done, told)
    BY <1>1, <1>2, <2>2, <2>3, <2>4, <2>5, <2>6, SimpleIsGood
  <2> QED BY <1>3, <2>1, <2>5, <2>7
<1>5. CASE me.cmd # "orchestrate"
  <2>1. proc' = [proc EXCEPT ![p] = Idle]  BY <1>5 DEF AdminStepEnds, Now
  <2>2. GoodRecord(Idle, menu, done, told) /\ Idle.pc \notin Filling
    BY IdleIsGood, IdleFields DEF Filling
  <2> QED BY <1>3, <2>1, <2>2
<1> QED BY <1>4, <1>5

\* The configuration is read, and merged with what the command will add.
LEMMA ConfigLoadKeeps ==
  ASSUME IndInv, NEW p \in Procs, NEW x, Load(p, x),
         \/ proc[p].cmd \in {"initSuperAdmin", "orchestrate"} /\ proc[p].pc = "loadAdmin" /\ x = "initialize"
         \/ proc[p].cmd \in {"connect", "orchestrate"} /\ proc[p].pc = "loadLinks" /\ x = "link1"
  PROVE  IndInv'
<1> DEFINE me == proc[p]
           raw == files["config"]
           known == Known(loadConfigFile(raw), me.last)
           adds == IF me.pc = "loadAdmin" THEN AdminConfig ELSE LinkedConfig(known)
           u == Content(me, raw)
           r == [me EXCEPT !.base = raw, !.upd = u, !.pc = x]
<1>1. /\ menu \subseteq Commands /\ ProcessOK(me, menu) /\ Justified(me, chain.done, told)
      /\ Merging(me)
  BY OneProcess
<1>2. me.cmd \in {"initSuperAdmin", "connect", "orchestrate"} /\ me.pc \in {"loadAdmin", "loadLinks"}
  OBVIOUS
<1>3. me.cmd # None  BY <1>2, CliAssumption DEF Commands, Target
<1>4. File(me) = "config"  BY <1>2 DEF File, Target
<1>5. Now(p, r) /\ UNCHANGED <<menu, left, files, chain, pool, told, owed, spoiled>>
  BY <1>4 DEF Load
<1>6. loadConfigFile(raw) \in Document("config")  BY Parts, ConfigLoaded
<1>7. u = Spread(loadConfigFile(raw), adds)  BY <1>2 DEF Content
<1>8. \A k \in DOMAIN adds : adds[k] \in Values  BY DEF AdminConfig, LinkedConfig, Values
<1> HIDE DEF adds
<1>9. u \in Document("config")  BY <1>6, <1>7, <1>8, SpreadTyped DEF Document, Values
<1>10. raw # Torn => raw \in Document("config") /\ u = Spread(raw, adds)
  BY <1>6, <1>7 DEF loadConfigFile
<1> HIDE DEF u
<1>11. r.cmd = me.cmd /\ r.pc = x /\ r.base = raw /\ r.last = me.last
  BY <1>1, IdleFields DEF ProcessOK
<1> HIDE DEF r
<1>12. Adds(r) = adds  BY <1>2, <1>11 DEF Adds, adds, AdminConfig
<1>13. u \in Contents(File(me))  BY <1>4, <1>9, ContentsOf, FileNames
<1>14. x \in Loaded /\ x \in Positions(me.cmd) /\ x \notin {"temp", "rename", "verify"} /\ x \notin Filling
  BY DEF Loaded, Positions, AdminPart, LinkPart, Filling
<1>15. /\ me.cmd \notin {"deploy", "export", "upgrade"}
       /\ me.cmd \in {"connect", "orchestrate"} => me.last \subseteq Contracts
  BY <1>1, <1>2 DEF Merging
<1>16. GoodRecord(r, menu, chain.done, told)
  <2>1. r = [me EXCEPT !.base = raw, !.upd = u, !.pc = x]  BY DEF r
  <2>2. raw # Torn => raw \in Document(File(me)) /\ u = Spread(raw, Adds(r))  BY <1>4, <1>10, <1>12
  <2> HIDE DEF me, raw
  <2> QED BY <1>1, <1>3, <1>13, <1>14, <1>15, <2>1, <2>2, LoadedIsGood
<1>17. me.pc \notin Filling /\ me.pc # "poll" /\ r.pc \notin Filling  BY <1>2, <1>11, <1>14 DEF Filling
<1> QED BY <1>5, <1>16, <1>17, MovesLocally

\* A step from one position with the configuration in hand to the next, reporting a link
\* perhaps.
MovedOn(r, me, x, new, more) ==
  /\ <<me.pc, x>> \in {<<"initialize", "verify">>, <<"link1", "link2">>, <<"link2", "link3">>,
                       <<"link3", "record">>}
  /\ x = "verify" => <<"initialized", None>> \in more
  /\ \A fact \in new : fact[1] \in Unchecked
  /\ DOMAIN r = DOMAIN Idle /\ r.pc = x
  /\ r.cmd = me.cmd /\ r.arg = me.arg /\ r.base = me.base /\ r.upd = me.upd
  /\ r.last = me.last /\ r.vault = me.vault /\ r.fee = me.fee
  /\ r.tries = me.tries /\ r.facts = me.facts \cup new

\* Such a step leaves the process in order.
LEMMA ConfigMoves ==
  ASSUME IndInv, NEW p \in Procs, NEW x, NEW more, NEW new, NEW r,
         MovedOn(r, proc[p], x, new, more), chain.done \subseteq more
  PROVE  GoodRecord(r, menu, more, told) /\ r.pc \notin Filling
<1> DEFINE me == proc[p]
<1> USE DEF MovedOn
<1>1. GoodRecord(me, menu, chain.done, told) /\ menu \subseteq Commands /\ ProcessOK(me, menu)  BY OneProcess
<1>2. Backed(me.facts, chain.done)  BY FactsReported
<1>3. Backed(r.facts, more)  BY <1>2 DEF Backed
<1>4. /\ me.pc \in Loaded /\ x \in Loaded /\ (x \in AdminPart <=> me.pc \in AdminPart)
      /\ x \notin {"temp", "rename"} /\ x \notin Filling
  BY DEF Loaded, AdminPart, LinkPart, Filling
<1>5. (me.pc \in AdminPart /\ x \in AdminPart) \/ (me.pc \in LinkPart /\ x \in LinkPart)
  BY DEF AdminPart, LinkPart
<1>6. x \in Positions(me.cmd)  BY <1>1, <1>5, Where DEF Positions
<1>7. /\ Backed(r.facts, more) /\ r.pc \in Loaded /\ r.pc \in Positions(r.cmd)
      /\ (r.pc \in AdminPart <=> me.pc \in AdminPart) /\ r.pc \notin {"temp", "rename"}
  BY <1>3, <1>4, <1>6
<1>8. GoodRecord(r, menu, more, told)
  <2>1. /\ r.cmd = me.cmd /\ r.arg = me.arg /\ r.base = me.base /\ r.upd = me.upd
        /\ r.last = me.last /\ r.vault = me.vault /\ r.fee = me.fee /\ r.tries = me.tries
    OBVIOUS
  <2>2. r.pc = "verify" => <<"initialized", None>> \in more  OBVIOUS
  <2> HIDE DEF me
  <2> QED BY <1>1, <1>4, <1>7, <2>1, <2>2, StaysLoaded
<1> QED BY <1>4, <1>8

\* initializeSuperAdmin
LEMMA InitSuperAdminKeeps ==
  ASSUME IndInv, NEW p \in Procs, initializeSuperAdmin(p)
  PROVE  IndInv'
<1> DEFINE me == proc[p]
<1>1. /\ GoodRecord(me, menu, chain.done, told) /\ menu \subseteq Commands /\ ProcessOK(me, menu)
      /\ Justified(me, chain.done, told)
  BY OneProcess
<1>2. me.cmd \in {"initSuperAdmin", "orchestrate"}  BY DEF initializeSuperAdmin
<1>3. DOMAIN me = DOMAIN Idle /\ Backed(me.facts, chain.done)  BY <1>1 DEF ProcessOK, Justified
<1>4. BoundsOK /\ ChainOK /\ ProcsOK /\ PoolOK /\ FilesOK /\ ReportedIsApplied  BY Parts
<1>5. me.arg \in Accounts
  <2>1. me.cmd # None  BY <1>2, CliAssumption DEF Commands, Target
  <2> QED BY <1>1, <1>2, <2>1 DEF ProcessOK, Args
<1>6. CASE At(p, "loadAdmin") /\ Load(p, "initialize")
  BY <1>2, <1>6, ConfigLoadKeeps DEF At
<1>14. Backed({}, chain.done) /\ Backed({}, chain'.done)  BY DEF Backed
<1>9. ASSUME NEW facts, Backed(facts, chain.done), AdminStepEnds(p, facts),
             me.pc \in {"initialize", "verify", "save"}, left' = left \/ Fault,
             UNCHANGED <<menu, files, chain, pool, owed, spoiled>>
      PROVE  IndInv'
  <2>1. PICK r : /\ proc' = [proc EXCEPT ![p] = r] /\ GoodRecord(r, menu, chain.done, told)
                 /\ r.pc \notin Filling /\ told' = told \cup facts
    BY <1>2, <1>9, AdminEnds
  <2>2. me.pc \notin Filling /\ me.pc # "poll"  BY <1>9 DEF Filling
  <2> QED BY <1>9, <2>1, <2>2, LocalStep
<1>15. ASSUME NEW more, chain.done \subseteq more, <<"initialized", None>> \in more,
              me.pc = "initialize", Goto(p, "verify")
       PROVE  \E r : /\ proc' = [proc EXCEPT ![p] = r] /\ GoodRecord(r, menu, more, told)
                     /\ r.pc \notin Filling
  <2> DEFINE r == [me EXCEPT !.pc = "verify"]
  <2>1. proc' = [proc EXCEPT ![p] = r]  BY <1>15 DEF Goto, Now
  <2>2. <<me.pc, "verify">> \in {<<"initialize", "verify">>, <<"link1", "link2">>, <<"link2", "link3">>,
                                 <<"link3", "record">>}
    BY <1>15
  <2>3. /\ DOMAIN r = DOMAIN Idle /\ r.pc = "verify"
        /\ r.cmd = me.cmd /\ r.arg = me.arg /\ r.base = me.base /\ r.upd = me.upd
        /\ r.last = me.last /\ r.vault = me.vault /\ r.fee = me.fee
        /\ r.tries = me.tries /\ r.facts = me.facts
    BY <1>3, MovedFields
  <2>4. PICK new : new = {}  OBVIOUS
  <2>5. r.facts = me.facts \cup new /\ \A fact \in new : fact[1] \in Unchecked  BY <2>3, <2>4
  <2>7. PICK x : x = "verify"  OBVIOUS
  <2>8. /\ <<me.pc, x>> \in {<<"initialize", "verify">>, <<"link1", "link2">>, <<"link2", "link3">>,
                             <<"link3", "record">>}
        /\ x = "verify" => <<"initialized", None>> \in more
        /\ r.pc = x
    BY <1>15, <2>2, <2>3, <2>7
  <2>9. chain.done \subseteq more  BY <1>15
  <2> HIDE DEF r
  <2>10. MovedOn(r, proc[p], x, new, more)  BY <2>3, <2>5, <2>8 DEF MovedOn
  <2>6. GoodRecord(r, menu, more, told) /\ r.pc \notin Filling
    BY ONLY IndInv, p \in Procs, <2>9, <2>10, ConfigMoves
  <2> QED BY <2>1, <2>6
<1>7. CASE /\ At(p, "initialize") /\ chain.admin # None
           /\ \/ "initialize" \in chain.serves /\ Goto(p, "verify") /\ UNCHANGED <<left, told>>
              \/ Refused("initialize") /\ AdminStepEnds(p, {})
           /\ UNCHANGED <<menu, files, chain, pool, owed, spoiled>>
  <2>1. me.pc = "initialize" /\ me.pc \notin Filling /\ me.pc # "poll"  BY <1>7 DEF At, Filling
  <2>2. CASE Goto(p, "verify") /\ UNCHANGED <<left, told>>
    <3>1. <<"initialized", None>> \in chain.done  BY <1>4, <1>7 DEF ChainOK
    <3>2. PICK r : /\ proc' = [proc EXCEPT ![p] = r] /\ GoodRecord(r, menu, chain.done, told)
                   /\ r.pc \notin Filling
      BY <1>15, <2>1, <2>2, <3>1
    <3>3. Now(p, r)  BY <3>2 DEF Now
    <3>4. UNCHANGED <<menu, files, chain, pool, told, owed, spoiled>> /\ left' = left  BY <1>7, <2>2
    <3> QED BY <2>1, <3>2, <3>3, <3>4, MovesLocally
  <2>3. CASE Refused("initialize") /\ AdminStepEnds(p, {})
    <3>1. left' = left \/ Fault  BY <2>3 DEF Refused
    <3> QED BY <1>7, <1>9, <1>14, <2>1, <2>3, <3>1
  <2> QED BY <1>7, <2>2, <2>3
<1>8. ASSUME At(p, "initialize"), NEW outcome \in Outcomes,
             SdkCall(p, "initialize", me.arg, outcome),
             IF outcome = "ok" THEN Goto(p, "verify") /\ UNCHANGED told
             ELSE AdminStepEnds(p, {})
      PROVE  IndInv'
  <2>1. me.pc = "initialize" /\ me.pc \notin Filling /\ me.pc # "poll"  BY <1>8 DEF At, Filling
  <2>2. ASSUME NEW r, proc' = [proc EXCEPT ![p] = r] PROVE
          /\ ChainOK' /\ chain.done \subseteq chain'.done /\ PoolOK' /\ (left' = left \/ Fault)
          /\ UNCHANGED <<menu, files, owed, spoiled>>
          /\ outcome = "ok" => <<"initialized", None>> \in chain'.done
    BY <1>8, <2>1, <2>2, SdkCallStep
  <2>5. PICK more : more = chain'.done  OBVIOUS
  <2>3. CASE outcome = "ok" /\ Goto(p, "verify") /\ UNCHANGED told
    <3>1. proc' = [proc EXCEPT ![p] = [me EXCEPT !.pc = "verify"]]  BY <2>3 DEF Goto, Now
    <3>2. chain.done \subseteq more /\ <<"initialized", None>> \in more  BY <2>2, <2>3, <2>5, <3>1
    <3>3. PICK r : /\ proc' = [proc EXCEPT ![p] = r] /\ GoodRecord(r, menu, more, told)
                   /\ r.pc \notin Filling
      BY <1>15, <2>1, <2>3, <3>2
    <3>4. told' = told \cup {}  BY <2>3
    <3>5. GoodRecord(r, menu, chain'.done, told)  BY <2>5, <3>3
    <3> QED BY <1>14, <2>1, <2>2, <3>3, <3>4, <3>5, QuietStep
  <2>4. CASE AdminStepEnds(p, {})
    <3>1. PICK r : /\ proc' = [proc EXCEPT ![p] = r] /\ GoodRecord(r, menu, more, told)
                   /\ r.pc \notin Filling /\ told' = told \cup {}
      BY <1>2, <2>4, AdminEnds
    <3>2. GoodRecord(r, menu, chain'.done, told)  BY <2>5, <3>1
    <3> QED BY <1>14, <2>1, <2>2, <3>1, <3>2, QuietStep
  <2> QED BY <1>8, <2>3, <2>4
<1>10. CASE /\ At(p, "verify") /\ verifySuperAdmin(p)
            /\ UNCHANGED <<menu, files, chain, pool, owed, spoiled>>
  <2> DEFINE found == (IF "has_role" \in chain.serves /\ hasRole(me.arg) THEN {<<"role", me.arg>>} ELSE {})
               \cup (IF "admin" \in chain.serves /\ chain.admin = me.arg THEN {<<"admin", me.arg>>} ELSE {})
             unseen == {<<"superAdmin", me.arg>>, <<"initialized", None>>}
  <2>1. Backed(found, chain.done)
    <3>1. hasRole(me.arg) => <<"role", me.arg>> \in chain.done  BY DEF hasRole
    <3>2. ASSUME chain.admin = me.arg PROVE <<"admin", me.arg>> \in chain.done
      <4>1. chain.admin # None  BY <1>5, <3>2, CliAssumption
      <4> QED BY <1>4, <3>2, <4>1 DEF ChainOK
    <3> QED BY <3>1, <3>2 DEF Backed
  <2>3. me.pc = "verify"  BY <1>10 DEF At
  <2>8. Backed(unseen, chain.done)
    <3>1. <<"initialized", None>> \in chain.done  BY <1>1, <2>3 DEF Justified
    <3> QED BY <3>1 DEF Backed, Unchecked
  <2>2. \/ /\ UNCHANGED <<left, told>> /\ Now(p, [me EXCEPT !.pc = "save", !.facts = found])
        \/ AdminStepEnds(p, {}) /\ (left' = left \/ Fault)
        \/ /\ UNCHANGED <<left, told>> /\ Now(p, [me EXCEPT !.pc = "save", !.facts = unseen])
    BY <1>10 DEF verifySuperAdmin
  <2> HIDE DEF found, unseen
  <2>4. ASSUME NEW facts, Backed(facts, chain.done), UNCHANGED <<left, told>>,
               Now(p, [me EXCEPT !.pc = "save", !.facts = facts])
        PROVE  IndInv'
    <3> DEFINE r == [me EXCEPT !.pc = "save", !.facts = facts]
    <3>1. /\ DOMAIN r = DOMAIN Idle /\ r.pc = "save"
          /\ r.cmd = me.cmd /\ r.arg = me.arg /\ r.base = me.base /\ r.upd = me.upd
          /\ r.last = me.last /\ r.vault = me.vault /\ r.fee = me.fee
          /\ r.tries = me.tries /\ r.facts = facts
      BY <1>3, IdleFields
    <3>2. Now(p, r)  BY <2>4
    <3> HIDE DEF r
    <3>3. /\ "verify" \in Loaded /\ "save" \in Loaded /\ "verify" \in AdminPart /\ "save" \in AdminPart
          /\ "save" \notin Filling /\ "verify" \notin Filling
      BY DEF Loaded, AdminPart, LinkPart, Filling
    <3>4. "save" \in Positions(me.cmd)  BY <1>2, <3>3 DEF Positions
    <3>5. GoodRecord(r, menu, chain.done, told)
      <4>1. Backed(r.facts, chain.done) /\ r.pc \in Loaded /\ r.pc \in Positions(r.cmd) /\ me.pc \in Loaded
        BY <2>3, <2>4, <3>1, <3>3, <3>4
      <4>2. (r.pc \in AdminPart <=> me.pc \in AdminPart) /\ r.pc \notin {"temp", "rename", "verify"}
        BY <2>3, <3>1, <3>3
      <4>3. chain.done \subseteq chain.done  OBVIOUS
      <4> HIDE DEF me
      <4> QED BY <1>1, <3>1, <4>1, <4>2, <4>3, StaysLoaded
    <3>6. me.pc \notin Filling /\ me.pc # "poll" /\ r.pc \notin Filling  BY <2>3, <3>1, <3>3
    <3>7. UNCHANGED <<menu, files, chain, pool, told, owed, spoiled>> /\ left' = left  BY <1>10, <2>4
    <3> QED BY <3>2, <3>5, <3>6, <3>7, MovesLocally
  <2>5. CASE UNCHANGED <<left, told>> /\ Now(p, [me EXCEPT !.pc = "save", !.facts = found])
    BY <2>1, <2>4, <2>5
  <2>6. CASE UNCHANGED <<left, told>> /\ Now(p, [me EXCEPT !.pc = "save", !.facts = unseen])
    BY <2>4, <2>6, <2>8
  <2>7. CASE AdminStepEnds(p, {}) /\ (left' = left \/ Fault)
    BY <1>9, <1>10, <1>14, <2>3, <2>7
  <2> QED BY <2>2, <2>5, <2>6, <2>7
<1>11. CASE Truncate(p, "save", "saving")  BY <1>11, TruncateKeeps
<1>12. CASE At(p, "saving") /\ Fill(p) /\ AdminStepEnds(p, me.facts)
  <2>1. me.pc \in Filling  BY <1>12 DEF At, Filling
  <2>2. PICK r : /\ proc' = [proc EXCEPT ![p] = r] /\ GoodRecord(r, menu, chain.done, told)
                 /\ r.pc \notin Filling /\ told' = told \cup me.facts
    BY <1>2, <1>12, AdminEnds
  <2> QED BY <1>3, <1>12, <2>1, <2>2, FillKeeps
<1>13. CASE /\ At(p, "save") /\ Fault /\ AdminStepEnds(p, me.facts)
            /\ UNCHANGED <<menu, files, chain, pool, owed, spoiled>>
  BY <1>3, <1>9, <1>13 DEF At
<1> QED BY <1>6, <1>7, <1>8, <1>10, <1>11, <1>12, <1>13 DEF initializeSuperAdmin

\* connectContractIds
LEMMA ConnectKeeps ==
  ASSUME IndInv, NEW p \in Procs, connectContractIds(p)
  PROVE  IndInv'
<1> DEFINE me == proc[p]
           doc == loadConfigFile(IF At(p, "loadLinks") THEN files["config"] ELSE me.base)
           known == Known(doc, me.last)
           now == <<"link1", "link2", "link3">>
           then == <<"link2", "link3", "record">>
           next(i) == [me EXCEPT !.pc = then[i]]
           told1(i) == [next(i) EXCEPT !.facts = @ \cup {<<Links[i], 1>>}]
<1>1. me.cmd \in {"connect", "orchestrate"}  BY DEF connectContractIds
<1>2. Backed(me.facts, chain.done)  BY FactsReported
<1>0. DOMAIN me = DOMAIN Idle  BY OneProcess DEF ProcessOK
<1>8. \/ At(p, "loadLinks") /\ Load(p, "link1")
      \/ /\ At(p, "loadLinks") /\ Fail(p)
         /\ UNCHANGED <<menu, left, files, chain, pool, owed, spoiled>>
      \/ \E i \in DOMAIN Links :
           /\ At(p, now[i])
           /\ \/ /\ UNCHANGED told
                 /\ \E outcome \in Outcomes : SdkCall(p, Links[i], 1, outcome)
                 /\ Now(p, told1(i))
              \/ /\ Now(p, next(i))
                 /\ UNCHANGED <<menu, left, files, chain, pool, told, owed, spoiled>>
      \/ Truncate(p, "record", "recording")
      \/ At(p, "recording") /\ Fill(p) /\ Succeed(p, me.facts)
      \/ /\ At(p, "record") /\ Fault /\ Succeed(p, me.facts)
         /\ UNCHANGED <<menu, files, chain, pool, owed, spoiled>>
  BY DEF connectContractIds
<1> HIDE DEF doc, known
<1>3. CASE At(p, "loadLinks") /\ Load(p, "link1")  BY <1>1, <1>3, ConfigLoadKeeps DEF At
<1>9. CASE /\ At(p, "loadLinks") /\ Fail(p)
           /\ UNCHANGED <<menu, left, files, chain, pool, owed, spoiled>>
  <2>1. me.pc \notin Filling /\ me.pc # "poll"  BY <1>9 DEF At, Filling
  <2> QED BY <1>9, <2>1, EndsLocally
<1>4. ASSUME NEW i \in DOMAIN Links, At(p, now[i])
      PROVE  /\ <<me.pc, then[i]>> \in {<<"initialize", "verify">>, <<"link1", "link2">>,
                                       <<"link2", "link3">>, <<"link3", "record">>}
             /\ me.pc \notin Filling /\ me.pc # "poll" /\ then[i] # "verify"
  <2>1. i \in {1, 2, 3}  BY DEF Links
  <2> QED BY <1>4, <2>1 DEF At, Filling
<1>10. ASSUME NEW i \in DOMAIN Links, At(p, now[i]), NEW outcome \in Outcomes,
              SdkCall(p, Links[i], 1, outcome), Now(p, told1(i)), UNCHANGED told
       PROVE  IndInv'
  <2> DEFINE x == then[i]
             new == {<<Links[i], 1>>}
             r == told1(i)
  <2>1. /\ DOMAIN r = DOMAIN Idle /\ r.pc = x
        /\ r.cmd = me.cmd /\ r.arg = me.arg /\ r.base = me.base /\ r.upd = me.upd
        /\ r.last = me.last /\ r.vault = me.vault /\ r.fee = me.fee
        /\ r.tries = me.tries /\ r.facts = me.facts \cup new
    BY <1>0, IdleFields
  <2>2. proc' = [proc EXCEPT ![p] = r]  BY <1>10 DEF Now
  <2>3. \A fact \in new : fact[1] \in Unchecked  BY DEF Unchecked
  <2>4. /\ <<me.pc, x>> \in {<<"initialize", "verify">>, <<"link1", "link2">>,
                             <<"link2", "link3">>, <<"link3", "record">>}
        /\ me.pc \notin Filling /\ me.pc # "poll" /\ x # "verify"
    BY <1>4, <1>10
  <2> HIDE DEF r, x, new, now, then
  <2>5. /\ ChainOK' /\ chain.done \subseteq chain'.done /\ PoolOK' /\ (left' = left \/ Fault)
        /\ UNCHANGED <<menu, files, owed, spoiled>>
    BY <1>10, <2>2, <2>4, SdkCallStep
  <2>6. PICK more : more = chain'.done  OBVIOUS
  <2>10. chain.done \subseteq more /\ (x = "verify" => <<"initialized", None>> \in more)
    BY <2>4, <2>5, <2>6
  <2>7. GoodRecord(r, menu, more, told) /\ r.pc \notin Filling
    <3>1. MovedOn(r, proc[p], x, new, more)  BY <2>1, <2>3, <2>4, <2>10 DEF MovedOn
    <3> QED BY ONLY IndInv, p \in Procs, <2>10, <3>1, ConfigMoves
  <2>8. told' = told \cup {} /\ Backed({}, chain'.done)  BY <1>10 DEF Backed
  <2>9. GoodRecord(r, menu, chain'.done, told)  BY <2>6, <2>7
  <2> QED BY <2>2, <2>4, <2>5, <2>7, <2>8, <2>9, QuietStep
<1>11. ASSUME NEW i \in DOMAIN Links, At(p, now[i]), Now(p, next(i)),
              UNCHANGED <<menu, left, files, chain, pool, told, owed, spoiled>>
       PROVE  IndInv'
  <2> DEFINE x == then[i]
             r == next(i)
  <2>1. /\ DOMAIN r = DOMAIN Idle /\ r.pc = x
        /\ r.cmd = me.cmd /\ r.arg = me.arg /\ r.base = me.base /\ r.upd = me.upd
        /\ r.last = me.last /\ r.vault = me.vault /\ r.fee = me.fee
        /\ r.tries = me.tries /\ r.facts = me.facts
    BY <1>0, IdleFields
  <2>2. Now(p, r)  BY <1>11
  <2>3. PICK new : new = {}  OBVIOUS
  <2>4. r.facts = me.facts \cup new /\ \A fact \in new : fact[1] \in Unchecked  BY <2>1, <2>3
  <2>5. /\ <<me.pc, x>> \in {<<"initialize", "verify">>, <<"link1", "link2">>,
                             <<"link2", "link3">>, <<"link3", "record">>}
        /\ me.pc \notin Filling /\ me.pc # "poll" /\ x # "verify"
    BY <1>4, <1>11
  <2> HIDE DEF r, x, now, then
  <2>6. chain.done \subseteq chain.done  OBVIOUS
  <2>7. GoodRecord(r, menu, chain.done, told) /\ r.pc \notin Filling
    <3>1. PICK more : more = chain.done  OBVIOUS
    <3>2. MovedOn(r, proc[p], x, new, more) /\ chain.done \subseteq more
      BY <2>1, <2>4, <2>5, <3>1 DEF MovedOn
    <3>3. GoodRecord(r, menu, more, told) /\ r.pc \notin Filling
      BY ONLY IndInv, p \in Procs, <3>2, ConfigMoves
    <3> QED BY <3>1, <3>3
  <2> QED BY <1>11, <2>2, <2>5, <2>7, MovesLocally
<1>5. CASE Truncate(p, "record", "recording")  BY <1>5, TruncateKeeps
<1>6. CASE At(p, "recording") /\ Fill(p) /\ Succeed(p, me.facts)
  <2>1. me.pc \in Filling  BY <1>6 DEF At, Filling
  <2> QED BY <1>2, <1>6, <2>1, FillEnds
<1>7. CASE /\ At(p, "record") /\ Fault /\ Succeed(p, me.facts)
           /\ UNCHANGED <<menu, files, chain, pool, owed, spoiled>>
  <2>1. me.pc \notin Filling /\ me.pc # "poll"  BY <1>7 DEF At, Filling
  <2> QED BY <1>2, <1>7, <2>1, EndsLocally
<1> HIDE DEF now, next, told1
<1> QED BY <1>3, <1>5, <1>6, <1>7, <1>8, <1>9, <1>10, <1>11

----------------------------------------------------------------------------
(* deploy *)

\* The child process of a deployment: it goes on as r, or the deployment ends.
LEMMA StellarKeeps ==
  ASSUME IndInv, NEW p \in Procs, NEW call, NEW facts, NEW r, runStellar(p, call, facts, r),
         GoodRecord(r, menu, chain.done \cup facts, told), r.pc \notin Filling,
         proc[p].pc \notin Filling, proc[p].pc # "poll"
  PROVE  IndInv'
<1>1. BoundsOK /\ ChainOK /\ ProcsOK /\ PoolOK /\ FilesOK /\ ReportedIsApplied  BY Parts
<1>2. UNCHANGED <<menu, files, owed, spoiled>> /\ pool' = pool  BY DEF runStellar
<1>3. chain' = chain \/ chain' = [chain EXCEPT !.done = @ \cup facts]  BY DEF runStellar
<1>4. ChainOK' /\ chain.done \subseteq chain'.done
  <2>1. CASE chain' = chain  BY <1>1, <2>1 DEF ChainOK
  <2>2. CASE chain' = [chain EXCEPT !.done = @ \cup facts]  BY <1>1, <2>2 DEF ChainOK
  <2> QED BY <1>3, <2>1, <2>2
<1>5. CASE chain' = [chain EXCEPT !.done = @ \cup facts] /\ Now(p, r) /\ UNCHANGED <<left, told>>
  <2>1. proc' = [proc EXCEPT ![p] = r] /\ told' = told \cup {} /\ left' = left  BY <1>5 DEF Now
  <2>2. chain'.done = chain.done \cup facts  BY <1>1, <1>5 DEF ChainOK
  <2>3. GoodRecord(r, menu, chain'.done, told) /\ Backed({}, chain'.done)  BY <2>2 DEF Backed
  <2>4. PoolOK'  BY <1>1, <1>2, <2>1, PoolQuiet
  <2> QED BY <1>2, <1>4, <2>1, <2>3, <2>4, QuietStep
<1>6. CASE (left' = left \/ Fault) /\ Fail(p)
  <2>1. proc' = [proc EXCEPT ![p] = Idle] /\ told' = told \cup {}  BY <1>6 DEF Fail, Now
  <2>2. GoodRecord(Idle, menu, chain'.done, told) /\ Idle.pc \notin Filling /\ Backed({}, chain'.done)
    BY IdleIsGood, IdleFields DEF Filling, Backed
  <2>3. PoolOK'  BY <1>1, <1>2, <2>1, PoolQuiet
  <2> QED BY <1>2, <1>4, <1>6, <2>1, <2>2, <2>3, QuietStep
<1> QED BY <1>5, <1>6 DEF runStellar, Refused

\* The record of a deployment between its child processes.
LEMMA DeployIsGood ==
  ASSUME NEW cmds, cmds \subseteq Commands, NEW done, NEW more, done \subseteq more, NEW said,
         NEW me, GoodRecord(me, cmds, done, said), me.cmd = "deploy",
         NEW r, DOMAIN r = DOMAIN Idle, r.cmd = "deploy", r.arg = me.arg, r.base = me.base,
         r.tries = me.tries, Backed(r.facts, more),
         r.vault \in Ids \cup {None}, r.fee \in Ids \cup {None},
         r.pc = "deployVault" => r.vault = None,
         r.pc \in {"deployVault", "initVault", "uploadFee", "deployFee", "linkFee", "export"},
         r.pc \in {"deployVault", "initVault", "uploadFee", "deployFee"} => r.fee = None,
         r.pc \in {"uploadFee", "deployFee", "linkFee"} => Ready(r.vault, None, more),
         r.pc = "export" => Ready(r.vault, r.fee, more)
  PROVE  GoodRecord(r, cmds, more, said) /\ r.pc \notin Filling
<1>1. ProcessOK(me, cmds) /\ Merging(me)  BY DEF GoodRecord
<1>2. me.cmd # None  BY CliAssumption DEF Commands, Target
<1>3. r.pc \in Positions(r.cmd)  BY DEF Positions
<1>4. ProcessOK(r, cmds)  BY <1>1, <1>2, <1>3 DEF ProcessOK
<1>5. Justified(r, more, said)  BY DEF Justified
<1>6. r.pc \notin Loaded  BY DEF Loaded, AdminPart, LinkPart
<1>7. Merging(r)  BY <1>1, <1>6 DEF Merging
<1>8. r.pc \notin Filling  BY DEF Filling
<1> QED BY <1>4, <1>5, <1>7, <1>8 DEF GoodRecord

\* deploy
LEMMA DeployKeeps ==
  ASSUME IndInv, NEW p \in Procs, deployVault(p)
  PROVE  IndInv'
<1> DEFINE me == proc[p]
<1>1. /\ GoodRecord(me, menu, chain.done, told) /\ menu \subseteq Commands /\ ProcessOK(me, menu)
      /\ Justified(me, chain.done, told) /\ Merging(me)
  BY OneProcess
<1>2. me.cmd = "deploy"  BY DEF deployVault
<1>3. DOMAIN me = DOMAIN Idle /\ Backed(me.facts, chain.done)  BY <1>1 DEF ProcessOK, Justified
<1>4. me.vault \in Ids \cup {None} /\ me.fee \in Ids \cup {None} /\ me.base = None
  BY <1>1, <1>2 DEF Merging
<1>5. /\ me.pc = "start" => me.vault = None
      /\ me.pc \in {"start", "deployVault", "initVault", "uploadFee", "deployFee"} => me.fee = None
      /\ me.pc = "deployVault" => me.vault = None
      /\ me.pc \in {"uploadFee", "deployFee", "linkFee"} => Ready(me.vault, None, chain.done)
      /\ me.pc = "export" => Ready(me.vault, me.fee, chain.done)
  BY <1>1, <1>2 DEF Justified
<1>6. \A v, f, d : v = None => Ready(v, f, d)  BY DEF Ready
<1>16. ASSUME NEW r, NEW more, NEW call, NEW facts, runStellar(p, call, facts, r),
              more = chain.done \cup facts,
              me.pc \in {"start", "deployVault", "initVault", "uploadFee", "deployFee", "linkFee"},
              DOMAIN r = DOMAIN Idle, r.cmd = me.cmd, r.arg = me.arg, r.base = me.base,
              r.tries = me.tries, Backed(r.facts, more),
              r.vault \in Ids \cup {None}, r.fee \in Ids \cup {None},
              r.pc = "deployVault" => r.vault = None,
              r.pc \in {"deployVault", "initVault", "uploadFee", "deployFee", "linkFee", "export"},
              r.pc \in {"deployVault", "initVault", "uploadFee", "deployFee"} => r.fee = None,
              r.pc \in {"uploadFee", "deployFee", "linkFee"} => Ready(r.vault, None, more),
              r.pc = "export" => Ready(r.vault, r.fee, more)
       PROVE  IndInv'
  <2>1. GoodRecord(r, menu, more, told) /\ r.pc \notin Filling
    <3>1. chain.done \subseteq more /\ r.cmd = "deploy"  BY <1>2, <1>16
    <3> HIDE DEF me
    <3> QED BY <1>1, <1>2, <1>16, <3>1, DeployIsGood
  <2>2. me.pc \notin Filling /\ me.pc # "poll"  BY <1>16 DEF Filling
  <2>3. GoodRecord(r, menu, chain.done \cup facts, told)  BY <1>16, <2>1
  <2> QED BY <1>16, <2>1, <2>2, <2>3, StellarKeeps
<1>7. ASSUME NEW x, x \in {"uploadFee", "export"}, Goto(p, x), left' = left \/ Fault,
             UNCHANGED <<menu, files, chain, pool, told, owed, spoiled>>,
             me.pc \in {"start", "deployVault", "uploadFee", "deployFee"}
      PROVE  IndInv'
  <2> DEFINE r == [me EXCEPT !.pc = x]
  <2>1. Now(p, r) /\ me.pc \notin Filling /\ me.pc # "poll"  BY <1>7 DEF Goto, Filling
  <2>2. /\ DOMAIN r = DOMAIN Idle /\ r.pc = x /\ r.cmd = me.cmd /\ r.arg = me.arg
        /\ r.base = me.base /\ r.tries = me.tries /\ r.facts = me.facts
        /\ r.vault = me.vault /\ r.fee = me.fee
    BY <1>3, MovedFields
  <2> HIDE DEF r
  <2>3. Ready(r.vault, None, chain.done) /\ r.fee = None  BY <1>5, <1>6, <1>7, <2>2
  <2>4. /\ Backed(r.facts, chain.done) /\ r.cmd = "deploy" /\ chain.done \subseteq chain.done
        /\ r.vault \in Ids \cup {None} /\ r.fee \in Ids \cup {None}
        /\ r.pc \in {"uploadFee", "export"}
    BY <1>2, <1>3, <1>4, <1>7, <2>2
  <2>5. Ready(r.vault, r.fee, chain.done)  BY <2>3
  <2>6. GoodRecord(r, menu, chain.done, told) /\ r.pc \notin Filling
    <3> HIDE DEF me
    <3> QED BY <1>1, <1>2, <2>2, <2>3, <2>4, <2>5, DeployIsGood
  <2> QED BY <1>7, <2>1, <2>6, MovesLocally
<1>8. ASSUME NEW next, NEW skip, skip \in {"uploadFee", "export"},
             \/ me.pc = "start" /\ next = "deployVault"
             \/ me.pc = "uploadFee" /\ next = "deployFee",
             uploadWasm(p, next, skip)
      PROVE  IndInv'
  <2>1. CASE Fault /\ Goto(p, skip) /\ UNCHANGED <<menu, files, chain, pool, told, owed, spoiled>>
    BY <1>7, <1>8, <2>1
  <2>2. CASE runStellar(p, "upload", {}, [me EXCEPT !.pc = next])
    <3> DEFINE r == [me EXCEPT !.pc = next]
    <3>1. /\ DOMAIN r = DOMAIN Idle /\ r.pc = next /\ r.cmd = me.cmd /\ r.arg = me.arg
          /\ r.base = me.base /\ r.tries = me.tries /\ r.facts = me.facts
          /\ r.vault = me.vault /\ r.fee = me.fee
      BY <1>3, MovedFields
    <3>2. PICK none : none = {}  OBVIOUS
    <3>3. runStellar(p, "upload", none, r) /\ chain.done = chain.done \cup none  BY <2>2, <3>2
    <3> HIDE DEF r
    <3>4. /\ Backed(r.facts, chain.done) /\ r.vault \in Ids \cup {None} /\ r.fee \in Ids \cup {None}
          /\ r.pc \in {"deployVault", "deployFee"} /\ r.fee = None
          /\ r.pc = "deployVault" => r.vault = None
          /\ r.pc = "deployFee" => Ready(r.vault, None, chain.done)
      BY <1>3, <1>4, <1>5, <1>8, <3>1
    <3> QED BY <1>8, <1>16, <3>1, <3>3, <3>4
  <2> QED BY <1>8, <2>1, <2>2 DEF uploadWasm
<1>9. ASSUME NEW next, NEW skip, skip \in {"uploadFee", "export"},
             \/ me.pc = "deployVault" /\ next = "initVault"
             \/ me.pc = "deployFee" /\ next = IF me.vault = None THEN "export" ELSE "linkFee",
             deployFromHash(p, next, skip)
      PROVE  IndInv'
  <2> DEFINE facts == {<<"deploy", FreshId>>}
             more == chain.done \cup facts
             r == IF me.pc = "deployVault" THEN [me EXCEPT !.pc = next, !.vault = FreshId]
                  ELSE [me EXCEPT !.pc = next, !.fee = FreshId]
  <2>1. CASE Fault /\ Goto(p, skip) /\ UNCHANGED <<menu, files, chain, pool, told, owed, spoiled>>
    BY <1>7, <1>9, <2>1
  <2>2. CASE (\E i \in Ids : <<"deploy", i>> \notin chain.done) /\ runStellar(p, "deploy", facts, r)
    <3>1. FreshId \in Ids  BY <2>2 DEF FreshId
    <3>2. /\ DOMAIN r = DOMAIN Idle /\ r.pc = next /\ r.cmd = me.cmd /\ r.arg = me.arg
          /\ r.base = me.base /\ r.tries = me.tries /\ r.facts = me.facts
          /\ r.vault = IF me.pc = "deployVault" THEN FreshId ELSE me.vault
          /\ r.fee = IF me.pc = "deployVault" THEN me.fee ELSE FreshId
      BY <1>3, IdleFields
    <3> HIDE DEF r, facts
    <3>3. chain.done \subseteq more  OBVIOUS
    <3> HIDE DEF more
    <3>4. Backed(r.facts, more)  BY <1>3, <3>2, <3>3 DEF Backed
    <3>5. /\ r.vault \in Ids \cup {None} /\ r.fee \in Ids \cup {None}
          /\ r.pc \in {"initVault", "linkFee", "export"} /\ (r.pc = "initVault" => r.fee = None)
          /\ r.pc = "export" => r.vault = None
      BY <1>4, <1>5, <1>9, <3>1, <3>2
    <3>6. r.pc = "linkFee" => Ready(r.vault, None, more)
      <4>1. r.pc = "linkFee" => r.vault = me.vault /\ Ready(me.vault, None, chain.done)
        BY <1>5, <1>9, <3>2
      <4> QED BY <3>3, <4>1, ReadyGrows
    <3>7. r.pc = "export" => Ready(r.vault, r.fee, more)  BY <1>6, <3>5
    <3>8. more = chain.done \cup facts  BY DEF more
    <3> QED BY <1>9, <1>16, <2>2, <3>2, <3>4, <3>5, <3>6, <3>7, <3>8
  <2> QED BY <1>9, <2>1, <2>2 DEF deployFromHash, At
<1>10. ASSUME NEW next, NEW call,
              \/ /\ me.pc = "initVault" /\ next \in {"uploadFee", "export"}
                 /\ call = <<"initializeVault", me.vault>>
              \/ /\ me.pc = "linkFee" /\ next = "export"
                 /\ call = <<"set_fee_contract", <<me.vault, me.fee>>>>,
              invokeContract(p, call, next)
       PROVE  IndInv'
  <2> DEFINE facts == {call}
             more == chain.done \cup facts
             r == [me EXCEPT !.pc = next, !.facts = @ \cup facts]
  <2>1. runStellar(p, call[1], facts, r)  BY <1>10 DEF invokeContract
  <2>2. /\ DOMAIN r = DOMAIN Idle /\ r.pc = next /\ r.cmd = me.cmd /\ r.arg = me.arg
        /\ r.base = me.base /\ r.tries = me.tries /\ r.facts = me.facts \cup facts
        /\ r.vault = me.vault /\ r.fee = me.fee
    BY <1>3, IdleFields
  <2>3. call \in more /\ facts \subseteq more /\ chain.done \subseteq more
        /\ more = chain.done \cup facts
    OBVIOUS
  <2> HIDE DEF r, facts, more
  <2>6. Backed(r.facts, more)  BY <1>3, <2>2, <2>3 DEF Backed
  <2>7. Ready(r.vault, None, more) /\ Ready(r.vault, r.fee, more)
    <3>1. CASE me.pc = "initVault"
      <4>1. <<"initializeVault", r.vault>> \in more /\ r.fee = None  BY <1>5, <1>10, <2>2, <2>3, <3>1
      <4> QED BY <4>1 DEF Ready
    <3>2. CASE me.pc = "linkFee"
      <4>1. Ready(r.vault, None, more)  BY <1>5, <2>2, <2>3, <3>2, ReadyGrows
      <4>2. <<"set_fee_contract", <<r.vault, r.fee>>>> \in more  BY <1>10, <2>2, <2>3, <3>2
      <4> QED BY <4>1, <4>2 DEF Ready
    <3> QED BY <1>10, <3>1, <3>2
  <2>8. /\ r.vault \in Ids \cup {None} /\ r.fee \in Ids \cup {None}
        /\ r.pc \in {"uploadFee", "export"} /\ (r.pc = "uploadFee" => r.fee = None)
    BY <1>4, <1>5, <1>10, <2>2
  <2>9. PICK op : op = call[1]  OBVIOUS
  <2>10. runStellar(p, op, facts, r)  BY <2>1, <2>9
  <2> QED BY <1>10, <1>16, <2>2, <2>3, <2>6, <2>7, <2>8, <2>10
<1>11. CASE /\ At(p, "export")
            /\ \/ Succeed(p, me.facts)
               \/ /\ Now(p, [me EXCEPT !.pc = "temp", !.upd = buildDeploymentArtifacts(me.vault, me.fee)])
                  /\ UNCHANGED told
            /\ UNCHANGED <<menu, left, files, chain, pool, owed, spoiled>>
  <2> DEFINE doc == buildDeploymentArtifacts(me.vault, me.fee)
             r == [me EXCEPT !.pc = "temp", !.upd = doc]
  <2>1. me.pc = "export" /\ me.pc \notin Filling /\ me.pc # "poll"  BY <1>11 DEF At, Filling
  <2>2. CASE Succeed(p, me.facts)
    <3>1. Backed(me.facts, chain.done)  BY FactsReported
    <3> QED BY <1>11, <2>1, <2>2, <3>1, EndsLocally
  <2>3. CASE Now(p, r) /\ UNCHANGED told
    <3>1. /\ doc \in Document("registry")
          /\ doc["contracts.vault"] = me.vault /\ doc["contracts.fee"] = me.fee
      BY <1>4, ArtifactsTyped
    <3>2. ReadyDocument(doc, chain.done, told)  BY <1>5, <2>1, <3>1 DEF ReadyDocument
    <3> HIDE DEF doc
    <3>3. /\ DOMAIN r = DOMAIN Idle /\ r.pc = "temp" /\ r.cmd = me.cmd /\ r.arg = me.arg
          /\ r.base = me.base /\ r.tries = me.tries /\ r.facts = me.facts
          /\ r.vault = me.vault /\ r.fee = me.fee /\ r.upd = doc
      BY <1>3, IdleFields
    <3> HIDE DEF r
    <3>4. ProcessOK(r, menu)
      <4>1. me.cmd # None  BY <1>2, CliAssumption DEF Commands, Target
      <4> QED BY <1>1, <1>2, <3>3, <4>1 DEF ProcessOK, Positions
    <3>11. ReadyDocument(r.upd, chain.done, told \cup r.facts)  BY <3>2, <3>3 DEF ReadyDocument
    <3>5. Justified(r, chain.done, told)  BY <1>2, <1>3, <3>3, <3>11 DEF Justified
    <3>6. File(r) = "registry"  BY <1>2, <3>3 DEF File, Target
    <3>7. r.upd \in Contents(File(r))  BY <3>1, <3>3, <3>6, ContentsOf, FileNames
    <3>8. Merging(r)  BY <1>2, <1>4, <3>3, <3>7 DEF Merging
    <3>9. GoodRecord(r, menu, chain.done, told)  BY <3>4, <3>5, <3>8 DEF GoodRecord
    <3>10. r.pc \notin Filling  BY <3>3 DEF Filling
    <3> QED BY <1>11, <2>1, <2>3, <3>9, <3>10, MovesLocally
  <2> QED BY <1>11, <2>2, <2>3
<1>12. CASE At(p, "initVault") /\ invokeContract(p, <<"initializeVault", me.vault>>,
                                                  IF WithFee(p) THEN "uploadFee" ELSE "export")
  <2>1. PICK next : next = IF WithFee(p) THEN "uploadFee" ELSE "export"  OBVIOUS
  <2>2. next \in {"uploadFee", "export"}  BY <2>1
  <2>3. PICK call : call = <<"initializeVault", me.vault>>  OBVIOUS
  <2>4. invokeContract(p, call, next) /\ me.pc = "initVault"  BY <1>12, <2>1, <2>3 DEF At
  <2> QED BY <1>10, <2>2, <2>3, <2>4
<1>13. CASE At(p, "linkFee") /\ invokeContract(p, <<"set_fee_contract", <<me.vault, me.fee>>>>, "export")
  BY <1>10, <1>13 DEF At
<1>14. ASSUME NEW fee, fee = IF WithFee(p) THEN "uploadFee" ELSE "export",
              \/ At(p, "start") /\ uploadWasm(p, "deployVault", fee)
              \/ At(p, "uploadFee") /\ uploadWasm(p, "deployFee", "export")
       PROVE  IndInv'
  <2>1. fee \in {"uploadFee", "export"}  BY <1>14
  <2> QED BY <1>8, <1>14, <2>1 DEF At
<1>15. ASSUME NEW fee, fee = IF WithFee(p) THEN "uploadFee" ELSE "export",
              NEW link, link = IF me.vault = None THEN "export" ELSE "linkFee",
              \/ At(p, "deployVault") /\ deployFromHash(p, "initVault", fee)
              \/ At(p, "deployFee") /\ deployFromHash(p, link, "export")
       PROVE  IndInv'
  <2>1. fee \in {"uploadFee", "export"}  BY <1>15
  <2>2. CASE At(p, "deployVault") /\ deployFromHash(p, "initVault", fee)
    BY <1>9, <2>1, <2>2 DEF At
  <2>3. CASE At(p, "deployFee") /\ deployFromHash(p, link, "export")
    BY <1>9, <1>15, <2>3 DEF At
  <2> QED BY <1>15, <2>2, <2>3
<1>17. CASE /\ At(p, "start") /\ Goto(p, "export")
            /\ UNCHANGED <<menu, left, files, chain, pool, told, owed, spoiled>>
  BY <1>7, <1>17 DEF At
<1>18. PICK fee : fee = IF WithFee(p) THEN "uploadFee" ELSE "export"  OBVIOUS
<1>19. PICK link : link = IF me.vault = None THEN "export" ELSE "linkFee"  OBVIOUS
<1>20. \/ /\ At(p, "start") /\ Goto(p, "export")
          /\ UNCHANGED <<menu, left, files, chain, pool, told, owed, spoiled>>
       \/ At(p, "start") /\ uploadWasm(p, "deployVault", fee)
       \/ At(p, "deployVault") /\ deployFromHash(p, "initVault", fee)
       \/ At(p, "initVault") /\ invokeContract(p, <<"initializeVault", me.vault>>, fee)
       \/ At(p, "uploadFee") /\ uploadWasm(p, "deployFee", "export")
       \/ At(p, "deployFee") /\ deployFromHash(p, link, "export")
       \/ At(p, "linkFee") /\ invokeContract(p, <<"set_fee_contract", <<me.vault, me.fee>>>>, "export")
       \/ /\ At(p, "export")
          /\ \/ Succeed(p, me.facts)
             \/ /\ Now(p, [me EXCEPT !.pc = "temp", !.upd = buildDeploymentArtifacts(me.vault, me.fee)])
                /\ UNCHANGED told
          /\ UNCHANGED <<menu, left, files, chain, pool, owed, spoiled>>
  BY <1>18, <1>19 DEF deployVault
<1>21. CASE At(p, "initVault") /\ invokeContract(p, <<"initializeVault", me.vault>>, fee)
  BY <1>12, <1>18, <1>21
<1> QED BY <1>11, <1>13, <1>14, <1>15, <1>17, <1>18, <1>19, <1>20, <1>21

----------------------------------------------------------------------------
(* The operators and the network *)

\* A command that is started claims nothing yet.
LEMMA StartKeeps ==
  ASSUME IndInv, NEW p \in Procs, NEW c \in menu, NEW x \in Args(c), buildProgram(p, c, x)
  PROVE  IndInv'
<1> DEFINE pc == CASE c \in {"initSuperAdmin", "orchestrate"} -> "loadAdmin"
                   [] c = "connect" -> "loadLinks"
                   [] OTHER -> "start"
           last == CASE c = "connect" -> Given[p] [] c = "orchestrate" -> Given[p] \cup {"token"}
                     [] OTHER -> None
           r == [Idle EXCEPT !.cmd = c, !.arg = x, !.last = last, !.pc = pc]
<1>1. BoundsOK /\ ChainOK /\ ProcsOK /\ PoolOK /\ FilesOK /\ ReportedIsApplied  BY Parts
<1>2. proc' = [proc EXCEPT ![p] = r] /\ proc[p] = Idle
      /\ UNCHANGED <<menu, files, chain, pool, told, owed, spoiled>>
  BY DEF buildProgram, Now
<1>3. c \in Commands /\ c # None  BY <1>1, CliAssumption DEF BoundsOK
<1>4. /\ pc \in {"loadAdmin", "loadLinks", "start"} /\ pc \in Positions(c)
  <2>1. CASE c \in {"initSuperAdmin", "orchestrate"}
    BY <2>1 DEF Positions, AdminPart
  <2>2. CASE c = "connect"  BY <2>2 DEF Positions, LinkPart
  <2>3. CASE c \notin {"initSuperAdmin", "orchestrate", "connect"}
    <3>1. pc = "start"  BY <2>3
    <3>2. "start" \in Positions(c)  BY <2>3 DEF Positions, Sending
    <3> QED BY <3>1, <3>2
  <2> QED BY <2>1, <2>2, <2>3
<1>19. c \in {"connect", "orchestrate"} => last \subseteq Contracts
  <2>1. Given[p] \subseteq Contracts  BY CliAssumption
  <2>2. "token" \in Contracts  BY DEF Contracts
  <2> QED BY <2>1, <2>2
<1> HIDE DEF pc, last
<1>5. /\ DOMAIN r = DOMAIN Idle /\ r.cmd = c /\ r.arg = x /\ r.pc = pc /\ r.base = None
      /\ r.last = last
      /\ r.vault = None /\ r.fee = None /\ r.tries = 0 /\ r.facts = {}
  BY DEF Idle
<1>6. /\ pc \notin Loaded /\ pc \notin Filling /\ pc # "poll" /\ pc \notin {"temp", "rename", "verify"}
      /\ (pc = "start" \/ c \in {"initSuperAdmin", "orchestrate", "connect"})
  BY <1>4 DEF Loaded, AdminPart, LinkPart, Filling, pc
<1> HIDE DEF r
<1>7. ProcessOK(r, menu)  BY <1>3, <1>4, <1>5 DEF ProcessOK, MAX_RETRIES
<1>8. Backed({}, chain.done)  BY DEF Backed
<1>9. Justified(r, chain.done, told)
  BY <1>4, <1>5, <1>6, <1>8 DEF Justified
<1>10. Merging(r)  BY <1>5, <1>6, <1>19 DEF Merging
<1>11. GoodRecord(r, menu, chain.done, told)  BY <1>7, <1>9, <1>10 DEF GoodRecord
<1>12. BoundsOK'  BY <1>1, <1>2 DEF buildProgram, BoundsOK
<1>13. ProcsOK'  BY <1>1, <1>2, <1>11, ProcsStep
<1>14. proc[p].pc = "idle"  BY <1>2, IdleFields
<1>15. PoolOK'  BY <1>1, <1>2, <1>14, PoolQuiet
<1>16. proc[p].pc \notin Filling /\ r.pc \notin Filling  BY <1>5, <1>6, <1>14 DEF Filling
<1>17. FilesOK'  BY <1>1, <1>2, <1>16, FilesQuiet
<1>18. ChainOK' /\ ReportedIsApplied'  BY <1>1, <1>2 DEF ChainOK, ReportedIsApplied
<1> QED BY <1>12, <1>13, <1>15, <1>17, <1>18, PartsNext

\* A process may be killed anywhere: a document it had truncated is spoiled.
LEMMA CrashKeeps ==
  ASSUME IndInv, NEW p \in Procs, Crash(p)
  PROVE  IndInv'
<1>1. BoundsOK /\ ChainOK /\ ProcsOK /\ PoolOK /\ FilesOK /\ ReportedIsApplied  BY Parts
<1>2. /\ proc' = [proc EXCEPT ![p] = Idle] /\ told' = told /\ Forget(p)
      /\ left' = [left EXCEPT !.crashes = @ - 1] /\ left.crashes > 0
      /\ menu' = menu /\ files' = files /\ chain' = chain /\ owed' = owed
      /\ spoiled' = spoiled \cup (IF proc[p].pc \in Filling THEN {File(proc[p])} ELSE {})
  BY DEF Crash, Fail, Now
<1>3. BoundsOK'  BY <1>1, <1>2 DEF BoundsOK
<1>4. ChainOK' /\ ReportedIsApplied'  BY <1>1, <1>2 DEF ChainOK, ReportedIsApplied
<1>5. GoodRecord(Idle, menu, chain'.done, told)  BY IdleIsGood
<1>6. chain.done \subseteq chain'.done  BY <1>2
<1>7. ProcsOK'  BY <1>1, <1>2, <1>5, <1>6, ProcsStep
<1>8. PoolOK'  BY <1>1, <1>2, PoolForget
<1>9. FilesOK'
  <2>1. /\ HistoryWasInstalled' /\ ArtifactsAreReady' /\ RegistryNeverTorn'
    BY <1>1, <1>2 DEF FilesOK, HistoryWasInstalled, ArtifactsAreReady, RegistryNeverTorn
  <2>2. spoiled \subseteq spoiled'  BY <1>2
  <2>3. NothingForgotten'  BY <1>1, <1>2, <2>2 DEF FilesOK, NothingForgotten
  <2>4. proc[p].pc \in Filling => File(proc[p]) \in Files
    <3>1. ProcessOK(proc[p], menu) /\ menu \subseteq Commands  BY OneProcess
    <3>2. Filling \subseteq Loaded  BY DEF Filling, Loaded, AdminPart, LinkPart
    <3> QED BY <3>1, <3>2, FileOf
  <2>5. spoiled' \subseteq Files  BY <1>1, <1>2, <2>4 DEF FilesOK
  <2>6. ASSUME NEW f \in Documents \ spoiled' PROVE WriterIsAlone(f)'
    <3>1. WriterIsAlone(f)  BY <1>1, <2>2 DEF FilesOK
    <3>2. ~Truncated(f, p)  BY <1>2 DEF Truncated
    <3>3. "idle" \notin Filling  BY DEF Filling
    <3>4. ASSUME NEW q \in Procs PROVE Truncated(f, q)' => q # p /\ Truncated(f, q) /\ proc'[q] = proc[q]
      <4>1. CASE q = p  BY <1>1, <1>2, <3>3, <4>1, IdleFields DEF ProcsOK, Truncated
      <4>2. CASE q # p
        <5>1. proc'[q] = proc[q]  BY <1>1, <1>2, <4>2 DEF ProcsOK
        <5> QED BY <4>2, <5>1 DEF Truncated
      <4> QED BY <4>1, <4>2
    <3> QED BY <1>2, <3>1, <3>4 DEF WriterIsAlone
  <2> QED BY <1>1, <1>2, <2>1, <2>3, <2>5, <2>6 DEF FilesOK
<1> QED BY <1>3, <1>4, <1>7, <1>8, <1>9, PartsNext

\* The process that polls for a settled transaction learns its fate.
Learns(me, r, fate, t, more) ==
  /\ me.pc = "poll" /\ Call(me) = <<t.op, t.arg>>
  /\ fate = "ok" /\ t.op \notin {"initialize", "migrate_admin"} => <<t.op, t.arg>> \in more
  /\ DOMAIN r = DOMAIN Idle /\ r.cmd = me.cmd /\ r.arg = me.arg /\ r.last = me.last
  /\ r.tries = me.tries /\ r.facts = me.facts /\ r.pc = me.pc /\ r.fate = fate

\* Learning it leaves the process in order.
LEMMA FateIsGood ==
  ASSUME NEW cmds, cmds \subseteq Commands, NEW done, NEW more, done \subseteq more, NEW said,
         NEW me, GoodRecord(me, cmds, done, said), NEW fate, NEW t, NEW r,
         Learns(me, r, fate, t, more)
  PROVE  GoodRecord(r, cmds, more, said) /\ Call(r) = Call(me)
<1> USE DEF Learns
<1>1. ProcessOK(me, cmds) /\ Justified(me, done, said)  BY DEF GoodRecord
<1>2. me.cmd \in {"upgrade", "rollback", "smokeTest", "migrate"}  BY <1>1, Where
<1>3. me.cmd # None  BY <1>2, CliAssumption DEF Commands, Target
<1>4. ProcessOK(r, cmds)  BY <1>1, <1>3 DEF ProcessOK
<1>5. Call(r) = Call(me)  BY SameCall
<1>6. me.cmd # "migrate" => Call(me)[1] \in {"upgrade", "mint", "transfer"}
  <2>1. CASE me.cmd = "upgrade"  BY <2>1 DEF Call
  <2>2. CASE me.cmd = "rollback"  BY <2>2 DEF Call
  <2>3. CASE me.cmd = "smokeTest"  BY <2>3 DEF Call
  <2> QED BY <1>2, <2>1, <2>2, <2>3
<1>7. Call(me)[1] = t.op  OBVIOUS
<1>8. fate = "ok" /\ me.cmd # "migrate" => Call(r) \in more  BY <1>5, <1>6, <1>7
<1>9. Backed(r.facts, more)  BY <1>1 DEF Justified, Backed
<1>10. r.pc = "poll" /\ r.pc \notin Loaded  BY DEF Loaded, AdminPart, LinkPart
<1>11. Justified(r, more, said)  BY <1>2, <1>8, <1>9, <1>10 DEF Justified
<1>12. Merging(r)  BY <1>2, <1>10 DEF Merging
<1> QED BY <1>4, <1>5, <1>11, <1>12 DEF GoodRecord

\* The files are none the worse for a chain that grows.
LEMMA FilesStay ==
  ASSUME FilesOK, UNCHANGED <<files, owed, spoiled, proc>>, chain.done \subseteq chain'.done,
         told \subseteq told'
  PROVE  FilesOK'
<1>1. HistoryWasInstalled'  BY InstalledGrows DEF FilesOK, HistoryWasInstalled
<1>2. ArtifactsAreReady'  BY ReadyGrows DEF FilesOK, ArtifactsAreReady, ReadyDocument
<1>3. RegistryNeverTorn' /\ NothingForgotten'  BY DEF FilesOK, RegistryNeverTorn, NothingForgotten
<1>4. \A f \in Documents \ spoiled' : WriterIsAlone(f)'
  BY DEF FilesOK, WriterIsAlone, Truncated
<1> QED BY <1>1, <1>2, <1>3, <1>4 DEF FilesOK

\* The network settles a queued transaction.
LEMMA SettleKeeps ==
  ASSUME IndInv, NEW a \in Accounts, pool[a] # None, NEW fate, Fated(pool[a], fate),
         pool' = [pool EXCEPT ![a] = None], UNCHANGED <<menu, files, told, owed, spoiled>>,
         left' = left \/ Fault, ChainOK', chain.done \subseteq chain'.done,
         fate = "ok" /\ pool[a].op \notin {"initialize", "migrate_admin"} =>
           <<pool[a].op, pool[a].arg>> \in chain'.done
  PROVE  IndInv'
<1>1. BoundsOK /\ ChainOK /\ ProcsOK /\ PoolOK /\ FilesOK /\ ReportedIsApplied  BY Parts
<1>2. BoundsOK'  BY <1>1, BoundsStep
<1>3. ReportedIsApplied'  BY <1>1 DEF ReportedIsApplied, Backed
<1>4. Polled(pool[a]) /\ pool[a].by \in Procs \cup {None}  BY <1>1 DEF PoolOK
<1>5. CASE pool[a].by = None
  <2>1. proc' = proc  BY <1>5 DEF Fated
  <2>2. ProcsOK'
    <3>1. ASSUME NEW q \in Procs PROVE GoodRecord(proc[q], menu, chain'.done, told)
      <4>1. GoodRecord(proc[q], menu, chain.done, told)  BY <1>1 DEF ProcsOK
      <4>2. Justified(proc[q], chain'.done, told)  BY <4>1, JustifiedGrows DEF GoodRecord
      <4> QED BY <4>1, <4>2 DEF GoodRecord
    <3> QED BY <1>1, <2>1, <3>1 DEF ProcsOK
  <2>3. PoolOK'  BY <1>1, <2>1 DEF PoolOK, Polled
  <2>4. FilesOK'  BY <1>1, <2>1, FilesStay
  <2> QED BY <1>2, <1>3, <2>2, <2>3, <2>4, PartsNext
<1>6. CASE pool[a].by # None
  <2> DEFINE q == pool[a].by
             me == proc[q]
             r == [me EXCEPT !.fate = fate]
  <2>1. q \in Procs /\ me.pc = "poll" /\ Call(me) = <<pool[a].op, pool[a].arg>>
    BY <1>4, <1>6 DEF Polled
  <2>2. proc' = [proc EXCEPT ![q] = r]  BY <1>6 DEF Fated, Now
  <2>3. GoodRecord(me, menu, chain.done, told) /\ menu \subseteq Commands  BY <2>1, OneProcess
  <2>4. DOMAIN me = DOMAIN Idle  BY <2>3 DEF GoodRecord, ProcessOK
  <2>5. /\ DOMAIN r = DOMAIN Idle /\ r.cmd = me.cmd /\ r.arg = me.arg /\ r.last = me.last
        /\ r.tries = me.tries /\ r.facts = me.facts /\ r.pc = me.pc /\ r.fate = fate
    BY <2>4, IdleFields
  <2> HIDE DEF me, r, q
  <2>11. PICK more : more = chain'.done  OBVIOUS
  <2>12. PICK t : t = pool[a]  OBVIOUS
  <2>13. /\ Call(me) = <<t.op, t.arg>> /\ chain.done \subseteq more
         /\ fate = "ok" /\ t.op \notin {"initialize", "migrate_admin"} => <<t.op, t.arg>> \in more
    BY <2>1, <2>11, <2>12
  <2>14. me.pc = "poll"  BY <2>1
  <2>16. PICK before, after, cmds, said, done :
           before = me /\ after = r /\ cmds = menu /\ said = told /\ done = chain.done
    OBVIOUS
  <2>17. cmds \subseteq Commands /\ done \subseteq more /\ GoodRecord(before, cmds, done, said)
    BY <2>3, <2>13, <2>16
  <2>18. Learns(before, after, fate, t, more)
    BY <2>5, <2>13, <2>14, <2>16 DEF Learns
  <2>19. GoodRecord(after, cmds, more, said) /\ Call(after) = Call(before)
    BY ONLY <2>17, <2>18, FateIsGood
  <2>15. GoodRecord(r, menu, more, told) /\ Call(r) = Call(me)
    BY <2>16, <2>19
  <2>6. GoodRecord(r, menu, chain'.done, told) /\ Call(r) = Call(me)
    BY <2>11, <2>15
  <2>7. ProcsOK'  BY <1>1, <2>1, <2>2, <2>6, ProcsStep
  <2>8. proc[q].pc \notin Filling /\ r.pc \notin Filling  BY <2>1, <2>5 DEF me, Filling
  <2>9. FilesOK'  BY <1>1, <2>1, <2>2, <2>8, FilesQuiet
  <2>10. PoolOK'
    <3>1. ASSUME NEW b \in Accounts
          PROVE /\ pool'[b] # None => /\ DOMAIN pool'[b] = {"op", "arg", "by"}
                                      /\ pool'[b].by \in Procs \cup {None}
                /\ Polled(pool[b])'
      <4>1. /\ Polled(pool[b])
            /\ pool[b] # None => DOMAIN pool[b] = {"op", "arg", "by"} /\ pool[b].by \in Procs \cup {None}
        BY <1>1 DEF PoolOK
      <4>2. CASE b = a
        <5>1. pool'[b] = None  BY <1>1, <4>2 DEF PoolOK
        <5> QED BY <5>1 DEF Polled
      <4>3. CASE b # a
        <5>1. pool'[b] = pool[b]  BY <1>1, <4>3 DEF PoolOK
        <5>2. ASSUME pool[b] # None, pool[b].by # None
              PROVE  proc'[pool[b].by].pc = "poll" /\ Call(proc'[pool[b].by]) = <<pool[b].op, pool[b].arg>>
          <6>1. /\ pool[b].by \in Procs /\ proc[pool[b].by].pc = "poll"
                /\ Call(proc[pool[b].by]) = <<pool[b].op, pool[b].arg>>
            BY <4>1, <5>2 DEF Polled
          <6>2. CASE pool[b].by = q
            <7>1. proc'[q] = r  BY <1>1, <2>1, <2>2 DEF ProcsOK
            <7> QED BY <2>1, <2>5, <2>6, <6>1, <6>2, <7>1 DEF me
          <6>3. CASE pool[b].by # q
            <7>1. proc'[pool[b].by] = proc[pool[b].by]  BY <1>1, <2>2, <6>1, <6>3 DEF ProcsOK
            <7> QED BY <6>1, <7>1
          <6> QED BY <6>2, <6>3
        <5> QED BY <4>1, <5>1, <5>2 DEF Polled
      <4> QED BY <4>2, <4>3
    <3> QED BY <1>1, <3>1 DEF PoolOK
  <2> QED BY <1>2, <1>3, <2>7, <2>9, <2>10, PartsNext
<1> QED BY <1>5, <1>6

\* A queued transaction is applied.
LEMMA LandKeeps ==
  ASSUME IndInv, NEW a \in Accounts, Land(a)
  PROVE  IndInv'
<1>1. ChainOK  BY Parts
<1>2. ChainOK' /\ chain.done \subseteq chain'.done
      /\ (pool[a].op \notin {"initialize", "migrate_admin"} => <<pool[a].op, pool[a].arg>> \in chain'.done)
  <2>1. CASE pool[a].op = "initialize" /\ chain.admin # None
    <3>1. chain' = chain  BY <2>1 DEF Land
    <3> QED BY <1>1, <2>1, <3>1 DEF ChainOK
  <2>2. CASE ~(pool[a].op = "initialize" /\ chain.admin # None)
    <3>1. chain' = Apply(chain, pool[a].op, pool[a].arg)  BY <2>2 DEF Land
    <3> QED BY <1>1, <3>1, ApplyGrows DEF ChainOK
  <2> QED BY <2>1, <2>2
<1>3. /\ pool[a] # None /\ Fated(pool[a], "ok") /\ pool' = [pool EXCEPT ![a] = None]
      /\ UNCHANGED <<menu, files, told, owed, spoiled>> /\ left' = left
  BY DEF Land
<1> QED BY <1>2, <1>3, SettleKeeps

\* A queued transaction fails or is dropped.
LEMMA LoseKeeps ==
  ASSUME IndInv, NEW a \in Accounts, Lose(a)
  PROVE  IndInv'
<1>1. ChainOK  BY Parts
<1>2. ChainOK' /\ chain.done \subseteq chain'.done  BY <1>1 DEF Lose, ChainOK
<1>3. /\ pool[a] # None /\ pool' = [pool EXCEPT ![a] = None] /\ Fault
      /\ UNCHANGED <<menu, files, told, owed, spoiled>>
  BY DEF Lose
<1>4. PICK fate \in {"failed", "unknown"} : Fated(pool[a], fate)  BY DEF Lose
<1>5. fate # "ok"  BY <1>4
<1> QED BY <1>2, <1>3, <1>4, <1>5, SettleKeeps

----------------------------------------------------------------------------
(* The invariant *)

\* At first nothing runs, is queued or has been reported, and every file is empty.
LEMMA InitKeeps == Init => IndInv
<1> SUFFICES ASSUME Init PROVE IndInv  OBVIOUS
<1>1. /\ files = [f \in Files |-> IF f = "history" THEN <<>> ELSE Empty(f)]
      /\ pool = [a \in Accounts |-> None] /\ proc = [p \in Procs |-> Idle]
      /\ told = {} /\ owed = [f \in Documents |-> Empty(f)] /\ spoiled = {}
  BY DEF Init
<1>2. PICK s \in Scenarios : /\ menu = s.menu
                             /\ left = [starts |-> s.starts, faults |-> s.faults, crashes |-> s.crashes]
  BY DEF Init
<1>3. BoundsOK  BY <1>2, CliAssumption DEF BoundsOK
<1>4. ChainOK
  <2>1. PICK serves, a : LET fresh == [admin |-> None, done |-> {}, serves |-> serves] IN
          chain \in {fresh, [fresh EXCEPT !.admin = a, !.done = {<<"admin", a>>, <<"initialized", None>>}],
                     initialize(fresh, a)}
    BY DEF Init
  <2> DEFINE fresh == [admin |-> None, done |-> {}, serves |-> serves]
             facts == {<<"admin", a>>, <<"initialized", None>>}
  <2>2. CASE chain = fresh  BY <2>2 DEF ChainOK
  <2>3. CASE chain = [fresh EXCEPT !.admin = a, !.done = facts]
    <3>1. DOMAIN chain = {"admin", "done", "serves"} /\ chain.admin = a /\ chain.done = facts  BY <2>3
    <3> QED BY <3>1 DEF ChainOK
  <2>4. CASE chain = initialize(fresh, a)
    <3>1. /\ DOMAIN chain = {"admin", "done", "serves"} /\ chain.admin = a
          /\ chain.done = {} \cup {<<"admin", a>>, <<"role", a>>, <<"initialized", None>>}
      BY <2>4 DEF initialize
    <3> QED BY <3>1 DEF ChainOK
  <2> QED BY <2>1, <2>2, <2>3, <2>4
<1>5. ProcsOK  BY <1>1, IdleIsGood DEF ProcsOK
<1>6. PoolOK  BY <1>1 DEF PoolOK, Polled
<1>7. FilesOK
  <2>1. /\ DOMAIN files = Files /\ files["history"] = <<>>
        /\ \A f \in Documents : files[f] = Empty(f) /\ owed[f] = Empty(f)
    BY <1>1, FileNames
  <2>2. \A f \in Documents : files[f] \in Contents(f)  BY <2>1, EmptyIsDocument, ContentsOf
  <2>3. files["history"] \in Contents("history")
    <3>1. \A S : <<>> \in Seq(S)  OBVIOUS
    <3>2. Contents("history") = Seq(Entry)  BY ContentsOf
    <3> QED BY <2>1, <3>1, <3>2
  <2>4. \A f \in Files : files[f] \in Contents(f)  BY <2>2, <2>3, FileNames
  <2>5. RegistryNeverTorn  BY <2>4, NotTorn, FileNames DEF RegistryNeverTorn
  <2>6. NothingForgotten  BY <2>1 DEF NothingForgotten
  <2>7. HistoryWasInstalled
    <3>1. DOMAIN files["history"] = {}  BY <2>1
    <3> QED BY <3>1 DEF HistoryWasInstalled, Installed
  <2>8. ArtifactsAreReady
    <3>1. files["registry"]["contracts.vault"] = None
      BY <2>1, FileNames DEF Empty, ArtifactKeys
    <3> QED BY <3>1 DEF ArtifactsAreReady, ReadyDocument, Ready
  <2>9. \A f \in Documents : WriterIsAlone(f)
    <3>1. "idle" \notin Filling  BY DEF Filling
    <3> QED BY <1>1, <3>1, IdleFields DEF WriterIsAlone, Truncated
  <2>10. \A f \in Documents : owed[f] \in Document(f)  BY <2>1, EmptyIsDocument
  <2> QED BY <1>1, <2>1, <2>4, <2>5, <2>6, <2>7, <2>8, <2>9, <2>10 DEF FilesOK
<1>8. ReportedIsApplied  BY <1>1 DEF ReportedIsApplied, Backed
<1> QED BY <1>3, <1>4, <1>5, <1>6, <1>7, <1>8, Parts

\* A step that changes nothing.
LEMMA StutterKeeps ==
  ASSUME IndInv, UNCHANGED vars
  PROVE  IndInv'
<1>1. BoundsOK /\ ChainOK /\ ProcsOK /\ PoolOK /\ FilesOK /\ ReportedIsApplied  BY Parts
<1>2. BoundsOK' /\ ChainOK' /\ ReportedIsApplied'
  BY <1>1 DEF vars, BoundsOK, ChainOK, ReportedIsApplied
<1>3. ProcsOK'  BY <1>1 DEF vars, ProcsOK
<1>4. PoolOK'  BY <1>1 DEF vars, PoolOK, Polled
<1>5. UNCHANGED <<files, owed, spoiled, proc>> /\ chain.done \subseteq chain'.done /\ told \subseteq told'
  BY DEF vars
<1>6. FilesOK'  BY <1>1, <1>5, FilesStay
<1> QED BY <1>2, <1>3, <1>4, <1>6, PartsNext

\* Every step of a process, of an operator and of the network keeps the invariant.
LEMMA NextKeeps ==
  ASSUME IndInv, [Next]_vars
  PROVE  IndInv'
<1>1. ASSUME NEW p \in Procs, Run(p) PROVE IndInv'
  <2>1. CASE \/ registerDeploymentAlias(p) \/ resolveContractReference(p) \/ exportDeployments(p)
             \/ writeJsonAtomic(p) \/ saveAccount(p)
    BY <2>1, RegisterKeeps, ResolveKeeps, ExportKeeps, WriteAtomicKeeps, SaveAccountKeeps
  <2>2. CASE \/ prepareSignAndSubmit(p) \/ pollForConfirmation(p) \/ runUpgrade(p)
             \/ runSmokeTest(p) \/ migrateContract(p)
    BY <2>2, SubmitKeeps, PollKeeps, UpgradeKeeps, SmokeTestKeeps, MigrateKeeps
  <2>3. CASE initializeSuperAdmin(p) \/ connectContractIds(p) \/ deployVault(p)
    BY <2>3, InitSuperAdminKeeps, ConnectKeeps, DeployKeeps
  <2>4. CASE runMultisigCommand(p) \/ runPauseCommand(p)
    BY <2>4, MultisigAndPauseKeep
  <2> QED BY <1>1, <2>1, <2>2, <2>3, <2>4 DEF Run
<1>2. ASSUME NEW p \in Procs, Crash(p) PROVE IndInv'  BY <1>2, CrashKeeps
<1>3. ASSUME NEW p \in Procs, NEW c \in menu, NEW x \in Args(c), buildProgram(p, c, x) PROVE IndInv'
  BY <1>3, StartKeeps
<1>4. ASSUME NEW a \in Accounts, Land(a) \/ Lose(a) PROVE IndInv'
  BY <1>4, LandKeeps, LoseKeeps
<1>5. CASE UNCHANGED vars  BY <1>5, StutterKeeps
<1> QED BY <1>1, <1>2, <1>3, <1>4, <1>5 DEF Next

\* The invariant holds in every state.
LEMMA Invariance == Spec => []IndInv
  BY InitKeeps, NextKeeps, PTL DEF Spec

\* Whatever answers are lost, whatever calls the contracts refuse, and wherever processes
\* are killed: what upgrade, roll-back, smoke test, migration, deploy, multisig and a
\* verified init-superadmin report has been applied on the chain, the history names
\* installed hashes only, and the artifact only vaults that were initialized and linked.
\* The reports of Unchecked are excepted: pause looks at no result; connect's links; the
\* SuperAdmin of a verification that was skipped, of which only holds that the contract is
\* initialized; and the ids given to export-deployments with --vault-id and --fee-id.
THEOREM ReportsAlwaysTrue == Spec => []ReportsAreTrue
<1>1. IndInv => ReportsAreTrue  BY DEF IndInv
<1> QED BY <1>1, Invariance, PTL

\* The registry is never half a document, and every document that no two writers overlapped
\* on, and no writer was killed in, is the sum of what the completed commands wrote.
THEOREM FilesAlwaysKept == Spec => []FilesAreKept
<1>1. IndInv => FilesAreKept  BY DEF IndInv
<1> QED BY <1>1, Invariance, PTL
============================================================================
