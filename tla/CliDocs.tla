------------------------------ MODULE CliDocs ------------------------------
(***************************************************************************)
(* The documents the bc-forge command line keeps on disk, as operators on  *)
(* their contents (src/cli/src/utils/registry.ts, deployments.ts,          *)
(* upgrade-history.ts, config-parser.ts, address-book.ts, and the part of  *)
(* the orchestrator that rewrites .bc-forge.json).                         *)
(*                                                                         *)
(* A document is a function from the keys its commands distinguish to a    *)
(* value or None.  Torn is a file whose bytes are not JSON: one that was   *)
(* truncated by fs.writeFileSync and not yet (or never) filled again.      *)
(* The upgrade history is a sequence of entries of one contract.           *)
(***************************************************************************)
EXTENDS Naturals, Sequences

CONSTANTS None, Torn,
          Aliases,      \* deployment aliases the registry may hold
          Ids,          \* contract ids, as numbers
          Names         \* names of the address book

\* The contracts of .bc-forge.json, each with the contract it is linked to.
Contracts == {"token", "admin", "vesting", "wrapper"}
Links == <<"token.adminContractId", "vesting.tokenContractId", "wrapper.tokenContractId">>
LinkEnds == <<{"admin", "token"}, {"vesting", "token"}, {"wrapper", "token"}>>

ArtifactKeys == {"contracts.vault", "contracts.fee"}
ConfigKeys == Contracts \cup {Links[i] : i \in DOMAIN Links}

KeysOf == [registry |-> Aliases \cup ArtifactKeys, config |-> ConfigKeys, book |-> Names]
Documents == DOMAIN KeysOf

\* Complete contents of a document.
Document(f) == [KeysOf[f] -> {None, 1} \cup Ids]

Empty(f) == [k \in KeysOf[f] |-> None]

\* { ...doc, ...upd }
Spread(doc, upd) == [k \in DOMAIN doc |-> IF k \in DOMAIN upd THEN upd[k] ELSE doc[k]]

----------------------------------------------------------------------------
\* readDeploymentsDocument: a missing file is an empty document; a file that is
\* not JSON throws for a strict reader and is an empty document for the others.
readDeploymentsDocument(raw) == IF raw = Torn THEN Empty("registry") ELSE raw

\* networksFromDocument: the alias buckets alone, without the artifact.
networksFromDocument(doc) == [a \in Aliases |-> doc[a]]

\* Mutant: the bucket is rebuilt from the new aliases only.
mergeNetworkAliasesMutant(networks, aliases) == Spread([a \in Aliases |-> None], aliases)

\* mergeNetworkAliases: later names win, an alias without an id is skipped.
mergeNetworkAliases(networks, aliases) ==
  Spread(networks, [a \in {b \in DOMAIN aliases : aliases[b] # None} |-> aliases[a]])

\* registerDeploymentAlias's document: the existing one, with its networks replaced.
Registered(doc, alias, id) ==
  Spread(doc, mergeNetworkAliases(networksFromDocument(doc), [a \in {alias} |-> id]))

\* buildDeploymentArtifacts: the artifact of a deployment, without aliases.
buildDeploymentArtifacts(vault, fee) ==
  [Empty("registry") EXCEPT !["contracts.vault"] = vault, !["contracts.fee"] = fee]

\* The aliases of export-deployments: the contracts of .bc-forge.json, and the vault and
\* the fee contract that the command line names (--vault-id and --fee-id).
aliasEntries(config, ids) ==
  [a \in Aliases \cap (Contracts \cup DOMAIN ids) |-> IF a \in DOMAIN ids THEN ids[a] ELSE config[a]]

\* export-deployments: a fresh artifact with these contracts, whose names are merged
\* into the aliases already in the file.
Exported(raw, config, ids) ==
  Spread(buildDeploymentArtifacts(ids.vault, ids.fee),
         mergeNetworkAliases(networksFromDocument(readDeploymentsDocument(raw)),
                             aliasEntries(config, ids)))

----------------------------------------------------------------------------
\* readHistoryFile: {} for a file that cannot be parsed.
readHistoryFile(raw) == IF raw = Torn THEN <<>> ELSE raw

\* getLastGoodHash: previousHash of the latest entry.
getLastGoodHash(raw) ==
  LET entries == readHistoryFile(raw)
  IN IF entries = <<>> THEN None ELSE entries[Len(entries)].previousHash

\* appendUpgradeHistory
Appended(raw, previousHash, newHash) ==
  Append(readHistoryFile(raw), [previousHash |-> previousHash, newHash |-> newHash])

----------------------------------------------------------------------------
\* loadConfigFile: whatever cannot be parsed or validated is no configuration, and
\* the caller then starts from its defaults.
loadConfigFile(raw) == IF raw = Torn THEN Empty("config") ELSE raw

\* initializeSuperAdmin writes the token's contract id and deployer.
AdminConfig == [k \in {"token"} |-> 1]

\* connectContractIds knows the contracts named on its command line and in the file ...
Known(config, given) == given \cup {k \in Contracts : config[k] # None}

\* ... links those of which it knows both ends ...
Linked(known) == {i \in DOMAIN Links : LinkEnds[i] \subseteq known}

\* ... and writes their ids and these links, whether a link's transaction was applied,
\* refused or thrown.
LinkedConfig(known) == [k \in known \cup {Links[i] : i \in Linked(known)} |-> 1]

----------------------------------------------------------------------------
\* saveAccount and removeAccount
Saved(doc, name) == Spread(doc, [n \in {name} |-> 1])
Removed(doc, name) == Spread(doc, [n \in {name} |-> None])
============================================================================
