------------------------------- MODULE MCCli -------------------------------
(* Small instances of Cli: two operators, and one menu of commands for each *)
(* file or contract that their commands share.                              *)
EXTENDS Cli, TLC

MCAliases == {"token", "vault"}
MCGiven == [p \in Procs |-> IF p = CHOOSE q \in Procs : TRUE THEN Contracts ELSE {"vesting"}]
MCNamed == {4}

Doing(cmds, starts, faults, crashes, serves) ==
  [menu |-> cmds, starts |-> starts, faults |-> faults, crashes |-> crashes, serves |-> serves]

MCScenarios == {
  Doing({"register", "resolve", "export", "connect"}, 2, 1, 1, OwnCalls),
  Doing({"register", "deploy"}, 2, 1, 1, Calls),
  Doing({"export", "deploy"}, 2, 1, 0, OwnCalls),
  Doing({"initSuperAdmin", "connect"}, 2, 1, 1, Calls),
  Doing({"orchestrate"}, 2, 1, 1, OwnCalls),
  Doing({"accountAdd", "accountRemove"}, 3, 0, 1, {}),
  Doing({"upgrade", "rollback"}, 3, 1, 0, Calls),
  Doing({"upgrade"}, 2, 1, 1, Calls),
  Doing({"smokeTest", "multisig", "pause"}, 2, 1, 1, OwnCalls),
  Doing({"migrate", "dryRun", "upgrade"}, 1, 1, 1, OwnCalls),
  Doing({"migrate", "dryRun"}, 1, 3, 1, Calls)}

\* The token of this repository, and its migration, undisturbed.
MCMigration == {Doing({"migrate"}, 0, 0, 0, OwnCalls)}

MCIds == 1 .. 4
============================================================================
