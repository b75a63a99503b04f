------------------------------ MODULE Programs ------------------------------
(***************************************************************************)
(* The two programs of cmd/ on one host: a run of the service (Lifecycle)  *)
(* and a run of the command line client (Cli), each a process of its own.  *)
(***************************************************************************)
EXTENDS Lifecycle, Cli

ProgramsInit == Init /\ CliInit

ProgramsNext ==
  \/ Next /\ UNCHANGED cliVars
  \/ CliNext /\ UNCHANGED vars

ProgramsSpec ==
  /\ ProgramsInit
  /\ [][ProgramsNext]_<<vars, cliVars>>
  /\ WF_vars(MainStep) /\ WF_vars(ServerFatal)
  /\ WF_cliVars(CliStep)

(* Type correctness of the two processes.                                   *)
ProgramsTypeOK == TypeOK /\ CliTypeOK
=============================================================================
