------------------------------- MODULE Volmig -------------------------------
(***************************************************************************)
(* The volmig CLI (src/cmd/volmig/cmd) as one user's terminal running one  *)
(* command against the API server, and a second user who may run          *)
(* "volmig delete" at any time.  The commands that change state or wait   *)
(* on it are modelled: create (with --watch), status (with --follow),     *)
(* watch and delete.  Their output is left out; what is kept is every     *)
(* API call, every exitWithError and the exit code.                       *)
(*                                                                         *)
(* The VolumeResize's Status.Phase (vrPhase) is written by the controller *)
(* only; this module reads it and leaves it unchanged.                    *)
(***************************************************************************)

CONSTANTS
    Commands,       \* the commands the user may run, a subset of CmdNames
    UserDeletes     \* a second user may run "volmig delete <name>"

CmdNames == {"create", "createWatch", "status", "statusFollow", "watch"}

ASSUME Commands \subseteq CmdNames /\ Commands # {} /\ UserDeletes \in BOOLEAN

VARIABLES
    vrExists,     \* the VolumeResize <name> exists on the API server
    vrPhase,    \* its Status.Phase, as a Get returns it
    cmd,        \* the command the user ran
    cli,        \* "Start", "WatchStart" (runWatch entered), "Poll", "Exited"
    exit,       \* "None" while running; "Ok" or "Done" (exit 0), "Err" (exit 1)
    deleted     \* the second user's volmig delete has run

cliVars == <<vrExists, cmd, cli, exit, deleted>>

TerminalPhases == {"Completed", "Failed"}
ExitCodes == {"None", "Ok", "Done", "Err"}

\* The VolumeResize may exist before the command runs (created earlier, by
\* volmig or kubectl) or not.
CLIInit ==
    /\ vrExists \in BOOLEAN
    /\ cmd \in Commands
    /\ cli = IF cmd = "watch" THEN "WatchStart" ELSE "Start"
    /\ exit = "None"
    /\ deleted = FALSE

\* exitWithError prints the message and calls os.Exit(1); a normal return
\* from the command's Run exits 0.
Exit(code) == cli' = "Exited" /\ exit' = code

\* getClient: no in-cluster config and no usable kubeconfig, or the client
\* cannot be built; exitWithError.  runWatch calls it again on entry.
ClientFails ==
    /\ cli \in {"Start", "WatchStart"}
    /\ Exit("Err")
    /\ UNCHANGED <<vrExists, vrPhase, cmd, deleted>>

\* runCreate: ParseQuantity(--size); Get (found: "volumeresize already
\* vrExists"); build the one-volume VolumeResize and Create it; with --watch
\* go on to runWatch.
RunCreate ==
    /\ cli = "Start" /\ cmd \in {"create", "createWatch"}
    /\ \/ /\ Exit("Err")                       \* --size does not parse
          /\ UNCHANGED vrExists
       \/ /\ vrExists                            \* already exists
          /\ Exit("Err")
          /\ UNCHANGED vrExists
       \/ /\ ~vrExists                           \* the API server rejects the Create
          /\ Exit("Err")
          /\ UNCHANGED vrExists
       \/ /\ ~vrExists
          /\ vrExists' = TRUE
          /\ IF cmd = "createWatch" THEN cli' = "WatchStart" /\ UNCHANGED exit
                                    ELSE Exit("Ok")
    /\ UNCHANGED <<vrPhase, cmd, deleted>>

\* runStatus: Get (error: exitWithError); print; with --follow and a phase
\* that is not terminal, runWatch; else exit 1 if Failed, 0 otherwise.
RunStatus ==
    /\ cli = "Start" /\ cmd \in {"status", "statusFollow"}
    /\ \/ /\ ~vrExists
          /\ Exit("Err")
       \/ /\ vrExists /\ cmd = "statusFollow" /\ vrPhase \notin TerminalPhases
          /\ cli' = "WatchStart"
          /\ UNCHANGED exit
       \/ /\ vrExists /\ (cmd = "status" \/ vrPhase \in TerminalPhases)
          /\ Exit(IF vrPhase = "Failed" THEN "Err" ELSE "Ok")
    /\ UNCHANGED <<vrExists, vrPhase, cmd, deleted>>

\* Mutant of Poll: only Completed ends the loop.
PollIgnoresFailed ==
    /\ cli \in {"WatchStart", "Poll"}
    /\ \/ /\ ~vrExists
          /\ Exit("Err")
       \/ /\ vrExists /\ vrPhase = "Completed"
          /\ Exit("Done")
       \/ /\ vrExists /\ vrPhase # "Completed"
          /\ cli' = "Poll"
          /\ UNCHANGED exit
    /\ UNCHANGED <<vrExists, vrPhase, cmd, deleted>>

\* One iteration of runWatch's loop: Get (error, NotFound included:
\* exitWithError); print if the phase, message or replica changed
\* (printStatus); Completed exits 0, Failed exits 1; else sleep 2s.
Poll ==
    /\ cli \in {"WatchStart", "Poll"}
    /\ \/ /\ ~vrExists
          /\ Exit("Err")
       \/ /\ vrExists /\ vrPhase = "Completed"
          /\ Exit("Done")
       \/ /\ vrExists /\ vrPhase = "Failed"
          /\ Exit("Err")
       \/ /\ vrExists /\ vrPhase \notin TerminalPhases
          /\ cli' = "Poll"
          /\ UNCHANGED exit
    /\ UNCHANGED <<vrExists, vrPhase, cmd, deleted>>

\* runDelete in another terminal: Get (NotFound: exitWithError), Delete.
\* The finalizer's handleDeletion is folded in: the object is gone.
UserDelete ==
    /\ UserDeletes /\ ~deleted
    /\ deleted' = TRUE
    /\ vrExists' = FALSE
    /\ UNCHANGED <<vrPhase, cmd, cli, exit>>

\* The steps of the user's own command.
Process == ClientFails \/ RunCreate \/ RunStatus \/ Poll

CLINext == Process \/ UserDelete

\* The command runs to its end: the watch loop sleeps and polls again.
CLISpec == CLIInit /\ [][CLINext]_<<cliVars, vrPhase>> /\ WF_<<cliVars, vrPhase>>(Process)
====
