----------------------------- MODULE CursorCLI -----------------------------
(***************************************************************************)
(* The controller's migration (VolumeCursor) composed with the volmig CLI  *)
(* (Volmig): the user creates, watches or follows a VolumeResize while the *)
(* controller walks its pairs and another user may delete it.  The        *)
(* controller steps only while the object vrExists; the CLI reads the phase *)
(* the controller writes.                                                 *)
(***************************************************************************)
EXTENDS VolumeCursor

CONSTANTS Commands, UserDeletes

VARIABLES vrExists, cmd, cli, exit, deleted

CLI == INSTANCE Volmig WITH vrPhase <- phase

cliVars == <<vrExists, cmd, cli, exit, deleted>>

allVars == <<vars, cliVars>>

CInit == Init /\ CLI!CLIInit

\* A reconcile of the VolumeResize; none once it is deleted or before it
\* is created.
Controller == vrExists /\ Next /\ UNCHANGED cliVars

\* A step of the user's command, or of the second user's delete.  A
\* VolumeResize created after a delete is a new object whose status starts
\* empty, which the controller variables cannot express, so the delete is
\* taken only once a create command is past its Create.
User ==
    /\ CLI!CLINext
    /\ deleted' => cli # "Start" \/ cmd \notin {"create", "createWatch"}
    /\ UNCHANGED vars

\* The command has returned and there is no VolumeResize to reconcile: the
\* system is at rest.
Quiescent == cli = "Exited" /\ ~vrExists /\ UNCHANGED allVars

CNext == Controller \/ User \/ Quiescent

\* controller-runtime requeues every reconcile of an existing object; the
\* CLI process runs to its end (its watch loop sleeps 2s and polls).  The
\* second user's delete is not assumed to happen.
CFairness ==
    /\ WF_allVars(Controller)
    /\ WF_allVars(CLI!Process /\ UNCHANGED vars)

CSpec == CInit /\ [][CNext]_allVars /\ CFairness

(***************************************************************************)
(* Properties                                                              *)
(***************************************************************************)

\* When volmig watch (or create --watch, status --follow) reports
\* "Migration completed successfully!" and exits 0, the controller has
\* migrated every (replica, volume) pair of the StatefulSet: a user never
\* sees success for a migration that skipped a pair.
SuccessMeansMigrated ==
    exit = "Done" => done = (0..(replicas - 1)) \X {vols[i] : i \in DOMAIN vols}

\* Every migration whose VolumeResize vrExists ends, Completed or Failed,
\* unless the object is deleted first.
MigrationEnds ==
    vrExists ~> (phase \in {"Completed", "Failed"} \/ ~vrExists)

\* Every volmig command the user runs returns: watch, create --watch and
\* status --follow stop polling once the migration is Completed or Failed
\* or the object is gone.
CommandEnds == <>(exit # "None")
====
