# TLA+ models of the VolumeResize controller

This directory holds TLA+ specifications of the controller in `src/internal/controller`. The controller shrinks the PVCs of a StatefulSet, one replica and one volume at a time:

1. Copy the data to a new, smaller PVC.
2. Swap the new PV in under the original PVC name.
3. Recreate the StatefulSet.

The models are checked with TLC. `PROJECT.json` lists the components, the runs, the mutants, the map from every modelled definition to its source lines, the findings and the hazards.

## The system

| Part | Source | State it keeps | Operations |
|---|---|---|---|
| Reconciler | `volumeresize_controller.go` | `VolumeResize` status: phase, `VolumeStatuses`, cursor `(CurrentReplica, CurrentVolume)`, finalizer, `sts-deleted` annotation | `Reconcile`, `handlePending`, `handleValidating`, `handleSyncing`, `handleDeletion`, `setFailed`, `getNextVolumeReplica`, `updateVolumeStatus` |
| Validator | `validation.go` | none (reads) | StatefulSet exists, volume targets, size reduction (replica 0), PDB |
| Claim manager | `pvc.go` | temp PVCs `<vol>-<sts>-<r>-new`, PV reclaim policy and claimRef, original PVCs | `createTempPVC`, `setRetainOnPV`, `replacePVC` |
| Workload manager | `statefulset.go` | the StatefulSet, its backup ConfigMap `<vr>-sts-backup`, replica pods | `backupSTSToConfigMap`, `deleteSTSOrphan`, `deletePod`, `waitForPodTermination`, `getSTSFromBackupConfigMap`, `recreateSTS` |
| Copy driver | `migrator.go` | migrator pods `<vr>-migrator-<r>-<v>` | `createMigratorPod` (get-before-create), `waitForMigrationComplete`, `cleanupMigratorPod` |
| CLI | `cmd/volmig` | none (its exit code) | `create` (one volume, optional `--watch`), `delete`, `status` (optional `--follow`), `watch` (polls every 2 s), and read-only `list`, `describe` |

For the current pair, `handleSyncing` does the following, where each call can fail or be cut off by a controller restart:

1. Get the original PVC and create the temp PVC, then wait for it to bind.
2. Set Retain on the old PV and record it as Syncing.
3. Back up the StatefulSet and orphan-delete it. Then annotate `sts-deleted` with `r.Update`, which reloads the status from the server.
4. Delete the replica's pod and wait until it is gone.
5. Run the migrator pod and wait for it. Then clean it up and mark the pair Synced.
6. `replacePVC`:
   - Retain on the new PV.
   - Delete the temp PVC and wait up to 60 tries.
   - Clear the new PV's claimRef.
   - Delete the original PVC and wait up to 60 tries.
   - Create the original PVC on the new PV.
7. Persist Completed, recreate the StatefulSet from the backup with the new sizes, and clear the annotation.
8. When the pod is Running, advance the cursor, or set the phase to Completed.

The controller races with Kubernetes on the same objects:
- the StatefulSet controller recreates pods and PVCs;
- the PV controller provisions, binds, rebinds and reclaims;
- pvc-protection keeps a PVC in use until its pods are gone;
- the kubelet runs the pods.

The user may delete the VolumeResize at any time.

### What is hard

- **Restarts between steps.** Nearly every step leaves cluster state behind, and the next reconcile re-derives the step from the persisted status and the `sts-deleted` annotation.
- **Status overwrites.** `r.Update` reloads the status, so in-memory edits made before it are lost.
- **Waits that fall through.** The 60-try PVC waits in `replacePVC` end without an error. The migrator wait treats "not found" like success.
- **The PV controller's view of a claimRef.** Rebinds to a terminating PVC and stale references decide whether the swapped PVC ever binds.
- **Retain before delete.** Data is safe only if every delete of a PVC whose PV holds the only copy of a replica's data comes after that PV was set to Retain.

## Modules

- **`VolumeResize.tla`** models the reconciler of one VolumeResize together with the cluster.
  - **State.** The persisted object `vr` holds phase, per-pair status with `oldPV`, cursor, finalizer, `stsDeleted`, `deleted` and `gone`. The rest of the state is `sts`, `backup`, `pvc`, `pv` (policy, claimRef, data), `pod` and `mig`. `sts` is `NoSts` or a record of its claim templates (Old, or New once resized) and its spec generation. `backup` is `NoBackup` or the generation it serialized. The history variable `userGen` is the generation of the user's last edit.
  - **Reconciler locals.** `pc` is the next API call of the running reconcile, and `lvr` is its in-memory copy. `lOldPV` and `lNewPV` are the PV names it read.
  - **Reconciler actions.** There is one action per API call of `handleSyncing` and `replacePVC`:
    - `SyncEnsureTempPVC`, `SetRetainOldPV`, `BackupSTS`, `DeleteSTS`, `Annotate`
    - `DeleteReplicaPod`, `WaitPodGone`, `CreateMigrator`, `WaitMigrator`, `CleanupMigrator`
    - `RetainNewPV`, `DeleteTempPVC`, `ClearClaimRef`, `DeleteOrigPVC`, `CreateOrigPVC`
    - `PersistCompleted`, `RecreateSTS`, `ClearAnnotation`, `CheckPodRunning`

    The phase handlers that make a single write are one action each: `AddFinalizer`, `HandlePending`, `HandleValidating`, `SyncAdvanceCompleted`, `HandleDeletion` and `ReconcileTerminal`.
  - **Failures and conflicts.** `Crash` ends the reconcile before any call, which covers both a restart and an error returned to the framework. `UpdateConflict` is the resourceVersion conflict of an `Update` after the user deleted the object. `ApiError` is a transient error at one of the calls `handleSyncing` answers with `setFailed`. The migration is Failed wherever it stands. `ApiError` shares the `MaxCrashes` budget.
  - **Helpers.** Each helper function the handlers call is an operator used inside the action that makes the call: `SetRetainOnPV`, `BackupSTSToConfigMap`, `STSFromBackup`, `RecreateStatefulSet`, `DeletePod`, `PodTerminated`, `CreateMigratorPod`, `MigrationSucceeded` and `CleanupMigratorPod`.
  - **Cluster configuration.** `conf` is the cluster configuration the reconciler reads, chosen in `Init`: whether the PDBs allow a disruption, and the storage class's volumeBindingMode, taken from the constant set `BindingModes`.
  - **User edits.** `UserEditsSts` is the user changing the live StatefulSet's spec, at most `MaxStsEdits` times.
  - **Cluster actions.** These model Kubernetes, not this repository: `StsCreatePod`, `Provision`, `BindClaim`, `RebindVolume`, `RemoveClaim`, `PodStart`, `PodGone`, `MigratorFinish`, `MigratorGone` and `MigratorLost`. `UserDelete` is `volmig delete` (or `kubectl delete`).
  - **Poll timeouts** are the non-ready branch of the waiting action, which ends the reconcile with a requeue.
- **`VolumeCursor.tla`** models the cursor and its bookkeeping: `handleValidating`'s status list, `getNextVolumeReplica` and `updateVolumeStatus`, and the fast path and migrate step of `handleSyncing`. The whole migration of one pair is a single step here. `Validate` includes `validatePDBAllowsDisruption`, which is modelled as written:
  - a nil selector is skipped;
  - the selector is built from `matchLabels` alone (`SelectorFromSet`);
  - a matching PDB with fewer than one allowed disruption fails the migration.

  Properties judge it by `K8sSelects`, the policy/v1 selector semantics: nil selects nothing, `{}` selects everything, and `matchLabels` and `matchExpressions` must both hold.
  - `Init` chooses the input, so one run covers every volume list and replica count in the bound.
  - The recursive operator `Walk` iterates `GetNext`. It is checked against `RefOrder`, the order spec 4.1 states in closed form.
- **`Migration.tla`** is the abstract specification of what a migration promises, in the terms of its persisted status. Its variables are the phase (Pending, Syncing, Completed, Failed), the set of Completed pairs and the cursor. It has four actions:
  - `Start`: validation puts the cursor on the first pair of the order.
  - `CompletePair`: the pair under the cursor is Completed.
  - `AdvanceCursor`: the cursor moves to the next pair only once the current one is Completed; after the last pair the phase becomes Completed.
  - `Fail`: any non-final phase becomes Failed.

  `VolumeResize.tla` instantiates it as `Abstract == INSTANCE Migration WITH ...`:
  - `Order` is the cursor order of spec 4.1 (`CursorOrder`).
  - The phase is `vr.phase`, with `""`, Pending and Validating mapped to Pending.
  - `completed` is the set of pairs whose `vr.st` entry is Completed.
  - `cur` is `vr.cur`.

  Every other reconciler or cluster step is an abstract stutter.
- **`Volmig.tla`** models the `volmig` CLI as one user's terminal running one command, and a second user who may run `volmig delete`. Its variables are whether the VolumeResize exists (`vrExists`), the phase a Get returns (`vrPhase`, read only), the command, the command's position (`Start`, `WatchStart` once `runWatch` is entered, `Poll`, `Exited`) and the exit code. The actions are:
  - `ClientFails`: `getClient` fails and `exitWithError` exits 1;
  - `RunCreate`: `ParseQuantity`, the existence Get, `Create`, then `runWatch` with `--watch`;
  - `RunStatus`: the Get, then `runWatch` with `--follow` and a non-terminal phase, else exit 1 on Failed and 0 otherwise;
  - `Poll`: one iteration of `runWatch`'s loop, where a failed Get (NotFound included) exits 1, Completed exits 0 ("Migration completed successfully!", exit code `Done`), Failed exits 1, and otherwise it sleeps;
  - `UserDelete`: `runDelete`, with the finalizer's cleanup folded in.

  Output (`printStatus`, the headers) is left out; it decides nothing.
- **`CursorCLI.tla`** composes `VolumeCursor` with `Volmig` (`CLI == INSTANCE Volmig WITH vrPhase <- phase`):
  - the controller steps only while the object exists (`Reconcile` returns on NotFound);
  - each step is either the controller's or a user's, leaving the other's variables unchanged;
  - `Quiescent` is the rest state after the command has returned with no object left.

  A create after a delete would make a new object with an empty status, which the cursor variables cannot express. So the delete is taken only once a create command is past its Create.
- **`MCVolumeResize.tla`, `MCVolumeCursor.tla` and `MCCursorCLI.tla`** give the model values and input sets the configurations use.

Data is abstracted to the pair whose data a PV holds (or `Empty`). Sizes are Old or New, names are tagged tuples, and messages, conditions and timestamps are left out.

## Runs

`VolumeResize` runs use 2 replicas and 1 volume, which is what `volmig create` builds. They use the Immediate binding mode, except `data`, which checks both modes. Passing runs:

| Run | Checks | Bounds | Shows |
|---|---|---|---|
| `safety` | `TypeOK`, `StsRecoverable`, `DataPVsNeverDeleted`, `MigrationSafety` | 5 PVs, 1 restart or API error, lost migrators, replica 1's PVC Pending at start | whenever the StatefulSet is gone the backup exists, no PV holding a pair's only data is deleted, and through restarts the persisted status implements `Migration`'s `Spec` |
| `deletion` | `DataNeverLost` | 5 PVs, 1 restart or API error, lost migrators, user delete | under user deletion mid-swap the data of every pair still exists on some PV |
| `data` | `ServedDataIntact`, `CompletedPairSwapped`, `MigrationRefinement` | 4 PVs, no restart, 1 user edit of the StatefulSet, `FairSpec`, both binding modes | the data is intact when nothing is lost, and the reconciler implements `Migration`'s `FairSpec`: the order is kept and every migration ends |
| `order` (`MCCursorCLI`) | `TypeOK`, `WalkMatchesReference`, `SwapsFollowOrder`, `SwappedPairNeverRedone`, `ValidationRespectsPDB`, `SuccessMeansMigrated`, `MigrationEnds`, `CommandEnds` | all distinct lists of 1–3 names, 1–3 replicas, every set of up to 2 PDBs over 5 selector kinds × allowed 0/1, each of the 5 CLI commands, the VolumeResize existing or not at the start, and a second user's delete at any point (564,408 states, about 2 minutes) | the cursor follows the spec's order, once per pair. No PDB that really selects the pods and allows no disruption is let through. A watch reports success only when every pair was migrated. Every migration whose object exists ends, and every command returns. |

Violation runs, each a disagreement between the code and the spec or the code's own intent (see "findings" in `PROJECT.json`):

| Run | Property | What TLC finds |
|---|---|---|
| `lostmigrator` | `ServedDataIntact` | a migrator pod that vanished is taken as finished, so the replica is served an empty PV (`volumeresize_controller.go:321-334`) |
| `reusedmigrator` | `CompletedPairSwapped` | after a restart once the temp PVC was re-provisioned, while the old finished migrator is still terminating, `createMigratorPod` returns that pod, so no copy is made into the new temp PVC (`migrator.go:104-109`). A restart between the migrator finishing and its cleanup alone is harmless, because the written temp PVC is reused |
| `disruption` | `OneReplicaDownAtATime` | with no restart at all (`MaxCrashes = 0`): the recreated pod is not yet Running, so `:400-403` requeues, and the next reconcile's fast path (`:186-207`) advances and deletes the next replica's pod while the first is still down. This is against spec 4.1 steps 15-16, and it happens on nearly every migration with more than one replica |
| `served` | `CompletedReplicasServed` | the temp-PVC wait falls through; the PV controller rebinds the new PV to the terminating temp PVC and then releases it with a stale claimRef, so the recreated PVC never binds and the replica never returns after Completed (`pvc.go:165-188`) |
| `failedsts` | `WorkloadRestoredWhenDone` | a migrator Failed after the orphan delete ends Failed with the StatefulSet deleted (`:331`, `setFailed`) |
| `stuckannotation` | `PodDeletedOnlyWithoutSts` | a restart between `recreateSTS` and the annotation clear leaves `sts-deleted` set; the next pair deletes its pod with the StatefulSet running (`:377-388`) |
| `badinputs` | `OutcomeJustified` (VolumeCursor) | over distinct volume lists, 0–2 replicas and PDBs without `matchExpressions`, a migration neither Completes nor fails for a PDB that blocks it. The trace has `replicas = 0`: the status list is empty, the cursor stays on replica 0, and `MigratePair` repeats forever. With 1–2 replicas the same configuration passes |
| `stalebackup` | `StsEditsKept` | the backup ConfigMap is written once and never refreshed or deleted, so `recreateSTS` restores a StatefulSet older than the user's last edit (`statefulset.go:108`) |

A further divergence, not given a run: the `r.Update` at `volumeresize_controller.go:291` reloads the status, so the `OldPVName` and Syncing phase set at `:258-264` never reach the server. A Completed pair records no old PV name, against spec 4.1 step 6. No data property depends on it.

### Bounds

- **Replicas.** Two replicas are the fewest that exercise the cursor crossing a replica boundary, the fast path, and one replica being down while another runs. Replica 1 has a pair to migrate after replica 0's has Completed.
- **PVs.** MaxPV 4 allows one temp PV per pair. MaxPV 5 leaves room for a re-provisioned temp PVC after a restart or a deletion.
- **Restarts.** One restart (`MaxCrashes`), which may happen before any call, is enough for every crash-recovery violation above.
- **Cursor inputs.** `VolumeCursor` covers every list of distinct names of length 3 or less, so the fast path, the replica boundary and the last pair occur in every combination.
- **PDBs.** There are five selector kinds:
  - a matching `matchLabels` that is a strict subset of the pod labels;
  - `{}`;
  - a non-matching label;
  - empty `matchLabels` with an excluding `NotIn`;
  - nil.

  Each kind comes with 0 or 1 allowed disruptions, and every pair of such PDBs is checked. This separates subset from equality, empty from nil, and the code's selector from Kubernetes'.
- **Edits.** One user edit (`MaxStsEdits = 1`, in `data` and `stalebackup`) is enough to go stale. It can fall between the backup and the orphan delete, or between two pairs.

### Mutants

Every property of a passing run is killed by a mutant of the definition it guards. The mutants are:
- skipping the backup or either Retain;
- waiting on a running migrator;
- creating the PVC on the old PV;
- an off-by-one in `getNextVolumeReplica`;
- a cursor that never moves;
- a fast path that does not check the pair is Completed;
- a 1-based cursor;
- a PDB selector that must equal the pod labels;
- matching on the replica only;
- marking a copy of the status entry;
- not setting Completed;
- a replica bound one short, which ends the walk early (`SuccessMeansMigrated`);
- a watch loop that ignores Failed (`CommandEnds`).

## Fairness

`FairSpec` has weak fairness on two things:
- the reconciler's steps (controller-runtime requeues every non-terminal reconcile);
- each cluster actor on each object (Kubernetes controllers and the kubelet keep reconciling).

No fairness is given to `Crash`, `MigratorLost` or `UserDelete`, which the environment may or may not do. In `CursorCLI`, the controller has weak fairness while the object exists, and so does the user's command: `runWatch` sleeps 2 s and polls again, with no timeout. The second user's delete has no fairness.

Liveness is checked only in runs without restarts (`data`, `order`) or where the violation is the point (`served`, `badinputs`). `UserEditsSts` and `ApiError` have no fairness either.

## Not modelled

- `handleReplacing`: nothing sets `PhaseReplacing`.
- The CLI's `list` and `describe`: they Get or List and print, changing no state; their only exit path is `exitWithError` on a failed call. In `VolumeResize`, `create` is the initial state and `delete` is `UserDelete`; the commands themselves are in `Volmig`.
- A watch that polls after the VolumeResize is deleted exits 1 ("failed to get volumeresize") even when the migration had Completed. This is reachable in `CursorCLI` (Completed, `UserDelete`, `Poll`) and listed as a hazard; it is not given a run of its own.
- Two more ways to violate `OutcomeJustified`, each confirmed with its own configuration but kept out of `badinputs` so that the run's one trace shows one cause. Both are listed as hazards:
  - a volume list naming a volume twice (`<<a, a>>`), where the cursor cycles because `getNextVolumeReplica` finds the first index (`validation.go:52` accepts the list);
  - a PDB whose `matchExpressions` exclude the pods but which allows no disruption. It fails validation, because the selector is built from `matchLabels` alone (`validation.go:120`).
- The loss of `OldPVName` at `volumeresize_controller.go:291`. `r.Update` reloads the persisted status, so the first pair after each StatefulSet deletion reaches Completed with an empty `OldPVName`; TLC shows this with the invariant "every Completed pair records its OldPVName" under the `data` configuration. The spec's only statement about it (spec.md:182) holds vacuously for an empty name, and the old PV keeps Retain, so no data is lost; it is listed as a hazard rather than a run.
- The copy command inside the migrator image, modelled as a copy of the source PV's data.
- Several volumes per replica with the full cluster model: `TwoVolumes` is defined but too large for a 5-minute run.
- PDB changes after validation. The code deletes pods with `Delete`, not the eviction API, so no PDB is consulted after validation. A property requiring that would fail by construction.
- An API error after the call took effect (a lost response). `ApiError` fails the migration before the call's effect.
- `validateVolumeTargets`, `validateSizeReduction` and the StatefulSet Get are one predicate in `VolumeResize`. `VolumeCursor` assumes they pass.

## Plan for further work

1. Extend `Migration` with the data of Completed pairs (where it is served), mapped from `pvc` and `pv`.
2. Two-volume configurations, with tighter state bounds.
3. A lost-response fault model: a call that took effect and then returned an error.
