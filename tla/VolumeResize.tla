---------------------------- MODULE VolumeResize ----------------------------
(***************************************************************************)
(* The VolumeResize reconciler (internal/controller) driving one migration *)
(* of a StatefulSet's PVCs to a smaller size, together with the parts of   *)
(* the cluster it races with: the StatefulSet controller, the PV           *)
(* controller (provisioning, binding, reclaim), pvc-protection, and the    *)
(* kubelet running replica pods and migrator pods.                         *)
(*                                                                         *)
(* The reconciler is one goroutine (controller-runtime never runs two      *)
(* reconciles of one key at once).  A reconcile is a sequence of API calls *)
(* on a local copy "lvr" of the object; "pc" is the call it is about to    *)
(* make.  Between any two calls the cluster actors may step, and the       *)
(* reconcile may stop (controller restart, or an error returned to the     *)
(* framework); the next reconcile starts again from the persisted object.  *)
(***************************************************************************)
EXTENDS Naturals, Sequences, FiniteSets
LOCAL INSTANCE FiniteSetsExt

CONSTANTS
    Replicas,       \* sts.Spec.Replicas read at validation (>= 1 here)
    Volumes,        \* vr.Spec.Volumes: sequence of distinct volume names
    BindingModes,   \* the volumeBindingModes the PVCs' storage class may have
    MaxPV,          \* bound on the PVs that ever exist (names are never reused)
    MaxCrashes,     \* bound on reconciles cut short by a restart or error
    MigratorLoss,   \* the environment may make a running migrator pod vanish
    UserDeletes,    \* the user may delete the VolumeResize at any time
    UnboundAtStart, \* pairs whose original PVC is still Pending when the VolumeResize is created
    MaxStsEdits,    \* bound on the user's edits of the StatefulSet during the migration
    NoRef,          \* model value: PV.Spec.ClaimRef = nil
    StaleRef,       \* model value: a claimRef to a PVC (uid) that no longer exists
    Empty,          \* model value: the data of a freshly provisioned PV
    NoCursor        \* model value: Status.CurrentReplica = nil

ASSUME
    /\ Replicas \in Nat \ {0}
    /\ Len(Volumes) >= 1
    /\ \A i, j \in 1..Len(Volumes) : Volumes[i] = Volumes[j] => i = j
    /\ BindingModes \subseteq {"Immediate", "WaitForFirstConsumer"} /\ BindingModes # {}
    /\ MaxPV \in Nat /\ MaxCrashes \in Nat /\ MaxStsEdits \in Nat
    /\ MigratorLoss \in BOOLEAN /\ UserDeletes \in BOOLEAN
    /\ UnboundAtStart \subseteq (0..(Replicas - 1)) \X {Volumes[i] : i \in 1..Len(Volumes)}

Reps == 0..(Replicas - 1)
VolNames == {Volumes[i] : i \in 1..Len(Volumes)}
Pairs == Reps \X VolNames
VolIdx(v) == CHOOSE i \in 1..Len(Volumes) : Volumes[i] = v

\* PVC names: <volume>-<sts>-<replica> and <volume>-<sts>-<replica>-new
\* (getOriginalPVCName, getTempPVCName) are kept as tagged tuples.
PVCNames == {"orig", "temp"} \X Reps \X VolNames
OrigPVC(r, v) == <<"orig", r, v>>
TempPVC(r, v) == <<"temp", r, v>>

PVIds == 1..MaxPV
NoPV == 0                    \* an empty Spec.VolumeName

\* The data of pair (r, v) is named by the pair; PVs initially hold it.
PairOfPV(i) == <<(i - 1) \div Len(Volumes), Volumes[((i - 1) % Len(Volumes)) + 1]>>
PVOf(r, v) == r * Len(Volumes) + VolIdx(v)

PodPhases == {"Absent", "Pending", "Running", "Succeeded", "Failed"}
VSPhases == {"None", "Pending", "Syncing", "Synced", "Completed"}
NoStatus == [phase |-> "None", oldPV |-> NoPV]

NoPVC == [exists |-> FALSE, vol |-> NoPV, bound |-> FALSE, size |-> "Old", deleting |-> FALSE]
NoPVRec == [exists |-> FALSE, policy |-> "Delete", claimRef |-> NoRef, data |-> Empty]

\* A StatefulSet is its claim templates ("Old" sizes, or "New" once
\* recreated with the targets resized) and the generation of the rest of
\* its spec; the backup ConfigMap holds the generation it serialized.
StsGens == 0..MaxStsEdits
NoSts == [tmpl |-> "None", gen |-> 0]
NoBackup == [exists |-> FALSE, gen |-> 0]

\* deleted: DeletionTimestamp is set; gone: the object no longer exists.
InitVR == [phase |-> "", st |-> [p \in Pairs |-> NoStatus], cur |-> NoCursor,
           finalizer |-> FALSE, stsDeleted |-> FALSE, deleted |-> FALSE, gone |-> FALSE]

VARIABLES
    vr,         \* the persisted VolumeResize: status, finalizer, sts-deleted annotation
    conf,       \* what the reconciler reads of the cluster: the PDBs allow a
                \* disruption (pdbOK), the storage class's volumeBindingMode (binding)
    sts,        \* the StatefulSet, or NoSts while it is (orphan-)deleted
    backup,     \* the <vr>-sts-backup ConfigMap, or NoBackup
    userGen,    \* history: the generation of the user's last edit of the StatefulSet
    pvc,        \* PVCNames -> claim
    pv,         \* PVIds -> persistent volume
    nextPV,     \* the next PV id the provisioner hands out
    pod,        \* Reps -> replica pod <sts>-<r>
    mig,        \* Pairs -> migrator pod <vr>-migrator-<r>-<v>
    pc,         \* the reconciler's next API call ("Idle" between reconciles)
    lvr,        \* the reconciler's in-memory copy of the VolumeResize
    lOldPV,     \* originalPVC.Spec.VolumeName read in handleSyncing
    lNewPV,     \* tempPVC.Spec.VolumeName read in replacePVC
    crashes     \* reconciles cut short so far

envVars == <<sts, backup, userGen, pvc, pv, nextPV, pod, mig>>
recVars == <<pc, lvr, lOldPV, lNewPV>>
ctlVars == <<vr, conf, pc, lvr, lOldPV, lNewPV, crashes>>
vars == <<vr, conf, sts, backup, userGen, pvc, pv, nextPV, pod, mig, pc, lvr, lOldPV, lNewPV, crashes>>

TypeOK ==
    /\ vr \in [phase : {"", "Pending", "Validating", "Syncing", "Completed", "Failed"},
               st : [Pairs -> [phase : VSPhases, oldPV : {NoPV} \cup PVIds]],
               cur : Pairs \cup {NoCursor},
               finalizer : BOOLEAN, stsDeleted : BOOLEAN, deleted : BOOLEAN, gone : BOOLEAN]
    /\ conf \in [pdbOK : BOOLEAN, binding : BindingModes]
    /\ sts \in {NoSts} \cup [tmpl : {"Old", "New"}, gen : StsGens]
    /\ backup \in {NoBackup} \cup [exists : {TRUE}, gen : StsGens]
    /\ userGen \in StsGens
    /\ pvc \in [PVCNames -> [exists : BOOLEAN, vol : {NoPV} \cup PVIds, bound : BOOLEAN,
                             size : {"Old", "New"}, deleting : BOOLEAN]]
    /\ pv \in [PVIds -> [exists : BOOLEAN, policy : {"Delete", "Retain"},
                         claimRef : PVCNames \cup {NoRef, StaleRef}, data : Pairs \cup {Empty}]]
    /\ nextPV \in 1..(MaxPV + 1)
    /\ pod \in [Reps -> [phase : {"Absent", "Pending", "Running"}, deleting : BOOLEAN]]
    /\ mig \in [Pairs -> [phase : {"Absent", "Running", "Succeeded", "Failed"}, deleting : BOOLEAN]]
    /\ pc \in {"Idle", "SetRetain", "BackupSTS", "DeleteSTS", "Annotate", "DeletePod",
               "WaitPodGone", "CreateMigrator", "WaitMigrator", "Cleanup", "RetainNewPV",
               "DeleteTemp", "ClearClaimRef", "DeleteOrig", "CreateOrig",
               "PersistCompleted", "RecreateSTS", "ClearAnnotation", "CheckPodRunning"}
    /\ lOldPV \in {NoPV} \cup PVIds /\ lNewPV \in {NoPV} \cup PVIds
    /\ crashes \in 0..MaxCrashes

Init ==
    /\ vr = InitVR
    /\ conf \in [pdbOK : BOOLEAN, binding : BindingModes]
    /\ sts = [tmpl |-> "Old", gen |-> 0]
    /\ backup = NoBackup
    /\ userGen = 0
    /\ pvc = [c \in PVCNames |->
                CASE c[1] = "orig" /\ <<c[2], c[3]>> \in UnboundAtStart ->
                       [NoPVC EXCEPT !.exists = TRUE]
                  [] c[1] = "orig" ->
                       [NoPVC EXCEPT !.exists = TRUE, !.vol = PVOf(c[2], c[3]), !.bound = TRUE]
                  [] OTHER -> NoPVC]
    /\ pv = [i \in PVIds |->
                IF i <= Replicas * Len(Volumes) /\ PairOfPV(i) \notin UnboundAtStart
                THEN [exists |-> TRUE, policy |-> "Delete",
                      claimRef |-> OrigPVC(PairOfPV(i)[1], PairOfPV(i)[2]), data |-> PairOfPV(i)]
                ELSE NoPVRec]
    /\ nextPV = Replicas * Len(Volumes) + 1
    /\ pod = [r \in Reps |-> [phase |-> IF \E v \in VolNames : <<r, v>> \in UnboundAtStart
                                       THEN "Pending" ELSE "Running",
                              deleting |-> FALSE]]
    /\ mig = [p \in Pairs |-> [phase |-> "Absent", deleting |-> FALSE]]
    /\ pc = "Idle" /\ lvr = InitVR /\ lOldPV = NoPV /\ lNewPV = NoPV
    /\ crashes = 0

(***************************************************************************)
(* Reconciler helpers                                                      *)
(***************************************************************************)

\* Status().Update(vr): writes the status part of the local copy; the
\* finalizer and annotations on the server are left as they are.
PersistStatus(l) == vr' = [vr EXCEPT !.phase = l.phase, !.st = l.st, !.cur = l.cur]

\* The reconcile returns (result or error): local state is dropped.
EndReconcile == pc' = "Idle" /\ lvr' = InitVR /\ lOldPV' = NoPV /\ lNewPV' = NoPV

\* The user deleted the object after the reconcile read it: the object's
\* resourceVersion has changed, so every Update or Status().Update the
\* reconcile makes from its copy fails with a conflict.
Conflict == vr.deleted /\ ~lvr.deleted

\* setFailed: Phase = Failed, persisted with the rest of the local status
\* (unless the write conflicts); the reconcile returns either way.
SetFailed(l) ==
    /\ IF Conflict THEN UNCHANGED vr ELSE PersistStatus([l EXCEPT !.phase = "Failed"])
    /\ EndReconcile

\* The largest replica index in Status.VolumeStatuses (0 when empty).
MaxStatusReplica(st) == Max({p[1] : p \in {q \in Pairs : st[q].phase # "None"}} \cup {0})

\* Mutant of NextPair: "currentReplica <= maxReplica", one replica too far.
NextPairPastLastReplica(l) ==
    LET r == l.cur[1]
        i == VolIdx(l.cur[2])
    IN IF i < Len(Volumes) THEN <<r, Volumes[i + 1]>>
       ELSE IF r <= MaxStatusReplica(l.st) THEN <<r + 1, Volumes[1]>>
       ELSE "Done"

\* getNextVolumeReplica: the next volume of the same replica, else the
\* first volume of the next replica, else "Done".
NextPair(l) ==
    LET r == l.cur[1]
        i == VolIdx(l.cur[2])
    IN IF i < Len(Volumes) THEN <<r, Volumes[i + 1]>>
       ELSE IF r < MaxStatusReplica(l.st) THEN <<r + 1, Volumes[1]>>
       ELSE "Done"

\* Mutant of Advance: the cursor is written back unchanged.
AdvanceStuck(l) == l

\* Advance the cursor, or finish the migration when no pair is left.
Advance(l) ==
    IF NextPair(l) = "Done"
    THEN [l EXCEPT !.phase = "Completed", !.cur = NoCursor]
    ELSE [l EXCEPT !.cur = NextPair(l)]

CurRep == lvr.cur[1]
CurVol == lvr.cur[2]
PVExists(i) == i \in PVIds /\ pv[i].exists

(***************************************************************************)
(* Reconcile: entry and the phase handlers that make a single write        *)
(***************************************************************************)

\* Reconcile without a finalizer: add it, Update, requeue.
AddFinalizer ==
    /\ pc = "Idle"
    /\ ~vr.deleted /\ ~vr.finalizer
    /\ vr' = [vr EXCEPT !.finalizer = TRUE]
    /\ UNCHANGED <<conf, envVars, recVars, crashes>>

\* handlePending: start validation with empty VolumeStatuses.
HandlePending ==
    /\ pc = "Idle"
    /\ ~vr.deleted /\ vr.finalizer /\ vr.phase \in {"", "Pending"}
    /\ vr' = [vr EXCEPT !.phase = "Validating", !.st = [p \in Pairs |-> NoStatus]]
    /\ UNCHANGED <<conf, envVars, recVars, crashes>>

\* validateStatefulSetExists, validateVolumeTargets (the templates are the
\* volume names), validateSizeReduction on replica 0's PVCs, and
\* validatePDBAllowsDisruption.
ValidationPasses ==
    /\ sts # NoSts
    /\ \A v \in VolNames : pvc[OrigPVC(0, v)].exists /\ pvc[OrigPVC(0, v)].size = "Old"
    /\ conf.pdbOK

\* handleValidating: fail, or one Pending VolumeStatus per (replica, volume)
\* and the cursor at (0, Volumes[0]).
HandleValidating ==
    /\ pc = "Idle"
    /\ ~vr.deleted /\ vr.finalizer /\ vr.phase = "Validating"
    /\ \/ /\ ~ValidationPasses
          /\ vr' = [vr EXCEPT !.phase = "Failed"]
       \/ /\ ValidationPasses
          /\ vr' = [vr EXCEPT !.phase = "Syncing",
                              !.st = [p \in Pairs |-> [phase |-> "Pending", oldPV |-> NoPV]],
                              !.cur = <<0, Volumes[1]>>]
    /\ UNCHANGED <<conf, envVars, recVars, crashes>>

\* Mutant of SyncAdvanceCompleted: the fast path does not look at the
\* VolumeStatus of the current pair.
SyncAdvanceCompletedUnchecked ==
    /\ pc = "Idle"
    /\ ~vr.deleted /\ vr.finalizer /\ vr.phase = "Syncing"
    /\ PersistStatus(Advance(vr))
    /\ UNCHANGED <<conf, envVars, recVars, crashes>>

\* handleSyncing, first branch: the current pair is already Completed in
\* the persisted status, so advance the cursor and requeue.
SyncAdvanceCompleted ==
    /\ pc = "Idle"
    /\ ~vr.deleted /\ vr.finalizer /\ vr.phase = "Syncing"
    /\ vr.st[vr.cur].phase = "Completed"
    /\ PersistStatus(Advance(vr))
    /\ UNCHANGED <<conf, envVars, recVars, crashes>>

\* Completed and Failed are terminal, and a VolumeResize that is gone is
\* not found: reconcile does nothing.
ReconcileTerminal ==
    /\ pc = "Idle"
    /\ \/ vr.gone
       \/ ~vr.deleted /\ vr.finalizer /\ vr.phase \in {"Completed", "Failed"}
    /\ UNCHANGED vars

\* handleDeletion: delete every PVC and pod labelled with the migration
\* (the temp PVCs and migrator pods; errors are only logged), then remove
\* the finalizer, after which the object is gone.  The StatefulSet, its
\* backup and the original PVCs are left as they are.
HandleDeletion ==
    /\ pc = "Idle"
    /\ vr.deleted /\ ~vr.gone
    /\ pvc' = [c \in PVCNames |->
                 IF c[1] = "temp" /\ pvc[c].exists THEN [pvc[c] EXCEPT !.deleting = TRUE] ELSE pvc[c]]
    /\ mig' = [p \in Pairs |->
                 IF mig[p].phase # "Absent" THEN [mig[p] EXCEPT !.deleting = TRUE] ELSE mig[p]]
    /\ vr' = [vr EXCEPT !.finalizer = FALSE, !.gone = TRUE]
    /\ UNCHANGED <<conf, sts, userGen, backup, pv, nextPV, pod, recVars, crashes>>

(***************************************************************************)
(* handleSyncing for the current pair, one API call per step               *)
(***************************************************************************)

\* setRetainOnPV: Get the PV (a missing one is an error the caller checks
\* first), and set its reclaim policy to Retain unless it already is.
SetRetainOnPV(i) == pv' = [pv EXCEPT ![i].policy = "Retain"]

\* backupSTSToConfigMap: an existing backup is kept as it is (so a retry
\* never overwrites it); otherwise the serialized StatefulSet is stored.
BackupSTSToConfigMap ==
    backup' = IF backup.exists THEN backup ELSE [exists |-> TRUE, gen |-> sts.gen]

\* getSTSFromBackupConfigMap succeeds when the backup exists.
STSFromBackup == backup.exists

\* recreateSTS: Create the StatefulSet from the backup with the updated
\* templates; the caller tolerates AlreadyExists, leaving the live one.
RecreateStatefulSet ==
    sts' = IF sts = NoSts THEN [tmpl |-> "New", gen |-> backup.gen] ELSE sts

\* deletePod: delete the replica pod; NotFound is not an error.
DeletePod(r) ==
    pod' = IF pod[r].phase # "Absent" THEN [pod EXCEPT ![r].deleting = TRUE] ELSE pod

\* waitForPodTermination: the poll ends when the Get returns NotFound.
PodTerminated(r) == pod[r].phase = "Absent"

\* createMigratorPod: Get first and return an existing pod of that name,
\* whatever its phase; else create it (it starts running).
CreateMigratorPod(p) ==
    mig' = IF mig[p].phase = "Absent"
           THEN [mig EXCEPT ![p] = [phase |-> "Running", deleting |-> FALSE]] ELSE mig

\* waitForMigrationComplete returns without error only for Succeeded.
MigrationSucceeded(p) == mig[p].phase = "Succeeded"

\* cleanupMigratorPod: delete the pod; NotFound is not an error.
CleanupMigratorPod(p) ==
    mig' = IF mig[p].phase # "Absent" THEN [mig EXCEPT ![p].deleting = TRUE] ELSE mig

NewTempPVC == [exists |-> TRUE, vol |-> NoPV, bound |-> FALSE, size |-> "New", deleting |-> FALSE]

\* Get the original PVC (missing: fail), createTempPVC (get-before-create),
\* then wait for the temp PVC to be Bound unless the storage class binds on
\* first consumer.  A PVC just created is returned unbound.
SyncEnsureTempPVC ==
    /\ pc = "Idle"
    /\ ~vr.deleted /\ vr.finalizer /\ vr.phase = "Syncing"
    /\ vr.st[vr.cur].phase # "Completed"
    /\ LET o == OrigPVC(vr.cur[1], vr.cur[2])
           t == TempPVC(vr.cur[1], vr.cur[2])
           tmp == IF pvc[t].exists THEN pvc[t] ELSE NewTempPVC
       IN \/ /\ ~pvc[o].exists
             /\ SetFailed(vr)
             /\ UNCHANGED <<envVars, crashes>>
          \/ /\ pvc[o].exists
             /\ pvc' = [pvc EXCEPT ![t] = tmp]
             /\ IF conf.binding = "Immediate" /\ ~tmp.bound
                THEN EndReconcile
                ELSE pc' = "SetRetain" /\ lvr' = vr /\ lOldPV' = pvc[o].vol /\ lNewPV' = NoPV
             /\ UNCHANGED <<vr, sts, userGen, backup, pv, nextPV, pod, mig, crashes>>
    /\ UNCHANGED conf

\* Mutant of SetRetainOldPV: the old PV keeps its Delete policy.
SetRetainOldPVSkipped ==
    /\ pc = "SetRetain"
    /\ \/ /\ ~PVExists(lOldPV)
          /\ SetFailed(lvr)
       \/ /\ PVExists(lOldPV)
          /\ lvr' = [lvr EXCEPT !.st[lvr.cur] = [phase |-> "Syncing", oldPV |-> lOldPV]]
          /\ pc' = "BackupSTS"
          /\ UNCHANGED <<vr, lOldPV, lNewPV>>
    /\ UNCHANGED <<conf, sts, userGen, backup, pvc, pv, nextPV, pod, mig, crashes>>

\* setRetainOnPV(originalPVC.Spec.VolumeName): the Get of the PV fails
\* (an unbound original PVC names none) and the migration fails; else the
\* pair is recorded as Syncing with its old PV name in the local status.
SetRetainOldPV ==
    /\ pc = "SetRetain"
    /\ \/ /\ ~PVExists(lOldPV)
          /\ SetFailed(lvr)
          /\ UNCHANGED pv
       \/ /\ PVExists(lOldPV)
          /\ SetRetainOnPV(lOldPV)
          /\ lvr' = [lvr EXCEPT !.st[lvr.cur] = [phase |-> "Syncing", oldPV |-> lOldPV]]
          /\ pc' = "BackupSTS"
          /\ UNCHANGED <<vr, lOldPV, lNewPV>>
    /\ UNCHANGED <<conf, sts, userGen, backup, pvc, nextPV, pod, mig, crashes>>

\* Mutant of BackupSTS: the StatefulSet is deleted without a backup.
BackupSTSSkipped ==
    /\ pc = "BackupSTS"
    /\ \/ /\ lvr.stsDeleted \/ sts = NoSts
          /\ pc' = "DeletePod"
       \/ /\ ~lvr.stsDeleted /\ sts # NoSts
          /\ pc' = "DeleteSTS"
    /\ UNCHANGED <<vr, conf, sts, userGen, backup, pvc, pv, nextPV, pod, mig, lvr, lOldPV, lNewPV, crashes>>

\* Without the sts-deleted annotation: Get the StatefulSet and, if it
\* exists, backupSTSToConfigMap (get-before-create).
BackupSTS ==
    /\ pc = "BackupSTS"
    /\ \/ /\ lvr.stsDeleted \/ sts = NoSts
          /\ pc' = "DeletePod"
          /\ UNCHANGED backup
       \/ /\ ~lvr.stsDeleted /\ sts # NoSts
          /\ BackupSTSToConfigMap
          /\ pc' = "DeleteSTS"
    /\ UNCHANGED <<vr, conf, sts, userGen, pvc, pv, nextPV, pod, mig, lvr, lOldPV, lNewPV, crashes>>

\* deleteSTSOrphan: the pods and PVCs stay.
DeleteSTS ==
    /\ pc = "DeleteSTS"
    /\ sts' = NoSts
    /\ pc' = "Annotate"
    /\ UNCHANGED <<vr, conf, backup, userGen, pvc, pv, nextPV, pod, mig, lvr, lOldPV, lNewPV, crashes>>

\* Set the sts-deleted and backup annotations and r.Update(vr); the Update
\* decodes the server's object into vr, whose status is the persisted one,
\* so the local VolumeStatus changes are replaced.  The following
\* Status().Update (BackupConfigMapName) writes that status back unchanged.
Annotate ==
    /\ pc = "Annotate"
    /\ ~Conflict
    /\ vr' = [vr EXCEPT !.stsDeleted = TRUE]
    /\ lvr' = [vr EXCEPT !.stsDeleted = TRUE]
    /\ pc' = "DeletePod"
    /\ UNCHANGED <<conf, envVars, lOldPV, lNewPV, crashes>>

\* deletePod(<sts>-<replica>), not-found tolerated, other errors logged.
DeleteReplicaPod ==
    /\ pc = "DeletePod"
    /\ DeletePod(CurRep)
    /\ pc' = "WaitPodGone"
    /\ UNCHANGED <<vr, conf, sts, userGen, backup, pvc, pv, nextPV, mig, lvr, lOldPV, lNewPV, crashes>>

\* waitForPodTermination: the pod is gone, or the poll times out and the
\* reconcile requeues.
WaitPodGone ==
    /\ pc = "WaitPodGone"
    /\ \/ /\ PodTerminated(CurRep)
          /\ pc' = "CreateMigrator"
          /\ UNCHANGED <<lvr, lOldPV, lNewPV>>
       \/ /\ ~PodTerminated(CurRep)
          /\ EndReconcile
    /\ UNCHANGED <<vr, conf, envVars, crashes>>

\* createMigratorPod (get-before-create): mounts the original PVC at
\* /source and the temp PVC at /dest.
CreateMigrator ==
    /\ pc = "CreateMigrator"
    /\ CreateMigratorPod(lvr.cur)
    /\ pc' = "WaitMigrator"
    /\ UNCHANGED <<vr, conf, sts, userGen, backup, pvc, pv, nextPV, pod, lvr, lOldPV, lNewPV, crashes>>

\* Mutant of WaitMigrator: a migrator that is still running counts as done.
WaitMigratorNoWait ==
    /\ pc = "WaitMigrator"
    /\ \/ /\ mig[lvr.cur].phase \in {"Succeeded", "Absent", "Running"}
          /\ pc' = "Cleanup"
          /\ UNCHANGED <<vr, lvr, lOldPV, lNewPV>>
       \/ /\ mig[lvr.cur].phase = "Failed"
          /\ SetFailed(lvr)
    /\ UNCHANGED <<conf, envVars, crashes>>

\* waitForMigrationComplete and the Get after it: Succeeded goes on; Failed
\* fails the migration; Pending/Running requeues; a pod that is not found
\* (both Gets fail) falls through to cleanup as if it had succeeded.
WaitMigrator ==
    /\ pc = "WaitMigrator"
    /\ \/ /\ MigrationSucceeded(lvr.cur) \/ mig[lvr.cur].phase = "Absent"
          /\ pc' = "Cleanup"
          /\ UNCHANGED <<vr, lvr, lOldPV, lNewPV>>
       \/ /\ mig[lvr.cur].phase = "Failed"
          /\ SetFailed(lvr)
       \/ /\ mig[lvr.cur].phase = "Running"
          /\ EndReconcile
          /\ UNCHANGED vr
    /\ UNCHANGED <<conf, envVars, crashes>>

\* cleanupMigratorPod (errors logged), then the pair is Synced locally.
CleanupMigrator ==
    /\ pc = "Cleanup"
    /\ CleanupMigratorPod(lvr.cur)
    /\ lvr' = [lvr EXCEPT !.st[lvr.cur].phase = "Synced"]
    /\ pc' = "RetainNewPV"
    /\ UNCHANGED <<vr, conf, sts, userGen, backup, pvc, pv, nextPV, pod, lOldPV, lNewPV, crashes>>

(***************************************************************************)
(* replacePVC: swap the temp PVC's PV under the original PVC name; any     *)
(* error it returns makes handleSyncing call setFailed.                    *)
(***************************************************************************)

\* Mutant of RetainNewPV: the new PV is not set to Retain.
RetainNewPVSkipped ==
    /\ pc = "RetainNewPV"
    /\ LET o == OrigPVC(CurRep, CurVol)
           t == TempPVC(CurRep, CurVol)
       IN \/ /\ \/ ~pvc[t].exists
                \/ pvc[t].vol = NoPV
                \/ ~pvc[o].exists
                \/ ~PVExists(pvc[t].vol)
             /\ SetFailed(lvr)
          \/ /\ pvc[t].exists /\ pvc[o].exists /\ PVExists(pvc[t].vol)
             /\ lNewPV' = pvc[t].vol
             /\ pc' = "DeleteTemp"
             /\ UNCHANGED <<vr, lvr, lOldPV>>
    /\ UNCHANGED <<conf, sts, userGen, backup, pvc, pv, nextPV, pod, mig, crashes>>

\* Get the temp PVC and its Spec.VolumeName, Get the original PVC (labels),
\* Get the new PV and set Retain on it before anything is deleted.
RetainNewPV ==
    /\ pc = "RetainNewPV"
    /\ LET o == OrigPVC(CurRep, CurVol)
           t == TempPVC(CurRep, CurVol)
       IN \/ /\ \/ ~pvc[t].exists
                \/ pvc[t].vol = NoPV
                \/ ~pvc[o].exists
                \/ ~PVExists(pvc[t].vol)
             /\ SetFailed(lvr)
             /\ UNCHANGED pv
          \/ /\ pvc[t].exists /\ pvc[o].exists /\ PVExists(pvc[t].vol)
             /\ SetRetainOnPV(pvc[t].vol)
             /\ lNewPV' = pvc[t].vol
             /\ pc' = "DeleteTemp"
             /\ UNCHANGED <<vr, lvr, lOldPV>>
    /\ UNCHANGED <<conf, sts, userGen, backup, pvc, nextPV, pod, mig, crashes>>

\* Delete the temp PVC (not-found tolerated); the PVC stays, terminating,
\* until pvc-protection lets it go.
DeleteTempPVC ==
    /\ pc = "DeleteTemp"
    /\ LET t == TempPVC(CurRep, CurVol)
       IN pvc' = IF pvc[t].exists THEN [pvc EXCEPT ![t].deleting = TRUE] ELSE pvc
    /\ pc' = "ClearClaimRef"
    /\ UNCHANGED <<vr, conf, sts, userGen, backup, pv, nextPV, pod, mig, lvr, lOldPV, lNewPV, crashes>>

\* Poll for the temp PVC to be gone; after 60 tries the loop ends without
\* an error, so the next call is made whether or not it is gone.  Then
\* re-Get the new PV and clear its claimRef.  (The Get cannot fail: the PV
\* is Retain, so nothing deletes it; were it missing, the step would be
\* disabled and TLC would report the reconcile stuck.)
ClearClaimRef ==
    /\ pc = "ClearClaimRef"
    /\ PVExists(lNewPV)
    /\ pv' = [pv EXCEPT ![lNewPV].claimRef = NoRef]
    /\ pc' = "DeleteOrig"
    /\ UNCHANGED <<vr, conf, sts, userGen, backup, pvc, nextPV, pod, mig, lvr, lOldPV, lNewPV, crashes>>

\* Delete the original PVC (not-found tolerated).
DeleteOrigPVC ==
    /\ pc = "DeleteOrig"
    /\ LET o == OrigPVC(CurRep, CurVol)
       IN pvc' = IF pvc[o].exists THEN [pvc EXCEPT ![o].deleting = TRUE] ELSE pvc
    /\ pc' = "CreateOrig"
    /\ UNCHANGED <<vr, conf, sts, userGen, backup, pv, nextPV, pod, mig, lvr, lOldPV, lNewPV, crashes>>

\* Mutant of CreateOrigPVC: the new PVC names the old PV.
CreateOrigPVCOldVolume ==
    /\ pc = "CreateOrig"
    /\ LET o == OrigPVC(CurRep, CurVol)
       IN \/ /\ pvc[o].exists
             /\ SetFailed(lvr)
             /\ UNCHANGED pvc
          \/ /\ ~pvc[o].exists
             /\ pvc' = [pvc EXCEPT ![o] = [exists |-> TRUE, vol |-> lOldPV, bound |-> FALSE,
                                           size |-> "New", deleting |-> FALSE]]
             /\ lvr' = [lvr EXCEPT !.st[lvr.cur].phase = "Completed"]
             /\ pc' = "PersistCompleted"
             /\ UNCHANGED <<vr, lOldPV, lNewPV>>
    /\ UNCHANGED <<conf, sts, userGen, backup, pv, nextPV, pod, mig, crashes>>

\* The same 60-try poll for the original PVC, then Create the PVC with the
\* original name, VolumeName = the new PV and the new size; AlreadyExists
\* (the old one still terminating) is an error.  On success handleSyncing
\* marks the pair Completed locally.
CreateOrigPVC ==
    /\ pc = "CreateOrig"
    /\ LET o == OrigPVC(CurRep, CurVol)
       IN \/ /\ pvc[o].exists
             /\ SetFailed(lvr)
             /\ UNCHANGED pvc
          \/ /\ ~pvc[o].exists
             /\ pvc' = [pvc EXCEPT ![o] = [exists |-> TRUE, vol |-> lNewPV, bound |-> FALSE,
                                           size |-> "New", deleting |-> FALSE]]
             /\ lvr' = [lvr EXCEPT !.st[lvr.cur].phase = "Completed"]
             /\ pc' = "PersistCompleted"
             /\ UNCHANGED <<vr, lOldPV, lNewPV>>
    /\ UNCHANGED <<conf, sts, userGen, backup, pv, nextPV, pod, mig, crashes>>

(***************************************************************************)
(* handleSyncing after the swap                                            *)
(***************************************************************************)

\* Persist the Completed pair before recreating the StatefulSet.
PersistCompleted ==
    /\ pc = "PersistCompleted"
    /\ ~Conflict
    /\ PersistStatus(lvr)
    /\ pc' = "RecreateSTS"
    /\ UNCHANGED <<conf, envVars, lvr, lOldPV, lNewPV, crashes>>

\* getSTSFromBackupConfigMap, set every targeted template to its new size,
\* recreateSTS; AlreadyExists is tolerated.  (Nothing deletes the backup,
\* and StsRecoverable shows it exists whenever it is needed; a missing one,
\* which the code fails on, would leave the step disabled.)
RecreateSTS ==
    /\ pc = "RecreateSTS"
    /\ STSFromBackup
    /\ RecreateStatefulSet
    /\ pc' = "ClearAnnotation"
    /\ UNCHANGED <<vr, conf, backup, userGen, pvc, pv, nextPV, pod, mig, lvr, lOldPV, lNewPV, crashes>>

\* Remove the sts-deleted annotation and r.Update(vr) (which reloads the
\* persisted status into the local copy).
ClearAnnotation ==
    /\ pc = "ClearAnnotation"
    /\ ~Conflict
    /\ vr' = [vr EXCEPT !.stsDeleted = FALSE]
    /\ lvr' = [vr EXCEPT !.stsDeleted = FALSE]
    /\ pc' = "CheckPodRunning"
    /\ UNCHANGED <<conf, envVars, lOldPV, lNewPV, crashes>>

\* Get the replica pod: not Running yet requeues; Running advances the
\* cursor (or completes the migration) and persists the status.
CheckPodRunning ==
    /\ pc = "CheckPodRunning"
    /\ ~Conflict
    /\ \/ /\ pod[CurRep].phase = "Running"
          /\ PersistStatus(Advance(lvr))
       \/ /\ pod[CurRep].phase # "Running"
          /\ UNCHANGED vr
    /\ EndReconcile
    /\ UNCHANGED <<conf, envVars, crashes>>

\* The Update or Status().Update of Annotate, PersistCompleted,
\* ClearAnnotation or CheckPodRunning fails with a conflict: the error is
\* returned and the reconcile ends.
UpdateConflict ==
    /\ pc \in {"Annotate", "PersistCompleted", "ClearAnnotation", "CheckPodRunning"}
    /\ Conflict
    /\ EndReconcile
    /\ UNCHANGED <<vr, conf, envVars, crashes>>

\* The reconcile is cut short before its next call: the controller
\* restarts, or a call returned an error that goes back to the framework.
Crash ==
    /\ pc # "Idle"
    /\ crashes < MaxCrashes
    /\ EndReconcile
    /\ crashes' = crashes + 1
    /\ UNCHANGED <<vr, conf, envVars>>

\* A call whose error handleSyncing answers with setFailed fails (API
\* server unavailable, throttled, a timeout): the migration is Failed
\* where it stands, the StatefulSet possibly orphan-deleted and a pair
\* half swapped.  Transient errors share the restart budget.
ApiError ==
    /\ pc \in {"SetRetain", "BackupSTS", "DeleteSTS", "CreateMigrator", "RetainNewPV",
              "DeleteTemp", "ClearClaimRef", "DeleteOrig", "CreateOrig", "RecreateSTS"}
    /\ crashes < MaxCrashes
    /\ SetFailed(lvr)
    /\ crashes' = crashes + 1
    /\ UNCHANGED <<conf, envVars>>

(***************************************************************************)
(* The cluster (Kubernetes controllers and kubelet; not this repository)   *)
(***************************************************************************)

\* A pod that is not finished mounts the PVC: replica pod r mounts the
\* original PVCs of r; migrator pod (r, v) mounts both PVCs of (r, v).
InUse(c) ==
    \/ c[1] = "orig" /\ pod[c[2]].phase \in {"Pending", "Running"}
    \/ mig[<<c[2], c[3]>>].phase = "Running"

\* StatefulSet controller: recreate a missing replica pod, first creating
\* its missing PVCs from the volumeClaimTemplates.
StsCreatePod(r) ==
    /\ sts # NoSts
    /\ pod[r].phase = "Absent"
    /\ pod' = [pod EXCEPT ![r] = [phase |-> "Pending", deleting |-> FALSE]]
    /\ pvc' = [c \in PVCNames |->
                 IF c[1] = "orig" /\ c[2] = r /\ ~pvc[c].exists
                 THEN [NoPVC EXCEPT !.exists = TRUE, !.size = sts.tmpl]
                 ELSE pvc[c]]
    /\ UNCHANGED <<sts, userGen, backup, pv, nextPV, mig>>
    /\ UNCHANGED ctlVars

\* Provisioner and PV controller: a claim without a volume gets a new,
\* empty PV (at once, or once a pod uses it under WaitForFirstConsumer).
Provision(c) ==
    /\ pvc[c].exists /\ pvc[c].vol = NoPV /\ ~pvc[c].deleting
    /\ conf.binding = "Immediate" \/ InUse(c)
    /\ nextPV <= MaxPV
    /\ pv' = [pv EXCEPT ![nextPV] = [exists |-> TRUE, policy |-> "Delete",
                                     claimRef |-> c, data |-> Empty]]
    /\ pvc' = [pvc EXCEPT ![c].vol = nextPV, ![c].bound = TRUE]
    /\ nextPV' = nextPV + 1
    /\ UNCHANGED <<sts, userGen, backup, pod, mig>>
    /\ UNCHANGED ctlVars

\* PV controller: a claim naming a volume binds when the volume's claimRef
\* is empty or already this claim.
BindClaim(c) ==
    /\ pvc[c].exists /\ ~pvc[c].bound /\ PVExists(pvc[c].vol)
    /\ pv[pvc[c].vol].claimRef \in {NoRef, c}
    /\ pv' = [pv EXCEPT ![pvc[c].vol].claimRef = c]
    /\ pvc' = [pvc EXCEPT ![c].bound = TRUE]
    /\ UNCHANGED <<sts, userGen, backup, nextPV, pod, mig>>
    /\ UNCHANGED ctlVars

\* PV controller, syncBoundClaim: a bound claim whose volume lost its
\* claimRef gets it back.
RebindVolume(c) ==
    /\ pvc[c].exists /\ pvc[c].bound /\ PVExists(pvc[c].vol)
    /\ pv[pvc[c].vol].claimRef = NoRef
    /\ pv' = [pv EXCEPT ![pvc[c].vol].claimRef = c]
    /\ UNCHANGED <<sts, userGen, backup, pvc, nextPV, pod, mig>>
    /\ UNCHANGED ctlVars

\* pvc-protection lets a deleted claim go once no pod mounts it; the PV
\* controller then deletes its volume (Delete) or releases it (Retain).
RemoveClaim(c) ==
    /\ pvc[c].exists /\ pvc[c].deleting /\ ~InUse(c)
    /\ pvc' = [pvc EXCEPT ![c] = NoPVC]
    /\ LET i == pvc[c].vol
       IN pv' = IF PVExists(i) /\ pv[i].claimRef = c
                THEN IF pv[i].policy = "Delete"
                     THEN [pv EXCEPT ![i] = NoPVRec]
                     ELSE [pv EXCEPT ![i].claimRef = StaleRef]
                ELSE pv
    /\ UNCHANGED <<sts, userGen, backup, nextPV, pod, mig>>
    /\ UNCHANGED ctlVars

\* Kubelet: a pending replica pod starts once all its claims are bound.
PodStart(r) ==
    /\ pod[r] = [phase |-> "Pending", deleting |-> FALSE]
    /\ \A v \in VolNames : LET c == OrigPVC(r, v)
                           IN pvc[c].exists /\ pvc[c].bound /\ ~pvc[c].deleting
    /\ pod' = [pod EXCEPT ![r].phase = "Running"]
    /\ UNCHANGED <<sts, userGen, backup, pvc, pv, nextPV, mig>>
    /\ UNCHANGED ctlVars

\* Kubelet: a deleted replica pod terminates.
PodGone(r) ==
    /\ pod[r].phase # "Absent" /\ pod[r].deleting
    /\ pod' = [pod EXCEPT ![r] = [phase |-> "Absent", deleting |-> FALSE]]
    /\ UNCHANGED <<sts, userGen, backup, pvc, pv, nextPV, mig>>
    /\ UNCHANGED ctlVars

\* Kubelet: the migrator copies /source to /dest and exits 0, or fails.
MigratorFinish(p) ==
    LET o == OrigPVC(p[1], p[2])
        t == TempPVC(p[1], p[2])
    IN /\ mig[p] = [phase |-> "Running", deleting |-> FALSE]
       /\ \A c \in {o, t} : pvc[c].exists /\ pvc[c].bound /\ ~pvc[c].deleting
       /\ \/ /\ mig' = [mig EXCEPT ![p].phase = "Succeeded"]
             /\ pv' = [pv EXCEPT ![pvc[t].vol].data = pv[pvc[o].vol].data]
          \/ /\ mig' = [mig EXCEPT ![p].phase = "Failed"]
             /\ UNCHANGED pv
       /\ UNCHANGED <<sts, userGen, backup, pvc, nextPV, pod>>
       /\ UNCHANGED ctlVars

\* Kubelet: a deleted migrator pod goes away.
MigratorGone(p) ==
    /\ mig[p].phase # "Absent" /\ mig[p].deleting
    /\ mig' = [mig EXCEPT ![p] = [phase |-> "Absent", deleting |-> FALSE]]
    /\ UNCHANGED <<sts, userGen, backup, pvc, pv, nextPV, pod>>
    /\ UNCHANGED ctlVars

\* A running migrator pod disappears (its node is lost and the pod is
\* garbage-collected).
MigratorLost(p) ==
    /\ MigratorLoss
    /\ mig[p].phase = "Running"
    /\ mig' = [mig EXCEPT ![p] = [phase |-> "Absent", deleting |-> FALSE]]
    /\ UNCHANGED <<sts, userGen, backup, pvc, pv, nextPV, pod>>
    /\ UNCHANGED ctlVars

\* The user deletes the VolumeResize (kubectl delete / volmig delete): the
\* DeletionTimestamp is set, and without the finalizer the object is gone.
UserDelete ==
    /\ UserDeletes
    /\ ~vr.deleted
    /\ vr' = [vr EXCEPT !.deleted = TRUE, !.gone = ~vr.finalizer]
    /\ UNCHANGED <<conf, envVars, recVars, crashes>>

\* The user (or a CD pipeline) applies a change to the live StatefulSet's
\* spec, e.g. a new image; this is outside the migration, which must not
\* undo it.
UserEditsSts ==
    /\ userGen < MaxStsEdits
    /\ sts # NoSts
    /\ sts' = [sts EXCEPT !.gen = userGen + 1]
    /\ userGen' = userGen + 1
    /\ UNCHANGED <<backup, pvc, pv, nextPV, pod, mig>>
    /\ UNCHANGED ctlVars

Cluster ==
    \/ \E r \in Reps : StsCreatePod(r) \/ PodStart(r) \/ PodGone(r)
    \/ \E c \in PVCNames : Provision(c) \/ BindClaim(c) \/ RebindVolume(c) \/ RemoveClaim(c)
    \/ \E p \in Pairs : MigratorFinish(p) \/ MigratorGone(p) \/ MigratorLost(p)
    \/ UserDelete
    \/ UserEditsSts

Reconcile ==
    \/ AddFinalizer \/ HandlePending \/ HandleValidating
    \/ SyncAdvanceCompleted \/ SyncEnsureTempPVC \/ ReconcileTerminal \/ HandleDeletion
    \/ SetRetainOldPV \/ BackupSTS \/ DeleteSTS \/ Annotate
    \/ DeleteReplicaPod \/ WaitPodGone \/ CreateMigrator \/ WaitMigrator
    \/ CleanupMigrator \/ RetainNewPV \/ DeleteTempPVC \/ ClearClaimRef
    \/ DeleteOrigPVC \/ CreateOrigPVC \/ PersistCompleted \/ RecreateSTS
    \/ ClearAnnotation \/ CheckPodRunning

Next ==
    \/ Reconcile
    \/ UpdateConflict
    \/ Crash
    \/ ApiError
    \/ Cluster

\* controller-runtime requeues every reconcile that returns, so the
\* reconciler keeps stepping; the cluster's controllers and kubelets keep
\* acting on what they watch.  Crashes, a migrator's failure and a lost
\* migrator are not assumed to happen.
Fairness ==
    /\ WF_vars(Reconcile \/ UpdateConflict)
    /\ \A r \in Reps : WF_vars(StsCreatePod(r)) /\ WF_vars(PodStart(r)) /\ WF_vars(PodGone(r))
    /\ \A c \in PVCNames : /\ WF_vars(Provision(c)) /\ WF_vars(BindClaim(c))
                          /\ WF_vars(RebindVolume(c)) /\ WF_vars(RemoveClaim(c))
    /\ \A p \in Pairs : WF_vars(MigratorFinish(p)) /\ WF_vars(MigratorGone(p))

Spec == Init /\ [][Next]_vars
FairSpec == Spec /\ Fairness

(***************************************************************************)
(* Refinement mapping to Migration.tla                                     *)
(***************************************************************************)

\* The cursor order of spec 4.1: replica-major, volumes in spec order.
CursorOrder ==
    [k \in 1..(Replicas * Len(Volumes)) |->
        <<(k - 1) \div Len(Volumes), Volumes[((k - 1) % Len(Volumes)) + 1]>>]

\* Before handleValidating sets the cursor the migration has not started.
AbstractPhase ==
    IF vr.phase \in {"", "Pending", "Validating"} THEN "Pending" ELSE vr.phase

CompletedPairs == {p \in Pairs : vr.st[p].phase = "Completed"}

Abstract == INSTANCE Migration
    WITH Order <- CursorOrder, phase <- AbstractPhase,
         completed <- CompletedPairs, cur <- vr.cur

(***************************************************************************)
(* Properties                                                              *)
(***************************************************************************)

\* Whenever the StatefulSet is orphan-deleted, or the sts-deleted
\* annotation says it is, the backup ConfigMap it is recreated from exists
\* (spec invariant 4), whatever restarts happened between the backup, the
\* delete and the annotation.
StsRecoverable == (sts = NoSts \/ vr.stsDeleted) => backup.exists

\* The data of every (replica, volume) pair survives on some PV, through
\* restarts, lost copies and the deletion of the VolumeResize: the Retain
\* set on the old PV and on the new PV before any claim is deleted.
DataNeverLost ==
    \A p \in Pairs \ UnboundAtStart : \E i \in PVIds : pv[i].exists /\ pv[i].data = p

\* No PV holding a replica's data is ever deleted: every claim the
\* reconciler deletes (temp PVC in replacePVC, original PVC) has had Retain
\* set on its volume first, so the PV controller can only release it.
DataPVsNeverDeleted ==
    [][\A i \in PVIds : pv[i].exists /\ pv[i].data \in Pairs => pv'[i].exists]_pv

\* A replica pod that runs sees its own data on every original-name PVC:
\* the migration never brings a replica up on an empty or foreign volume.
ServedDataIntact ==
    \A r \in Reps : pod[r].phase = "Running" =>
        \A v \in VolNames :
            LET c == OrigPVC(r, v)
            IN pvc[c].exists /\ PVExists(pvc[c].vol) /\ pv[pvc[c].vol].data = <<r, v>>

\* A pair persisted as Completed has a PVC of the original name, at the
\* new size, on a PV other than its original one that holds the pair's
\* data (spec invariant 3), even after restarts re-drive parts of the swap.
CompletedPairSwapped ==
    \A p \in Pairs : vr.st[p].phase = "Completed" =>
        LET c == OrigPVC(p[1], p[2])
        IN /\ pvc[c].exists /\ pvc[c].size = "New"
           /\ PVExists(pvc[c].vol) /\ pvc[c].vol # PVOf(p[1], p[2])
           /\ pv[pvc[c].vol].data = p

\* The reconciler implements the abstract migration (Migration.tla): a pair
\* is Completed only while the cursor is on it, the cursor leaves a pair
\* only once it is Completed and moves to the next pair of the spec's
\* cursor order, and Failed and Completed are final.  This is what the
\* persisted VolumeStatuses and cursor show after any interleaving of
\* restarts, requeues and the fast path of handleSyncing.
MigrationSafety == Abstract!Spec

\* With the reconciler requeued and the cluster's controllers running, the
\* migration also makes the abstract migration's progress: it ends,
\* Completed or Failed.
MigrationRefinement == Abstract!FairSpec

\* The reconciler takes a replica down (deletes its pod) only while every
\* other replica is running: it waits for the recreated pod of one replica
\* to be Running before it moves on to the next (spec 4.1 steps 15-16).
OneReplicaDownAtATime ==
    [][\A r \in Reps :
         ~pod[r].deleting /\ pod'[r].deleting =>
            \A o \in Reps \ {r} : pod[o].phase = "Running" /\ ~pod[o].deleting]_pod

\* A replica pod is deleted only while the StatefulSet is orphan-deleted
\* (spec 4.1 steps 7-8 and 14): otherwise the StatefulSet controller
\* recreates the pod at once on the PVCs being swapped.  The sts-deleted
\* annotation is what tells a reconcile the StatefulSet is already gone.
PodDeletedOnlyWithoutSts ==
    [][\A r \in Reps : ~pod[r].deleting /\ pod'[r].deleting => sts = NoSts]_<<pod, sts>>

\* Once the migration is Completed, every replica eventually runs again
\* (on the swapped PVCs).
CompletedReplicasServed ==
    (vr.phase = "Completed") ~> (\A r \in Reps : pod[r].phase = "Running")

\* A StatefulSet the reconciler recreates carries the user's last edit of
\* it: each pair's backupSTSToConfigMap (get-before-create) and
\* recreateSTS must not restore a spec older than the one that was
\* orphan-deleted, e.g. a change applied between two replicas' swaps.
StsEditsKept == sts # NoSts => sts.gen = userGen

\* When the controller stops driving the migration (Completed, Failed, or
\* the VolumeResize deleted and gone) the StatefulSet exists: no path
\* leaves the workload orphan-deleted with nobody to recreate it.
WorkloadRestoredWhenDone ==
    (vr.gone \/ vr.phase \in {"Completed", "Failed"}) => sts # NoSts

====
