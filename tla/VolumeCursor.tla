---------------------------- MODULE VolumeCursor ----------------------------
(***************************************************************************)
(* The order in which a VolumeResize migrates its (replica, volume) pairs: *)
(* the Status.VolumeStatuses list handleValidating builds, the cursor      *)
(* (Status.CurrentReplica, Status.CurrentVolume), getNextVolumeReplica,    *)
(* and the two ways handleSyncing moves the cursor: the fast path for a    *)
(* pair already Completed, and the migration of the current pair.  The     *)
(* migration itself (VolumeResize.tla) is one step here: it ends with      *)
(* updateVolumeStatus(Completed) persisted and, when the replica's pod is  *)
(* back, the cursor advanced; otherwise the reconcile requeues.            *)
(*                                                                         *)
(* handleValidating's last check, validatePDBAllowsDisruption, is here    *)
(* with the label selectors it evaluates.  The inputs (Spec.Volumes, the   *)
(* StatefulSet's replica count, the namespace's PDBs) are chosen in Init   *)
(* from small sets, so one run covers every input.                         *)
(***************************************************************************)
EXTENDS Naturals, Sequences, FiniteSets

CONSTANTS
    VolumeLists,    \* candidate Spec.Volumes: non-empty sequences of names
    ReplicaCounts,  \* candidate sts.Spec.Replicas read at validation
    PodLabels,      \* sts.Spec.Template.Labels: a function from keys to values
    PDBSets,        \* candidate sets of PDBs [sel, allowed] in the namespace
    NilSelector,    \* model value: pdb.Spec.Selector = nil
    NoCursor        \* model value: CurrentReplica = nil

ASSUME
    /\ \A vs \in VolumeLists : Len(vs) >= 1
    /\ ReplicaCounts \subseteq Nat

VARIABLES
    vols,       \* vr.Spec.Volumes (names), fixed for the behaviour
    replicas,   \* the StatefulSet's replica count, fixed for the behaviour
    pdbs,       \* the PDBs listed at validation, fixed for the behaviour
    phase,      \* vr.Status.Phase
    statuses,   \* vr.Status.VolumeStatuses: sequence of [rep, vol, phase]
    cur,        \* <<CurrentReplica, CurrentVolume>> or NoCursor
    last,       \* history: the pair migrated last (NoCursor before any)
    done        \* history: the pairs migrated so far

vars == <<vols, replicas, pdbs, phase, statuses, cur, last, done>>

Names == UNION {{vs[i] : i \in DOMAIN vs} : vs \in VolumeLists}
MaxReplicas == CHOOSE m \in ReplicaCounts : \A n \in ReplicaCounts : n <= m
AllPairs == (0..MaxReplicas) \X Names

\* The order the spec gives (4.1 "Cursor order"): volumes in spec order for
\* replica 0, then for replica 1, ..., up to replicaCount - 1.
RefOrder(vs, n) ==
    [k \in 1..(n * Len(vs)) |-> <<(k - 1) \div Len(vs), vs[((k - 1) % Len(vs)) + 1]>>]

(***************************************************************************)
(* Label selectors and validatePDBAllowsDisruption                         *)
(***************************************************************************)

\* A label set L (a function from keys to values) has every pair of m.
HasLabels(m, L) == \A k \in DOMAIN m : k \in DOMAIN L /\ L[k] = m[k]

\* What a policy/v1 PDB selects (metav1.LabelSelectorAsSelector): a nil
\* selector selects nothing, an empty one every pod; otherwise the pod has
\* every matchLabels pair and satisfies every matchExpressions requirement.
\* The reference the properties judge validation by.
ReqHolds(req, L) ==
    CASE req.op = "In"     -> req.key \in DOMAIN L /\ L[req.key] \in req.values
      [] req.op = "NotIn"  -> req.key \notin DOMAIN L \/ L[req.key] \notin req.values
      [] req.op = "Exists" -> req.key \in DOMAIN L

K8sSelects(sel, L) ==
    /\ sel # NilSelector
    /\ HasLabels(sel.matchLabels, L)
    /\ \A req \in sel.exprs : ReqHolds(req, L)

\* A PDB blocks the migration when it selects the pods and its status
\* allows no disruption.
BlockedBy(p) == K8sSelects(p.sel, PodLabels) /\ p.allowed < 1

\* Mutant of SelectorFromSet: the PDB must name exactly the pod's labels.
SelectorFromSetExact(m, L) == m = L

\* labels.ValidatedSelectorFromSet(MatchLabels).Matches(podLabels): only
\* the matchLabels are read; matchExpressions are ignored.
SelectorFromSet(m, L) == HasLabels(m, L)

\* validatePDBAllowsDisruption: skip a PDB with a nil selector; fail on the
\* first whose matchLabels match the pod template's labels and whose
\* status allows fewer than one disruption.
PDBAllowsDisruption(ps) ==
    \A p \in ps : p.sel # NilSelector /\ SelectorFromSet(p.sel.matchLabels, PodLabels) =>
        p.allowed >= 1

(***************************************************************************)
(* getNextVolumeReplica and the status helpers                             *)
(***************************************************************************)

\* The index of the first volume with this name; 1 (Go index 0) if none.
VolIndex(vs, name) ==
    IF \E i \in DOMAIN vs : vs[i] = name
    THEN CHOOSE i \in DOMAIN vs : vs[i] = name /\ \A j \in 1..(i - 1) : vs[j] # name
    ELSE 1

\* The largest Replica among the VolumeStatuses (0 for an empty list).
MaxReplica(sts) ==
    IF sts = <<>> THEN 0
    ELSE CHOOSE m \in {sts[k].rep : k \in DOMAIN sts} : \A k \in DOMAIN sts : sts[k].rep <= m

\* Mutant of GetNext: "currentReplica <= maxReplica".
GetNextPastLast(vs, sts, r, name) ==
    LET i == VolIndex(vs, name)
    IN IF i + 1 <= Len(vs) THEN <<r, vs[i + 1]>>
       ELSE IF r <= MaxReplica(sts) THEN <<r + 1, vs[1]>>
       ELSE "Done"

\* Mutant of GetNext: the replica bound taken one short, so the walk ends
\* before the last replica.
GetNextStopsEarly(vs, sts, r, name) ==
    LET i == VolIndex(vs, name)
    IN IF i + 1 <= Len(vs) THEN <<r, vs[i + 1]>>
       ELSE IF r + 1 < MaxReplica(sts) THEN <<r + 1, vs[1]>>
       ELSE "Done"

\* getNextVolumeReplica: the next volume of this replica, else the first
\* volume of the next replica, else done.
GetNext(vs, sts, r, name) ==
    LET i == VolIndex(vs, name)
    IN IF i + 1 <= Len(vs) THEN <<r, vs[i + 1]>>
       ELSE IF r < MaxReplica(sts) THEN <<r + 1, vs[1]>>
       ELSE "Done"

\* The list handleValidating builds: one Pending entry per replica and
\* volume, replica-major.
InitialStatuses(vs, n) ==
    [k \in 1..(n * Len(vs)) |->
        [rep |-> (k - 1) \div Len(vs), vol |-> vs[((k - 1) % Len(vs)) + 1], phase |-> "Pending"]]

\* Mutant of CurCompleted: an entry of the replica counts, whatever its volume.
CurCompletedAnyVolume ==
    \E k \in DOMAIN statuses : statuses[k].rep = cur[1] /\ statuses[k].phase = "Completed"

\* The fast-path test of handleSyncing: an entry for the current pair is
\* Completed.
CurCompleted ==
    \E k \in DOMAIN statuses :
        statuses[k].rep = cur[1] /\ statuses[k].vol = cur[2] /\ statuses[k].phase = "Completed"

\* Mutant of MarkCompleted: the phase is set on a copy of the entry.
MarkCompletedOnCopy(sts, r, v) == sts

\* updateVolumeStatus: set the phase of the first entry for (r, v), if any.
MarkCompleted(sts, r, v) ==
    LET K == {k \in DOMAIN sts : sts[k].rep = r /\ sts[k].vol = v}
    IN IF K = {} THEN sts
       ELSE LET k == CHOOSE k \in K : \A j \in K : k <= j
            IN [sts EXCEPT ![k].phase = "Completed"]

\* Mutant of AdvanceCursor: when no pair is left the phase is not set.
AdvanceCursorNoFinish(sts) ==
    LET n == GetNext(vols, sts, cur[1], cur[2])
    IN /\ cur' = IF n = "Done" THEN cur ELSE n
       /\ UNCHANGED phase

\* Move the cursor with getNextVolumeReplica; when done, the migration is
\* Completed and the cursor cleared.
AdvanceCursor(sts) ==
    LET n == GetNext(vols, sts, cur[1], cur[2])
    IN IF n = "Done"
       THEN phase' = "Completed" /\ cur' = NoCursor
       ELSE cur' = n /\ UNCHANGED phase

(***************************************************************************)
(* Actions                                                                 *)
(***************************************************************************)

Init ==
    /\ vols \in VolumeLists
    /\ replicas \in ReplicaCounts
    /\ pdbs \in PDBSets
    /\ phase = "Validating"
    /\ statuses = <<>>
    /\ cur = NoCursor
    /\ last = NoCursor
    /\ done = {}

\* Mutant of Validate: the cursor starts at replica 1.
ValidateOneBased ==
    /\ phase = "Validating"
    /\ \/ /\ ~PDBAllowsDisruption(pdbs)
          /\ phase' = "Failed"
          /\ UNCHANGED <<statuses, cur>>
       \/ /\ PDBAllowsDisruption(pdbs)
          /\ statuses' = InitialStatuses(vols, replicas)
          /\ cur' = <<1, vols[1]>>
          /\ phase' = "Syncing"
    /\ UNCHANGED <<vols, replicas, pdbs, last, done>>

\* handleValidating: the StatefulSet, volume-target and size checks pass
\* (VolumeResize.tla models them); the PDB check fails the migration
\* (setFailed), or the statuses are built and the cursor set.
Validate ==
    /\ phase = "Validating"
    /\ \/ /\ ~PDBAllowsDisruption(pdbs)
          /\ phase' = "Failed"
          /\ UNCHANGED <<statuses, cur>>
       \/ /\ PDBAllowsDisruption(pdbs)
          /\ statuses' = InitialStatuses(vols, replicas)
          /\ cur' = <<0, vols[1]>>
          /\ phase' = "Syncing"
    /\ UNCHANGED <<vols, replicas, pdbs, last, done>>

\* handleSyncing, fast path: advance past a Completed pair and persist.
FastAdvance ==
    /\ phase = "Syncing"
    /\ CurCompleted
    /\ AdvanceCursor(statuses)
    /\ UNCHANGED <<vols, replicas, pdbs, statuses, last, done>>

\* handleSyncing for a pair that is not Completed: migrate and swap it,
\* updateVolumeStatus(Completed) and persist; then, if the replica's pod
\* is Running, advance the cursor, else requeue.  A pod exists only for a
\* replica index below the StatefulSet's replica count.
MigratePair ==
    /\ phase = "Syncing"
    /\ ~CurCompleted
    /\ statuses' = MarkCompleted(statuses, cur[1], cur[2])
    /\ last' = cur
    /\ done' = done \cup {cur}
    /\ \/ cur[1] < replicas /\ AdvanceCursor(statuses')
       \/ UNCHANGED <<phase, cur>>
    /\ UNCHANGED <<vols, replicas, pdbs>>

\* Completed and Failed are terminal: Reconcile does nothing.
Terminal ==
    /\ phase \in {"Completed", "Failed"}
    /\ UNCHANGED vars

Next == Validate \/ FastAdvance \/ MigratePair \/ Terminal

\* Every reconcile requeues until the phase is terminal.
Spec == Init /\ [][Next]_vars /\ WF_vars(Next)

(***************************************************************************)
(* Properties                                                              *)
(***************************************************************************)

TypeOK ==
    /\ vols \in VolumeLists
    /\ replicas \in ReplicaCounts
    /\ pdbs \in PDBSets
    /\ phase \in {"Validating", "Syncing", "Completed", "Failed"}
    /\ statuses \in Seq([rep : 0..MaxReplicas, vol : Names, phase : {"Pending", "Completed"}])
    /\ cur \in ((0..(replicas - 1)) \X Names) \cup {NoCursor}
    /\ last \in AllPairs \cup {NoCursor}
    /\ done \subseteq AllPairs

\* The walk of getNextVolumeReplica from (0, Volumes[0]) over the list
\* handleValidating built, bounded by fuel steps.
RECURSIVE Walk(_, _, _, _)
Walk(vs, sts, c, fuel) ==
    IF fuel = 0 THEN <<>>
    ELSE LET n == GetNext(vs, sts, c[1], c[2])
         IN IF n = "Done" THEN <<c>> ELSE <<c>> \o Walk(vs, sts, n, fuel - 1)

\* getNextVolumeReplica, iterated from the first pair, visits exactly the
\* pairs of the spec's cursor order, in that order, and then stops.
WalkMatchesReference ==
    phase \in {"Syncing", "Completed"} =>
        Walk(vols, statuses, <<0, vols[1]>>, replicas * Len(vols) + 1) = RefOrder(vols, replicas)

\* The pairs migrated so far are exactly the pairs up to the last one in
\* the spec's cursor order: no pair is skipped or taken out of turn.
SwapsFollowOrder ==
    last # NoCursor =>
        \E k \in DOMAIN RefOrder(vols, replicas) :
            /\ RefOrder(vols, replicas)[k] = last
            /\ done = {RefOrder(vols, replicas)[j] : j \in 1..k}

\* A pair that has been migrated is never migrated again: whenever the
\* cursor is on it, its VolumeStatus says Completed, so handleSyncing takes
\* the fast path instead of deleting the StatefulSet and the pod again.
SwappedPairNeverRedone ==
    (phase = "Syncing" /\ cur \in done) => CurCompleted

\* A migration that starts syncing has no PDB that selects its pods
\* (Kubernetes selector semantics, matchExpressions included) and allows
\* no disruption: the matchLabels-only test of validatePDBAllowsDisruption
\* never lets a blocking budget through, whatever the other PDBs.
ValidationRespectsPDB ==
    phase \in {"Syncing", "Completed"} => \A p \in pdbs : ~BlockedBy(p)

\* The outcome the spec describes (4.1 validation, 4.2 cursor order): the
\* migration Completes, unless a disruption budget that selects the pods
\* allows no disruption, and then it is Failed.
OutcomeJustified ==
    <>(\/ phase = "Completed"
       \/ phase = "Failed" /\ \E p \in pdbs : BlockedBy(p))

====
