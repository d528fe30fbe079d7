------------------------------ MODULE Migration ------------------------------
(***************************************************************************)
(* What a VolumeResize promises, in the terms of its persisted status:     *)
(* validation either fails or starts the migration at the first pair of    *)
(* the cursor order; the pair under the cursor is marked Completed, and    *)
(* only then does the cursor move to the next pair of the order, until     *)
(* the last one, when the phase becomes Completed.  The migration may fail *)
(* at any point before it completes.  Nothing here says how a pair is      *)
(* copied or swapped: VolumeResize.tla implements this specification.     *)
(***************************************************************************)
EXTENDS Naturals, Sequences, FiniteSets

CONSTANTS
    Order,      \* the cursor order (spec 4.1): a sequence of distinct pairs
    NoCursor    \* Status.CurrentReplica = nil

VARIABLES
    phase,      \* "Pending" (before the cursor is set), "Syncing", "Completed", "Failed"
    completed,  \* the pairs whose VolumeStatus is Completed
    cur         \* the pair under the cursor, or NoCursor

avars == <<phase, completed, cur>>

IndexOf(p) == CHOOSE k \in DOMAIN Order : Order[k] = p

AInit ==
    /\ phase = "Pending"
    /\ completed = {}
    /\ cur = NoCursor

\* Validation passes: the cursor is put on the first pair.
Start ==
    /\ phase = "Pending"
    /\ phase' = "Syncing"
    /\ cur' = Order[1]
    /\ UNCHANGED completed

\* Validation or a migration step fails; Failed is final.
Fail ==
    /\ phase \in {"Pending", "Syncing"}
    /\ phase' = "Failed"
    /\ UNCHANGED <<completed, cur>>

\* The pair under the cursor has been swapped.
CompletePair ==
    /\ phase = "Syncing"
    /\ cur \notin completed
    /\ completed' = completed \cup {cur}
    /\ UNCHANGED <<phase, cur>>

\* The cursor leaves a Completed pair for the next one, or the migration
\* is Completed after the last pair.
AdvanceCursor ==
    /\ phase = "Syncing"
    /\ cur \in completed
    /\ IF IndexOf(cur) < Len(Order)
       THEN cur' = Order[IndexOf(cur) + 1] /\ UNCHANGED phase
       ELSE phase' = "Completed" /\ cur' = NoCursor
    /\ UNCHANGED completed

ANext == Start \/ Fail \/ CompletePair \/ AdvanceCursor

Spec == AInit /\ [][ANext]_avars

\* A migration that is driven on ends, Completed or Failed.
FairSpec == Spec /\ WF_avars(ANext)

====
