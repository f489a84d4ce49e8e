-------------------------- MODULE CheckpointAnchor --------------------------
(***************************************************************************)
(* CheckpointAnchor.sol: the council records digests of the finalized      *)
(* state of the chain, one after the other, and later where each was       *)
(* published outside.  Block hashes and dates are left out.                *)
(***************************************************************************)
EXTENDS Control, Sequences

CONSTANTS
    StateRoots,   \* digests of the tender state
    MaxBlock      \* bound: the highest block number recorded

VARIABLE checkpoints    \* _checkpoints; _seen is the set of their digests

CheckpointTypeOK ==
    checkpoints \in Seq([block : 1 .. MaxBlock, stateRoot : StateRoots,
                         recordedBy : Council, anchored : BOOLEAN])

CheckpointInit == checkpoints = << >>

\* Faulty: a block may be recorded again.
NotBehind(block) == checkpoints # << >> => checkpoints[Len(checkpoints)].block <= block

\* BlockNotAdvanced.
Advances(block) == checkpoints # << >> => checkpoints[Len(checkpoints)].block < block

\* isRecorded.
IsRecorded(block, root) ==
    \E i \in DOMAIN checkpoints :
        checkpoints[i].block = block /\ checkpoints[i].stateRoot = root

\* recordCheckpoint.
RecordCheckpoint(c, block, root) ==
    /\ IsCouncilMember(c)
    /\ Advances(block)
    /\ ~IsRecorded(block, root)
    /\ checkpoints' = Append(checkpoints,
         [block |-> block, stateRoot |-> root, recordedBy |-> c, anchored |-> FALSE])

\* recordExternalAnchor; an empty uri reverts.
RecordExternalAnchor(c, i) ==
    /\ IsCouncilMember(c)
    /\ i \in DOMAIN checkpoints
    /\ ~checkpoints[i].anchored
    /\ checkpoints' = [checkpoints EXCEPT ![i].anchored = TRUE]

CheckpointStep(c) ==
    \/ \E block \in 1 .. MaxBlock, root \in StateRoots : RecordCheckpoint(c, block, root)
    \/ \E i \in DOMAIN checkpoints : RecordExternalAnchor(c, i)

-----------------------------------------------------------------------------

\* One chain state per block height: no two checkpoints speak of the same block,
\* they are in the order of the chain, and the anchored ones are among them
\* (recordCheckpoint by several members, anchors in between).
OneStatePerBlock ==
    \A i, j \in DOMAIN checkpoints : i < j => checkpoints[i].block < checkpoints[j].block

=============================================================================
