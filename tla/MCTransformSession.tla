------------------------- MODULE MCTransformSession -------------------------
(* Instances of the transform session for TLC: a chain of two jobs, the    *)
(* output a of ja triggers jb; two jobs that nothing triggers; or ja       *)
(* alone, triggered by table b.                                            *)
EXTENDS TransformSession

CONSTANTS ja, jb, a, b

ChainOutput  == [j \in {ja, jb} |-> IF j = ja THEN a ELSE b]
ChainWatches == [j \in {ja, jb} |-> IF j = ja THEN {} ELSE {a}]

PairOutput  == [j \in {ja, jb} |-> a]
PairWatches == [j \in {ja, jb} |-> {}]
\* Neither the tabs nor the two jobs differ from each other.
PairSymmetry == Permutations(Sockets) \cup Permutations(Jobs)

SoloOutput  == [j \in {ja} |-> a]
SoloWatches == [j \in {ja} |-> {b}]
=============================================================================
