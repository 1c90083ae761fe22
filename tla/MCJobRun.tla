------------------------------ MODULE MCJobRun ------------------------------
(***************************************************************************)
(* Instances of JobRun for TLC.                                            *)
(***************************************************************************)
EXTENDS JobRun, TLC

CONSTANTS p1, p2, first, second

OneProcess == {p1}
TwoProcesses == {p1, p2}

OneEncoding == {first}
TwoEncodings == {first, second}

\* With and without --max-new-chunks.
NoLimit == {0}
OneOrNoLimit == {0, 1}

ProcessSymmetry == Permutations({p1, p2})
EncodingSymmetry == Permutations({first, second})
=============================================================================
