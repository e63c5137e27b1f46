------------------------------ MODULE MCVdbIndex ------------------------------
(* TLC instances of VdbIndex. *)
EXTENDS VdbIndex, TLC

CONSTANTS x1, x2, u1, u2

OneIndex == {x1}
TwoIndexes == {x1, x2}
OneUpload == {u1}
TwoUploads == {u1, u2}

FileSizes == 0..5

\* The two indexes differ: one is shipped.
UploadSymmetry == Permutations(TwoUploads)

=============================================================================
