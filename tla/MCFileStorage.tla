--------------------------- MODULE MCFileStorage ---------------------------
(* Model-checking instances of FileStorage.                                 *)
EXTENDS FileStorage

CONSTANTS r1, r2

Two == {r1, r2}
One == {r1}
None == {}
=============================================================================
