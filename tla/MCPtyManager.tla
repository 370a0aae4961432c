--------------------------- MODULE MCPtyManager ---------------------------
(* PtyManager on a table of two slots.  Five ptys fill the table, lose a    *)
(* session to a second init, give a slot back and use it again.  Ptys are  *)
(* interchangeable, so their permutations are a symmetry.                  *)
EXTENDS PtyManager, TLC

ShellSymmetry == Permutations(Shell)
=============================================================================
