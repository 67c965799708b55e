--------------------------- MODULE MCScannerLife ---------------------------
(* An instance of ScannerLife for TLC: three regions, so that one is left  *)
(* behind by a call while others are kept and one holds an older view.     *)
EXTENDS ScannerLife

=============================================================================
