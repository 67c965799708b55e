------------------------------- MODULE MCMMap -------------------------------
(* An instance of MMap for TLC: two objects, and handles enough for both   *)
(* to be mapped while a third mapping is made and a handle is lost.        *)
EXTENDS MMap, TLC

CONSTANTS o1, o2, h1, h2, h3, h4, h5, h6, a1, a2, a3

MCObjects == {o1, o2}
MCHandles == {h1, h2, h3, h4, h5, h6}
MCAddresses == {a1, a2, a3}

(* Objects, handles and addresses are interchangeable.                     *)
MCSymmetry ==
  Permutations(MCObjects) \cup Permutations(MCHandles) \cup Permutations(MCAddresses)

=============================================================================
