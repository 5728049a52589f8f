--------------------------- MODULE MCFileDescriptor --------------------------
(* Three objects and three descriptor numbers; objects are alike. *)
EXTENDS FileDescriptor, TLC

CONSTANTS h1, h2, h3

MCHandles == {h1, h2, h3}
HandlesAlike == Permutations(MCHandles)

=============================================================================
