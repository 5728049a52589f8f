------------------------------- MODULE MCQueue -------------------------------
(* A small instance of Queue: one list used in each direction.             *)
EXTENDS Queue, MCStore

MCRightward == {1}

=============================================================================
