------------------------------- MODULE MCGlob --------------------------------
(* All patterns and texts up to a length over two letters and the wildcards. *)
EXTENDS Glob

CONSTANTS a, b

MCChars == {a, b, One, Star}

=============================================================================
