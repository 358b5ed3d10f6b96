---------------------------- MODULE MCVideoStudio ----------------------------
(* Small instances of VideoStudio. *)
EXTENDS VideoStudio

CONSTANTS j1, j2, c1, p1, p2
Grants == {-2, 4}

=============================================================================
