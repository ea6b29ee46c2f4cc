--------------------------- MODULE MCSystemProxy ----------------------------
(* Instances of SystemProxy for TLC; the .cfg files give the bounds.       *)
EXTENDS SystemProxy
=============================================================================
