------------------------------ MODULE MCStore ------------------------------
(* Instances of Store for TLC; the .cfg files give the bounds.             *)
EXTENDS Store
=============================================================================
