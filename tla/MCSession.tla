----------------------------- MODULE MCSession ------------------------------
(* Instances of Session for TLC; the .cfg files give the bounds.           *)
EXTENDS Session, TLC

\* Hosts are only compared with each other.
HostSymmetry == Permutations(Hosts)
=============================================================================
