------------------------------ MODULE MCL2Book ------------------------------
(* Instances of L2Book are given by the configurations alone. *)
EXTENDS L2Book

=============================================================================
