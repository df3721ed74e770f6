---------------------------- MODULE MCLifecycle -----------------------------
(* A small instance of the controller: two rollouts, so that one can be    *)
(* admitted, released or orphaned while the other is active; two           *)
(* identities, so that evidence can name the wrong weights; four           *)
(* generations, so that an update can skip generations and updates can     *)
(* follow each other.                                                      *)
EXTENDS Lifecycle
=============================================================================
