------------------------- MODULE MCLifecycleJournal -------------------------
(* Histories of up to MaxSeq sequence numbers: long enough for bootstrap,  *)
(* a rollout that is admitted and released twice around a complete update, *)
(* and a taint with two orphans.                                           *)
EXTENDS LifecycleJournal
=============================================================================
