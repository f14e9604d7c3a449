-------------------------- MODULE MCObservability --------------------------
(* Two processes that both project and decide, one execution and one      *)
(* piece of evidence, two revisions, a journal of two segments of two.     *)
EXTENDS Observability
=============================================================================
