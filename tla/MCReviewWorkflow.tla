-------------------------- MODULE MCReviewWorkflow --------------------------
(* Instances of ReviewWorkflow for TLC. *)
EXTENDS ReviewWorkflow

BothWays == {TRUE, FALSE}
Copied == {FALSE}
=============================================================================
