-------------------------- MODULE MCSubmissionQueue --------------------------
(***************************************************************************)
(* Model-checking instances of SubmissionQueue.                            *)
(***************************************************************************)
EXTENDS SubmissionQueue, TLC

MCSymmetry == Permutations(Block) \cup Permutations(Kreq)

\* The properties say nothing once the completion of a cancel() is released.
UntilCancelled == ~cancelled
=============================================================================
