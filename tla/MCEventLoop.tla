----------------------------- MODULE MCEventLoop -----------------------------
(***************************************************************************)
(* Model-checking instances of EventLoop.                                  *)
(***************************************************************************)
EXTENDS EventLoop, TLC

MCResult == {-1, 0, 1}
MCFlags  == [buffer : BOOLEAN, id : 0 .. NBuffers - 1]

MCSymmetry == Permutations(Block) \cup Permutations(Kreq) \cup Permutations(Subscriber \ {NULL})

\* The properties say nothing once the completion of a cancel() is released.
UntilCancelled == ~cancelled
=============================================================================
