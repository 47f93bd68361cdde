----------------------------- MODULE MCReadStream -----------------------------
(***************************************************************************)
(* Model-checking instances of ReadStream.                                 *)
(***************************************************************************)
EXTENDS ReadStream, TLC

MCSymmetry == Permutations(Peer) \cup Permutations(Data)

\* The properties say nothing once an end of file has been released.
UntilSpurious == ~spurious
=============================================================================
