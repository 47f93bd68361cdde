---------------------------- MODULE MCBufferRing ----------------------------
(***************************************************************************)
(* Model-checking instances of BufferRing.  The buffers of the ring are    *)
(* numbers that index its entries, so there is no symmetry to use.         *)
(***************************************************************************)
EXTENDS BufferRing
=============================================================================
