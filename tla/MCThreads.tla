------------------------------ MODULE MCThreads ------------------------------
(***************************************************************************)
(* Model-checking instances of Threads.                                    *)
(***************************************************************************)
EXTENDS Threads, TLC

MCSymmetry == Permutations(Thread) \cup Permutations(Handler) \cup Permutations(EventType)
              \cup Permutations(Callback) \cup Permutations(Block)
=============================================================================
