------------------------------ MODULE MCNetwork ------------------------------
(***************************************************************************)
(* Model-checking instances of Network.                                    *)
(***************************************************************************)
EXTENDS Network, TLC

\* stdin is closed: the first descriptor the process gets is number 0.
MCFd == 0..2

MCSymmetry == Permutations(Conn) \cup Permutations(Sub) \cup Permutations(Req)

\* blamed decides no step: states that differ in it alone are one.
MCView == <<objVars, statusVars, loopVars, running, calling, errno, dangling>>
=============================================================================
