--------------------------- MODULE RequestLifecycle ---------------------------
(***************************************************************************)
(* What SubmissionQueue promises of one request: the cycle its header      *)
(* documents (pushed, prepared, submitted, completed), in that order and   *)
(* each step once, the block of the request being neither reused nor       *)
(* modified before its last completion has been processed.  The one way    *)
(* out of the cycle is a request that could not be prepared.               *)
(***************************************************************************)
CONSTANTS Block, Request, MultiShot, NULL

VARIABLES
  stage,   \* where the request of each block is in its cycle
  content  \* the request itself; stale once the block is free

Stage == {"free", "pending", "prepared", "submitted", "completed",
          "spent",  \* a multishot request after its last completion
          "lost"}   \* no submission queue entry could be obtained

LInit ==
  /\ stage = [b \in Block |-> "free"]
  /\ content = [b \in Block |-> NULL]

Moves(b, from, to) ==
  /\ stage[b] = from
  /\ stage' = [stage EXCEPT ![b] = to]

Pushed(b) ==
  /\ Moves(b, "free", "pending")
  /\ \E r \in Request : content' = [content EXCEPT ![b] = r]

Advances(b) ==
  /\ \/ Moves(b, "pending", "prepared")
     \/ Moves(b, "pending", "lost")
     \/ Moves(b, "prepared", "submitted")
     \/ Moves(b, "submitted", "completed")
  /\ UNCHANGED content

\* The block of a single-shot request goes back to the pool, that of a
\* multishot request is kept.
Retired(b) ==
  /\ Moves(b, "completed", IF content[b].op \in MultiShot THEN "spent" ELSE "free")
  /\ UNCHANGED content

LNext == \E b \in Block : Pushed(b) \/ Advances(b) \/ Retired(b)

LSpec == LInit /\ [][LNext]_<<stage, content>>
=============================================================================
