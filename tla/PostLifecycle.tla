--------------------------- MODULE PostLifecycle ----------------------------
(***************************************************************************)
(* What the shared database promises about a request for help: it is       *)
(* published, it stays open until somebody has completed it, and once      *)
(* completed it stays completed.  A post is never completed before it was  *)
(* published, and an open post never just disappears.                      *)
(***************************************************************************)
CONSTANT Post

VARIABLE stage      \* stage[p]: how far post p has come on the server

Stage == {"unpublished", "open", "done"}

\* The board may have been in use before.
LifecycleInit == stage \in [Post -> {"unpublished", "open"}]

Open(p) ==
    /\ stage[p] = "unpublished"
    /\ stage' = [stage EXCEPT ![p] = "open"]

Finish(p) ==
    /\ stage[p] = "open"
    /\ stage' = [stage EXCEPT ![p] = "done"]

LifecycleNext == \E p \in Post : Open(p) \/ Finish(p)

LifecycleSpec == LifecycleInit /\ [][LifecycleNext]_stage
=============================================================================
