------------------------------ MODULE Meeting ------------------------------
(***************************************************************************)
(* What the processes of server/agent.c do for each other: some of the     *)
(* members join, each of them is inside alone once, nobody leaves before   *)
(* all members have been inside, and what they share is torn down only     *)
(* when nobody needs it any more.                                          *)
(***************************************************************************)
CONSTANT Members

VARIABLES
    stage,      \* stage[m]: where member m is
    torn        \* the tearing down has begun

Init == stage = [m \in Members |-> "absent"] /\ torn = FALSE

Move(m, from, to) ==
    /\ stage[m] = from
    /\ stage' = [stage EXCEPT ![m] = to]
    /\ UNCHANGED torn

Join(m) == Move(m, "absent", "waiting")

Enter(m) == Move(m, "waiting", "inside") /\ \A n \in Members : stage[n] # "inside"

Exit(m) == Move(m, "inside", "done")

AllDone == \A m \in Members : stage[m] \in {"done", "left"}

Leave(m) == Move(m, "done", "left") /\ AllDone

TearDown == AllDone /\ torn' = TRUE /\ UNCHANGED stage

Next ==
    TearDown \/ \E m \in Members : Join(m) \/ Enter(m) \/ Exit(m) \/ Leave(m)

Spec == Init /\ [][Next]_<<stage, torn>>

=============================================================================
