----------------------------- MODULE JobDelivery ------------------------------
(***************************************************************************)
(* What node/queue.py promises its callers: at-least-once delivery of each *)
(* job added, dead letters that stay until somebody requeues them.  No     *)
(* times, leases, attempts or keys.                                        *)
(***************************************************************************)
CONSTANT Jobs

VARIABLES
    state,  \* where each job is
    ran     \* jobs a worker has run to the end

vars == <<state, ran>>

States == {"absent", "queued", "dead", "done"}

Init == state = [j \in Jobs |-> "absent"] /\ ran = {}

Move(S, from, to) ==
    /\ S # {} /\ \A j \in S : state[j] = from
    /\ state' = [j \in Jobs |-> IF j \in S THEN to ELSE state[j]]
    /\ UNCHANGED ran

Add(j) == Move({j}, "absent", "queued")

\* A worker runs the job to its end; it may do so again.
Run(j) == state[j] = "queued" /\ ran' = ran \cup {j} /\ UNCHANGED state

Finish(j) == j \in ran /\ Move({j}, "queued", "done")
GiveUp(j) == Move({j}, "queued", "dead")
Revive(S) == Move(S, "dead", "queued")

Next ==
    \/ \E j \in Jobs : Add(j) \/ Run(j) \/ Finish(j) \/ GiveUp(j)
    \/ \E S \in SUBSET Jobs : Revive(S)

Spec == Init /\ [][Next]_vars
===============================================================================
