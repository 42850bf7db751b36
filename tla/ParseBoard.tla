----------------------------- MODULE ParseBoard -----------------------------
(***************************************************************************)
(* What the quota parse queue promises, without locks, workers, sweepers   *)
(* or retries: a job is opened for an archive that has no other open job,  *)
(* may be taken once, and is closed once and for ever.                     *)
(***************************************************************************)
CONSTANTS Archives, Jobs

VARIABLES
    phase,  \* of each job: "new", "waiting", "taken" or "closed"
    owner   \* the archive each job was opened for

vars == <<phase, owner>>

Open(j) == phase[j] \in {"waiting", "taken"}

Init ==
    /\ phase = [j \in Jobs |-> "new"]
    /\ \A j \in Jobs : owner[j] \notin Archives

Start(j, a) ==
    /\ phase[j] = "new"
    /\ \A k \in Jobs : Open(k) => owner[k] # a
    /\ phase' = [phase EXCEPT ![j] = "waiting"]
    /\ owner' = [owner EXCEPT ![j] = a]

Take(j) ==
    /\ phase[j] = "waiting"
    /\ phase' = [phase EXCEPT ![j] = "taken"]
    /\ UNCHANGED owner

(* A worker closes its job, a delete cancels an archive's job, the sweeper *)
(* gives up several at once.                                               *)
Close(S) ==
    /\ \A j \in S : Open(j)
    /\ phase' = [j \in Jobs |-> IF j \in S THEN "closed" ELSE phase[j]]
    /\ UNCHANGED owner

Next ==
    \/ \E j \in Jobs, a \in Archives : Start(j, a)
    \/ \E j \in Jobs : Take(j)
    \/ \E S \in SUBSET Jobs : Close(S)

Spec == Init /\ [][Next]_vars

=============================================================================
