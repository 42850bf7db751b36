----------------------------- MODULE TaskLedger -----------------------------
(***************************************************************************)
(* What the crawl queue promises, without rows, leases or clocks: a task   *)
(* has one holder at a time, changes hands only after its holder has died, *)
(* is ended only by its holder, and fails MaxFailures times at most.  A    *)
(* holder that is too slow loses the task: then nothing is promised of it  *)
(* but that it comes back within its failures when nobody works on it.     *)
(***************************************************************************)
EXTENDS Naturals

CONSTANTS Tasks, Workers, MaxFailures, Nobody

VARIABLES
    phase,     \* "new", "waiting", "taken", "done", "dead" or "astray"
    failures,
    holder

vars == <<phase, failures, holder>>

Init ==
    /\ phase = [t \in Tasks |-> "new"]
    /\ failures = [t \in Tasks |-> 0]
    /\ holder = [t \in Tasks |-> Nobody]

Create(t) ==
    /\ phase[t] = "new"
    /\ phase' = [phase EXCEPT ![t] = "waiting"]
    /\ UNCHANGED <<failures, holder>>

(* A batch: tasks that wait, and tasks whose holder is gone.               *)
Take(w, S) ==
    /\ \A t \in S : phase[t] = "waiting" \/ (phase[t] = "taken" /\ holder[t] = Nobody)
    /\ phase' = [t \in Tasks |-> IF t \in S THEN "taken" ELSE phase[t]]
    /\ holder' = [t \in Tasks |-> IF t \in S THEN w ELSE holder[t]]
    /\ UNCHANGED failures

Finish(t) ==
    /\ phase[t] = "taken" /\ holder[t] # Nobody
    /\ phase' = [phase EXCEPT ![t] = "done"]
    /\ holder' = [holder EXCEPT ![t] = Nobody]
    /\ UNCHANGED failures

Fail(t) ==
    /\ phase[t] = "taken" /\ holder[t] # Nobody
    /\ failures[t] < MaxFailures
    /\ failures' = [failures EXCEPT ![t] = failures[t] + 1]
    /\ phase' = [phase EXCEPT ![t] =
                    IF failures[t] + 1 = MaxFailures THEN "dead" ELSE "waiting"]
    /\ holder' = [holder EXCEPT ![t] = Nobody]

Abandon(w) ==
    /\ holder' = [t \in Tasks |-> IF holder[t] = w THEN Nobody ELSE holder[t]]
    /\ UNCHANGED <<phase, failures>>

(* The holder is too slow.                                                 *)
Stray(t) ==
    /\ phase[t] = "taken" /\ holder[t] # Nobody
    /\ phase' = [phase EXCEPT ![t] = "astray"]
    /\ failures' = [failures EXCEPT ![t] = 0]
    /\ holder' = [holder EXCEPT ![t] = Nobody]

(* Tasks come back, ended or with an attempt left, when their last worker  *)
(* ends them or dies.                                                      *)
Back(t) ==
    \/ phase'[t] = "done"
    \/ phase'[t] = "dead" /\ failures'[t] = MaxFailures
    \/ phase'[t] \in {"waiting", "taken"} /\ failures'[t] < MaxFailures
Return(w) ==
    /\ phase' \in [Tasks -> {"new", "waiting", "taken", "done", "dead", "astray"}]
    /\ failures' \in [Tasks -> 0 .. MaxFailures]
    /\ \A t \in Tasks :
          \/ phase'[t] = phase[t] /\ failures'[t] = failures[t]
          \/ phase[t] = "astray" /\ Back(t)
    /\ holder' = [t \in Tasks |-> IF holder[t] = w THEN Nobody ELSE holder[t]]

Next ==
    \/ \E t \in Tasks : Create(t) \/ Finish(t) \/ Fail(t) \/ Stray(t)
    \/ \E w \in Workers : Abandon(w) \/ \E S \in SUBSET Tasks : Take(w, S)
    \/ \E w \in Workers \cup {Nobody} : Return(w)

Spec == Init /\ [][Next]_vars

=============================================================================
