------------------------------ MODULE Catalog ------------------------------
(***************************************************************************)
(* What the archive tables promise their readers, without sessions,        *)
(* transactions or roles: an archive alone carries its business key, what  *)
(* it holds it keeps, a withdrawal and a removal are final, and nothing is *)
(* put into an archive that is gone.                                       *)
(***************************************************************************)
EXTENDS Naturals

CONSTANTS Entries, Keys, Files, NoKey

VARIABLES
    phase,   \* "unborn", "live", "withdrawn" or "gone"
    key,
    holds    \* the files; those of a gone entry are what it held last

vars == <<phase, key, holds>>

Init ==
    /\ phase = [e \in Entries |-> "unborn"]
    /\ key = [e \in Entries |-> NoKey]
    /\ holds = [e \in Entries |-> {}]

Exists(e) == phase[e] \in {"live", "withdrawn"}
Free(k) == \A e \in Entries : Exists(e) => key[e] # k

Add(e, k) ==
    /\ phase[e] = "unborn"
    /\ Free(k)
    /\ phase' = [phase EXCEPT ![e] = "live"]
    /\ key' = [key EXCEPT ![e] = k]
    /\ UNCHANGED holds

Hold(e, f) ==
    /\ Exists(e)
    /\ holds' = [holds EXCEPT ![e] = holds[e] \cup {f}]
    /\ UNCHANGED <<phase, key>>

Rename(e, k) ==
    /\ Exists(e)
    /\ Free(k)
    /\ key' = [key EXCEPT ![e] = k]
    /\ UNCHANGED <<phase, holds>>

Withdraw(e) ==
    /\ phase[e] = "live"
    /\ phase' = [phase EXCEPT ![e] = "withdrawn"]
    /\ UNCHANGED <<key, holds>>

Remove(e) ==
    /\ Exists(e)
    /\ phase' = [phase EXCEPT ![e] = "gone"]
    /\ UNCHANGED <<key, holds>>

Next == \E e \in Entries :
    \/ Withdraw(e) \/ Remove(e)
    \/ \E k \in Keys : Add(e, k) \/ Rename(e, k)
    \/ \E f \in Files : Hold(e, f)

Spec == Init /\ [][Next]_vars

=============================================================================
