---------------------------- MODULE SectionList ----------------------------
(***************************************************************************)
(* What the OCR of a job promises, without polls, clocks, lost tasks or a  *)
(* service: the sections are taken in order, each is given out Budget      *)
(* times at most and then left for ever, and what is merged is the list of *)
(* some of them, in their order, none twice.                               *)
(***************************************************************************)
EXTENDS Naturals, Sequences

CONSTANTS Sections, Budget

VARIABLES
    next,    \* the section at work, or Sections + 1
    given,   \* how often it was given out
    merged   \* the sections whose result is merged

vars == <<next, given, merged>>

Init == next = 1 /\ given = 0 /\ merged = <<>>

Give ==
    /\ next <= Sections
    /\ given < Budget
    /\ given' = given + 1
    /\ UNCHANGED <<next, merged>>

Leave ==
    /\ next <= Sections
    /\ next' = next + 1
    /\ given' = 0

Merge ==
    /\ given > 0
    /\ Leave
    /\ merged' = Append(merged, next)

Miss == Leave /\ UNCHANGED merged

Next == Give \/ Merge \/ Miss

Spec == Init /\ [][Next]_vars

=============================================================================
