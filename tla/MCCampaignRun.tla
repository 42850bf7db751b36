--------------------------- MODULE MCCampaignRun ---------------------------
(* A small instance of CampaignRun for TLC.                                *)
EXTENDS CampaignRun

CONSTANTS p, q, t, crawler, other, c1

(* Two issues of a price bulletin, one in two files of which the first may *)
(* come empty, the other in a table, and a notice with a table that is     *)
(* fetched off peak.                                                       *)
FilesOf == [k \in Keys |-> IF k = p THEN {<<2, 3>>, <<3>>}
                           ELSE IF k = q THEN {<<3>>} ELSE {<<2>>}]
LateOf == [k \in Keys |-> IF k = t THEN {3} ELSE {}]

=============================================================================
