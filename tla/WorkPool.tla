------------------------------ MODULE WorkPool ------------------------------
(***************************************************************************)
(* What a scan promises of its work list, however many threads share it:   *)
(* every item is taken once, by one thread; the scan succeeds only when    *)
(* every item is done; and it never returns while an item is in hand.      *)
(***************************************************************************)
CONSTANT Items        \* the work list

VARIABLES todo, doing, done,   \* a partition of the items
          outcome              \* "busy" while a scan runs, else its result

poolVars == <<todo, doing, done, outcome>>

Outcomes == {"none", "ok", "cancelled", "failed"}

PoolInit == todo = Items /\ doing = {} /\ done = {} /\ outcome = "none"

(* A scan begins, with the whole list to do. *)
Begin ==
    /\ outcome \in Outcomes
    /\ todo' = Items /\ doing' = {} /\ done' = {} /\ outcome' = "busy"

(* A scan fails before it begins. *)
Refuse ==
    /\ outcome \in Outcomes /\ outcome' = "failed"
    /\ UNCHANGED <<todo, doing, done>>

Take ==
    /\ outcome = "busy"
    /\ \E i \in todo : todo' = todo \ {i} /\ doing' = doing \cup {i}
    /\ UNCHANGED <<done, outcome>>

Finish ==
    /\ outcome = "busy"
    /\ \E i \in doing : doing' = doing \ {i} /\ done' = done \cup {i}
    /\ UNCHANGED <<todo, outcome>>

Return ==
    /\ outcome = "busy" /\ outcome' \in Outcomes \ {"none"}
    /\ doing = {}
    /\ outcome' = "ok" => todo = {}
    /\ UNCHANGED <<todo, doing, done>>

PoolNext == Begin \/ Refuse \/ Take \/ Finish \/ Return

PoolSpec == PoolInit /\ [][PoolNext]_poolVars
=============================================================================
