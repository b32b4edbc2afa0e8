-------------------------------- MODULE Table --------------------------------
(***************************************************************************)
(* The hash maps the program keeps its state in: functions whose domain    *)
(* changes.                                                                *)
(***************************************************************************)
EXTENDS Functions

(* HashMap::insert and HashMap::remove. *)
Insert(table, k, v) ==
  [x \in DOMAIN table \cup {k} |-> IF x = k THEN v ELSE table[x]]
Remove(table, k) == Restrict(table, DOMAIN table \ {k})
EmptyTable == [x \in {} |-> x]
=============================================================================
