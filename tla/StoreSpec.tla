----------------------------- MODULE StoreSpec ------------------------------
(***************************************************************************)
(* What variable_store.h promises of a variable store: a map from names to *)
(* values with two attributes, in which a read-only variable keeps its     *)
(* value and attributes until it is removed.                               *)
(***************************************************************************)
EXTENDS FiniteSets

CONSTANTS Names, Values

Variable == [value : Values, exported : BOOLEAN, readOnly : BOOLEAN]

VARIABLE vars           \* the variables that are set

Has(n) == n \in DOMAIN vars
Init == vars = [n \in {} |-> {}]

With(f, n, v) == [m \in DOMAIN f \cup {n} |-> IF m = n THEN v ELSE f[m]]
Without(f, ns) == [m \in DOMAIN f \ ns |-> f[m]]

Add(n, v) == /\ Has(n) => ~vars[n].readOnly
             /\ vars' = With(vars, n, v)
Remove(n) == vars' = Without(vars, {n})
SetExported(n, b) == /\ Has(n) /\ ~vars[n].readOnly
                     /\ vars' = [vars EXCEPT ![n].exported = b]
SetReadOnly(n) == Has(n) /\ vars' = [vars EXCEPT ![n].readOnly = TRUE]
Clear == vars' = Without(vars, Names)

Next == \/ \E n \in Names, v \in Variable : Add(n, v)
        \/ \E n \in Names : Remove(n) \/ SetReadOnly(n) \/ \E b \in BOOLEAN : SetExported(n, b)
        \/ Clear

Spec == Init /\ [][Next]_vars
=============================================================================
