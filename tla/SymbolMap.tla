----------------------------- MODULE SymbolMap -----------------------------
(* What a symbol table of vvp promises: a map from keys to values.  Reading a
   key that is not there enters it, with the null value. *)
CONSTANTS Keys, Values, Null

VARIABLES map,      \* a function whose domain is the set of known keys
          result    \* what the last operation returned

vars == <<map, result>>

sym_set_value(key, val) ==
    /\ map' = [k \in DOMAIN map \cup {key} |-> IF k = key THEN val ELSE map[k]]
    /\ result' = val

sym_get_value(key) ==
    /\ map' = [k \in DOMAIN map \cup {key} |-> IF k \in DOMAIN map THEN map[k] ELSE Null]
    /\ result' = map'[key]

Init == map = [k \in {} |-> Null] /\ result = Null

Next == \E key \in Keys :
            \/ \E val \in Values : sym_set_value(key, val)
            \/ sym_get_value(key)

Spec == Init /\ [][Next]_vars
============================================================================
