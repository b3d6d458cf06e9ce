------------------------------- MODULE Tables -------------------------------
(* The Store's tables: a dict is a function on the keys it has. *)

\* table[k] = v, whether k is a new key or not.
Put(table, k, v) == [j \in DOMAIN table \cup {k} |-> IF j = k THEN v ELSE table[j]]

\* {**table, **entries}
Overlaid(entries, table) ==
    [j \in DOMAIN table \cup DOMAIN entries |->
        IF j \in DOMAIN entries THEN entries[j] ELSE table[j]]
=============================================================================
