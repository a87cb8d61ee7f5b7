-------------------------------- MODULE Maps ---------------------------------
(***************************************************************************)
(* operator[] of the maps in which the rewriter keeps methods, hooks and   *)
(* classes.                                                                *)
(***************************************************************************)

\* map with value at key.
Put(map, key, value) ==
    [k \in DOMAIN map \union {key} |-> IF k = key THEN value ELSE map[k]]
==============================================================================
