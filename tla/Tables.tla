------------------------------- MODULE Tables -------------------------------
(* Functions used as tables. The module TLC has the operator @@ as well,    *)
(* but the provers know it only as a name; this is its definition.          *)

Merge(f, g) ==
  [x \in (DOMAIN f) \cup (DOMAIN g) |-> IF x \in DOMAIN f THEN f[x] ELSE g[x]]
f @@ g == Merge(f, g)
=============================================================================
