----------------------------- MODULE RustTypes -----------------------------
(***************************************************************************)
(* The two library types the server's state is built from: Option<T>,      *)
(* whose absent case is the constant None, and HashMap<K, V>, a function   *)
(* whose domain is the set of keys present.                                *)
(***************************************************************************)
EXTENDS Functions

CONSTANT None     \* Option::None; different from every value it stands beside

EmptyMap == [k \in {} |-> None]

\* HashMap::insert: adds the key or overwrites its value.
MapInsert(m, k, v) == [x \in DOMAIN m \cup {k} |-> IF x = k THEN v ELSE m[x]]

\* HashMap::remove for every key of S at once; absent keys are ignored.
MapRemove(m, S) == Restrict(m, DOMAIN m \ S)

\* HashMap::get(k).copied().unwrap_or(default)
MapGet(m, k, default) == IF k \in DOMAIN m THEN m[k] ELSE default
=============================================================================
