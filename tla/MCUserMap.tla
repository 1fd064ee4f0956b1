----------------------------- MODULE MCUserMap -----------------------------
(* Instances of UserMap for TLC. *)
EXTENDS UserMap, TLC

CONSTANTS u1, u2, k1, t1, t2

Own(key) == [llm |-> TRUE, key |-> key, admits |-> TRUE]

\* u2 has a key file; u2 is gone and u1 has no key of his own; LLM use is
\* switched off for u1 and limited to other models for u2.
SmallDocuments == {
    (u1 :> Own(Inline)) @@ (u2 :> Own(k1)),
    u1 :> Own(NoKey),
    (u1 :> [Own(Inline) EXCEPT !.llm = FALSE]) @@ (u2 :> [Own(Inline) EXCEPT !.admits = FALSE])}

\* A users file with the key file of its one user, and the same user dropped.
KeyFileDocuments == {u1 :> Own(k1), << >>}

ThreadSymmetry == Permutations(Threads)
=============================================================================
