----------------------------- MODULE WholePatches -----------------------------
(***************************************************************************)
(* What _patchlib.py promises of any set of patches, without buffers,      *)
(* anchors and gates: "all-or-nothing per file".  The edits of a patch     *)
(* enter its file together; an edit that is in stays in, except in a       *)
(* module that a script writes anew.                                       *)
(***************************************************************************)
CONSTANTS
    Groups,     \* of each patch: the files it may be for, the edits it always
                \* makes there, and those that may come with them
    Modules     \* files that are written whole

VARIABLE done   \* <<file, edit>> for each edit that is in

Files == UNION {g.files : g \in Groups}
Edits == UNION {g.required \cup g.optional : g \in Groups}

Init == done \subseteq Files \X Edits

\* A patch goes into its file.
Enter(g, new) ==
    \E f \in g.files : /\ {f} \X g.required \subseteq done \cup new
                       /\ new \subseteq {f} \X (g.required \cup g.optional)

\* A module is written or removed.
Anew(f) == {d \in done : d[1] # f} = {d \in done' : d[1] # f}

Next ==
    \/ done' = done    \* a file is opened, edited in memory, or left as it is
    \/ done \subseteq done' /\ \E new \in {done' \ done} : \E g \in Groups : Enter(g, new)
    \/ \E f \in Modules : Anew(f)

Spec == Init /\ [][Next]_done
=============================================================================
