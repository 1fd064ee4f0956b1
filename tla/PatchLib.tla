------------------------------- MODULE PatchLib -------------------------------
(***************************************************************************)
(* The patch runner of the model servers.  sglang_launch.sh runs every     *)
(* script of roles/k8s_dgx/files/sglang_patches in the order of their      *)
(* names; each edits files of the installed engine through _patchlib.py or *)
(* writes modules into it.  The launcher may run again on the same files.  *)
(*                                                                         *)
(* A text is the set of the pieces found in it: the anchors that edits     *)
(* replace, the marks by which an edit is known to be in, and some others  *)
(* that gates ask for.  <<name, 0>> is the mark of the edit `name`,        *)
(* <<name, k>> its anchor in the k-th spelling, or its k-th occurrence.    *)
(***************************************************************************)
EXTENDS Naturals, Sequences

CONSTANTS
    Patches,    \* the patches of all scripts, in the order in which they run
    GuardedImports, PlainImports,  \* what their texts import from each other
    Engines,    \* the images that may be installed
    Shipped(_), \* the text of each file of an image
    Settings(_),   \* what SGLANG_MODEL and the other variables say of it
    Unusable(_),   \* modules that would not import in it
    Clean       \* images that the patches are written for

VARIABLES
    image,      \* the image that runs
    disk,       \* the text of each file that exists
    round,      \* 1, or 2 when the launcher runs again
    at, edit,   \* the patch, its edit; 0 before it is opened
    code,     \* Patch._code
    changed,    \* Patch._changed
    made,       \* the script's own word that its modules are written
    drifted     \* an ANCHOR-DRIFT line was printed

patchVars == <<image, disk, round, at, edit, code, changed, made, drifted>>

----------------------------------------------------------------------------
(* Edits and patches *)

\* A record of PatchSet stands for each: an edit for one call of replace,
\* replace_any, replace_all, insert_after or prepend, a patch for a Patch object
\* or a call of write_module.

MarkOf(e) == <<e.mark, 0>>
Anchors(e) == {<<e.name, k>> : k \in 1 .. e.spellings}

\* Patch.__init__: the target, or another path when only that exists
Target(p) == IF p.file \in DOMAIN disk \/ p.alt \cap DOMAIN disk = {} THEN p.file
             ELSE CHOOSE f \in p.alt \cap DOMAIN disk : TRUE

\* target_contains
TargetContains(file, piece) == file \in DOMAIN disk /\ piece \in disk[file]

\* gate_model, gate_env and the other conditions of `when`: clauses, of which
\* each needs one of its members.
GateMatches(p) ==
    /\ \A clause \in p.settings : clause \cap Settings(image) # {}
    /\ \A clause \in p.has : \E c \in clause : TargetContains(c[1], c[2])
    /\ \A c \in p.lacks : ~TargetContains(c[1], c[2])
    /\ ~p.asks \/ made

Current == Patches[at]

----------------------------------------------------------------------------

PatchInit ==
    /\ image \in Engines /\ disk = Shipped(image)
    /\ round = 1 /\ at = 1 /\ edit = 0
    /\ code = {} /\ changed = FALSE /\ made = TRUE /\ drifted = FALSE

Running == at <= Len(Patches)

\* The patch is done with; a script starts with no modules to its name.
Leave ==
    /\ at' = at + 1 /\ edit' = 0 /\ code' = {} /\ changed' = FALSE
    /\ UNCHANGED <<image, round>>
Told(ok) == made' = ((at < Len(Patches) /\ Patches[at + 1].first) \/ (made /\ ok))

----------------------------------------------------------------------------
(* Patch.run *)

NotMatched ==
    /\ Running /\ edit = 0 /\ ~GateMatches(Current)
    /\ Leave /\ Told(Current.kind = "edit") /\ UNCHANGED <<disk, drifted>>

Missing ==
    /\ Running /\ edit = 0 /\ GateMatches(Current) /\ Current.kind = "edit"
    /\ Target(Current) \notin DOMAIN disk
    /\ drifted' = (drifted \/ ~Current.quiet)
    /\ Leave /\ Told(TRUE) /\ UNCHANGED disk

Opens ==
    /\ Running /\ edit = 0 /\ GateMatches(Current) /\ Current.kind = "edit"
    /\ Target(Current) \in DOMAIN disk

\* Mutant: looked for in the engine as it was installed.
Stands_Shipped == \E c \in Current.stops : c[1] \in DOMAIN Shipped(image) /\ c[2] \in Shipped(image)[c[1]]
\* A text by which the script knows that all of it is in: its own, or the
\* engine's.
Stands == \E c \in Current.stops : TargetContains(c[1], c[2])

AlreadyIn ==
    /\ Opens /\ Stands
    /\ Leave /\ Told(TRUE) /\ UNCHANGED <<disk, drifted>>

Open ==
    /\ Opens /\ ~Stands
    /\ edit' = 1 /\ code' = disk[Target(Current)] /\ changed' = FALSE
    /\ UNCHANGED <<image, disk, round, at, made, drifted>>

Editing == Running /\ edit \in 1 .. Len(Current.edits)
Now == Current.edits[edit]

\* Conditions around the call, and the mark that is looked for before the anchor.
Skipped(e) ==
    \/ e.only # {} /\ e.only \cap code = {}
    \/ e.unless \cap code # {}
    \/ e.onChange /\ ~changed
    \/ MarkOf(e) \in code

\* replace and replace_any take the first spelling that is there, replace_all
\* every occurrence.
Found(e, text) ==
    LET there == Anchors(e) \cap text
    IN  IF e.all THEN there ELSE {a \in there : \A b \in there : a[2] <= b[2]}

Lost(e, text) == {a \in Found(e, text) : a[2] \notin e.keeps} \cup e.breaks
Won(e) == e.brings \cup IF e.marks THEN {MarkOf(e)} ELSE {}
Edited(e, text) == (text \ Lost(e, text)) \cup Won(e)

SkipEdit ==
    /\ Editing /\ Skipped(Now) /\ edit' = edit + 1
    /\ UNCHANGED <<image, disk, round, at, code, changed, made, drifted>>

MakeEdit ==
    /\ Editing /\ ~Skipped(Now)
    /\ Now.spellings = 0 \/ Found(Now, code) # {}
    /\ code' = Edited(Now, code) /\ changed' = TRUE /\ edit' = edit + 1
    /\ UNCHANGED <<image, disk, round, at, made, drifted>>

\* Mutant: what was edited before the drift is written.
Drift_Writes ==
    /\ Editing /\ ~Skipped(Now) /\ Now.spellings # 0 /\ Found(Now, code) = {}
    /\ drifted' = TRUE /\ disk' = [disk EXCEPT ![Target(Current)] = code]
    /\ Leave /\ Told(TRUE)
\* Mutant: it is caught without a word.
Drift_Silent ==
    /\ Editing /\ ~Skipped(Now) /\ Now.spellings # 0 /\ Found(Now, code) = {}
    /\ UNCHANGED <<disk, drifted>>
    /\ Leave /\ Told(TRUE)
\* AnchorDrift: nothing is written.
Drift ==
    /\ Editing /\ ~Skipped(Now) /\ Now.spellings # 0 /\ Found(Now, code) = {}
    /\ drifted' = TRUE /\ UNCHANGED disk
    /\ Leave /\ Told(TRUE)

Write ==
    /\ Running /\ Current.kind = "edit" /\ edit > Len(Current.edits)
    /\ disk' = IF changed THEN [disk EXCEPT ![Target(Current)] = code] ELSE disk
    /\ Leave /\ Told(TRUE) /\ UNCHANGED drifted

----------------------------------------------------------------------------
(* write_module *)

Writes == Running /\ edit = 0 /\ GateMatches(Current) /\ Current.kind = "write"

ModuleStands ==
    /\ Writes /\ Stands
    /\ Leave /\ Told(TRUE) /\ UNCHANGED <<disk, drifted>>

WriteModule ==
    /\ Writes /\ ~Stands /\ Current.file \notin Unusable(image)
    /\ disk' = [f \in DOMAIN disk \cup {Current.file} |-> IF f = Current.file THEN Current.source ELSE disk[f]]
    /\ Leave /\ Told(TRUE) /\ UNCHANGED drifted

\* It would not import: the file is removed again.
RemoveModule ==
    /\ Writes /\ ~Stands /\ Current.file \in Unusable(image)
    /\ disk' = [f \in DOMAIN disk \ {Current.file} |-> disk[f]]
    /\ drifted' = TRUE
    /\ Leave /\ Told(FALSE)

----------------------------------------------------------------------------

\* sglang_launch.sh once more
Again ==
    /\ ~Running /\ round = 1
    /\ round' = 2 /\ at' = 1 /\ made' = TRUE
    /\ UNCHANGED <<image, disk, edit, code, changed, drifted>>

PatchNext ==
    \/ NotMatched \/ Missing \/ AlreadyIn \/ Open
    \/ SkipEdit \/ MakeEdit \/ Drift \/ Write
    \/ ModuleStands \/ WriteModule \/ RemoveModule
    \/ Again

PatchSpec == PatchInit /\ [][PatchNext]_patchVars

----------------------------------------------------------------------------
(* Properties *)

Edits(p) == {p.edits[i] : i \in 1 .. Len(p.edits)}
AllEdits == UNION {Edits(Patches[i]) : i \in 1 .. Len(Patches)}
Marks == {MarkOf(e) : e \in AllEdits}

\* Edits that the patch makes under no condition.
Needed(e) == e.marks /\ e.only = {} /\ e.unless = {} /\ ~e.onChange
Required(p) == {MarkOf(e) : e \in {x \in Edits(p) : Needed(x)}}

\* An edit is in a text by its mark, or by that of an edit that rewrote it.
Rewrites == {<<MarkOf(e), e.breaks>> : e \in {x \in AllEdits : x.breaks # {}}}
MarksIn(text) == (text \cup UNION {r[2] : r \in {x \in Rewrites : x[1] \in text}}) \cap Marks
In(m, text) == m \in MarksIn(text)

\* The edits that are in the files of d.
Optional(p) == MarksIn({MarkOf(e) : e \in Edits(p)})
Group(p) == [files |-> {p.file} \cup p.alt, required |-> Required(p), optional |-> Optional(p)]
PatchGroups == {Group(Patches[i]) : i \in {j \in 1 .. Len(Patches) : Patches[j].kind = "edit"}}
WrittenFiles == {Patches[i].file : i \in {j \in 1 .. Len(Patches) : Patches[j].kind = "write"}}
PatchFiles == UNION {g.files : g \in PatchGroups}
EditsIn(d) == UNION {{f} \X MarksIn(d[f]) : f \in PatchFiles \cap DOMAIN d}
EditsDone == EditsIn(disk)

\* What the scripts keep to: an edit brings no other's mark, and one that
\* rewrites an edit has a mark of its own, which none rewrites.
ASSUME PatchAssumption ==
    /\ Len(Patches) \in Nat
    /\ \A i \in 1 .. Len(Patches) :
        /\ Len(Patches[i].edits) \in Nat
        /\ Patches[i].kind = "edit" \/ Len(Patches[i].edits) = 0
    /\ \A e \in AllEdits :
        /\ e.spellings \in Nat /\ e.marks \in BOOLEAN
        /\ e.brings \cap Marks = {}
        /\ e.breaks \cap Marks # {} => e.marks /\ \A x \in AllEdits : MarkOf(e) \notin x.breaks

\* What else the scripts keep to, whatever the engine.  What a patch asks for outside
\* of its edits, what an edit looks for and what it takes out of a text:
Conditions(p) == (UNION p.has) \cup p.lacks \cup p.stops
LooksFor(e) == Anchors(e) \cup {MarkOf(e)} \cup e.only \cup e.unless
Takes(e) == {a \in Anchors(e) : a[2] \notin e.keeps} \cup e.breaks
Brings(p, c) == IF p.kind = "edit" THEN c[1] \in {p.file} \cup p.alt /\ \E e \in Edits(p) : c[2] \in Won(e)
                ELSE c[1] = p.file /\ c[2] \in p.source
SameScript(i, j) == \A k \in i + 1 .. j : ~Patches[k].first

\* The mark of the last edit, where the patch stops at the mark of the first: a later
\* patch may rewrite that edit, as p33 does with p31.
LastMark(p) ==
    LET n == Len(p.edits)
    IN  {m \in {MarkOf(p.edits[n])} :
            /\ n > 1 /\ p.alt = {}
            /\ Needed(p.edits[1]) /\ <<p.file, MarkOf(p.edits[1])>> \in p.stops
            /\ m \notin p.edits[n].only \cup p.edits[n].unless
            /\ \A k \in 1 .. n - 1 : m \notin LooksFor(p.edits[k]) \cup Won(p.edits[k])}

\* A patch leaves alone what an earlier one looks at, but for such a mark; a module is
\* none that an earlier one reads, except to stop where the later would stop too.
EditLeaves(q, p) ==
    /\ \A c \in Conditions(p) : c[1] \in {q.file} \cup q.alt =>
           \A e \in Edits(q) : c[2] \notin Won(e) \cup Takes(e)
    /\ ({q.file} \cup q.alt) \cap ({p.file} \cup p.alt) # {} =>
           \A e \in Edits(q), d \in Edits(p) : /\ Won(e) \cap LooksFor(d) = {}
                                               /\ Takes(e) \cap LooksFor(d) \subseteq LastMark(p)
ModuleLeaves(q, p) ==
    /\ q.file \notin {p.file} \cup p.alt
    /\ \A c \in Conditions(p) : c[1] = q.file => c \in q.stops /\ c[2] \notin q.source
LaterLeavesEarlier ==
    \A j \in 1 .. Len(Patches) : \A i \in 1 .. j - 1 :
        IF Patches[j].kind = "edit" THEN EditLeaves(Patches[j], Patches[i])
        ELSE ModuleLeaves(Patches[j], Patches[i])

\* After all edits of a patch each one has a reason to be skipped: "Already-applied is
\* checked FIRST", and the later ones of the patch do not take the reason away.
SkippedAfterwards(es, k) ==
    /\ es[k].onChange \/ es[k].marks
           \/ \E l \in k + 1 .. Len(es) : Needed(es[l]) /\ MarkOf(es[l]) = MarkOf(es[k])
    /\ \A l \in k + 1 .. Len(es) : /\ Takes(es[l]) \cap (es[k].unless \cup {MarkOf(es[k])}) = {}
                                   /\ Won(es[l]) \cap es[k].only = {}

\* A module carries the marker by which it is known.
ModuleMarked(p) ==
    /\ \E x \in p.source : <<p.file, x>> \in p.stops
    /\ p.alt = {} /\ ~p.asks /\ \A c \in (UNION p.has) \cup p.lacks : c[1] # p.file

\* A text at which a patch stops comes from itself or from the engine; an engine
\* with a text at which a module is not written has that module.
StopsAreOwn ==
    \A i, j \in 1 .. Len(Patches) : \A c \in Patches[i].stops :
        (IF Patches[i].kind = "edit" THEN i # j ELSE c[1] # Patches[i].file) => ~Brings(Patches[j], c)
ModuleStops == UNION {Patches[i].stops \X {Patches[i].file} : i \in {j \in 1 .. Len(Patches) : Patches[j].kind = "write"}}
EnginesAreWhole ==
    \A e \in Engines :
        LET files == Shipped(e)
        IN  /\ files = [f \in DOMAIN files |-> files[f]]
            /\ \A s \in ModuleStops : s[1][1] \in DOMAIN files /\ s[1][2] \in files[s[1][1]]
                                        => s[2] \in DOMAIN files

\* Who asks for the modules of its script has their gate, and a text that imports
\* a module is brought by a patch that asks for it.
AsksWithItsGate ==
    \A j \in 1 .. Len(Patches) : \A i \in 1 .. j - 1 :
        Patches[j].asks /\ Patches[i].kind = "write" /\ SameScript(i, j) =>
            /\ Patches[i].settings \subseteq Patches[j].settings
            /\ Patches[i].has \subseteq Patches[j].has /\ Patches[i].lacks \subseteq Patches[j].lacks
ImportsAsk ==
    \A g \in GuardedImports : \A j \in 1 .. Len(Patches) :
        g.needs = {} /\ (Brings(Patches[j], <<g.file, g.mark>>) =>
            Patches[j].asks /\ \E i \in 1 .. j - 1 :
                Patches[i].kind = "write" /\ Patches[i].file = g.from /\ SameScript(i, j))

ASSUME ScriptAssumption ==
    /\ EnginesAreWhole
    /\ LaterLeavesEarlier
    /\ \A i \in 1 .. Len(Patches) : \A k \in 1 .. Len(Patches[i].edits) : SkippedAfterwards(Patches[i].edits, k)
    /\ \A i \in 1 .. Len(Patches) : Patches[i].kind \in {"edit", "write"}
    /\ \A i \in 1 .. Len(Patches) : Patches[i].kind = "write" => ModuleMarked(Patches[i])
    /\ StopsAreOwn /\ AsksWithItsGate /\ ImportsAsk

\* "All-or-nothing per file": the runner implements WholePatches.
Promise == INSTANCE WholePatches WITH done <- EditsDone, Groups <- PatchGroups, Modules <- WrittenFiles
AllOrNothing == Promise!Spec

\* "Running a patch twice must not change the file the second time", for all
\* scripts together, whatever is missing in the image (_patchlib.py).
SecondRunIsQuiet == [][round = 2 => disk' = disk]_patchVars

\* An image that ships every anchor is patched without a drift: no patch takes
\* the anchor of a later one away, and each finds the layout it runs on.
CleanImageIsPatched == drifted => image \notin Clean

\* A log without ANCHOR-DRIFT is the word that the engine is patched: each
\* patch whose gate matches is in the file it is for, whatever the scripts
\* after it did to that file, or the engine shipped what it brings.
SilenceMeansPatched ==
    ~Running /\ ~drifted =>
        \A i \in 1 .. Len(Patches) :
            LET p == Patches[i]
            IN  p.kind = "edit" /\ GateMatches(p) /\ Target(p) \in DOMAIN disk =>
                    \/ \A m \in Required(p) : In(m, disk[Target(p)])
                    \/ \E c \in p.stops : c[1] \in DOMAIN Shipped(image) /\ c[2] \in Shipped(image)[c[1]]

\* A text that a patch brought finds what it imports.
Resolves(i) ==
    TargetContains(i.file, i.mark) =>
        \/ i.from \in DOMAIN disk /\ i.needs \subseteq disk[i.from]
        \/ i.file \in DOMAIN Shipped(image) /\ i.mark \in Shipped(image)[i.file]

\* The registry of kernels names the kernel of p66 only when its three modules
\* are written and could be imported.
KernelBehindItsName == ~Running => \A i \in GuardedImports : Resolves(i)

\* What the log and the registry of kernels say of the patched engine is so.
PatchesHold == CleanImageIsPatched /\ SilenceMeansPatched /\ KernelBehindItsName

\* "Patches degrade to unpatched SGLang" (_patchlib.py:14).  Not what the code
\* does: p30 puts its import into dsa_indexer.py although write_module removed
\* the module, p66 its own although the registration drifted.
DegradesToUnpatched == ~Running => \A i \in PlainImports : Resolves(i)
=============================================================================
