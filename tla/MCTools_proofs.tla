---------------------------- MODULE MCTools_proofs ----------------------------
(***************************************************************************)
(* The patch runner implements WholePatches, for every set of scripts that *)
(* keeps to PatchAssumption and whatever is installed.  With what the      *)
(* scripts keep to of each other, ScriptAssumption, a second run changes   *)
(* no file, and what the log and the registry of kernels say is so.  And   *)
(* the programs of MCTools keep, in their common runs, the invariants of   *)
(* Tools_proofs and their types.                                           *)
(***************************************************************************)
EXTENDS MCTools, Tools_proofs

----------------------------------------------------------------------------
(* Texts *)

\* An anchor is no mark.
LEMMA AnchorIsNo ==
    ASSUME NEW e \in AllEdits, NEW m \in Marks
    PROVE  m \notin Anchors(e)
<1>1. e.spellings \in Nat
  BY PatchAssumption
<1>2. PICK x \in AllEdits : m = <<x.mark, 0>>
  BY DEF Marks, MarkOf
<1>3. \A k \in 1 .. e.spellings : <<e.name, k>> # <<x.mark, 0>>
  BY <1>1
<1> QED
  BY <1>2, <1>3 DEF Anchors

LEMMA AnchorIsNoMark ==
    ASSUME NEW e \in AllEdits, NEW text, NEW m \in Marks
    PROVE  m \notin Found(e, text)
<1>1. Found(e, text) \subseteq Anchors(e)
  BY DEF Found
<1> QED
  BY <1>1, AnchorIsNo

\* A mark leaves a text only with the edit that rewrites it.
LEMMA MarkStays ==
    ASSUME NEW e \in AllEdits, NEW text, NEW m \in Marks, m \in text, m \notin e.breaks
    PROVE  m \in Edited(e, text)
<1>1. m \notin Lost(e, text)
  BY AnchorIsNoMark DEF Lost
<1> QED
  BY <1>1 DEF Edited

\* A mark that is new is that of the edit.
LEMMA MarkComes ==
    ASSUME NEW e \in AllEdits, NEW text, NEW m \in Marks, m \in Edited(e, text), m \notin text
    PROVE  m = MarkOf(e)
<1>1. m \in Won(e)
  BY DEF Edited
<1>2. m \notin e.brings
  BY PatchAssumption
<1> QED
  BY <1>1, <1>2 DEF Won

LEMMA OwnMark ==
    ASSUME NEW e \in AllEdits, NEW text, e.marks
    PROVE  MarkOf(e) \in Edited(e, text)
BY DEF Edited, Won

LEMMA InIs ==
    ASSUME NEW text, NEW m \in Marks
    PROVE  In(m, text) <=> m \in text \/ \E x \in AllEdits : MarkOf(x) \in text /\ m \in x.breaks
<1>1. ASSUME NEW x \in AllEdits, MarkOf(x) \in text, m \in x.breaks
      PROVE  \E r \in Rewrites : r[1] \in text /\ m \in r[2]
  <2>1. <<MarkOf(x), x.breaks>> \in Rewrites
    BY <1>1 DEF Rewrites
  <2> QED
    BY <1>1, <2>1
<1>2. ASSUME NEW r \in Rewrites, r[1] \in text, m \in r[2]
      PROVE  \E x \in AllEdits : MarkOf(x) \in text /\ m \in x.breaks
  <2>1. PICK x \in AllEdits : r = <<MarkOf(x), x.breaks>>
    BY DEF Rewrites
  <2> QED
    BY <1>2, <2>1
<1> QED
  BY <1>1, <1>2 DEF In, MarksIn

\* An edit that is in a text stays in.
LEMMA EditKeeps ==
    ASSUME NEW e \in AllEdits, NEW text, NEW m \in Marks, In(m, text)
    PROVE  In(m, Edited(e, text))
<1>1. CASE m \in text /\ m \notin e.breaks
  BY <1>1, MarkStays, InIs
<1>2. CASE m \in text /\ m \in e.breaks
  <2>1. e.marks
    BY <1>2, PatchAssumption
  <2>2. MarkOf(e) \in Edited(e, text)
    BY <2>1, OwnMark
  <2> QED
    BY <1>2, <2>2, InIs
<1>3. CASE \E x \in AllEdits : MarkOf(x) \in text /\ m \in x.breaks
  <2>1. PICK x \in AllEdits : MarkOf(x) \in text /\ m \in x.breaks
    BY <1>3
  <2>2. MarkOf(x) \in Marks /\ MarkOf(x) \notin e.breaks
    BY <2>1, PatchAssumption DEF Marks
  <2>3. MarkOf(x) \in Edited(e, text)
    BY <2>1, <2>2, MarkStays
  <2> QED
    BY <2>1, <2>3, InIs
<1> QED
  BY <1>1, <1>2, <1>3, InIs

\* What an edit of a patch brings is among the patch's own.
LEMMA EditAdds ==
    ASSUME NEW p, NEW e \in AllEdits, e \in Edits(p), NEW text, NEW m \in Marks,
           In(m, Edited(e, text)), ~In(m, text)
    PROVE  m \in Optional(p)
<1> DEFINE own == {MarkOf(x) : x \in Edits(p)}
<1>1. MarkOf(e) \in own
  OBVIOUS
<1> HIDE DEF own
<1>2. CASE m \in Edited(e, text)
  <2>1. m = MarkOf(e)
    BY <1>2, MarkComes, InIs
  <2> QED
    BY <1>1, <2>1, InIs DEF Optional, In, own
<1>3. CASE \E x \in AllEdits : MarkOf(x) \in Edited(e, text) /\ m \in x.breaks
  <2>1. PICK x \in AllEdits : MarkOf(x) \in Edited(e, text) /\ m \in x.breaks
    BY <1>3
  <2>2. MarkOf(x) \notin text
    BY <2>1, InIs
  <2>3. MarkOf(x) = MarkOf(e)
    BY <2>1, <2>2, MarkComes DEF Marks
  <2>4. In(m, own)
    BY <1>1, <2>1, <2>3, InIs
  <2> QED
    BY <2>4 DEF Optional, In, own
<1> QED
  BY <1>2, <1>3, InIs

----------------------------------------------------------------------------
(* Disks *)

LEMMA GroupOf ==
    ASSUME NEW i \in 1 .. Len(Patches), Patches[i].kind = "edit"
    PROVE  /\ Group(Patches[i]) \in PatchGroups
           /\ \A f \in {Patches[i].file} \cup Patches[i].alt : f \in PatchFiles
           /\ Required(Patches[i]) \subseteq Marks
<1>1. Group(Patches[i]) \in PatchGroups
  BY DEF PatchGroups
<1>2. \A f \in Group(Patches[i]).files : f \in PatchFiles
  BY <1>1 DEF PatchFiles
<1>3. Required(Patches[i]) \subseteq Marks
  BY DEF Required, Marks, AllEdits
<1> QED
  BY <1>1, <1>2, <1>3 DEF Group

LEMMA InMarks ==
    ASSUME NEW text, NEW m, In(m, text)
    PROVE  m \in Marks
BY DEF In, MarksIn

LEMMA DoneIs ==
    ASSUME NEW d, NEW f, NEW m
    PROVE  <<f, m>> \in EditsIn(d) <=> f \in PatchFiles /\ f \in DOMAIN d /\ In(m, d[f])
BY DEF EditsIn, In

LEMMA DonePairs ==
    ASSUME NEW d, NEW z \in EditsIn(d)
    PROVE  \E f, m : z = <<f, m>>
BY DEF EditsIn

\* A file whose text grows by edits of one patch, all that it requires among them.
LEMMA WriteEnters ==
    ASSUME NEW i \in 1 .. Len(Patches), Patches[i].kind = "edit",
           NEW f \in {Patches[i].file} \cup Patches[i].alt,
           NEW d, NEW text, f \in DOMAIN d,
           \A m \in Marks : In(m, d[f]) => In(m, text),
           \A m \in Marks : In(m, text) /\ ~In(m, d[f]) => m \in Optional(Patches[i]),
           \A m \in Required(Patches[i]) : In(m, text)
    PROVE  LET new == [d EXCEPT ![f] = text]
               g == Group(Patches[i])
           IN  /\ EditsIn(d) \subseteq EditsIn(new)
               /\ {f} \X g.required \subseteq EditsIn(new)
               /\ EditsIn(new) \ EditsIn(d) \subseteq {f} \X (g.required \cup g.optional)
<1> DEFINE new == [d EXCEPT ![f] = text]
           g == Group(Patches[i])
<1>1. DOMAIN new = DOMAIN d /\ new[f] = text /\ \A x \in DOMAIN d : x # f => new[x] = d[x]
  OBVIOUS
<1>2. f \in PatchFiles /\ g.required \subseteq Marks /\ g.required = Required(Patches[i]) /\ g.optional = Optional(Patches[i])
  BY GroupOf DEF Group
<1>3. \A t, m : In(m, t) => m \in Marks
  BY InMarks
<1> HIDE DEF new, g
<1>4. EditsIn(d) \subseteq EditsIn(new)
  <2> SUFFICES ASSUME NEW z \in EditsIn(d) PROVE z \in EditsIn(new)
    OBVIOUS
  <2>1. PICK x, m : z = <<x, m>>
    BY DonePairs
  <2>2. x \in PatchFiles /\ x \in DOMAIN d /\ In(m, d[x])
    BY <2>1, DoneIs
  <2>3. In(m, new[x])
    BY <1>1, <1>3, <2>2
  <2> QED
    BY <1>1, <2>1, <2>2, <2>3, DoneIs
<1>5. {f} \X g.required \subseteq EditsIn(new)
  <2> SUFFICES ASSUME NEW m \in g.required PROVE <<f, m>> \in EditsIn(new)
    OBVIOUS
  <2>1. In(m, text)
    BY <1>2
  <2> QED
    BY <1>1, <1>2, <2>1, DoneIs
<1>6. EditsIn(new) \ EditsIn(d) \subseteq {f} \X (g.required \cup g.optional)
  <2> SUFFICES ASSUME NEW z \in EditsIn(new), z \notin EditsIn(d)
               PROVE  z \in {f} \X (g.required \cup g.optional)
    OBVIOUS
  <2>1. PICK x, m : z = <<x, m>>
    BY DonePairs
  <2>2. x \in PatchFiles /\ x \in DOMAIN d /\ In(m, new[x])
    BY <1>1, <2>1, DoneIs
  <2>3. ~In(m, d[x])
    BY <2>1, <2>2, DoneIs
  <2>4. x = f
    BY <1>1, <2>2, <2>3
  <2>5. m \in Optional(Patches[i])
    BY <1>1, <1>3, <2>2, <2>3, <2>4
  <2> QED
    BY <1>2, <2>1, <2>4, <2>5
<1> QED
  BY <1>4, <1>5, <1>6 DEF new, g

Elsewhere(d, f) == {z \in EditsIn(d) : z[1] # f}

\* A file that is written anew changes nothing of the others.
LEMMA AnewElsewhere ==
    ASSUME NEW d, NEW e, NEW f, DOMAIN d \ {f} = DOMAIN e \ {f}, \A x \in DOMAIN d \ {f} : e[x] = d[x]
    PROVE  Elsewhere(d, f) = Elsewhere(e, f)
<1>1. ASSUME NEW z \in EditsIn(d), z[1] # f PROVE z \in EditsIn(e)
  <2>1. PICK x, m : z = <<x, m>>
    BY DonePairs
  <2>2. x # f /\ x \in PatchFiles /\ x \in DOMAIN d /\ In(m, d[x])
    BY <1>1, <2>1, DoneIs
  <2>3. x \in DOMAIN e /\ e[x] = d[x]
    BY <2>2
  <2> QED
    BY <2>1, <2>2, <2>3, DoneIs
<1>2. ASSUME NEW z \in EditsIn(e), z[1] # f PROVE z \in EditsIn(d)
  <2>1. PICK x, m : z = <<x, m>>
    BY DonePairs
  <2>2. x # f /\ x \in PatchFiles /\ x \in DOMAIN e /\ In(m, e[x])
    BY <1>2, <2>1, DoneIs
  <2>3. x \in DOMAIN d /\ e[x] = d[x]
    BY <2>2
  <2> QED
    BY <2>1, <2>2, <2>3, DoneIs
<1> QED
  BY <1>1, <1>2 DEF Elsewhere

----------------------------------------------------------------------------
(* The runner *)

\* While a patch is edited: what was in its file is in the code, what is new
\* there is the patch's own, and no needed edit before the current one lacks.
Buffered ==
    LET p == Patches[at]
        T == Target(p)
    IN  /\ at <= Len(Patches) /\ p.kind = "edit" /\ T \in DOMAIN disk
        /\ \A m \in Marks : In(m, disk[T]) => In(m, code)
        /\ \A m \in Marks : In(m, code) /\ ~In(m, disk[T]) => m \in Optional(p)
        /\ \A i \in 1 .. Len(p.edits) : i < edit /\ Needed(p.edits[i]) => In(MarkOf(p.edits[i]), code)
        /\ ~changed => code = disk[T]
PatchInv == at \in Nat \ {0} /\ edit \in Nat /\ (edit # 0 => Buffered)

LEMMA PatchStart == PatchInit => PatchInv
BY DEF PatchInit, PatchInv

LEMMA TargetIn ==
    ASSUME NEW p
    PROVE  Target(p) \in {p.file} \cup p.alt
BY DEF Target

LEMMA PatchStep ==
    ASSUME PatchInv, [PatchNext]_patchVars
    PROVE  PatchInv'
<1>0. Len(Patches) \in Nat /\ \A i \in 1 .. Len(Patches) : Len(Patches[i].edits) \in Nat
  BY PatchAssumption
<1>1. CASE Leave
  BY <1>1 DEF Leave, PatchInv
<1>2. CASE Open
  <2>1. at \in 1 .. Len(Patches) /\ Current.kind = "edit" /\ Target(Current) \in DOMAIN disk
    BY <1>0, <1>2 DEF Open, Opens, Running, PatchInv
  <2>2. edit' = 1 /\ code' = disk[Target(Current)] /\ changed' = FALSE /\ UNCHANGED <<image, disk, round, at, made, drifted>>
    BY <1>2 DEF Open
  <2>3. Target(Patches[at])' = Target(Current)
    BY <2>2 DEF Target, Current
  <2>4. Buffered'
    BY <1>0, <2>1, <2>2, <2>3 DEF Buffered, Current
  <2> QED
    BY <2>2, <2>4 DEF PatchInv
<1>3. CASE SkipEdit \/ MakeEdit
  <2> DEFINE T == Target(Current)
             e == Current.edits[edit]
  <2>1. at \in 1 .. Len(Patches) /\ edit \in 1 .. Len(Current.edits) /\ Buffered /\ e = Now
    BY <1>0, <1>3 DEF SkipEdit, MakeEdit, Editing, Running, Now, PatchInv, Current
  <2>2. UNCHANGED <<image, disk, round, at, made, drifted>> /\ edit' = edit + 1
    BY <1>3 DEF SkipEdit, MakeEdit
  <2>3. e \in Edits(Current) /\ e \in AllEdits
    BY <1>0, <2>1 DEF Edits, AllEdits, Current
  <2>4. /\ Current.kind = "edit" /\ T \in DOMAIN disk
        /\ \A m \in Marks : In(m, disk[T]) => In(m, code)
        /\ \A m \in Marks : In(m, code) /\ ~In(m, disk[T]) => m \in Optional(Current)
        /\ \A i \in 1 .. Len(Current.edits) : i < edit /\ Needed(Current.edits[i]) => In(MarkOf(Current.edits[i]), code)
        /\ ~changed => code = disk[T]
    BY <2>1 DEF Buffered, Current
  <2>5. Target(Patches[at])' = T /\ Current' = Current
    BY <2>2 DEF Target, Current
  <2>6. \A i \in 1 .. Len(Current.edits) : Needed(Current.edits[i]) => MarkOf(Current.edits[i]) \in Marks
    BY <2>1 DEF Marks, AllEdits, Edits, Current
  <2> HIDE DEF T, e
  <2>7. /\ \A m \in Marks : In(m, disk[T]) => In(m, code')
        /\ \A m \in Marks : In(m, code') /\ ~In(m, disk[T]) => m \in Optional(Current)
        /\ \A m \in Marks : In(m, code) => In(m, code')
        /\ Needed(e) => In(MarkOf(e), code')
        /\ ~changed' => code' = disk[T]
    <3>1. CASE SkipEdit
      <4>1. code' = code /\ changed' = changed
        BY <3>1 DEF SkipEdit
      <4>2. Skipped(e)
        BY <2>1, <3>1 DEF SkipEdit
      <4>3. Needed(e) => MarkOf(e) \in code
        BY <4>2 DEF Needed, Skipped
      <4>4. Needed(e) => In(MarkOf(e), code)
        BY <2>3, <4>3, InIs DEF Marks
      <4> QED
        BY <2>4, <4>1, <4>4
    <3>2. CASE MakeEdit
      <4>1. code' = Edited(e, code) /\ changed' = TRUE
        BY <2>1, <3>2 DEF MakeEdit
      <4>2. \A m \in Marks : In(m, code) => In(m, code')
        BY <2>3, <4>1, EditKeeps
      <4>3. \A m \in Marks : In(m, code') /\ ~In(m, code) => m \in Optional(Current)
        BY <2>3, <4>1, EditAdds
      <4>4. Needed(e) => In(MarkOf(e), code')
        <5>1. Needed(e) => MarkOf(e) \in Edited(e, code)
          BY <2>3, OwnMark DEF Needed
        <5> QED
          BY <2>3, <4>1, <5>1, InIs DEF Marks
      <4> QED
        BY <2>4, <4>1, <4>2, <4>3, <4>4
    <3> QED
      BY <1>3, <3>1, <3>2
  <2>8. \A i \in 1 .. Len(Current.edits) : i < edit + 1 /\ Needed(Current.edits[i]) => In(MarkOf(Current.edits[i]), code')
    <3> SUFFICES ASSUME NEW i \in 1 .. Len(Current.edits), i < edit + 1, Needed(Current.edits[i])
                 PROVE  In(MarkOf(Current.edits[i]), code')
      OBVIOUS
    <3>1. CASE i = edit
      BY <2>7, <3>1 DEF e
    <3>2. CASE i < edit
      BY <2>4, <2>6, <2>7, <3>2
    <3>3. i = edit \/ i < edit
      BY <1>0, <2>1 DEF Current
    <3> QED
      BY <3>1, <3>2, <3>3
  <2>9. Buffered'
    <3>1. (at <= Len(Patches))' /\ (Patches[at].kind = "edit")' /\ (Target(Patches[at]) \in DOMAIN disk)'
      BY <1>0, <2>1, <2>2, <2>4, <2>5 DEF Current
    <3>2. (\A m \in Marks : In(m, disk[Target(Patches[at])]) => In(m, code))'
      BY <2>2, <2>5, <2>7
    <3>3. (\A m \in Marks : In(m, code) /\ ~In(m, disk[Target(Patches[at])]) => m \in Optional(Patches[at]))'
      BY <2>2, <2>5, <2>7 DEF Current
    <3>4. (\A i \in 1 .. Len(Patches[at].edits) :
                i < edit /\ Needed(Patches[at].edits[i]) => In(MarkOf(Patches[at].edits[i]), code))'
      BY <2>2, <2>8 DEF Current
    <3>5. (~changed => code = disk[Target(Patches[at])])'
      BY <2>2, <2>5, <2>7
    <3> QED
      BY <3>1, <3>2, <3>3, <3>4, <3>5 DEF Buffered
  <2> QED
    BY <2>1, <2>2, <2>9 DEF PatchInv
<1>4. CASE Again
  BY <1>0, <1>4 DEF Again, PatchInv, Running, Buffered
<1>5. CASE UNCHANGED patchVars
  BY <1>5 DEF patchVars, PatchInv, Buffered, Target
<1> QED
  BY <1>1, <1>2, <1>3, <1>4, <1>5
     DEF PatchNext, NotMatched, Missing, AlreadyIn, Drift, Write, ModuleStands, WriteModule, RemoveModule

----------------------------------------------------------------------------
(* The refinement *)

LEMMA MarkInGroup ==
    ASSUME NEW m \in Marks
    PROVE  m \in Promise!Edits
<1>1. PICK i \in 1 .. Len(Patches) : \E e \in Edits(Patches[i]) : m = MarkOf(e)
  BY DEF Marks, AllEdits
<1>2. Patches[i].kind = "edit"
  BY <1>1, PatchAssumption DEF Edits
<1>3. In(m, {MarkOf(e) : e \in Edits(Patches[i])})
  BY <1>1, InIs
<1>4. m \in Group(Patches[i]).optional
  BY <1>3 DEF Group, Optional, In
<1> QED
  BY <1>2, <1>4, GroupOf DEF Promise!Edits

LEMMA WholeStart == Promise!Init
<1> SUFFICES ASSUME NEW z \in EditsDone PROVE z \in Promise!Files \X Promise!Edits
  BY DEF Promise!Init
<1>1. PICK f, m : z = <<f, m>>
  BY DonePairs DEF EditsDone
<1>2. f \in PatchFiles /\ m \in Marks
  BY <1>1, DoneIs, InMarks DEF EditsDone
<1> QED
  BY <1>1, <1>2, MarkInGroup DEF Promise!Files, PatchFiles

LEMMA WholeStep ==
    ASSUME PatchInv, [PatchNext]_patchVars
    PROVE  [Promise!Next]_EditsDone
<1>0. Len(Patches) \in Nat /\ \A i \in 1 .. Len(Patches) : Len(Patches[i].edits) \in Nat
  BY PatchAssumption
<1>1. CASE UNCHANGED disk
  BY <1>1 DEF EditsDone
<1>2. CASE Write /\ changed
  <2> DEFINE p == Patches[at]
             T == Target(p)
  <2>1. at \in 1 .. Len(Patches) /\ p.kind = "edit" /\ edit > Len(p.edits) /\ disk' = [disk EXCEPT ![T] = code]
    BY <1>0, <1>2 DEF Write, Running, Current, PatchInv
  <2>2. Buffered
    BY <1>0, <2>1 DEF PatchInv
  <2>3. /\ T \in DOMAIN disk
        /\ \A m \in Marks : In(m, disk[T]) => In(m, code)
        /\ \A m \in Marks : In(m, code) /\ ~In(m, disk[T]) => m \in Optional(p)
    BY <2>2 DEF Buffered
  <2>4. \A m \in Required(p) : In(m, code)
    <3> SUFFICES ASSUME NEW i \in 1 .. Len(p.edits), Needed(p.edits[i]) PROVE In(MarkOf(p.edits[i]), code)
      BY DEF Required, Edits
    <3>1. i < edit
      BY <1>0, <2>1 DEF PatchInv
    <3> QED
      BY <2>2, <3>1 DEF Buffered
  <2>5. T \in {p.file} \cup p.alt
    BY TargetIn
  <2> HIDE DEF T
  <2>6. /\ EditsDone \subseteq EditsDone'
        /\ {T} \X Group(p).required \subseteq EditsDone'
        /\ EditsDone' \ EditsDone \subseteq {T} \X (Group(p).required \cup Group(p).optional)
    BY <2>1, <2>3, <2>4, <2>5, WriteEnters DEF EditsDone
  <2>7. Group(p) \in PatchGroups /\ T \in Group(p).files
    BY <2>1, <2>5, GroupOf DEF Group
  <2>8. Promise!Enter(Group(p), EditsDone' \ EditsDone)
    BY <2>6, <2>7 DEF Promise!Enter
  <2> QED
    BY <2>6, <2>7, <2>8 DEF Promise!Next
<1>3. CASE WriteModule \/ RemoveModule
  <2> DEFINE f == Patches[at].file
  <2>1. at \in 1 .. Len(Patches) /\ Patches[at].kind = "write"
    <3>1. Writes
      BY <1>3 DEF WriteModule, RemoveModule
    <3> QED
      BY <1>0, <3>1 DEF Writes, Running, Current, PatchInv
  <2>2. DOMAIN disk \ {f} = DOMAIN disk' \ {f} /\ \A x \in DOMAIN disk \ {f} : disk'[x] = disk[x]
    BY <1>3 DEF WriteModule, RemoveModule, Current
  <2>3. f \in WrittenFiles
    BY <2>1 DEF WrittenFiles
  <2> HIDE DEF f
  <2>4. {z \in EditsDone : z[1] # f} = {z \in EditsDone' : z[1] # f}
    <3>1. Elsewhere(disk, f) = Elsewhere(disk', f)
      BY <2>2, AnewElsewhere
    <3> QED
      BY <3>1 DEF EditsDone, Elsewhere
  <2>5. Promise!Anew(f)
    BY <2>4 DEF Promise!Anew
  <2> QED
    BY <2>3, <2>5 DEF Promise!Next
<1> QED
  BY <1>1, <1>2, <1>3
     DEF PatchNext, patchVars, NotMatched, Missing, AlreadyIn, Open, SkipEdit, MakeEdit, Drift, Write, ModuleStands, Again

\* Whatever the scripts edit and whatever is installed, a patch enters its file
\* whole or not at all, and what is in stays in (Patch.run of _patchlib.py).
THEOREM RunnerIsAllOrNothing == PatchSpec => AllOrNothing
<1>1. PatchInit => PatchInv
  BY PatchStart
<1>2. PatchInv /\ [PatchNext]_patchVars => PatchInv'
  BY PatchStep
<1>3. PatchInit => Promise!Init
  BY WholeStart
<1>4. PatchInv /\ [PatchNext]_patchVars => [Promise!Next]_EditsDone
  BY WholeStep
<1> QED
  BY <1>1, <1>2, <1>3, <1>4, PTL DEF PatchSpec, AllOrNothing, Promise!Spec

----------------------------------------------------------------------------
(* A second run.  What a patch looks at on a disk d of an image im *)

Has(d, c) == c[1] \in DOMAIN d /\ c[2] \in d[c[1]]
GateOn(p, d, im) ==
    /\ \A clause \in p.settings : clause \cap Settings(im) # {}
    /\ \A clause \in p.has : \E c \in clause : Has(d, c)
    /\ \A c \in p.lacks : ~Has(d, c)
AnyOf(S) == CHOOSE f \in S : TRUE
TargetOn(p, d) == IF p.file \in DOMAIN d \/ p.alt \cap DOMAIN d = {} THEN p.file
                  ELSE AnyOf(p.alt \cap DOMAIN d)
StandsOn(p, d) == \E c \in p.stops : Has(d, c)
SkippedIn(e, text, ch) ==
    \/ e.only # {} /\ e.only \cap text = {}
    \/ e.unless \cap text # {}
    \/ e.onChange /\ ~ch
    \/ MarkOf(e) \in text
Findable(e, text) == e.spellings = 0 \/ Found(e, text) # {}

\* Texts that are the same to the edits of a patch.
LookedFor(p) == UNION {LooksFor(e) : e \in Edits(p)}
Same(p, a, b) == \A x \in LookedFor(p) : x \in a <=> x \in b

\* The buffers before the first n edits of a patch that is run on a text, as far
\* as it looks at them; and that the run ends with a drift.
Pass(p, text, n, codes, flags) ==
    /\ Same(p, codes[1], text) /\ flags[1] = FALSE
    /\ \A k \in 1 .. n - 1 :
          \/ /\ SkippedIn(p.edits[k], codes[k], flags[k])
             /\ flags[k + 1] = flags[k] /\ Same(p, codes[k + 1], codes[k])
          \/ /\ ~SkippedIn(p.edits[k], codes[k], flags[k]) /\ Findable(p.edits[k], codes[k])
             /\ flags[k + 1] = TRUE /\ Same(p, codes[k + 1], Edited(p.edits[k], codes[k]))
DriftsAt(p, text, n, codes, flags) ==
    /\ Pass(p, text, n, codes, flags)
    /\ ~SkippedIn(p.edits[n], codes[n], flags[n]) /\ ~Findable(p.edits[n], codes[n])
DriftsOn(p, text) ==
    \E n \in 1 .. Len(p.edits) : \E codes, flags : DriftsAt(p, text, n, codes, flags)
AllSkipped(p, text) == \A k \in 1 .. Len(p.edits) : SkippedIn(p.edits[k], text, FALSE)

\* What write_module answers, and what the script of the n-th patch knows of its
\* modules.
Fine(j, d, im) == GateOn(Patches[j], d, im) /\ (StandsOn(Patches[j], d) \/ Patches[j].file \notin Unusable(im))
MadeIn(n, d, im) == \A j \in 1 .. n - 1 : Patches[j].kind = "write" /\ SameScript(j, n) => Fine(j, d, im)

\* The i-th patch would leave the disk as it is.
Settled(i, d, im) ==
    LET p == Patches[i]
        T == TargetOn(p, d)
    IN  IF p.kind = "edit"
        THEN \/ ~GateOn(p, d, im)
             \/ p.asks /\ ~MadeIn(i, d, im)
             \/ T \notin DOMAIN d \/ StandsOn(p, d)
             \/ AllSkipped(p, d[T]) \/ DriftsOn(p, d[T])
        ELSE \/ ~GateOn(p, d, im) \/ StandsOn(p, d)
             \/ p.file \in Unusable(im) /\ p.file \notin DOMAIN d

LEMMA ScriptBounds ==
    /\ Len(Patches) \in Nat
    /\ \A i \in 1 .. Len(Patches) :
          /\ Len(Patches[i].edits) \in Nat
          /\ Patches[i].kind = "edit" \/ Patches[i].kind = "write"
          /\ Patches[i].kind = "write" => ModuleMarked(Patches[i]) /\ Edits(Patches[i]) = {}
          /\ Edits(Patches[i]) \subseteq AllEdits
<1>1. Len(Patches) \in Nat
  BY PatchAssumption
<1>2. ASSUME NEW i \in 1 .. Len(Patches)
      PROVE  /\ Len(Patches[i].edits) \in Nat
             /\ Patches[i].kind = "edit" \/ Patches[i].kind = "write"
             /\ Patches[i].kind = "write" => ModuleMarked(Patches[i]) /\ Edits(Patches[i]) = {}
             /\ Edits(Patches[i]) \subseteq AllEdits
  <2>1. Len(Patches[i].edits) \in Nat /\ (Patches[i].kind = "edit" \/ Len(Patches[i].edits) = 0)
    BY <1>1, PatchAssumption
  <2>2. Patches[i].kind \in {"edit", "write"}
    BY <1>1, ScriptAssumption
  <2>3. Patches[i].kind = "write" => ModuleMarked(Patches[i])
    BY <1>1, ScriptAssumption
  <2>4. Patches[i].kind = "write" => Edits(Patches[i]) = {}
    BY <2>1 DEF Edits
  <2>5. Edits(Patches[i]) \subseteq AllEdits
    BY DEF AllEdits
  <2>6. Patches[i].kind = "edit" \/ Patches[i].kind = "write"
    BY <2>2
  <2> QED
    BY <2>1, <2>3, <2>4, <2>5, <2>6
<1> QED
  BY <1>1, <1>2

\* What edits do depends on what they look for.
LEMMA SameSkips ==
    ASSUME NEW p, NEW e \in Edits(p), NEW a, NEW b, Same(p, a, b), NEW ch
    PROVE  /\ SkippedIn(e, a, ch) <=> SkippedIn(e, b, ch)
           /\ Findable(e, a) <=> Findable(e, b)
           /\ Same(p, Edited(e, a), Edited(e, b))
<1>1. \A x \in LooksFor(e) : x \in a <=> x \in b
  BY DEF Same, LookedFor
<1>2. e.only \cap a = e.only \cap b /\ e.unless \cap a = e.unless \cap b /\ (MarkOf(e) \in a <=> MarkOf(e) \in b)
  BY <1>1 DEF LooksFor
<1>3. Anchors(e) \cap a = Anchors(e) \cap b
  BY <1>1 DEF LooksFor
<1>4. Found(e, a) = Found(e, b)
  BY <1>3 DEF Found
<1>5. SkippedIn(e, a, ch) <=> SkippedIn(e, b, ch)
  BY <1>2 DEF SkippedIn
<1>6. Same(p, Edited(e, a), Edited(e, b))
  BY <1>4 DEF Same, Edited, Lost
<1> QED
  BY <1>4, <1>5, <1>6 DEF Findable

LEMMA SameIsAll ==
    ASSUME NEW p, NEW a, NEW b, Same(p, a, b)
    PROVE  /\ AllSkipped(p, a) => AllSkipped(p, b)
           /\ DriftsOn(p, a) => DriftsOn(p, b)
<1>1. AllSkipped(p, a) => AllSkipped(p, b)
  <2> SUFFICES ASSUME AllSkipped(p, a), NEW k \in 1 .. Len(p.edits) PROVE SkippedIn(p.edits[k], b, FALSE)
    BY DEF AllSkipped
  <2>1. p.edits[k] \in Edits(p)
    BY DEF Edits
  <2> QED
    BY <2>1, SameSkips DEF AllSkipped
<1>2. ASSUME NEW n, NEW codes, NEW flags, DriftsAt(p, a, n, codes, flags)
      PROVE  DriftsAt(p, b, n, codes, flags)
  <2>1. Same(p, codes[1], b)
    BY <1>2 DEF DriftsAt, Pass, Same
  <2> QED
    BY <1>2, <2>1 DEF DriftsAt, Pass
<1>3. DriftsOn(p, a) => DriftsOn(p, b)
  BY <1>2 DEF DriftsOn
<1> QED
  BY <1>1, <1>3

\* A patch that loses the mark of its last edit drifts where it drifted.
LEMMA LosingLast ==
    ASSUME NEW i \in 1 .. Len(Patches), NEW m \in LastMark(Patches[i]), NEW a, NEW b,
           \A x \in LookedFor(Patches[i]) : x \in b <=> x \in a /\ x # m,
           DriftsOn(Patches[i], a)
    PROVE  DriftsOn(Patches[i], b)
<1> DEFINE p == Patches[i]
           N == Len(p.edits)
<1>1. N \in Nat /\ Edits(p) \subseteq AllEdits
  BY ScriptBounds
<1>2. PICK n \in 1 .. N : \E codes, flags : DriftsAt(p, a, n, codes, flags)
  BY DEF DriftsOn
<1>3. PICK codes, flags : DriftsAt(p, a, n, codes, flags)
  BY <1>2
<1>4. /\ N > 1 /\ m = MarkOf(p.edits[N])
      /\ m \notin p.edits[N].only /\ m \notin p.edits[N].unless
      /\ \A k \in 1 .. N - 1 : m \notin LooksFor(p.edits[k]) /\ m \notin Won(p.edits[k])
  BY DEF LastMark
<1>5. \A k \in 1 .. N : p.edits[k] \in Edits(p) /\ p.edits[k] \in AllEdits
  BY <1>1 DEF Edits
<1>6. m \in Marks
  BY <1>1, <1>4, <1>5 DEF Marks
<1> DEFINE fewer == [k \in 1 .. n |-> codes[k] \ {m}]
<1>7. \A k \in 1 .. n : fewer[k] = codes[k] \ {m}
  OBVIOUS
<1>8. Same(p, codes[1], a) /\ flags[1] = FALSE
  BY <1>3 DEF DriftsAt, Pass
<1>9. Same(p, fewer[1], b)
  <2>1. 1 \in 1 .. n
    BY <1>1, <1>2
  <2>2. fewer[1] = codes[1] \ {m}
    BY <1>7, <2>1
  <2> HIDE DEF fewer
  <2> QED
    BY <1>8, <2>2 DEF Same
<1>10. ASSUME NEW k \in 1 .. N - 1, NEW c, NEW ch
       PROVE  /\ SkippedIn(p.edits[k], c \ {m}, ch) <=> SkippedIn(p.edits[k], c, ch)
              /\ Findable(p.edits[k], c \ {m}) <=> Findable(p.edits[k], c)
              /\ Edited(p.edits[k], c \ {m}) = Edited(p.edits[k], c) \ {m}
  <2> DEFINE e == p.edits[k]
  <2>1. m \notin LooksFor(e) /\ m \notin Won(e)
    BY <1>4
  <2>2. e.only \cap (c \ {m}) = e.only \cap c /\ e.unless \cap (c \ {m}) = e.unless \cap c
        /\ (MarkOf(e) \in c \ {m} <=> MarkOf(e) \in c)
    BY <2>1 DEF LooksFor
  <2>3. Anchors(e) \cap (c \ {m}) = Anchors(e) \cap c
    BY <2>1 DEF LooksFor
  <2> HIDE DEF e
  <2>4. Found(e, c \ {m}) = Found(e, c)
    BY <2>3 DEF Found
  <2>5. Lost(e, c \ {m}) = Lost(e, c)
    BY <2>4 DEF Lost
  <2>6. Edited(e, c \ {m}) = Edited(e, c) \ {m}
    BY <2>1, <2>5 DEF Edited
  <2>7. SkippedIn(e, c \ {m}, ch) <=> SkippedIn(e, c, ch)
    BY <2>2 DEF SkippedIn
  <2>8. Findable(e, c \ {m}) <=> Findable(e, c)
    BY <2>4 DEF Findable
  <2> QED
    BY <2>6, <2>7, <2>8 DEF e
<1> HIDE DEF fewer
<1>11. ASSUME NEW k \in 1 .. n - 1
       PROVE  \/ /\ SkippedIn(p.edits[k], fewer[k], flags[k])
                 /\ flags[k + 1] = flags[k] /\ Same(p, fewer[k + 1], fewer[k])
              \/ /\ ~SkippedIn(p.edits[k], fewer[k], flags[k]) /\ Findable(p.edits[k], fewer[k])
                 /\ flags[k + 1] = TRUE /\ Same(p, fewer[k + 1], Edited(p.edits[k], fewer[k]))
  <2>1. k \in 1 .. N - 1 /\ k \in 1 .. n /\ k + 1 \in 1 .. n
    BY <1>1, <1>2
  <2>2. fewer[k] = codes[k] \ {m} /\ fewer[k + 1] = codes[k + 1] \ {m}
    BY <1>7, <2>1
  <2>3. /\ SkippedIn(p.edits[k], fewer[k], flags[k]) <=> SkippedIn(p.edits[k], codes[k], flags[k])
        /\ Findable(p.edits[k], fewer[k]) <=> Findable(p.edits[k], codes[k])
        /\ Edited(p.edits[k], fewer[k]) = Edited(p.edits[k], codes[k]) \ {m}
    BY <1>10, <2>1, <2>2
  <2>4. \/ /\ SkippedIn(p.edits[k], codes[k], flags[k])
           /\ flags[k + 1] = flags[k] /\ Same(p, codes[k + 1], codes[k])
        \/ /\ ~SkippedIn(p.edits[k], codes[k], flags[k]) /\ Findable(p.edits[k], codes[k])
           /\ flags[k + 1] = TRUE /\ Same(p, codes[k + 1], Edited(p.edits[k], codes[k]))
    BY <1>3 DEF DriftsAt, Pass
  <2>5. \A c, o : Same(p, c, o) => Same(p, c \ {m}, o \ {m})
    BY DEF Same
  <2>6. CASE SkippedIn(p.edits[k], codes[k], flags[k])
    <3>1. flags[k + 1] = flags[k] /\ Same(p, codes[k + 1], codes[k])
      BY <2>4, <2>6
    <3>2. Same(p, fewer[k + 1], fewer[k])
      BY <2>2, <2>5, <3>1
    <3> QED
      BY <2>3, <2>6, <3>1, <3>2
  <2>7. CASE ~SkippedIn(p.edits[k], codes[k], flags[k])
    <3>1. Findable(p.edits[k], codes[k]) /\ flags[k + 1] = TRUE /\ Same(p, codes[k + 1], Edited(p.edits[k], codes[k]))
      BY <2>4, <2>7
    <3>2. Same(p, codes[k + 1] \ {m}, Edited(p.edits[k], codes[k]) \ {m})
      BY <2>5, <3>1
    <3>3. Same(p, fewer[k + 1], Edited(p.edits[k], fewer[k]))
      BY <2>2, <2>3, <3>2
    <3> QED
      BY <2>3, <2>7, <3>1, <3>3
  <2> QED
    BY <2>6, <2>7
<1>12. Pass(p, b, n, fewer, flags)
  BY <1>8, <1>9, <1>11 DEF Pass
<1>13. ~SkippedIn(p.edits[n], codes[n], flags[n]) /\ ~Findable(p.edits[n], codes[n])
  BY <1>3 DEF DriftsAt
<1>14. fewer[n] = codes[n] \ {m}
  BY <1>1, <1>2, <1>7
<1>15. ~SkippedIn(p.edits[n], fewer[n], flags[n]) /\ ~Findable(p.edits[n], fewer[n])
  <2>1. CASE n \in 1 .. N - 1
    BY <1>10, <1>13, <1>14, <2>1
  <2>2. CASE n = N
    <3> DEFINE e == p.edits[N]
    <3>1. e \in AllEdits /\ MarkOf(e) = m /\ m \notin e.only /\ m \notin e.unless
      BY <1>1, <1>2, <1>4, <1>5, <2>2
    <3>2. m \notin Anchors(e)
      BY <1>6, <3>1, AnchorIsNo
    <3> HIDE DEF e
    <3>3. Anchors(e) \cap fewer[n] = Anchors(e) \cap codes[n]
          /\ e.only \cap fewer[n] = e.only \cap codes[n] /\ e.unless \cap fewer[n] = e.unless \cap codes[n]
      BY <1>14, <3>1, <3>2
    <3>4. Found(e, fewer[n]) = Found(e, codes[n])
      BY <3>3 DEF Found
    <3>5. ~SkippedIn(e, codes[n], flags[n]) /\ ~Findable(e, codes[n])
      BY <1>13, <2>2 DEF e
    <3>6. ~SkippedIn(e, fewer[n], flags[n])
      BY <1>14, <3>1, <3>3, <3>5 DEF SkippedIn
    <3>7. ~Findable(e, fewer[n])
      BY <3>4, <3>5 DEF Findable
    <3> QED
      BY <2>2, <3>6, <3>7 DEF e
  <2> QED
    BY <1>1, <1>2, <2>1, <2>2
<1> QED
  BY <1>12, <1>15 DEF DriftsOn, DriftsAt

----------------------------------------------------------------------------
(* What a patch does to a disk, and that a later one leaves what an earlier knows *)

Paths(p) == {p.file} \cup p.alt
Grown(q, a, b) ==
    /\ \A x \in b : x \in a \/ \E e \in Edits(q) : x \in Won(e)
    /\ \A x \in a : x \in b \/ \E e \in Edits(q) : x \in Takes(e)
    /\ \A m \in Marks : In(m, a) => In(m, b)
EditedAt(q, T, d, d2) ==
    /\ T \in DOMAIN d /\ DOMAIN d2 = DOMAIN d /\ \A f \in DOMAIN d \ {T} : d2[f] = d[f]
    /\ Grown(q, d[T], d2[T])
Anew(q, d, d2) ==
    /\ DOMAIN d \ {q.file} = DOMAIN d2 \ {q.file} /\ \A f \in DOMAIN d \ {q.file} : d2[f] = d[f]
    /\ q.file \in DOMAIN d2 => d2[q.file] = q.source
Changed(q, d, d2) ==
    \/ d2 = d
    \/ q.kind = "edit" /\ \E T \in Paths(q) : EditedAt(q, T, d, d2)
    \/ q.kind = "write" /\ ~StandsOn(q, d) /\ Anew(q, d, d2)

LEMMA ConditionsStay ==
    ASSUME NEW i \in 1 .. Len(Patches), NEW j \in i + 1 .. Len(Patches), NEW d, NEW d2,
           Changed(Patches[j], d, d2), NEW c \in Conditions(Patches[i])
    PROVE  Has(d, c) <=> Has(d2, c)
<1> DEFINE q == Patches[j]
<1>0. j \in 1 .. Len(Patches) /\ i \in 1 .. j - 1
  BY ScriptBounds
<1>1. CASE d2 = d
  BY <1>1
<1>2. CASE q.kind = "edit" /\ \E T \in Paths(q) : EditedAt(q, T, d, d2)
  <2>1. PICK T \in Paths(q) : EditedAt(q, T, d, d2)
    BY <1>2
  <2>2. EditLeaves(q, Patches[i])
    BY <1>0, <1>2, ScriptAssumption DEF LaterLeavesEarlier
  <2>3. CASE c[1] # T
    BY <2>1, <2>3 DEF Has, EditedAt
  <2>4. CASE c[1] = T
    <3>1. \A e \in Edits(q) : c[2] \notin Won(e) /\ c[2] \notin Takes(e)
      BY <2>1, <2>2, <2>4 DEF EditLeaves, Paths
    <3>2. Grown(q, d[T], d2[T]) /\ T \in DOMAIN d /\ T \in DOMAIN d2
      BY <2>1 DEF EditedAt
    <3>3. c[2] \in d[T] <=> c[2] \in d2[T]
      BY <3>1, <3>2 DEF Grown
    <3> QED
      BY <2>4, <3>2, <3>3 DEF Has
  <2> QED
    BY <2>3, <2>4
<1>3. CASE q.kind = "write" /\ ~StandsOn(q, d) /\ Anew(q, d, d2)
  <2>1. ModuleLeaves(q, Patches[i])
    BY <1>0, <1>3, ScriptAssumption DEF LaterLeavesEarlier
  <2>2. CASE c[1] # q.file
    BY <1>3, <2>2 DEF Has, Anew
  <2>3. CASE c[1] = q.file
    <3>1. c \in q.stops /\ c[2] \notin q.source
      BY <2>1, <2>3 DEF ModuleLeaves
    <3>2. ~Has(d, c)
      BY <1>3, <3>1 DEF StandsOn
    <3>3. ~Has(d2, c)
      BY <1>3, <2>3, <3>1 DEF Has, Anew
    <3> QED
      BY <3>2, <3>3
  <2> QED
    BY <2>2, <2>3
<1> QED
  BY <1>1, <1>2, <1>3 DEF Changed

LEMMA PathsStay ==
    ASSUME NEW i \in 1 .. Len(Patches), NEW j \in i + 1 .. Len(Patches), NEW d, NEW d2,
           Changed(Patches[j], d, d2), NEW im
    PROVE  /\ \A f \in Paths(Patches[i]) : f \in DOMAIN d <=> f \in DOMAIN d2
           /\ TargetOn(Patches[i], d) = TargetOn(Patches[i], d2)
           /\ GateOn(Patches[i], d, im) <=> GateOn(Patches[i], d2, im)
           /\ StandsOn(Patches[i], d) <=> StandsOn(Patches[i], d2)
<1> DEFINE q == Patches[j]
           p == Patches[i]
<1>0. j \in 1 .. Len(Patches) /\ i \in 1 .. j - 1
  BY ScriptBounds
<1>1. \A f \in Paths(p) : f \in DOMAIN d <=> f \in DOMAIN d2
  <2>1. q.kind = "write" => q.file \notin Paths(p)
    <3>1. q.kind = "write" => ModuleLeaves(q, p)
      BY <1>0, ScriptAssumption DEF LaterLeavesEarlier
    <3> QED
      BY <3>1 DEF ModuleLeaves, Paths
  <2>2. \A f \in Paths(p) : q.kind = "write" => f # q.file
    BY <2>1
  <2> HIDE DEF p, q
  <2>3. CASE d2 = d
    BY <2>3
  <2>4. CASE \E T \in Paths(q) : EditedAt(q, T, d, d2)
    BY <2>4 DEF EditedAt
  <2>5. CASE q.kind = "write" /\ Anew(q, d, d2)
    BY <2>2, <2>5 DEF Anew
  <2> QED
    BY <2>3, <2>4, <2>5 DEF Changed, q
<1>2. \A c \in Conditions(p) : Has(d, c) <=> Has(d2, c)
  BY ConditionsStay
<1>3. p.alt \cap DOMAIN d = p.alt \cap DOMAIN d2 /\ (p.file \in DOMAIN d <=> p.file \in DOMAIN d2)
  BY <1>1 DEF Paths
<1> HIDE DEF p, q
<1>4. /\ \A clause \in p.has : \A c \in clause : c \in Conditions(p)
      /\ \A c \in p.lacks : c \in Conditions(p)
      /\ \A c \in p.stops : c \in Conditions(p)
  <2>1. \A clause \in p.has : \A c \in clause : c \in Conditions(p)
    BY DEF Conditions
  <2>2. p.lacks \subseteq Conditions(p) /\ p.stops \subseteq Conditions(p)
    BY DEF Conditions
  <2> QED
    BY <2>1, <2>2
<1>5. TargetOn(p, d) = TargetOn(p, d2)
  BY <1>3 DEF TargetOn
<1>6. GateOn(p, d, im) <=> GateOn(p, d2, im)
  <2>1. \A clause \in p.has : (\E c \in clause : Has(d, c)) <=> (\E c \in clause : Has(d2, c))
    BY <1>2, <1>4
  <2>2. \A c \in p.lacks : Has(d, c) <=> Has(d2, c)
    BY <1>2, <1>4
  <2> QED
    BY <2>1, <2>2 DEF GateOn
<1>7. StandsOn(p, d) <=> StandsOn(p, d2)
  BY <1>2, <1>4 DEF StandsOn
<1> QED
  BY <1>1, <1>5, <1>6, <1>7 DEF p

LEMMA TextsStay ==
    ASSUME NEW i \in 1 .. Len(Patches), NEW j \in i + 1 .. Len(Patches), NEW d, NEW d2,
           Changed(Patches[j], d, d2), NEW T \in Paths(Patches[i]), T \in DOMAIN d
    PROVE  /\ \/ Same(Patches[i], d[T], d2[T])
              \/ \E m \in LastMark(Patches[i]) : \A x \in LookedFor(Patches[i]) : x \in d2[T] <=> x \in d[T] /\ x # m
           /\ \A m \in Marks : In(m, d[T]) => In(m, d2[T])
<1> DEFINE q == Patches[j]
           p == Patches[i]
<1>0. j \in 1 .. Len(Patches) /\ i \in 1 .. j - 1
  BY ScriptBounds
<1>1. CASE d2[T] = d[T]
  BY <1>1 DEF Same
<1>2. CASE q.kind = "edit" /\ T \in Paths(q) /\ EditedAt(q, T, d, d2)
  <2>1. EditLeaves(q, p)
    BY <1>0, <1>2, ScriptAssumption DEF LaterLeavesEarlier
  <2>2. Paths(q) \cap Paths(p) # {}
    BY <1>2
  <2>3. \A e \in Edits(q), o \in Edits(p) : /\ Won(e) \cap LooksFor(o) = {}
                                           /\ Takes(e) \cap LooksFor(o) \subseteq LastMark(p)
    BY <2>1, <2>2 DEF EditLeaves, Paths
  <2> DEFINE a == d[T]
             b == d2[T]
  <2>4. Grown(q, a, b)
    BY <1>2 DEF EditedAt
  <2> HIDE DEF p, q, a, b
  <2>5. \A x \in LookedFor(p) : x \in b => x \in a
    <3> SUFFICES ASSUME NEW o \in Edits(p), NEW x \in LooksFor(o), x \in b, x \notin a PROVE FALSE
      BY DEF LookedFor
    <3>1. PICK e \in Edits(q) : x \in Won(e)
      BY <2>4 DEF Grown
    <3> QED
      BY <2>3, <3>1
  <2>6. \A x \in LookedFor(p) : x \in a /\ x \notin b => x \in LastMark(p)
    <3> SUFFICES ASSUME NEW o \in Edits(p), NEW x \in LooksFor(o), x \in a, x \notin b PROVE x \in LastMark(p)
      BY DEF LookedFor
    <3>1. PICK e \in Edits(q) : x \in Takes(e)
      BY <2>4 DEF Grown
    <3> QED
      BY <2>3, <3>1
  <2>7. \A m, n \in LastMark(p) : m = n
    BY DEF LastMark
  <2>8. \/ Same(p, a, b) \/ \E m \in LastMark(p) : \A x \in LookedFor(p) : x \in b <=> x \in a /\ x # m
    <3>1. CASE \A x \in LookedFor(p) : x \in a => x \in b
      BY <2>5, <3>1 DEF Same
    <3>2. CASE \E m \in LookedFor(p) : m \in a /\ m \notin b
      <4>1. PICK m \in LookedFor(p) : m \in a /\ m \notin b
        BY <3>2
      <4>2. m \in LastMark(p)
        BY <2>6, <4>1
      <4>3. \A x \in LookedFor(p) : x \in b <=> x \in a /\ x # m
        BY <2>5, <2>6, <2>7, <4>1, <4>2
      <4> QED
        BY <4>2, <4>3
    <3> QED
      BY <3>1, <3>2
  <2>9. \A m \in Marks : In(m, a) => In(m, b)
    BY <2>4 DEF Grown
  <2> QED
    BY <2>8, <2>9 DEF a, b, p
<1>3. d2[T] = d[T] \/ (q.kind = "edit" /\ T \in Paths(q) /\ EditedAt(q, T, d, d2))
  <2>1. CASE d2 = d
    BY <2>1
  <2>2. CASE q.kind = "edit" /\ \E S \in Paths(q) : EditedAt(q, S, d, d2)
    <3>1. PICK S \in Paths(q) : EditedAt(q, S, d, d2)
      BY <2>2
    <3>2. CASE S = T
      BY <2>2, <3>1, <3>2
    <3>3. CASE S # T
      BY <3>1, <3>3 DEF EditedAt
    <3> QED
      BY <3>2, <3>3
  <2>3. CASE q.kind = "write" /\ Anew(q, d, d2)
    <3>1. ModuleLeaves(q, p)
      BY <1>0, <2>3, ScriptAssumption DEF LaterLeavesEarlier
    <3>2. T # q.file
      BY <3>1 DEF ModuleLeaves, Paths
    <3> QED
      BY <2>3, <3>2 DEF Anew
  <2> QED
    BY <2>1, <2>2, <2>3 DEF Changed
<1> QED
  BY <1>1, <1>2, <1>3

LEMMA TargetInPaths ==
    ASSUME NEW p, NEW d
    PROVE  TargetOn(p, d) \in Paths(p)
<1>1. TargetOn(p, d) = p.file \/ (p.alt \cap DOMAIN d # {} /\ TargetOn(p, d) = AnyOf(p.alt \cap DOMAIN d))
  BY DEF TargetOn
<1>2. p.alt \cap DOMAIN d # {} => AnyOf(p.alt \cap DOMAIN d) \in p.alt \cap DOMAIN d
  BY DEF AnyOf
<1> QED
  BY <1>1, <1>2 DEF Paths

LEMMA FineStays ==
    ASSUME NEW i \in 1 .. Len(Patches), NEW j \in i + 1 .. Len(Patches), NEW d, NEW d2,
           Changed(Patches[j], d, d2), NEW im
    PROVE  Fine(i, d, im) <=> Fine(i, d2, im)
BY PathsStay DEF Fine

LEMMA MadeStays ==
    ASSUME NEW j \in 1 .. Len(Patches), NEW n \in 1 .. j, NEW d, NEW d2,
           Changed(Patches[j], d, d2), NEW im
    PROVE  MadeIn(n, d, im) <=> MadeIn(n, d2, im)
<1>1. ASSUME NEW k \in 1 .. n - 1 PROVE Fine(k, d, im) <=> Fine(k, d2, im)
  <2>1. k \in 1 .. Len(Patches) /\ j \in k + 1 .. Len(Patches)
    BY ScriptBounds
  <2> QED
    BY <2>1, FineStays
<1> QED
  BY <1>1 DEF MadeIn

LEMMA SettledStays ==
    ASSUME NEW i \in 1 .. Len(Patches), NEW j \in i + 1 .. Len(Patches), NEW d, NEW d2,
           Changed(Patches[j], d, d2), NEW im, Settled(i, d, im)
    PROVE  Settled(i, d2, im)
<1> DEFINE p == Patches[i]
           T == TargetOn(p, d)
<1>0. j \in 1 .. Len(Patches) /\ i \in 1 .. j /\ Len(p.edits) \in Nat /\ Edits(p) \subseteq AllEdits
  BY ScriptBounds
<1>1. /\ \A f \in Paths(p) : f \in DOMAIN d <=> f \in DOMAIN d2
      /\ TargetOn(p, d) = TargetOn(p, d2)
      /\ GateOn(p, d, im) <=> GateOn(p, d2, im)
      /\ StandsOn(p, d) <=> StandsOn(p, d2)
  BY PathsStay
<1>2. MadeIn(i, d, im) <=> MadeIn(i, d2, im)
  BY <1>0, MadeStays
<1>3. CASE p.kind = "edit"
  <2>1. CASE T \notin DOMAIN d \/ ~(AllSkipped(p, d[T]) \/ DriftsOn(p, d[T]))
    <3>1. T \in Paths(p)
      BY TargetInPaths
    <3>2. T \in DOMAIN d <=> T \in DOMAIN d2
      BY <1>1, <3>1
    <3> QED
      BY <1>1, <1>2, <1>3, <2>1, <3>2 DEF Settled
  <2>2. CASE T \in DOMAIN d /\ (AllSkipped(p, d[T]) \/ DriftsOn(p, d[T]))
    <3>1. T \in Paths(p)
      BY TargetInPaths
    <3>2. \/ Same(p, d[T], d2[T])
          \/ \E m \in LastMark(p) : \A x \in LookedFor(p) : x \in d2[T] <=> x \in d[T] /\ x # m
      BY <2>2, <3>1, TextsStay
    <3>3. CASE Same(p, d[T], d2[T])
      <4>1. AllSkipped(p, d2[T]) \/ DriftsOn(p, d2[T])
        BY <2>2, <3>3, SameIsAll
      <4> QED
        BY <1>1, <1>3, <4>1 DEF Settled
    <3>4. ASSUME NEW m \in LastMark(p), \A x \in LookedFor(p) : x \in d2[T] <=> x \in d[T] /\ x # m
          PROVE  Settled(i, d2, im)
      <4>1. CASE DriftsOn(p, d[T])
        <5>1. DriftsOn(p, d2[T])
          BY <3>4, <4>1, LosingLast
        <5> QED
          BY <1>1, <1>3, <5>1 DEF Settled
      <4>2. CASE AllSkipped(p, d[T])
        <5>1. /\ Len(p.edits) > 1 /\ p.alt = {}
              /\ Needed(p.edits[1]) /\ <<p.file, MarkOf(p.edits[1])>> \in p.stops
          BY <3>4 DEF LastMark
        <5>2. SkippedIn(p.edits[1], d[T], FALSE)
          <6>1. 1 \in 1 .. Len(p.edits)
            BY <1>0, <5>1
          <6> QED
            BY <4>2, <6>1 DEF AllSkipped
        <5>3. MarkOf(p.edits[1]) \in d[T]
          BY <5>1, <5>2 DEF SkippedIn, Needed
        <5>4. T = p.file
          BY <3>1, <5>1 DEF Paths
        <5>5. Has(d, <<p.file, MarkOf(p.edits[1])>>)
          BY <2>2, <5>3, <5>4 DEF Has
        <5>6. StandsOn(p, d)
          BY <5>1, <5>5 DEF StandsOn
        <5> QED
          BY <1>1, <1>3, <5>6 DEF Settled
      <4> QED
        BY <2>2, <4>1, <4>2
    <3> QED
      BY <3>2, <3>3, <3>4
  <2> QED
    BY <2>1, <2>2
<1>4. CASE p.kind # "edit"
  <2>1. p.file \in DOMAIN d <=> p.file \in DOMAIN d2
    BY <1>1 DEF Paths
  <2> QED
    BY <1>1, <1>4, <2>1 DEF Settled
<1> QED
  BY <1>3, <1>4

----------------------------------------------------------------------------
(* What is known of the patches that ran, and of those that did not yet *)

WholeIn(p, text) == \A m \in Required(p) : In(m, text)
\* A patch whose gate matches is in when the log is quiet, a module that is fine is there.
Tells(i, d, im, quiet) ==
    LET p == Patches[i]
        T == TargetOn(p, d)
    IN  IF p.kind = "edit"
        THEN quiet /\ GateOn(p, d, im) /\ (p.asks => MadeIn(i, d, im)) /\ T \in DOMAIN d =>
                 WholeIn(p, d[T]) \/ StandsOn(p, Shipped(im))
        ELSE /\ quiet /\ GateOn(p, d, im) => Fine(i, d, im)
             /\ Fine(i, d, im) => p.file \in DOMAIN d
\* A patch that has not run
Ahead(i, d, im) ==
    LET p == Patches[i]
    IN  /\ \A c \in p.stops : (p.kind = "edit" \/ c[1] # p.file) /\ Has(d, c) => Has(Shipped(im), c)
        /\ p.kind = "write" /\ p.file \in DOMAIN Shipped(im) => p.file \in DOMAIN d

Passed(n, d, im, quiet) == \A i \in 1 .. n - 1 : Settled(i, d, im) /\ Tells(i, d, im, quiet)
ToCome(n, d, im) == \A i \in n .. Len(Patches) : Ahead(i, d, im)
ImportFound(g, n, d) ==
    \E k \in 1 .. n - 1 : Patches[k].kind = "write" /\ Patches[k].file = g.from /\ g.from \in DOMAIN d
Imports(n, d, im) ==
    \A g \in GuardedImports :
        Has(d, <<g.file, g.mark>>) => Has(Shipped(im), <<g.file, g.mark>>) \/ ImportFound(g, n, d)

LEMMA ChangeBrings ==
    ASSUME NEW j \in 1 .. Len(Patches), NEW d, NEW d2, Changed(Patches[j], d, d2),
           NEW c, Has(d2, c), ~Has(d, c)
    PROVE  Brings(Patches[j], c)
<1> DEFINE q == Patches[j]
<1>1. CASE q.kind = "edit" /\ \E T \in Paths(q) : EditedAt(q, T, d, d2)
  <2>1. PICK T \in Paths(q) : EditedAt(q, T, d, d2)
    BY <1>1
  <2>2. c[1] = T
    BY <2>1 DEF EditedAt, Has
  <2>3. \E e \in Edits(q) : c[2] \in Won(e)
    BY <2>1, <2>2 DEF EditedAt, Grown, Has
  <2> QED
    BY <1>1, <2>1, <2>2, <2>3 DEF Brings, Paths
<1>2. CASE q.kind = "write" /\ Anew(q, d, d2)
  <2>1. c[1] = q.file
    BY <1>2 DEF Anew, Has
  <2>2. c[2] \in q.source
    BY <1>2, <2>1 DEF Anew, Has
  <2> QED
    BY <1>2, <2>1, <2>2 DEF Brings
<1>3. d2 # d
  OBVIOUS
<1> QED
  BY <1>1, <1>2, <1>3 DEF Changed

LEMMA TellsStays ==
    ASSUME NEW i \in 1 .. Len(Patches), NEW j \in i + 1 .. Len(Patches), NEW d, NEW d2,
           Changed(Patches[j], d, d2), NEW im, NEW quiet, NEW quiet2, quiet2 => quiet,
           Tells(i, d, im, quiet)
    PROVE  Tells(i, d2, im, quiet2)
<1> DEFINE p == Patches[i]
           T == TargetOn(p, d)
<1>0. j \in 1 .. Len(Patches) /\ i \in 1 .. j
  BY ScriptBounds
<1>1. /\ \A f \in Paths(p) : f \in DOMAIN d <=> f \in DOMAIN d2
      /\ TargetOn(p, d) = TargetOn(p, d2)
      /\ GateOn(p, d, im) <=> GateOn(p, d2, im)
  BY PathsStay
<1>2. (MadeIn(i, d, im) <=> MadeIn(i, d2, im)) /\ (Fine(i, d, im) <=> Fine(i, d2, im))
  BY <1>0, MadeStays, FineStays
<1>3. T \in Paths(p) /\ p.file \in Paths(p)
  BY TargetInPaths DEF Paths
<1>4. CASE p.kind = "edit"
  <2>1. T \in DOMAIN d /\ WholeIn(p, d[T]) => WholeIn(p, d2[T])
    <3> SUFFICES ASSUME T \in DOMAIN d, WholeIn(p, d[T]), NEW m \in Required(p) PROVE In(m, d2[T])
      BY DEF WholeIn
    <3>1. m \in Marks
      BY DEF In, MarksIn, WholeIn
    <3> QED
      BY <1>3, <3>1, TextsStay DEF WholeIn
  <2>2. T \in DOMAIN d <=> T \in DOMAIN d2
    BY <1>1, <1>3
  <2> QED
    BY <1>1, <1>2, <1>4, <2>1, <2>2 DEF Tells
<1>5. CASE p.kind # "edit"
  BY <1>1, <1>2, <1>3, <1>5 DEF Tells
<1> QED
  BY <1>4, <1>5

LEMMA AheadStays ==
    ASSUME NEW j \in 1 .. Len(Patches), NEW i \in j + 1 .. Len(Patches), NEW d, NEW d2,
           Changed(Patches[j], d, d2), NEW im, Ahead(i, d, im)
    PROVE  Ahead(i, d2, im)
<1> DEFINE p == Patches[i]
           q == Patches[j]
<1>0. i \in 1 .. Len(Patches) /\ j \in 1 .. i - 1 /\ i # j
  BY ScriptBounds
<1>1. ASSUME NEW c \in p.stops, p.kind = "edit" \/ c[1] # p.file, Has(d2, c)
      PROVE  Has(d, c)
  <2>1. ~Brings(q, c)
    BY <1>0, <1>1, ScriptAssumption DEF StopsAreOwn
  <2> QED
    BY <1>1, <2>1, ChangeBrings
<1>2. p.kind = "write" /\ p.file \in DOMAIN d => p.file \in DOMAIN d2
  <2>1. CASE d2 = d
    BY <2>1
  <2>2. CASE \E T \in Paths(q) : EditedAt(q, T, d, d2)
    BY <2>2 DEF EditedAt
  <2>3. CASE p.kind = "write" /\ q.kind = "write" /\ Anew(q, d, d2)
    <3>1. ModuleLeaves(p, q)
      BY <1>0, <2>3, ScriptAssumption DEF LaterLeavesEarlier
    <3>2. p.file # q.file
      BY <3>1 DEF ModuleLeaves
    <3> QED
      BY <2>3, <3>2 DEF Anew
  <2> QED
    BY <2>1, <2>2, <2>3 DEF Changed
<1> QED
  BY <1>1, <1>2 DEF Ahead

\* The j-th patch has run.
LEMMA Onwards ==
    ASSUME NEW j \in 1 .. Len(Patches), NEW d, NEW d2, Changed(Patches[j], d, d2), NEW im,
           NEW quiet, NEW quiet2, quiet2 => quiet,
           Passed(j, d, im, quiet), ToCome(j, d, im), Imports(j, d, im),
           Settled(j, d2, im), Tells(j, d2, im, quiet2),
           d2 = d \/ (Patches[j].asks => MadeIn(j, d, im))
    PROVE  Passed(j + 1, d2, im, quiet2) /\ ToCome(j + 1, d2, im) /\ Imports(j + 1, d2, im)
<1>0. Len(Patches) \in Nat
  BY ScriptBounds
<1>1. Passed(j + 1, d2, im, quiet2)
  <2> SUFFICES ASSUME NEW i \in 1 .. j PROVE Settled(i, d2, im) /\ Tells(i, d2, im, quiet2)
    BY DEF Passed
  <2>1. CASE i = j
    BY <2>1
  <2>2. CASE i # j
    <3>1. i \in 1 .. Len(Patches) /\ j \in i + 1 .. Len(Patches) /\ i \in 1 .. j - 1
      BY <1>0, <2>2
    <3>2. Settled(i, d, im) /\ Tells(i, d, im, quiet)
      BY <3>1 DEF Passed
    <3>3. Settled(i, d2, im)
      BY <3>1, <3>2, SettledStays
    <3>4. Tells(i, d2, im, quiet2)
      BY <3>1, <3>2, TellsStays
    <3> QED
      BY <3>3, <3>4
  <2> QED
    BY <2>1, <2>2
<1>2. ToCome(j + 1, d2, im)
  <2> SUFFICES ASSUME NEW i \in j + 1 .. Len(Patches) PROVE Ahead(i, d2, im)
    BY DEF ToCome
  <2>1. i \in j .. Len(Patches)
    BY <1>0
  <2>2. Ahead(i, d, im)
    BY <2>1 DEF ToCome
  <2> QED
    BY <2>2, AheadStays
<1>3. ASSUME NEW g \in GuardedImports, Has(d2, <<g.file, g.mark>>), ~Has(Shipped(im), <<g.file, g.mark>>)
      PROVE  ImportFound(g, j + 1, d2)
  <2>1. \E k \in 1 .. j - 1 : Patches[k].kind = "write" /\ Patches[k].file = g.from /\ g.from \in DOMAIN d
    <3>1. CASE Has(d, <<g.file, g.mark>>)
      BY <1>3, <3>1 DEF Imports, ImportFound
    <3>2. CASE ~Has(d, <<g.file, g.mark>>)
      <4>1. Brings(Patches[j], <<g.file, g.mark>>)
        BY <1>3, <3>2, ChangeBrings
      <4>2. /\ Patches[j].asks
            /\ \E i \in 1 .. j - 1 : Patches[i].kind = "write" /\ Patches[i].file = g.from /\ SameScript(i, j)
        BY <4>1, ScriptAssumption DEF ImportsAsk
      <4>3. PICK i \in 1 .. j - 1 : Patches[i].kind = "write" /\ Patches[i].file = g.from /\ SameScript(i, j)
        BY <4>2
      <4>4. MadeIn(j, d, im)
        BY <1>3, <3>2, <4>2
      <4>5. Fine(i, d, im)
        BY <4>3, <4>4 DEF MadeIn
      <4>6. Tells(i, d, im, quiet)
        BY DEF Passed
      <4>7. g.from \in DOMAIN d
        BY <4>3, <4>5, <4>6 DEF Tells
      <4> QED
        BY <4>3, <4>7
    <3> QED
      BY <3>1, <3>2
  <2>2. PICK k \in 1 .. j - 1 : Patches[k].kind = "write" /\ Patches[k].file = g.from /\ g.from \in DOMAIN d
    BY <2>1
  <2>3. k \in 1 .. Len(Patches) /\ j \in k + 1 .. Len(Patches) /\ k \in 1 .. (j + 1) - 1
    BY <1>0
  <2>4. Patches[k].file \in Paths(Patches[k])
    BY DEF Paths
  <2>5. g.from \in DOMAIN d2
    BY <2>2, <2>3, <2>4, PathsStay
  <2> QED
    BY <2>2, <2>3, <2>5 DEF ImportFound
<1>4. Imports(j + 1, d2, im)
  BY <1>3 DEF Imports
<1> QED
  BY <1>1, <1>2, <1>4

----------------------------------------------------------------------------
(* Within a patch *)

\* Why the k-th edit will be skipped when the n-th is reached, if nothing comes
\* between: what it looks for is not there, it follows a change, or its mark is in,
\* or will be.
Excuse(es, k, n, text) ==
    \/ es[k].onChange
    \/ es[k].only # {} /\ es[k].only \cap text = {}
    \/ es[k].unless \cap text # {}
    \/ MarkOf(es[k]) \in text
    \/ \E l \in n .. Len(es) : l > k /\ Needed(es[l]) /\ MarkOf(es[l]) = MarkOf(es[k])
Reached(p, text, n, new, ch) ==
    \E codes, flags : Pass(p, text, n, codes, flags) /\ codes[n] = new /\ flags[n] = ch
\* A run that drifts, at the n-th edit
Drifting(p, text, n, new, ch) ==
    \E l \in n .. Len(p.edits) : \E codes, flags :
        DriftsAt(p, text, l, codes, flags) /\ Same(p, codes[n], new) /\ flags[n] = ch

\* The edits before the n-th have made `new` of the text.
Midway(p, text, n, new, ch) ==
    /\ Grown(p, text, new) /\ Reached(p, text, n, new, ch)
    /\ \A k \in 1 .. n - 1 : Excuse(p.edits, k, n, new)
    /\ ~ch => new = text
Quiet(p, text, n, new, ch) == (AllSkipped(p, text) /\ ~ch) \/ Drifting(p, text, n, new, ch)

LEMMA LostAreTaken ==
    ASSUME NEW e, NEW text
    PROVE  Lost(e, text) \subseteq Takes(e)
BY DEF Lost, Found, Takes

LEMMA GrowsByEdit ==
    ASSUME NEW p, NEW e \in Edits(p), e \in AllEdits, NEW a, NEW b, Grown(p, a, b)
    PROVE  Grown(p, a, Edited(e, b))
<1>1. \A x \in Edited(e, b) : x \in b \/ x \in Won(e)
  BY DEF Edited
<1>2. \A x \in b : x \in Edited(e, b) \/ x \in Takes(e)
  BY LostAreTaken DEF Edited
<1>3. \A m \in Marks : In(m, b) => In(m, Edited(e, b))
  BY EditKeeps
<1> QED
  BY <1>1, <1>2, <1>3 DEF Grown

LEMMA MidStart ==
    ASSUME NEW p, NEW text
    PROVE  Midway(p, text, 1, text, FALSE)
<1>1. Grown(p, text, text)
  BY DEF Grown
<1>2. Reached(p, text, 1, text, FALSE)
  <2> DEFINE codes == [k \in {1} |-> text]
             flags == [k \in {1} |-> FALSE]
  <2>1. codes[1] = text /\ flags[1] = FALSE
    OBVIOUS
  <2>2. 1 .. 1 - 1 = {}
    OBVIOUS
  <2> HIDE DEF codes, flags
  <2>3. Pass(p, text, 1, codes, flags)
    BY <2>1, <2>2 DEF Pass, Same
  <2> QED
    BY <2>1, <2>3 DEF Reached
<1>3. 1 .. 1 - 1 = {}
  OBVIOUS
<1> QED
  BY <1>1, <1>2, <1>3 DEF Midway

LEMMA ReachNext ==
    ASSUME NEW p, NEW text, NEW n \in Nat \ {0}, NEW new, NEW ch, NEW new2, NEW ch2,
           Reached(p, text, n, new, ch),
           \/ SkippedIn(p.edits[n], new, ch) /\ new2 = new /\ ch2 = ch
           \/ /\ ~SkippedIn(p.edits[n], new, ch) /\ Findable(p.edits[n], new)
              /\ new2 = Edited(p.edits[n], new) /\ ch2 = TRUE
    PROVE  Reached(p, text, n + 1, new2, ch2)
<1>1. PICK codes, flags : Pass(p, text, n, codes, flags) /\ codes[n] = new /\ flags[n] = ch
  BY DEF Reached
<1> DEFINE codes2 == [k \in 1 .. n + 1 |-> IF k = n + 1 THEN new2 ELSE codes[k]]
           flags2 == [k \in 1 .. n + 1 |-> IF k = n + 1 THEN ch2 ELSE flags[k]]
<1>2. /\ codes2[n + 1] = new2 /\ flags2[n + 1] = ch2
      /\ \A k \in 1 .. n : codes2[k] = codes[k] /\ flags2[k] = flags[k]
  OBVIOUS
<1> HIDE DEF codes2, flags2
<1>3. Same(p, codes2[1], text) /\ flags2[1] = FALSE
  <2>1. 1 \in 1 .. n
    OBVIOUS
  <2> QED
    BY <1>1, <1>2, <2>1 DEF Pass
<1>4. ASSUME NEW k \in 1 .. (n + 1) - 1
      PROVE  \/ /\ SkippedIn(p.edits[k], codes2[k], flags2[k])
                /\ flags2[k + 1] = flags2[k] /\ Same(p, codes2[k + 1], codes2[k])
             \/ /\ ~SkippedIn(p.edits[k], codes2[k], flags2[k]) /\ Findable(p.edits[k], codes2[k])
                /\ flags2[k + 1] = TRUE /\ Same(p, codes2[k + 1], Edited(p.edits[k], codes2[k]))
  <2>1. CASE k = n
    <3>1. codes2[k] = new /\ flags2[k] = ch /\ codes2[k + 1] = new2 /\ flags2[k + 1] = ch2
      BY <1>1, <1>2, <2>1
    <3>2. Same(p, new2, new2)
      BY DEF Same
    <3> QED
      BY <2>1, <3>1, <3>2
  <2>2. CASE k # n
    <3>1. k \in 1 .. n - 1 /\ k \in 1 .. n /\ k + 1 \in 1 .. n
      BY <2>2
    <3>2. codes2[k] = codes[k] /\ flags2[k] = flags[k] /\ codes2[k + 1] = codes[k + 1] /\ flags2[k + 1] = flags[k + 1]
      BY <1>2, <3>1
    <3> QED
      BY <1>1, <3>1, <3>2 DEF Pass
  <2> QED
    BY <2>1, <2>2
<1>5. Pass(p, text, n + 1, codes2, flags2)
  BY <1>3, <1>4 DEF Pass
<1> QED
  BY <1>2, <1>5 DEF Reached

LEMMA MidSkips ==
    ASSUME NEW i \in 1 .. Len(Patches), NEW text, NEW n \in 1 .. Len(Patches[i].edits), NEW new, NEW ch,
           Midway(Patches[i], text, n, new, ch), SkippedIn(Patches[i].edits[n], new, ch)
    PROVE  Midway(Patches[i], text, n + 1, new, ch)
<1> DEFINE p == Patches[i]
           es == p.edits
<1>0. Len(es) \in Nat /\ n \in Nat \ {0}
  BY ScriptBounds
<1>1. Reached(p, text, n + 1, new, ch)
  BY <1>0, ReachNext DEF Midway
<1>2. ASSUME NEW k \in 1 .. n PROVE Excuse(es, k, n + 1, new)
  <2>1. CASE k = n
    <3>1. ~ch \/ ~es[k].onChange \/ es[k].onChange
      OBVIOUS
    <3> QED
      BY <2>1 DEF SkippedIn, Excuse
  <2>2. CASE k # n
    <3>1. Excuse(es, k, n, new)
      BY <1>0, <2>2 DEF Midway
    <3>2. ASSUME NEW l \in n .. Len(es), l > k, Needed(es[l]), MarkOf(es[l]) = MarkOf(es[k])
          PROVE  Excuse(es, k, n + 1, new)
      <4>1. CASE l = n
        <5>1. MarkOf(es[n]) \in new \/ (es[n].onChange /\ ~ch) \/ es[n].only # {} \/ es[n].unless \cap new # {}
          BY DEF SkippedIn
        <5>2. MarkOf(es[n]) \in new
          BY <3>2, <4>1, <5>1 DEF Needed
        <5> QED
          BY <3>2, <4>1, <5>2 DEF Excuse
      <4>2. CASE l # n
        <5>1. l \in n + 1 .. Len(es)
          BY <1>0, <4>2
        <5> QED
          BY <3>2, <5>1 DEF Excuse
      <4> QED
        BY <4>1, <4>2
    <3> QED
      BY <3>1, <3>2 DEF Excuse
  <2> QED
    BY <2>1, <2>2
<1> QED
  BY <1>0, <1>1, <1>2 DEF Midway

LEMMA MidEdits ==
    ASSUME NEW i \in 1 .. Len(Patches), NEW text, NEW n \in 1 .. Len(Patches[i].edits), NEW new, NEW ch,
           Midway(Patches[i], text, n, new, ch),
           ~SkippedIn(Patches[i].edits[n], new, ch), Findable(Patches[i].edits[n], new)
    PROVE  Midway(Patches[i], text, n + 1, Edited(Patches[i].edits[n], new), TRUE)
<1> DEFINE p == Patches[i]
           es == p.edits
           e == es[n]
           new2 == Edited(e, new)
<1>0. Len(es) \in Nat /\ n \in Nat \ {0} /\ e \in Edits(p) /\ e \in AllEdits
  BY ScriptBounds DEF Edits
<1>1. Reached(p, text, n + 1, new2, TRUE)
  BY <1>0, ReachNext DEF Midway
<1>2. Grown(p, text, new2)
  BY <1>0, GrowsByEdit DEF Midway
<1>3. \A k \in 1 .. Len(es) : SkippedAfterwards(es, k)
  BY ScriptAssumption
<1>4. /\ \A x \in new2 : x \in new \/ x \in Won(e)
      /\ \A x \in new : x \in new2 \/ x \in Takes(e)
      /\ e.marks => MarkOf(e) \in new2
  BY LostAreTaken DEF Edited, Won
<1> HIDE DEF new2
<1>5. ASSUME NEW k \in 1 .. n PROVE Excuse(es, k, n + 1, new2)
  <2>0. k \in 1 .. Len(es)
    BY <1>0
  <2>1. SkippedAfterwards(es, k)
    BY <1>3, <2>0
  <2>2. CASE k = n
    <3>1. \/ es[k].onChange \/ es[k].marks
          \/ \E l \in k + 1 .. Len(es) : Needed(es[l]) /\ MarkOf(es[l]) = MarkOf(es[k])
      BY <2>1 DEF SkippedAfterwards
    <3>2. \A l \in k + 1 .. Len(es) : l > k
      BY <1>0
    <3> QED
      BY <1>4, <2>2, <3>1, <3>2 DEF Excuse
  <2>3. CASE k # n
    <3>1. Excuse(es, k, n, new)
      BY <1>0, <2>3 DEF Midway
    <3>2. n \in k + 1 .. Len(es)
      BY <1>0, <2>3
    <3>3. /\ Takes(e) \cap (es[k].unless \cup {MarkOf(es[k])}) = {}
          /\ Won(e) \cap es[k].only = {}
      BY <2>1, <3>2 DEF SkippedAfterwards
    <3>4. CASE es[k].onChange
      BY <3>4 DEF Excuse
    <3>5. CASE es[k].only # {} /\ es[k].only \cap new = {}
      <4>1. es[k].only \cap new2 = {}
        BY <1>4, <3>3, <3>5
      <4> QED
        BY <3>5, <4>1 DEF Excuse
    <3>6. CASE es[k].unless \cap new # {}
      <4>1. es[k].unless \cap new2 # {}
        BY <1>4, <3>3, <3>6
      <4> QED
        BY <4>1 DEF Excuse
    <3>7. CASE MarkOf(es[k]) \in new
      <4>1. MarkOf(es[k]) \in new2
        BY <1>4, <3>3, <3>7
      <4> QED
        BY <4>1 DEF Excuse
    <3>8. ASSUME NEW l \in n .. Len(es), l > k, Needed(es[l]), MarkOf(es[l]) = MarkOf(es[k])
          PROVE  Excuse(es, k, n + 1, new2)
      <4>1. CASE l = n
        <5>1. MarkOf(es[k]) \in new2
          BY <1>4, <3>8, <4>1 DEF Needed
        <5> QED
          BY <5>1 DEF Excuse
      <4>2. CASE l # n
        <5>1. l \in n + 1 .. Len(es)
          BY <1>0, <4>2
        <5> QED
          BY <3>8, <5>1 DEF Excuse
      <4> QED
        BY <4>1, <4>2
    <3> QED
      BY <3>1, <3>4, <3>5, <3>6, <3>7, <3>8 DEF Excuse
  <2> QED
    BY <2>2, <2>3
<1>6. \A k \in 1 .. (n + 1) - 1 : Excuse(es, k, n + 1, new2)
  BY <1>0, <1>5
<1>7. Midway(p, text, n + 1, new2, TRUE)
  BY <1>1, <1>2, <1>6 DEF Midway
<1> QED
  BY <1>7 DEF new2

\* After all edits the patch would skip each of them.
LEMMA MidEnds ==
    ASSUME NEW i \in 1 .. Len(Patches), NEW text, NEW new, NEW ch,
           Midway(Patches[i], text, Len(Patches[i].edits) + 1, new, ch)
    PROVE  AllSkipped(Patches[i], new)
<1> DEFINE es == Patches[i].edits
<1>0. Len(es) \in Nat
  BY ScriptBounds
<1> SUFFICES ASSUME NEW k \in 1 .. Len(es) PROVE SkippedIn(es[k], new, FALSE)
  BY DEF AllSkipped
<1>1. Excuse(es, k, Len(es) + 1, new)
  BY <1>0 DEF Midway
<1>2. Len(es) + 1 .. Len(es) = {}
  BY <1>0
<1> QED
  BY <1>1, <1>2 DEF Excuse, SkippedIn

LEMMA MidDrifts ==
    ASSUME NEW p, NEW text, NEW n \in 1 .. Len(p.edits), NEW new, NEW ch,
           Midway(p, text, n, new, ch), ~SkippedIn(p.edits[n], new, ch), ~Findable(p.edits[n], new)
    PROVE  DriftsOn(p, text)
<1>1. PICK codes, flags : Pass(p, text, n, codes, flags) /\ codes[n] = new /\ flags[n] = ch
  BY DEF Midway, Reached
<1>2. DriftsAt(p, text, n, codes, flags)
  BY <1>1 DEF DriftsAt
<1> QED
  BY <1>2 DEF DriftsOn

\* What the edits do where they were all done, or where they drifted.
LEMMA QuietStart ==
    ASSUME NEW p, NEW text, Len(p.edits) \in Nat, AllSkipped(p, text) \/ DriftsOn(p, text)
    PROVE  Quiet(p, text, 1, text, FALSE)
<1>1. CASE DriftsOn(p, text)
  <2>1. PICK l \in 1 .. Len(p.edits) : \E codes, flags : DriftsAt(p, text, l, codes, flags)
    BY <1>1 DEF DriftsOn
  <2>2. PICK codes, flags : DriftsAt(p, text, l, codes, flags)
    BY <2>1
  <2>3. Same(p, codes[1], text) /\ flags[1] = FALSE
    BY <2>2 DEF DriftsAt, Pass
  <2>4. Drifting(p, text, 1, text, FALSE)
    BY <2>1, <2>2, <2>3 DEF Drifting
  <2> QED
    BY <2>4 DEF Quiet
<1> QED
  BY <1>1 DEF Quiet

LEMMA QuietNext ==
    ASSUME NEW i \in 1 .. Len(Patches), NEW text, NEW n \in 1 .. Len(Patches[i].edits),
           NEW new, NEW ch, NEW new2, NEW ch2,
           Quiet(Patches[i], text, n, new, ch), Midway(Patches[i], text, n, new, ch), ch \in BOOLEAN,
           \/ SkippedIn(Patches[i].edits[n], new, ch) /\ new2 = new /\ ch2 = ch
           \/ /\ ~SkippedIn(Patches[i].edits[n], new, ch) /\ Findable(Patches[i].edits[n], new)
              /\ new2 = Edited(Patches[i].edits[n], new) /\ ch2 = TRUE
    PROVE  Quiet(Patches[i], text, n + 1, new2, ch2)
<1> DEFINE p == Patches[i]
           e == p.edits[n]
<1>0. Len(p.edits) \in Nat /\ e \in Edits(p)
  BY ScriptBounds DEF Edits
<1>1. CASE AllSkipped(p, text) /\ ~ch
  <2>1. new = text /\ ch = FALSE
    BY <1>1 DEF Midway
  <2>2. SkippedIn(e, new, ch)
    BY <1>1, <2>1 DEF AllSkipped
  <2> QED
    BY <1>1, <2>2 DEF Quiet
<1>2. CASE Drifting(p, text, n, new, ch)
  <2>1. PICK l \in n .. Len(p.edits) : \E codes, flags :
            DriftsAt(p, text, l, codes, flags) /\ Same(p, codes[n], new) /\ flags[n] = ch
    BY <1>2 DEF Drifting
  <2>2. PICK codes, flags : DriftsAt(p, text, l, codes, flags) /\ Same(p, codes[n], new) /\ flags[n] = ch
    BY <2>1
  <2>3. /\ SkippedIn(e, codes[n], ch) <=> SkippedIn(e, new, ch)
        /\ Findable(e, codes[n]) <=> Findable(e, new)
        /\ Same(p, Edited(e, codes[n]), Edited(e, new))
    BY <1>0, <2>2, SameSkips
  <2>4. l # n
    <3> SUFFICES ASSUME l = n PROVE FALSE
      OBVIOUS
    <3>1. ~SkippedIn(e, codes[n], ch) /\ ~Findable(e, codes[n])
      BY <2>2 DEF DriftsAt
    <3> QED
      BY <2>3, <3>1
  <2>5. l \in n + 1 .. Len(p.edits) /\ n \in 1 .. l - 1
    BY <1>0, <2>1, <2>4
  <2>6. \/ /\ SkippedIn(e, codes[n], ch)
           /\ flags[n + 1] = ch /\ Same(p, codes[n + 1], codes[n])
        \/ /\ ~SkippedIn(e, codes[n], ch) /\ Findable(e, codes[n])
           /\ flags[n + 1] = TRUE /\ Same(p, codes[n + 1], Edited(e, codes[n]))
    BY <2>2, <2>5 DEF DriftsAt, Pass
  <2>7. \A a, b, c : Same(p, a, b) /\ Same(p, b, c) => Same(p, a, c)
    BY DEF Same
  <2>8. Same(p, codes[n + 1], new2) /\ flags[n + 1] = ch2
    <3>1. CASE SkippedIn(e, new, ch)
      <4>1. flags[n + 1] = ch /\ Same(p, codes[n + 1], codes[n]) /\ new2 = new /\ ch2 = ch
        BY <2>3, <2>6, <3>1
      <4>2. Same(p, codes[n + 1], new)
        BY <2>2, <2>7, <4>1
      <4> QED
        BY <4>1, <4>2
    <3>2. CASE ~SkippedIn(e, new, ch)
      <4>1. flags[n + 1] = TRUE /\ Same(p, codes[n + 1], Edited(e, codes[n])) /\ new2 = Edited(e, new) /\ ch2 = TRUE
        BY <2>3, <2>6, <3>2
      <4>2. Same(p, codes[n + 1], Edited(e, new))
        BY <2>3, <2>7, <4>1
      <4> QED
        BY <4>1, <4>2
    <3> QED
      BY <3>1, <3>2
  <2>9. Drifting(p, text, n + 1, new2, ch2)
    BY <2>2, <2>5, <2>8 DEF Drifting
  <2> QED
    BY <2>9 DEF Quiet
<1> QED
  BY <1>1, <1>2 DEF Quiet

LEMMA QuietEnds ==
    ASSUME NEW p, NEW text, NEW new, NEW ch, Len(p.edits) \in Nat,
           Quiet(p, text, Len(p.edits) + 1, new, ch)
    PROVE  ~ch
<1>1. Len(p.edits) + 1 .. Len(p.edits) = {}
  OBVIOUS
<1> QED
  BY <1>1 DEF Quiet, Drifting

----------------------------------------------------------------------------
(* The runner, with what is known of all patches *)

\* RunInv is inductive: of the patches that have run each would leave the disk as it
\* is (Settled) and is in, if the log says so (Tells); those to come find of their
\* own texts only what the engine shipped (Ahead); and while one runs, its edits so
\* far have reasons to be skipped the next time (Midway).  In the second round all
\* patches have run.
Stage == IF round = 2 THEN Len(Patches) + 1 ELSE at
AllKnown(n, d, im, quiet) == Passed(n, d, im, quiet) /\ ToCome(n, d, im) /\ Imports(n, d, im)
Within ==
    LET p == Patches[at]
        T == TargetOn(p, disk)
    IN  /\ at <= Len(Patches) /\ p.kind = "edit" /\ T \in DOMAIN disk
        /\ edit \in 1 .. Len(p.edits) + 1 /\ (p.asks => made)
        /\ Midway(p, disk[T], edit, code, changed)
        /\ round = 2 => Quiet(p, disk[T], edit, code, changed)
RunInv ==
    /\ disk = [f \in DOMAIN disk |-> disk[f]] /\ image \in Engines
    /\ round \in {1, 2} /\ at \in 1 .. Len(Patches) + 1 /\ changed \in BOOLEAN
    /\ at <= Len(Patches) => (made <=> MadeIn(at, disk, image))
    /\ AllKnown(Stage, disk, image, ~drifted)
    /\ edit # 0 => Within

LEMMA GateIs ==
    ASSUME NEW p
    PROVE  /\ GateMatches(p) <=> GateOn(p, disk, image) /\ (p.asks => made)
           /\ Target(p) = TargetOn(p, disk)
           /\ (\E c \in p.stops : TargetContains(c[1], c[2])) <=> StandsOn(p, disk)
<1>1. \A c : TargetContains(c[1], c[2]) <=> Has(disk, c)
  BY DEF TargetContains, Has
<1>2. GateMatches(p) <=> GateOn(p, disk, image) /\ (p.asks => made)
  BY <1>1 DEF GateMatches, GateOn
<1>3. Target(p) = TargetOn(p, disk)
  BY DEF Target, TargetOn, AnyOf
<1>4. (\E c \in p.stops : TargetContains(c[1], c[2])) <=> StandsOn(p, disk)
  BY <1>1 DEF StandsOn
<1> QED
  BY <1>2, <1>3, <1>4

LEMMA MadeNext ==
    ASSUME NEW j \in 1 .. Len(Patches), j + 1 <= Len(Patches), NEW d, NEW im
    PROVE  MadeIn(j + 1, d, im) <=>
             \/ Patches[j + 1].first
             \/ MadeIn(j, d, im) /\ (Patches[j].kind = "write" => Fine(j, d, im))
<1>0. Len(Patches) \in Nat
  BY ScriptBounds
<1>1. ASSUME Patches[j + 1].first PROVE MadeIn(j + 1, d, im)
  <2>1. \A k \in 1 .. j : ~SameScript(k, j + 1)
    <3> SUFFICES ASSUME NEW k \in 1 .. j PROVE ~SameScript(k, j + 1)
      OBVIOUS
    <3>1. j + 1 \in k + 1 .. j + 1
      OBVIOUS
    <3> QED
      BY <1>1, <3>1 DEF SameScript
  <2> QED
    BY <2>1 DEF MadeIn
<1>2. ASSUME ~Patches[j + 1].first
      PROVE  MadeIn(j + 1, d, im) <=> MadeIn(j, d, im) /\ (Patches[j].kind = "write" => Fine(j, d, im))
  <2>1. SameScript(j, j + 1)
    <3>1. \A k \in j + 1 .. j + 1 : k = j + 1
      OBVIOUS
    <3> QED
      BY <1>2, <3>1 DEF SameScript
  <2>2. \A k \in 1 .. j - 1 : SameScript(k, j + 1) <=> SameScript(k, j)
    <3> SUFFICES ASSUME NEW k \in 1 .. j - 1 PROVE SameScript(k, j + 1) <=> SameScript(k, j)
      OBVIOUS
    <3>1. k + 1 .. j + 1 = (k + 1 .. j) \cup {j + 1}
      OBVIOUS
    <3> QED
      BY <1>2, <3>1 DEF SameScript
  <2>3. 1 .. (j + 1) - 1 = (1 .. j - 1) \cup {j}
    OBVIOUS
  <2> QED
    BY <2>1, <2>2, <2>3 DEF MadeIn
<1> QED
  BY <1>1, <1>2

\* A patch is left.
LEMMA LeaveKeeps ==
    ASSUME RunInv, at <= Len(Patches), Leave,
           Changed(Patches[at], disk, disk'), disk' = [f \in DOMAIN disk' |-> disk'[f]],
           Settled(at, disk', image), Tells(at, disk', image, ~drifted'), drifted => drifted',
           disk' = disk \/ (Patches[at].asks => MadeIn(at, disk, image)), round = 2 => disk' = disk,
           Told(Patches[at].kind = "write" => Fine(at, disk', image))
    PROVE  RunInv'
<1>0. Len(Patches) \in Nat /\ at \in 1 .. Len(Patches)
  BY ScriptBounds DEF RunInv
<1>1. at' = at + 1 /\ edit' = 0 /\ changed' = FALSE /\ image' = image /\ round' = round
  BY DEF Leave
<1>2. AllKnown(Stage', disk', image, ~drifted')
  <2>1. CASE round = 2
    <3>1. Stage' = Stage /\ Stage = Len(Patches) + 1 /\ disk' = disk
      BY <1>1, <2>1 DEF Stage
    <3>2. \A i \in 1 .. Len(Patches) : Tells(i, disk, image, ~drifted) => Tells(i, disk, image, ~drifted')
      BY DEF Tells
    <3>3. (Len(Patches) + 1) - 1 = Len(Patches)
      BY <1>0
    <3> QED
      BY <3>1, <3>2, <3>3 DEF RunInv, AllKnown, Passed
  <2>2. CASE round # 2
    <3>1. Stage = at /\ Stage' = at + 1
      BY <1>1, <2>2 DEF Stage
    <3>2. Passed(at, disk, image, ~drifted) /\ ToCome(at, disk, image) /\ Imports(at, disk, image)
      BY <3>1 DEF RunInv, AllKnown
    <3>3. ~drifted' => ~drifted
      OBVIOUS
    <3>4. Passed(at + 1, disk', image, ~drifted') /\ ToCome(at + 1, disk', image) /\ Imports(at + 1, disk', image)
      BY <1>0, <3>2, <3>3, Onwards
    <3> QED
      BY <3>1, <3>4 DEF AllKnown
  <2> QED
    BY <2>1, <2>2
<1>3. at' <= Len(Patches) => (made' <=> MadeIn(at', disk', image'))
  <2> SUFFICES ASSUME at + 1 <= Len(Patches) PROVE made' <=> MadeIn(at + 1, disk', image)
    BY <1>1
  <2>1. made' <=> Patches[at + 1].first \/ (made /\ (Patches[at].kind = "write" => Fine(at, disk', image)))
    <3>1. at < Len(Patches)
      BY <1>0
    <3> QED
      BY <3>1, Zenon DEF Told
  <2>2. made <=> MadeIn(at, disk, image)
    BY DEF RunInv
  <2>3. MadeIn(at, disk, image) <=> MadeIn(at, disk', image)
    <3>1. at \in 1 .. at
      BY <1>0
    <3> QED
      BY <1>0, <3>1, MadeStays
  <2>4. MadeIn(at + 1, disk', image) <=>
             \/ Patches[at + 1].first
             \/ MadeIn(at, disk', image) /\ (Patches[at].kind = "write" => Fine(at, disk', image))
    BY <1>0, MadeNext
  <2> QED
    BY <2>1, <2>2, <2>3, <2>4
<1>4. (at \in 1 .. Len(Patches) + 1)' /\ (round \in {1, 2})' /\ (image \in Engines)' /\ (changed \in BOOLEAN)'
  <2>1. round \in {1, 2} /\ image \in Engines
    BY DEF RunInv
  <2>2. at + 1 \in 1 .. Len(Patches) + 1
    BY <1>0
  <2> QED
    BY <1>1, <2>1, <2>2
<1>5. (disk = [f \in DOMAIN disk |-> disk[f]])'
  OBVIOUS
<1>6. AllKnown(Stage, disk, image, ~drifted)'
  BY <1>1, <1>2
<1> QED
  BY <1>1, <1>3, <1>4, <1>5, <1>6 DEF RunInv

\* What is known of the patch that runs
LEMMA Here ==
    ASSUME RunInv, at <= Len(Patches)
    PROVE  /\ at \in 1 .. Len(Patches) /\ Current = Patches[at]
           /\ round = 2 => Settled(at, disk, image) /\ Tells(at, disk, image, ~drifted)
           /\ round = 1 => Ahead(at, disk, image)
           /\ round = 1 \/ round = 2
           /\ made <=> MadeIn(at, disk, image)
<1>0. Len(Patches) \in Nat /\ at \in 1 .. Len(Patches)
  BY ScriptBounds DEF RunInv
<1>1. round = 2 => Settled(at, disk, image) /\ Tells(at, disk, image, ~drifted)
  <2> SUFFICES ASSUME round = 2 PROVE Settled(at, disk, image) /\ Tells(at, disk, image, ~drifted)
    OBVIOUS
  <2>1. Passed(Len(Patches) + 1, disk, image, ~drifted)
    BY DEF RunInv, AllKnown, Stage
  <2>2. at \in 1 .. (Len(Patches) + 1) - 1
    BY <1>0
  <2> QED
    BY <2>1, <2>2 DEF Passed
<1>2. round = 1 => Ahead(at, disk, image)
  <2> SUFFICES ASSUME round = 1 PROVE Ahead(at, disk, image)
    OBVIOUS
  <2>1. ToCome(at, disk, image)
    BY DEF RunInv, AllKnown, Stage
  <2>2. at \in at .. Len(Patches)
    BY <1>0
  <2> QED
    BY <2>1, <2>2 DEF ToCome
<1>3. made <=> MadeIn(at, disk, image)
  BY DEF RunInv
<1>4. round = 1 \/ round = 2
  BY DEF RunInv
<1> QED
  BY <1>0, <1>1, <1>2, <1>3, <1>4 DEF Current

LEMMA ToldSame ==
    ASSUME NEW a \in BOOLEAN, NEW b \in BOOLEAN, a <=> b, Told(a)
    PROVE  Told(b)
<1>1. a = b
  OBVIOUS
<1> QED
  BY <1>1

\* A patch that leaves the disk alone
LEMMA LeaveAlone ==
    ASSUME RunInv, at <= Len(Patches), Leave, disk' = disk,
           Settled(at, disk, image), Tells(at, disk, image, ~drifted'), drifted => drifted',
           Told(Patches[at].kind = "write" => Fine(at, disk, image))
    PROVE  RunInv'
<1>1. Changed(Patches[at], disk, disk')
  BY DEF Changed
<1>2. disk' = [f \in DOMAIN disk' |-> disk'[f]]
  <2>1. disk = [f \in DOMAIN disk |-> disk[f]]
    BY DEF RunInv
  <2> QED
    BY <2>1
<1>3. /\ Settled(at, disk', image) /\ Tells(at, disk', image, ~drifted')
      /\ Told(Patches[at].kind = "write" => Fine(at, disk', image))
  OBVIOUS
<1> QED
  BY <1>1, <1>2, <1>3, LeaveKeeps

LEMMA NotMatchedKeeps == ASSUME RunInv, NotMatched PROVE RunInv'
<1> DEFINE p == Patches[at]
<1>1. /\ at <= Len(Patches) /\ ~GateMatches(Current) /\ Leave /\ Told(Current.kind = "edit")
      /\ disk' = disk /\ drifted' = drifted
  BY DEF NotMatched, Running
<1>2. at \in 1 .. Len(Patches) /\ Current = p /\ (made <=> MadeIn(at, disk, image))
  BY <1>1, Here
<1>3. ~GateOn(p, disk, image) \/ (p.asks /\ ~MadeIn(at, disk, image))
  BY <1>1, <1>2, GateIs
<1>4. p.kind = "write" => ~GateOn(p, disk, image)
  <2>1. p.kind = "write" => ~p.asks
    BY <1>2, ScriptBounds DEF ModuleMarked
  <2> QED
    BY <1>3, <2>1
<1>5. p.kind = "edit" \/ p.kind = "write"
  BY <1>2, ScriptBounds
<1>6. Settled(at, disk, image)
  <2>1. CASE p.kind = "edit"
    BY <1>3, <2>1 DEF Settled
  <2>2. CASE p.kind = "write"
    BY <1>4, <2>2 DEF Settled
  <2> QED
    BY <1>5, <2>1, <2>2
<1>7. Tells(at, disk, image, ~drifted')
  BY <1>3, <1>4, <1>5 DEF Tells, Fine
<1>8. Told(p.kind = "write" => Fine(at, disk, image))
  <2>1. (p.kind = "edit") <=> (p.kind = "write" => Fine(at, disk, image))
    BY <1>4, <1>5 DEF Fine
  <2> QED
    BY <1>1, <1>2, <2>1, ToldSame
<1> QED
  BY <1>1, <1>6, <1>7, <1>8, LeaveAlone

LEMMA MissingKeeps == ASSUME RunInv, Missing PROVE RunInv'
<1> DEFINE p == Patches[at]
<1>1. /\ at <= Len(Patches) /\ Current.kind = "edit" /\ Target(Current) \notin DOMAIN disk
      /\ Leave /\ Told(TRUE) /\ disk' = disk /\ (drifted => drifted')
  BY DEF Missing, Running
<1>2. at \in 1 .. Len(Patches) /\ Current = p
  BY <1>1, Here
<1>3. p.kind = "edit" /\ TargetOn(p, disk) \notin DOMAIN disk
  BY <1>1, <1>2, GateIs
<1>4. Settled(at, disk, image) /\ Tells(at, disk, image, ~drifted')
  BY <1>3 DEF Settled, Tells
<1>5. Told(p.kind = "write" => Fine(at, disk, image))
  <2>1. TRUE <=> (p.kind = "write" => Fine(at, disk, image))
    BY <1>3
  <2> QED
    BY <1>1, <2>1, ToldSame
<1> QED
  BY <1>1, <1>4, <1>5, LeaveAlone

LEMMA AlreadyInKeeps == ASSUME RunInv, AlreadyIn PROVE RunInv'
<1> DEFINE p == Patches[at]
<1>1. /\ at <= Len(Patches) /\ Current.kind = "edit" /\ Stands
      /\ Leave /\ Told(TRUE) /\ disk' = disk /\ drifted' = drifted
  BY DEF AlreadyIn, Opens, Running
<1>2. /\ at \in 1 .. Len(Patches) /\ Current = p /\ (round = 1 \/ round = 2)
      /\ round = 2 => Tells(at, disk, image, ~drifted)
      /\ round = 1 => Ahead(at, disk, image)
  BY <1>1, Here
<1>3. p.kind = "edit" /\ StandsOn(p, disk)
  BY <1>1, <1>2, GateIs DEF Stands
<1>4. Settled(at, disk, image)
  BY <1>3 DEF Settled
<1>5. Tells(at, disk, image, ~drifted')
  <2>1. CASE round = 2
    BY <1>1, <1>2, <2>1
  <2>2. CASE round = 1
    <3>1. StandsOn(p, Shipped(image))
      BY <1>2, <1>3, <2>2 DEF Ahead, StandsOn
    <3> QED
      BY <1>3, <3>1 DEF Tells
  <2> QED
    BY <1>2, <2>1, <2>2
<1>6. Told(p.kind = "write" => Fine(at, disk, image))
  <2>1. TRUE <=> (p.kind = "write" => Fine(at, disk, image))
    BY <1>3
  <2> QED
    BY <1>1, <2>1, ToldSame
<1> QED
  BY <1>1, <1>4, <1>5, <1>6, LeaveAlone

LEMMA DriftKeeps == ASSUME RunInv, PatchInv, Drift PROVE RunInv'
<1> DEFINE p == Patches[at]
           T == TargetOn(p, disk)
<1>1. /\ at <= Len(Patches) /\ edit \in 1 .. Len(Current.edits)
      /\ ~Skipped(Now) /\ Now.spellings # 0 /\ Found(Now, code) = {} /\ drifted' = TRUE
      /\ Leave /\ Told(TRUE) /\ disk' = disk
  BY DEF Drift, Editing, Running
<1>2. at \in 1 .. Len(Patches) /\ Current = p /\ Now = p.edits[edit]
  BY <1>1, Here DEF Now
<1>3. p.kind = "edit" /\ Midway(p, disk[T], edit, code, changed)
  <2>1. edit # 0
    BY <1>1
  <2> QED
    BY <2>1 DEF RunInv, Within
<1>4. ~SkippedIn(p.edits[edit], code, changed) /\ ~Findable(p.edits[edit], code)
  BY <1>1, <1>2 DEF Skipped, SkippedIn, Findable
<1>5. DriftsOn(p, disk[T])
  BY <1>1, <1>2, <1>3, <1>4, MidDrifts
<1>6. Settled(at, disk, image) /\ Tells(at, disk, image, ~drifted')
  BY <1>1, <1>3, <1>5 DEF Settled, Tells
<1>7. Told(p.kind = "write" => Fine(at, disk, image))
  <2>1. TRUE <=> (p.kind = "write" => Fine(at, disk, image))
    BY <1>3
  <2> QED
    BY <1>1, <2>1, ToldSame
<1> QED
  BY <1>1, <1>6, <1>7, LeaveAlone

LEMMA WriteKeeps == ASSUME RunInv, PatchInv, Write PROVE RunInv'
<1> DEFINE p == Patches[at]
           T == TargetOn(p, disk)
<1>1. /\ at <= Len(Patches) /\ Current.kind = "edit" /\ edit > Len(Current.edits)
      /\ disk' = IF changed THEN [disk EXCEPT ![Target(Current)] = code] ELSE disk
      /\ Leave /\ Told(TRUE) /\ drifted' = drifted
  BY DEF Write, Running
<1>2. /\ at \in 1 .. Len(Patches) /\ Current = p /\ (made <=> MadeIn(at, disk, image))
      /\ Len(p.edits) \in Nat /\ p.kind = "edit"
  BY <1>1, Here, ScriptBounds
<1>3. Target(p) = T
  BY GateIs
<1>4. edit \in Nat /\ edit # 0
  BY <1>1, <1>2 DEF PatchInv
<1>5. /\ T \in DOMAIN disk /\ edit \in 1 .. Len(p.edits) + 1 /\ (p.asks => made)
      /\ Midway(p, disk[T], edit, code, changed)
      /\ round = 2 => Quiet(p, disk[T], edit, code, changed)
  BY <1>4 DEF RunInv, Within
<1>6. edit = Len(p.edits) + 1
  BY <1>1, <1>2, <1>5
<1>7. AllSkipped(p, code)
  BY <1>2, <1>5, <1>6, MidEnds
<1>8. round = 2 => disk' = disk
  BY <1>1, <1>2, <1>5, <1>6, QuietEnds
<1>9. /\ T \in DOMAIN disk' /\ DOMAIN disk' = DOMAIN disk /\ disk'[T] = code
      /\ \A f \in DOMAIN disk \ {T} : disk'[f] = disk[f]
      /\ disk' = [f \in DOMAIN disk' |-> disk'[f]]
  <2>1. CASE changed
    <3>1. disk' = [disk EXCEPT ![T] = code]
      BY <1>1, <1>2, <1>3, <2>1
    <3> QED
      BY <1>5, <3>1
  <2>2. CASE ~changed
    <3>1. disk' = disk /\ code = disk[T]
      BY <1>1, <1>5, <2>2 DEF Midway
    <3>2. disk = [f \in DOMAIN disk |-> disk[f]]
      BY DEF RunInv
    <3> QED
      BY <1>5, <3>1, <3>2
  <2> QED
    BY <2>1, <2>2
<1>10. T \in Paths(p)
  BY TargetInPaths
<1>11. TargetOn(p, disk') = T
  BY <1>9 DEF TargetOn
<1>12. Changed(p, disk, disk')
  <2>1. EditedAt(p, T, disk, disk')
    BY <1>5, <1>9 DEF EditedAt, Midway
  <2> QED
    BY <1>2, <1>10, <2>1 DEF Changed
<1>13. Settled(at, disk', image)
  BY <1>2, <1>7, <1>9, <1>11 DEF Settled
<1>14. WholeIn(p, code)
  <2>1. Buffered
    BY <1>4 DEF PatchInv
  <2>2. \A i \in 1 .. Len(p.edits) : i < edit /\ Needed(p.edits[i]) => In(MarkOf(p.edits[i]), code)
    BY <2>1 DEF Buffered
  <2>3. \A i \in 1 .. Len(p.edits) : i < edit
    BY <1>2, <1>6
  <2> QED
    BY <2>2, <2>3 DEF WholeIn, Required, Edits
<1>15. Tells(at, disk', image, ~drifted')
  BY <1>2, <1>9, <1>11, <1>14 DEF Tells
<1>16. Told(p.kind = "write" => Fine(at, disk', image))
  <2>1. TRUE <=> (p.kind = "write" => Fine(at, disk', image))
    BY <1>2
  <2> QED
    BY <1>1, <2>1, ToldSame
<1>17. p.asks => MadeIn(at, disk, image)
  BY <1>2, <1>5
<1> QED
  BY <1>1, <1>8, <1>9, <1>12, <1>13, <1>15, <1>16, <1>17, LeaveKeeps

\* What the write of a module finds
LEMMA HereWrites ==
    ASSUME RunInv, Writes
    PROVE  /\ at <= Len(Patches) /\ at \in 1 .. Len(Patches) /\ Current = Patches[at]
           /\ Patches[at].kind = "write" /\ GateOn(Patches[at], disk, image) /\ ~Patches[at].asks
           /\ Stands <=> StandsOn(Patches[at], disk)
           /\ ModuleMarked(Patches[at])
<1> DEFINE p == Patches[at]
<1>1. at <= Len(Patches) /\ GateMatches(Current) /\ Current.kind = "write"
  BY DEF Writes, Running
<1>2. at \in 1 .. Len(Patches) /\ Current = p
  BY <1>1, Here
<1>3. GateOn(p, disk, image) /\ (Stands <=> StandsOn(p, disk))
  BY <1>1, <1>2, GateIs DEF Stands
<1>4. ModuleMarked(p)
  BY <1>1, <1>2, ScriptBounds
<1>5. ~p.asks
  BY <1>4 DEF ModuleMarked
<1> QED
  BY <1>1, <1>2, <1>3, <1>4, <1>5

LEMMA ModuleStandsKeeps == ASSUME RunInv, ModuleStands PROVE RunInv'
<1> DEFINE p == Patches[at]
<1>1. /\ Writes /\ Stands
      /\ Leave /\ Told(TRUE) /\ disk' = disk /\ drifted' = drifted
  BY DEF ModuleStands
<1>2. /\ at <= Len(Patches) /\ at \in 1 .. Len(Patches)
      /\ p.kind = "write" /\ GateOn(p, disk, image) /\ StandsOn(p, disk)
  BY <1>1, HereWrites
<1>3. /\ round = 1 \/ round = 2
      /\ round = 2 => Tells(at, disk, image, ~drifted)
      /\ round = 1 => Ahead(at, disk, image)
  BY <1>2, Here
<1>4. Settled(at, disk, image) /\ Fine(at, disk, image)
  BY <1>2 DEF Settled, Fine
<1>5. Tells(at, disk, image, ~drifted')
  <2>1. CASE round = 2
    BY <1>1, <1>3, <2>1
  <2>2. CASE round = 1
    <3>1. PICK c \in p.stops : Has(disk, c)
      BY <1>2 DEF StandsOn
    <3>2. CASE c[1] = p.file
      <4>1. p.file \in DOMAIN disk
        BY <3>1, <3>2 DEF Has
      <4> QED
        BY <1>2, <1>4, <4>1 DEF Tells
    <3>3. CASE c[1] # p.file
      <4>1. Has(Shipped(image), c)
        BY <1>3, <2>2, <3>1, <3>3 DEF Ahead
      <4>2. <<c, p.file>> \in ModuleStops
        BY <1>2 DEF ModuleStops
      <4>3. p.file \in DOMAIN Shipped(image)
        <5>1. \A s \in ModuleStops : Has(Shipped(image), s[1]) => s[2] \in DOMAIN Shipped(image)
          BY ScriptAssumption DEF EnginesAreWhole, Has, RunInv
        <5>2. <<c, p.file>>[1] = c /\ <<c, p.file>>[2] = p.file
          OBVIOUS
        <5> QED
          BY <4>1, <4>2, <5>1, <5>2
      <4>4. p.file \in DOMAIN disk
        BY <1>2, <1>3, <2>2, <4>3 DEF Ahead
      <4> QED
        BY <1>2, <1>4, <4>4 DEF Tells
    <3> QED
      BY <3>2, <3>3
  <2> QED
    BY <1>3, <2>1, <2>2
<1>6. Told(p.kind = "write" => Fine(at, disk, image))
  <2>1. TRUE <=> (p.kind = "write" => Fine(at, disk, image))
    BY <1>4
  <2> QED
    BY <1>1, <2>1, ToldSame
<1> QED
  BY <1>1, <1>2, <1>4, <1>5, <1>6, LeaveAlone

LEMMA WriteModuleKeeps == ASSUME RunInv, WriteModule PROVE RunInv' /\ round # 2
<1> DEFINE p == Patches[at]
<1>1. /\ Writes /\ ~Stands /\ Current.file \notin Unusable(image)
      /\ disk' = [f \in DOMAIN disk \cup {Current.file} |-> IF f = Current.file THEN Current.source ELSE disk[f]]
      /\ Leave /\ Told(TRUE) /\ drifted' = drifted
  BY DEF WriteModule
<1>2. /\ at <= Len(Patches) /\ at \in 1 .. Len(Patches) /\ Current = p
      /\ p.kind = "write" /\ GateOn(p, disk, image) /\ ~StandsOn(p, disk) /\ ~p.asks /\ ModuleMarked(p)
      /\ p.file \notin Unusable(image)
  BY <1>1, HereWrites
<1>3. /\ DOMAIN disk' = DOMAIN disk \cup {p.file} /\ disk'[p.file] = p.source
      /\ \A f \in DOMAIN disk \ {p.file} : disk'[f] = disk[f]
      /\ disk' = [f \in DOMAIN disk' |-> disk'[f]]
  BY <1>1, <1>2
<1>4. round # 2
  <2>1. round = 2 => Settled(at, disk, image)
    BY <1>2, Here
  <2> QED
    BY <1>2, <2>1 DEF Settled
<1>5. Changed(p, disk, disk')
  BY <1>2, <1>3 DEF Changed, Anew
<1>6. StandsOn(p, disk')
  <2>1. PICK x \in p.source : <<p.file, x>> \in p.stops
    BY <1>2 DEF ModuleMarked
  <2>2. Has(disk', <<p.file, x>>)
    BY <1>3, <2>1 DEF Has
  <2> QED
    BY <2>1, <2>2 DEF StandsOn
<1>7. GateOn(p, disk', image)
  <2>1. \A c : c[1] # p.file => (Has(disk', c) <=> Has(disk, c))
    BY <1>3 DEF Has
  <2>2. /\ \A clause \in p.has : \A c \in clause : c[1] # p.file
        /\ \A c \in p.lacks : c[1] # p.file
    BY <1>2 DEF ModuleMarked
  <2> HIDE DEF p
  <2>3. \A clause \in p.has : \E c \in clause : Has(disk', c)
    BY <1>2, <2>1, <2>2 DEF GateOn
  <2>4. \A c \in p.lacks : ~Has(disk', c)
    BY <1>2, <2>1, <2>2 DEF GateOn
  <2> QED
    BY <1>2, <2>3, <2>4 DEF GateOn
<1>8. Fine(at, disk', image)
  BY <1>6, <1>7 DEF Fine
<1>9. Settled(at, disk', image) /\ Tells(at, disk', image, ~drifted')
  BY <1>2, <1>3, <1>6, <1>8 DEF Settled, Tells
<1>10. Told(p.kind = "write" => Fine(at, disk', image))
  <2>1. TRUE <=> (p.kind = "write" => Fine(at, disk', image))
    BY <1>8
  <2> QED
    BY <1>1, <2>1, ToldSame
<1> QED
  BY <1>1, <1>2, <1>3, <1>4, <1>5, <1>9, <1>10, LeaveKeeps

LEMMA RemoveModuleKeeps == ASSUME RunInv, RemoveModule PROVE RunInv' /\ (round = 2 => disk' = disk)
<1> DEFINE p == Patches[at]
<1>1. /\ Writes /\ ~Stands /\ Current.file \in Unusable(image)
      /\ disk' = [f \in DOMAIN disk \ {Current.file} |-> disk[f]]
      /\ drifted' = TRUE /\ Leave /\ Told(FALSE)
  BY DEF RemoveModule
<1>2. /\ at <= Len(Patches) /\ at \in 1 .. Len(Patches) /\ Current = p
      /\ p.kind = "write" /\ GateOn(p, disk, image) /\ ~StandsOn(p, disk) /\ ~p.asks
      /\ p.file \in Unusable(image)
  BY <1>1, HereWrites
<1>3. /\ DOMAIN disk' = DOMAIN disk \ {p.file}
      /\ \A f \in DOMAIN disk \ {p.file} : disk'[f] = disk[f]
      /\ disk' = [f \in DOMAIN disk' |-> disk'[f]]
  BY <1>1, <1>2
<1>4. round = 2 => disk' = disk
  <2>1. round = 2 => Settled(at, disk, image)
    BY <1>2, Here
  <2>2. round = 2 => p.file \notin DOMAIN disk
    BY <1>2, <2>1 DEF Settled
  <2>3. disk = [f \in DOMAIN disk |-> disk[f]]
    BY DEF RunInv
  <2>4. p.file \notin DOMAIN disk => DOMAIN disk \ {p.file} = DOMAIN disk
    OBVIOUS
  <2> QED
    BY <1>1, <1>2, <2>2, <2>3, <2>4
<1>5. Changed(p, disk, disk')
  BY <1>2, <1>3 DEF Changed, Anew
<1>6. ~StandsOn(p, disk')
  <2>1. \A c : Has(disk', c) => Has(disk, c)
    BY <1>3 DEF Has
  <2> QED
    BY <1>2, <2>1 DEF StandsOn
<1>7. ~Fine(at, disk', image)
  BY <1>2, <1>6 DEF Fine
<1>8. Settled(at, disk', image) /\ Tells(at, disk', image, ~drifted')
  BY <1>1, <1>2, <1>3, <1>7 DEF Settled, Tells
<1>9. Told(p.kind = "write" => Fine(at, disk', image))
  <2>1. FALSE <=> (p.kind = "write" => Fine(at, disk', image))
    BY <1>2, <1>7
  <2> QED
    BY <1>1, <2>1, ToldSame
<1>10. drifted => drifted'
  BY <1>1
<1> QED
  BY <1>1, <1>2, <1>3, <1>4, <1>5, <1>8, <1>9, <1>10, LeaveKeeps

\* A step inside a patch
LEMMA WithinKeeps ==
    ASSUME RunInv, UNCHANGED <<image, disk, round, at, made, drifted>>, changed' \in BOOLEAN, Within'
    PROVE  RunInv'
<1>1. Stage' = Stage
  BY DEF Stage
<1>2. AllKnown(Stage, disk, image, ~drifted)'
  BY <1>1 DEF RunInv
<1>3. (at <= Len(Patches) => (made <=> MadeIn(at, disk, image)))'
  BY DEF RunInv
<1>4. (/\ disk = [f \in DOMAIN disk |-> disk[f]] /\ image \in Engines
       /\ round \in {1, 2} /\ at \in 1 .. Len(Patches) + 1)'
  BY DEF RunInv
<1> QED
  BY <1>2, <1>3, <1>4 DEF RunInv

LEMMA OpenKeeps == ASSUME RunInv, Open PROVE RunInv'
<1> DEFINE p == Patches[at]
           T == TargetOn(p, disk)
<1>1. /\ at <= Len(Patches) /\ GateMatches(Current) /\ Current.kind = "edit"
      /\ Target(Current) \in DOMAIN disk /\ ~Stands
      /\ edit' = 1 /\ code' = disk[Target(Current)] /\ changed' = FALSE
      /\ UNCHANGED <<image, disk, round, at, made, drifted>>
  BY DEF Open, Opens, Running
<1>2. /\ at \in 1 .. Len(Patches) /\ Current = p /\ (made <=> MadeIn(at, disk, image))
      /\ round = 2 => Settled(at, disk, image)
      /\ Len(p.edits) \in Nat
  BY <1>1, Here, ScriptBounds
<1>3. /\ GateOn(p, disk, image) /\ (p.asks => made) /\ p.kind = "edit" /\ ~StandsOn(p, disk)
      /\ T \in DOMAIN disk /\ code' = disk[T]
  BY <1>1, <1>2, GateIs DEF Stands
<1>4. Midway(p, disk[T], 1, disk[T], FALSE)
  BY MidStart
<1>5. round = 2 => Quiet(p, disk[T], 1, disk[T], FALSE)
  <2> SUFFICES ASSUME round = 2 PROVE Quiet(p, disk[T], 1, disk[T], FALSE)
    OBVIOUS
  <2>1. AllSkipped(p, disk[T]) \/ DriftsOn(p, disk[T])
    BY <1>2, <1>3 DEF Settled
  <2> QED
    BY <1>2, <2>1, QuietStart
<1>6. 1 \in 1 .. Len(p.edits) + 1
  BY <1>2
<1>7. Within'
  BY <1>1, <1>3, <1>4, <1>5, <1>6 DEF Within
<1> QED
  BY <1>1, <1>7, WithinKeeps

LEMMA EditingKeeps == ASSUME RunInv, SkipEdit \/ MakeEdit PROVE RunInv'
<1> DEFINE p == Patches[at]
           T == TargetOn(p, disk)
           e == p.edits[edit]
<1>1. /\ at <= Len(Patches) /\ edit \in 1 .. Len(Current.edits) /\ edit' = edit + 1
      /\ UNCHANGED <<image, disk, round, at, made, drifted>>
  BY DEF SkipEdit, MakeEdit, Editing, Running
<1>2. at \in 1 .. Len(Patches) /\ Current = p /\ Now = e /\ Len(p.edits) \in Nat
  BY <1>1, Here, ScriptBounds DEF Now
<1>3. /\ p.kind = "edit" /\ T \in DOMAIN disk /\ (p.asks => made)
      /\ Midway(p, disk[T], edit, code, changed)
      /\ round = 2 => Quiet(p, disk[T], edit, code, changed)
      /\ changed \in BOOLEAN
  <2>1. edit # 0
    BY <1>1
  <2> QED
    BY <2>1 DEF RunInv, Within
<1>4. Skipped(e) <=> SkippedIn(e, code, changed)
  BY DEF Skipped, SkippedIn
<1>5. \/ SkippedIn(e, code, changed) /\ code' = code /\ changed' = changed
      \/ /\ ~SkippedIn(e, code, changed) /\ Findable(e, code)
         /\ code' = Edited(e, code) /\ changed' = TRUE
  BY <1>2, <1>4 DEF SkipEdit, MakeEdit, Findable
<1>6. Midway(p, disk[T], edit + 1, code', changed')
  <2>1. CASE SkippedIn(e, code, changed) /\ code' = code /\ changed' = changed
    <3>1. Midway(p, disk[T], edit + 1, code, changed)
      BY <1>1, <1>2, <1>3, <2>1, MidSkips
    <3> QED
      BY <2>1, <3>1
  <2>2. CASE /\ ~SkippedIn(e, code, changed) /\ Findable(e, code)
             /\ code' = Edited(e, code) /\ changed' = TRUE
    <3>1. Midway(p, disk[T], edit + 1, Edited(e, code), TRUE)
      BY <1>1, <1>2, <1>3, <2>2, MidEdits
    <3> QED
      BY <2>2, <3>1
  <2> QED
    BY <1>5, <2>1, <2>2
<1>7. round = 2 => Quiet(p, disk[T], edit + 1, code', changed')
  BY <1>1, <1>2, <1>3, <1>5, QuietNext
<1>8. changed' \in BOOLEAN /\ edit + 1 \in 1 .. Len(p.edits) + 1
  <2>1. changed' \in BOOLEAN
    BY <1>3, <1>5
  <2>2. edit + 1 \in 1 .. Len(p.edits) + 1
    BY <1>1, <1>2
  <2> QED
    BY <2>1, <2>2
<1>9. Within'
  BY <1>1, <1>3, <1>6, <1>7, <1>8 DEF Within
<1> QED
  BY <1>1, <1>8, <1>9, WithinKeeps

LEMMA AgainKeeps == ASSUME RunInv, PatchInv, Again PROVE RunInv'
<1>1. /\ at > Len(Patches) /\ round = 1 /\ round' = 2 /\ at' = 1 /\ made' = TRUE
      /\ UNCHANGED <<image, disk, edit, code, changed, drifted>>
  BY ScriptBounds DEF Again, Running, RunInv
<1>2. at = Len(Patches) + 1 /\ Len(Patches) \in Nat
  BY <1>1, ScriptBounds DEF RunInv
<1>3. Stage = at /\ Stage' = at
  BY <1>1, <1>2 DEF Stage
<1>4. AllKnown(Stage, disk, image, ~drifted)'
  <2>1. AllKnown(at, disk, image, ~drifted)
    BY <1>3 DEF RunInv
  <2> QED
    BY <1>1, <1>3, <2>1
<1>5. edit = 0
  BY <1>1, <1>2 DEF RunInv, Within
<1>6. MadeIn(1, disk, image)
  <2>1. 1 .. 1 - 1 = {}
    OBVIOUS
  <2> QED
    BY <2>1 DEF MadeIn
<1>7. (at <= Len(Patches) => (made <=> MadeIn(at, disk, image)))'
  BY <1>1, <1>6
<1>8. (/\ disk = [f \in DOMAIN disk |-> disk[f]] /\ image \in Engines /\ changed \in BOOLEAN)'
  BY <1>1 DEF RunInv
<1>9. (round \in {1, 2} /\ at \in 1 .. Len(Patches) + 1)'
  BY <1>1, <1>2
<1> QED
  BY <1>1, <1>4, <1>5, <1>7, <1>8, <1>9 DEF RunInv

LEMMA RunStart == PatchInit => RunInv
<1> SUFFICES ASSUME PatchInit PROVE RunInv
  OBVIOUS
<1>1. /\ image \in Engines /\ disk = Shipped(image) /\ round = 1 /\ at = 1 /\ edit = 0
      /\ changed = FALSE /\ made = TRUE /\ drifted = FALSE
  BY DEF PatchInit
<1>2. Len(Patches) \in Nat /\ 1 .. 1 - 1 = {} /\ Stage = 1
  BY <1>1, ScriptBounds DEF Stage
<1>3. disk = [f \in DOMAIN disk |-> disk[f]]
  BY <1>1, ScriptAssumption DEF EnginesAreWhole
<1>4. MadeIn(1, disk, image)
  BY <1>2 DEF MadeIn
<1>5. Passed(1, disk, image, ~drifted)
  BY <1>2 DEF Passed
<1>6. ToCome(1, disk, image)
  BY <1>1 DEF ToCome, Ahead
<1>7. Imports(1, disk, image)
  BY <1>1 DEF Imports
<1>8. AllKnown(Stage, disk, image, ~drifted)
  BY <1>2, <1>5, <1>6, <1>7 DEF AllKnown
<1>9. round \in {1, 2} /\ at \in 1 .. Len(Patches) + 1 /\ changed \in BOOLEAN
  <2>1. 1 \in 1 .. Len(Patches) + 1
    BY <1>2
  <2> QED
    BY <1>1, <2>1
<1>10. made <=> MadeIn(at, disk, image)
  BY <1>1, <1>4
<1> QED
  BY <1>1, <1>3, <1>8, <1>9, <1>10 DEF RunInv

LEMMA RunStep ==
    ASSUME PatchInv, RunInv, [PatchNext]_patchVars
    PROVE  RunInv'
<1>1. CASE UNCHANGED patchVars
  BY <1>1 DEF patchVars, RunInv, Within, Stage
<1>2. CASE NotMatched \/ Missing \/ AlreadyIn \/ Drift \/ Write
  BY <1>2, NotMatchedKeeps, MissingKeeps, AlreadyInKeeps, DriftKeeps, WriteKeeps
<1>3. CASE ModuleStands \/ WriteModule \/ RemoveModule
  BY <1>3, ModuleStandsKeeps, WriteModuleKeeps, RemoveModuleKeeps
<1>4. CASE Open \/ SkipEdit \/ MakeEdit \/ Again
  BY <1>4, OpenKeeps, EditingKeeps, AgainKeeps
<1> QED
  BY <1>1, <1>2, <1>3, <1>4 DEF PatchNext

\* The patches of all scripts settle together: whatever the engine, a second run of
\* the launcher leaves every file as the first has left it (_patchlib.py, "Running a
\* patch twice must not change the file the second time").
THEOREM SecondRunChangesNothing == PatchSpec => SecondRunIsQuiet
<1>1. PatchInit => PatchInv /\ RunInv
  BY PatchStart, RunStart
<1>2. PatchInv /\ RunInv /\ [PatchNext]_patchVars => (PatchInv /\ RunInv)'
  BY PatchStep, RunStep
<1>3. PatchInv /\ RunInv /\ [PatchNext]_patchVars => [round = 2 => disk' = disk]_patchVars
  <2> SUFFICES ASSUME PatchInv, RunInv, PatchNext, round = 2 PROVE disk' = disk
    OBVIOUS
  <2>1. CASE Write
    <3>1. /\ at <= Len(Patches) /\ edit > Len(Current.edits)
          /\ ~changed => disk' = disk
      BY <2>1 DEF Write, Running
    <3>2. Current = Patches[at] /\ Len(Patches[at].edits) \in Nat
      BY <3>1, Here, ScriptBounds
    <3>3. edit # 0 /\ edit \in Nat
      BY <3>1, <3>2 DEF PatchInv
    <3>4. /\ edit \in 1 .. Len(Patches[at].edits) + 1
          /\ Quiet(Patches[at], disk[TargetOn(Patches[at], disk)], edit, code, changed)
      BY <3>3 DEF RunInv, Within
    <3>5. edit = Len(Patches[at].edits) + 1
      BY <3>1, <3>2, <3>4
    <3>6. ~changed
      BY <3>2, <3>4, <3>5, QuietEnds
    <3> QED
      BY <3>1, <3>6
  <2>2. CASE WriteModule \/ RemoveModule
    BY <2>2, WriteModuleKeeps, RemoveModuleKeeps
  <2> QED
    BY <2>1, <2>2
       DEF PatchNext, NotMatched, Missing, AlreadyIn, Open, SkipEdit, MakeEdit, Drift, ModuleStands, Again
<1> QED
  BY <1>1, <1>2, <1>3, PTL DEF PatchSpec, SecondRunIsQuiet

\* What is known of all patches when they have run, in the words of the properties
LEMMA RunTells ==
    ASSUME RunInv, ~Running
    PROVE  SilenceMeansPatched /\ KernelBehindItsName
<1>0. Len(Patches) \in Nat /\ Stage = Len(Patches) + 1
  BY ScriptBounds DEF RunInv, Running, Stage
<1>1. Passed(Len(Patches) + 1, disk, image, ~drifted) /\ Imports(Len(Patches) + 1, disk, image)
  BY <1>0 DEF RunInv, AllKnown
<1>2. \A i \in 1 .. Len(Patches) : Tells(i, disk, image, ~drifted)
  <2>1. \A i \in 1 .. Len(Patches) : i \in 1 .. (Len(Patches) + 1) - 1
    BY <1>0
  <2> QED
    BY <1>1, <2>1 DEF Passed
<1>3. ASSUME ~drifted, NEW i \in 1 .. Len(Patches), Patches[i].kind = "edit",
             GateMatches(Patches[i]), Target(Patches[i]) \in DOMAIN disk
      PROVE  \/ \A m \in Required(Patches[i]) : In(m, disk[Target(Patches[i])])
             \/ \E c \in Patches[i].stops : c[1] \in DOMAIN Shipped(image) /\ c[2] \in Shipped(image)[c[1]]
  <2> DEFINE p == Patches[i]
             T == TargetOn(p, disk)
  <2>1. Target(p) = T /\ T \in DOMAIN disk /\ GateOn(p, disk, image)
    BY <1>3, GateIs
  <2>2. p.asks => MadeIn(i, disk, image)
    <3> SUFFICES ASSUME p.asks, NEW j \in 1 .. i - 1, Patches[j].kind = "write", SameScript(j, i)
                 PROVE  Fine(j, disk, image)
      BY DEF MadeIn
    <3>1. j \in 1 .. Len(Patches)
      BY <1>0
    <3>2. /\ Patches[j].settings \subseteq p.settings
          /\ Patches[j].has \subseteq p.has /\ Patches[j].lacks \subseteq p.lacks
      BY ScriptAssumption DEF AsksWithItsGate
    <3>3. GateOn(Patches[j], disk, image)
      BY <2>1, <3>2 DEF GateOn
    <3> QED
      BY <1>2, <1>3, <3>1, <3>3 DEF Tells
  <2>3. WholeIn(p, disk[T]) \/ StandsOn(p, Shipped(image))
    BY <1>2, <1>3, <2>1, <2>2 DEF Tells
  <2> QED
    BY <2>1, <2>3 DEF WholeIn, StandsOn, Has
<1>4. ASSUME NEW g \in GuardedImports PROVE Resolves(g)
  <2> SUFFICES ASSUME TargetContains(g.file, g.mark),
                      ~(g.file \in DOMAIN Shipped(image) /\ g.mark \in Shipped(image)[g.file])
               PROVE  g.from \in DOMAIN disk /\ g.needs \subseteq disk[g.from]
    BY DEF Resolves
  <2>1. <<g.file, g.mark>>[1] = g.file /\ <<g.file, g.mark>>[2] = g.mark
    OBVIOUS
  <2>2. Has(disk, <<g.file, g.mark>>) /\ ~Has(Shipped(image), <<g.file, g.mark>>)
    BY <2>1 DEF Has, TargetContains
  <2>3. ImportFound(g, Len(Patches) + 1, disk)
    BY <1>1, <2>2 DEF Imports
  <2>4. g.needs = {}
    <3>1. \E j \in 1 .. Len(Patches) : TRUE
      <4>1. PICK k \in 1 .. (Len(Patches) + 1) - 1 : Patches[k].kind = "write"
        BY <2>3 DEF ImportFound
      <4> QED
        BY <1>0, <4>1
    <3> QED
      BY <3>1, ScriptAssumption DEF ImportsAsk
  <2> QED
    BY <2>3, <2>4 DEF ImportFound
<1>5. SilenceMeansPatched
  BY <1>3 DEF SilenceMeansPatched
<1> QED
  BY <1>4, <1>5 DEF KernelBehindItsName

\* Whatever the engine: a log without ANCHOR-DRIFT says that each patch whose gate
\* matches is in, and a registry that names the kernel of p66 finds its modules
\* (Patch.run and write_module of _patchlib.py, patch_66_*).
THEOREM LogAndRegistryTell == PatchSpec => [](SilenceMeansPatched /\ KernelBehindItsName)
<1>1. PatchInit => PatchInv /\ RunInv
  BY PatchStart, RunStart
<1>2. PatchInv /\ RunInv /\ [PatchNext]_patchVars => (PatchInv /\ RunInv)'
  BY PatchStep, RunStep
<1>3. RunInv => SilenceMeansPatched /\ KernelBehindItsName
  BY RunTells DEF SilenceMeansPatched, KernelBehindItsName
<1> QED
  BY <1>1, <1>2, <1>3, PTL DEF PatchSpec

-----------------------------------------------------------------------------
(* The programs of MCTools, side by side *)

\* What a process of the sharding holds and copies, beside ShardInv
HeldAndCopied ==
    /\ \A r \in Ranks : held[r] \subseteq 1 .. LastCut(shape)
    /\ \A r \in Ranks : At(r, "idle") => held[r] = {}
    /\ metadata \in [Ranks -> SUBSET Metadata]
    /\ \A r \in Ranks : indexFile[r] \in {"none", "model", "job", "torn"}
    /\ deaths \in 0 .. MaxDeaths

LEMMA HeldStart == ShardInit => HeldAndCopied
<1> SUFFICES ASSUME ShardInit PROVE HeldAndCopied
  OBVIOUS
<1>1. \A r \in Ranks : held[r] = {} /\ indexFile[r] = "none"
  BY DEF ShardInit
<1>2. metadata \in [Ranks -> SUBSET Metadata]
  BY DEF ShardInit
<1>3. deaths \in 0 .. MaxDeaths
  BY ShardAssumption DEF ShardInit, ShardAssumption
<1> QED
  BY <1>1, <1>2, <1>3 DEF HeldAndCopied

\* A process adds the layer it has reached, which the model has.
LEMMA ReachedLayer ==
    ASSUME ShardInv, NEW r \in Ranks, At(r, "layers")
    PROVE  nextLayer[r] \in 1 .. LastCut(shape)
<1>1. LastCut(shape) \in Nat
  BY ShapeSizes DEF ShardInv
<1>2. PICK k \in 0 .. LastCut(shape) : \E f \in [0 .. k -> 1 .. LastCut(shape) + 1] : Sharding(r, k, f)
  BY DEF ShardInv, RankInv, OnItsWay
<1>3. PICK f \in [0 .. k -> 1 .. LastCut(shape) + 1] : Sharding(r, k, f)
  BY <1>2
<1>4. /\ partNo[r] \in 0 .. k /\ nextLayer[r] \in f[partNo[r]] .. LastCut(shape) + 1
      /\ nextLayer[r] <= LastCut(shape)
  BY <1>3 DEF Sharding, At
<1>5. f[partNo[r]] \in 1 .. LastCut(shape) + 1
  BY <1>4
<1> QED
  BY <1>1, <1>4, <1>5

LEMMA HeldStep == ShardInv /\ HeldAndCopied /\ [ShardNext]_shardVars => HeldAndCopied'
<1> SUFFICES ASSUME ShardInv, HeldAndCopied, [ShardNext]_shardVars PROVE HeldAndCopied'
  OBVIOUS
<1>1. ShardFunctions /\ metadata \in [Ranks -> SUBSET Metadata] /\ deaths \in 0 .. MaxDeaths
  BY DEF ShardInv, HeldAndCopied
<1>2. CASE UNCHANGED shardVars
  BY <1>2 DEF shardVars, procVars, diskVars, HeldAndCopied, At
<1>3. ASSUME NEW r \in Ranks, NEW s \in Shapes, Deploy(r, s) PROVE HeldAndCopied'
  <2>1. /\ held' = held /\ UNCHANGED <<metadata, indexFile, deaths>>
        /\ \A q \in Ranks : shardPc'[q] = "idle" => shardPc[q] = "idle"
    BY <1>1, <1>3 DEF Deploy, Goto, diskVars, ShardFunctions
  <2>2. CASE \A q \in Ranks : At(q, "idle")
    <3>1. \A q \in Ranks : held'[q] = {}
      BY <2>1, <2>2 DEF HeldAndCopied
    <3> QED
      BY <2>1, <3>1 DEF HeldAndCopied, At
  <2>3. CASE ~(\A q \in Ranks : At(q, "idle"))
    <3>1. shape' = shape
      BY <1>3, <2>3 DEF Deploy
    <3> QED
      BY <2>1, <3>1 DEF HeldAndCopied, At
  <2> QED
    BY <2>2, <2>3
<1>4. ASSUME NEW r \in Ranks, Begin(r) \/ Finalize(r) PROVE HeldAndCopied'
  <2>1. /\ shape' = shape /\ UNCHANGED <<metadata, indexFile, deaths>>
        /\ \A q \in Ranks : held'[q] = held[q] \/ held'[q] = {}
        /\ \A q \in Ranks : shardPc'[q] = "idle" => shardPc[q] = "idle"
    BY <1>1, <1>4 DEF Begin, Finalize, Flush, Goto, diskVars, ShardFunctions
  <2> QED
    BY <2>1 DEF HeldAndCopied, At
<1>5. ASSUME NEW r \in Ranks, AddLayer(r) PROVE HeldAndCopied'
  <2>1. /\ shape' = shape /\ UNCHANGED <<metadata, indexFile, deaths>>
        /\ \A q \in Ranks : \/ held'[q] = held[q] \/ held'[q] = {}
                            \/ q = r /\ held'[q] = held[q] \cup {nextLayer[q]}
        /\ \A q \in Ranks : shardPc'[q] = "idle" => shardPc[q] = "idle"
    BY <1>1, <1>5 DEF AddLayer, Flush, Goto, ShardFunctions
  <2>2. nextLayer[r] \in 1 .. LastCut(shape)
    BY <1>5, ReachedLayer DEF AddLayer
  <2>3. \A q \in Ranks : held'[q] \subseteq 1 .. LastCut(shape')
    BY <2>1, <2>2 DEF HeldAndCopied
  <2> QED
    BY <2>1, <2>3, <1>5 DEF HeldAndCopied, At, AddLayer
<1>6. ASSUME NEW r \in Ranks, CopyMetadata(r) \/ WriteIndex(r) \/ Die(r) PROVE HeldAndCopied'
  <2>1. /\ shape' = shape /\ held' = held
        /\ \A q \in Ranks : shardPc'[q] = "idle" => shardPc[q] = "idle"
        /\ \A q \in Ranks : indexFile'[q] \in {indexFile[q], "model", "job", "torn"}
    BY <1>1, <1>6 DEF CopyMetadata, WriteIndex, Die, Goto, diskVars, ShardFunctions
  <2>2. metadata' \in [Ranks -> SUBSET Metadata]
    BY <1>1, <1>6 DEF CopyMetadata, WriteIndex, Die, diskVars
  <2>3. deaths' \in 0 .. MaxDeaths
    BY <1>1, <1>6, ShardAssumption DEF CopyMetadata, WriteIndex, Die, ShardAssumption
  <2> QED
    BY <2>1, <2>2, <2>3 DEF HeldAndCopied, At
<1> QED
  BY <1>2, <1>3, <1>4, <1>5, <1>6 DEF ShardNext

LEMMA ShardTypes == ShardInv /\ HeldAndCopied => ShardTypeOK
<1> SUFFICES ASSUME ShardInv, HeldAndCopied PROVE ShardTypeOK
  OBVIOUS
<1>1. ASSUME NEW r \in Ranks, NEW n \in DOMAIN partFiles[r]
      PROVE  partFiles[r][n] = Torn \/ partFiles[r][n] \subseteq 1 .. LastCut(shape)
  <2>1. LastCut(shape) \in Nat
    BY ShapeSizes DEF ShardInv
  <2>2. PICK k \in 0 .. LastCut(shape) : \E f \in [0 .. k -> 1 .. LastCut(shape) + 1] : OnDisk(r, k, f)
    BY DEF ShardInv, RankInv, OnItsWay
  <2>3. PICK f \in [0 .. k -> 1 .. LastCut(shape) + 1] : OnDisk(r, k, f)
    BY <2>2
  <2>4. n \in 0 .. k - 1 \/ partFiles[r][n] = Torn
    BY <2>3 DEF OnDisk
  <2>5. ASSUME n \in 0 .. k - 1 PROVE f[n] .. f[n + 1] - 1 \subseteq 1 .. LastCut(shape)
    <3>1. f[n] \in 1 .. LastCut(shape) + 1 /\ f[n + 1] \in 1 .. LastCut(shape) + 1
      BY <2>1, <2>5
    <3> QED
      BY <2>1, <3>1
  <2>6. n \in 0 .. k - 1 => partFiles[r][n] = Torn \/ partFiles[r][n] = f[n] .. f[n + 1] - 1
    BY <2>3 DEF OnDisk
  <2> QED
    BY <2>4, <2>5, <2>6
<1>2. shape \in Shapes
  BY DEF ShardInv
<1>3. \A r \in Ranks : metadata[r] \subseteq Metadata
  BY DEF HeldAndCopied
<1> QED
  BY <1>1, <1>2, <1>3 DEF HeldAndCopied, ShardTypeOK, LastCut

JobBounds == deploys \in 0 .. MaxDeploys /\ kills \in 0 .. MaxKills

LEMMA JobBoundsStart == JobInit => JobBounds
BY JobAssumption DEF JobInit, JobBounds, JobAssumption

LEMMA JobBoundsStep == JobBounds /\ [JobNext]_jobVars => JobBounds'
<1> SUFFICES ASSUME JobBounds, [JobNext]_jobVars PROVE JobBounds'
  OBVIOUS
<1>1. deploys' = deploys \/ (deploys < MaxDeploys /\ deploys' = deploys + 1)
  BY DEF JobNext, DeployJobs, CreateHead, CallSave, SaveReturns, ProgramDies, Finish, SyncDir, Launch,
         Check, WriteParts, Kill, Deserted, jobVars
<1>2. kills' = kills \/ (kills < MaxKills /\ kills' = kills + 1)
  BY DEF JobNext, DeployJobs, CreateHead, CallSave, SaveReturns, ProgramDies, Finish, SyncDir, Launch,
         Check, WriteParts, Kill, Deserted, jobVars
<1> QED
  BY <1>1, <1>2, JobAssumption DEF JobBounds, JobAssumption

LEMMA JobTypes == JobInv /\ JobBounds => JobTypeOK
<1> SUFFICES ASSUME JobInv, JobBounds PROVE JobTypeOK
  OBVIOUS
<1>1. ASSUME NEW n \in Nodes
      PROVE  /\ shardDir[n] \in [parts : {"none", "some", "whole"}, by : 0 .. MaxDeploys,
                                 index : {"none", "model", "shards"}]
             /\ shardDir[n].parts = "none" <=> shardDir[n].by = 0
  <2>1. shardDir[n] \in Dirs /\ shardDir[n].by \in Nat
    BY DirIs DEF JobInv
  <2>2. shardDir[n].by <= deploys /\ (shardDir[n].parts = "none" <=> shardDir[n].by = 0)
    BY DEF JobInv, PartsNamed
  <2>3. shardDir[n].by \in 0 .. MaxDeploys
    BY <2>1, <2>2, JobAssumption DEF JobBounds, JobAssumption
  <2> QED
    BY <2>1, <2>2, <2>3 DEF Dirs
<1> QED
  BY <1>1 DEF JobTypeOK, JobBounds

LEMMA PreloadTypes == PreloadInv => PreloadTypeOK
BY DEF PreloadInv, CopyInv, CalmInv, PreTyped, Fragments, SelfHolds, PreloadTypeOK

ToolsInv == ShardInv /\ HeldAndCopied /\ PreloadInv /\ JobInv /\ JobBounds /\ DriftInv /\ PatchInv /\ RunInv

\* Each program behaves as its own specification says, so that what is proved of
\* each holds of their common runs.
THEOREM ToolsRunEach == ToolsSpec => []ToolsInv
<1>1. ToolsInit => ToolsInv
  BY ShardInvStart, HeldStart, PreloadStart, JobStart, JobBoundsStart, DriftStart, PatchStart, RunStart
     DEF ToolsInit, ToolsInv
<1>2. [ToolsNext]_toolVars =>
          /\ [ShardNext]_shardVars /\ [PreloadNext]_preloadVars
          /\ [JobNext]_jobVars /\ [DriftNext]_driftVars /\ [PatchNext]_patchVars
  <2> SUFFICES ASSUME [ToolsNext]_toolVars
               PROVE  /\ [ShardNext]_shardVars /\ [PreloadNext]_preloadVars
                      /\ [JobNext]_jobVars /\ [DriftNext]_driftVars /\ [PatchNext]_patchVars
    OBVIOUS
  <2>1. CASE ShardRun
    BY <2>1 DEF ShardRun
  <2>2. CASE PreloadRun
    BY <2>2 DEF PreloadRun
  <2>3. CASE JobRun
    BY <2>3 DEF JobRun
  <2>4. CASE DriftRun
    BY <2>4 DEF DriftRun
  <2>5. CASE GuardRun \/ ParserRun
    BY <2>5 DEF GuardRun, ParserRun
  <2>6. CASE PatchRun
    BY <2>6 DEF PatchRun
  <2>7. CASE UNCHANGED toolVars
    BY <2>7 DEF toolVars
  <2> QED
    BY <2>1, <2>2, <2>3, <2>4, <2>5, <2>6, <2>7 DEF ToolsNext
<1>3. ToolsInv /\ [ToolsNext]_toolVars => ToolsInv'
  BY <1>2, ShardInvStep, HeldStep, PreloadStep, JobStep, JobBoundsStep, DriftStep, PatchStep, RunStep DEF ToolsInv
<1> QED
  BY <1>1, <1>3, PTL DEF ToolsSpec

\* The sharding holds and writes only layers that the model has, a directory names
\* the deployment its parts are of, and a fetch has its fragment.
THEOREM ToolsKeepTypes == ToolsSpec => []ToolsTypeOK
<1>1. ToolsInv => ToolsTypeOK
  BY ShardTypes, PreloadTypes, JobTypes DEF ToolsInv, ToolsTypeOK
<1> QED
  BY <1>1, ToolsRunEach, PTL

===============================================================================
