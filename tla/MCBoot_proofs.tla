----------------------------- MODULE MCBoot_proofs -----------------------------
(***************************************************************************)
(* The programs of MCBoot, which are checked side by side.  The migration: *)
(* whatever fails or is interrupted, data, consent and the way to boot are *)
(* kept, for any preparations and any contents of the root.  The keyfile   *)
(* loop of initramfs-tools: what it guarantees for every set of prompts,   *)
(* keys and media.                                                         *)
(***************************************************************************)
EXTENDS MCBoot, Naturals, SequenceTheorems, TLAPS

-----------------------------------------------------------------------------
(* The inductive invariant. *)

\* Files and initrds whose migration is all of one preparation.
Whole(f) ==
    f["premount"] # None /\ f["hook"] # None =>
        f["conf"] = f["key"] /\ f["excl"] = f["key"]

Complete(i) == Runs(i) => i.conf = i.key /\ i.excl = i.key

Trees ==
    /\ old # None => Whole(old.files) /\ Complete(old.initrd)
    /\ ram # None => Whole(ram.files) /\ Complete(ram.initrd)
    /\ new # None => Whole(new.files) /\ Complete(new.initrd)
    /\ boot # None => Complete(boot)
    /\ job # None => Complete(job)

\* How far a prep has come.
Prepared ==
    /\ pc \in PrepSteps => sys = "old" /\ choice \in Choices
    /\ pc \in PrepSteps \ {"rebuild"} => old.files["premount"] = None
    /\ pc \in {"trunc", "excl", "key", "hook", "premount"} =>
          old.files["conf"] = choice
    /\ pc \in {"key", "hook", "premount"} => old.files["excl"] = choice
    /\ pc \in {"hook", "premount"} => old.files["key"] = choice

Left(s) == {s[i] : i \in 1 .. Len(s)}

\* How far an abort has come: the hook goes first, and what is still to be
\* removed is known.
Aborted ==
    pc = "abort" =>
        /\ (todo # <<>> /\ Head(todo) = "hook") \/ File("hook") = None
        /\ File("premount") # None => "premount" \in Left(todo)
        /\ "kconf" \notin Left(todo) /\ "tabs" \notin Left(todo)
        /\ Owned => "fkey" \notin Left(todo)

\* Which root is there at which step, and what runs from it.
Standing ==
    /\ pc \in UpSteps => Root # None
    /\ sys = "new" => grub = "new"
    /\ pc \in SafeSteps \cup LateSteps \cup {"shell"} =>
          job # None /\ Runs(job) /\ sys = "old"
    /\ pc \in SafeSteps \cup {"delete"} => old # None
    /\ pc \in SafeSteps \cup (LateSteps \ {"finish"}) \cup {"shell"} =>
          grub = "old"
    /\ past <=> pc \in LateSteps \cup {"shell"}
    /\ pc = "finish" => grub = "new"
    /\ old # None => /\ old.data = Items /\ luks = None /\ new = None
                     /\ boot = None /\ grub = "old" /\ ~enrolled
    /\ pc \in LateSteps \ {"delete"} => old = None
    /\ pc = "format" => luks = None
    /\ pc \in LateSteps \ {"delete", "format"} => luks = job.key
    /\ past => luks \in {None, job.key}
    /\ pc \in LateSteps \ {"delete", "format", "restore"} => new # None
    /\ luks = None => new = None
    /\ grub = "new" => old = None /\ new # None /\ boot # None
    /\ old = None /\ grub = "old" => cut \/ past
    /\ pc = "rootfs" => IF sys = "old" THEN old # None
                        ELSE job # None /\ job.crypt
    /\ BootsUnlessCut

Data ==
    /\ pc = "verify" =>
          ram # None /\ ram.data = Items \ Dropped(job.excl)
    /\ pc = "umount" \/ past =>
          ram # None /\ ram.data = Items \ Dropped(job.key)
    /\ new # None => new.data = Items \ Dropped(luks)

\* The new root and its /boot once they are made.
Moved ==
    /\ pc \in {"initramfs", "grubcfg", "grubinstall", "finish"} \/ grub = "new" =>
          \A n \in Migration : new.files[n] = None
    /\ pc \in {"destruct", "initramfs", "grubcfg", "grubinstall", "finish"}
          \/ grub = "new" => new.files["tabs"] # None
    /\ pc \in {"grubcfg", "grubinstall", "finish"} \/ grub = "new" =>
          boot # None /\ ~boot.pre /\ boot.key = None /\ boot.crypt

\* The fallback: keyfile.conf is there exactly when all of the rest is.
Fallen ==
    /\ old # None => old.files["kconf"] = None
    /\ pc = "off" => ram = None
    /\ ram # None => ram.files["kconf"] = None
    /\ new # None /\ new.files["kconf"] # None => enrolled /\ bootcopy
    /\ enrolled => new # None /\ new.files["fkey"] # None
    /\ pc = "restore" => ~enrolled
    /\ pc = "format" => ~enrolled
    /\ pc = "bootpart" => ~enrolled
    /\ pc = "enrol" => ~enrolled
    /\ pc = "copykey" => enrolled
    /\ pc = "keyconf" => enrolled /\ bootcopy
    /\ enrolled /\ (pc \in {"tabs", "destruct", "initramfs", "grubcfg",
                            "grubinstall", "finish"} \/ grub = "new") =>
          new.files["kconf"] # None
    /\ pc \in {"grubcfg", "grubinstall", "finish"} \/ grub = "new" =>
          (boot.keyfile => enrolled /\ bootcopy)

\* Nothing runs the migration that no preparation has armed.
Arming ==
    /\ old # None /\ old.initrd.pre => armed
    /\ old # None /\ old.files["premount"] # None => armed
    /\ pc = "mount" => armed

IInv ==
    /\ TypeOK /\ Trees /\ Prepared /\ Aborted /\ Standing /\ Data /\ Moved
    /\ Fallen /\ Arming

-----------------------------------------------------------------------------
(* What the helpers do. *)

LEMMA EmptySeqNames == <<>> \in Seq(FileNames)
OBVIOUS

LEMMA TreeParts ==
    ASSUME NEW t \in Tree
    PROVE  /\ t # None /\ t.data \subseteq Items
           /\ t.files \in Files /\ t.initrd \in Initrd
           /\ \A n \in FileNames : t.files[n] \in Content
<1>1. t # None
  BY NoneAssumption
<1>2. t.data \subseteq Items /\ t.files \in Files /\ t.initrd \in Initrd
  BY DEF Tree
<1>3. \A n \in FileNames : t.files[n] \in Content
  BY <1>2 DEF Files
<1> QED BY <1>1, <1>2, <1>3

\* What update-initramfs puts into an initrd.
LEMMA BuildFacts ==
    ASSUME NEW f \in Files
    PROVE  /\ Build(f) \in Initrd /\ Build(f) # None
           /\ Build(f).pre = (f["premount"] # None)
           /\ Build(f).crypt = (f["tabs"] # None)
           /\ Build(f).keyfile = (f["scripts"] # None /\ f["kconf"] # None)
           /\ f["hook"] = None => Build(f).key = None
           /\ Whole(f) => Complete(Build(f))
<1>1. \A n \in FileNames : f[n] \in Content
  BY DEF Files
<1>2. f["conf"] \in Content /\ f["key"] \in Content /\ f["excl"] \in Content
  BY <1>1 DEF FileNames
<1>3. Build(f) \in Initrd
  BY <1>2 DEF Build, Initrd, Content
<1>4. Build(f) # None
  BY <1>3, NoneAssumption
<1>5. Whole(f) => Complete(Build(f))
  BY DEF Whole, Complete, Runs, Build
<1> QED BY <1>3, <1>4, <1>5 DEF Build

\* A tree with other files.
LEMMA WithFacts ==
    ASSUME NEW t \in Tree, NEW f \in Files
    PROVE  /\ With(t, f) \in Tree /\ With(t, f) # None
           /\ With(t, f).data = t.data /\ With(t, f).initrd = t.initrd
           /\ With(t, f).files = f
<1>1. With(t, f) \in Tree
  BY DEF With, Tree
<1>2. /\ With(t, f).data = t.data /\ With(t, f).initrd = t.initrd
      /\ With(t, f).files = f
  BY DEF With, Tree
<1> QED BY <1>1, <1>2, NoneAssumption

LEMMA PutFacts ==
    ASSUME NEW f \in Files, NEW n \in FileNames, NEW v \in Content
    PROVE  /\ Put(f, n, v) \in Files
           /\ Put(f, n, v)[n] = v
           /\ \A m \in FileNames : m # n => Put(f, n, v)[m] = f[m]
BY DEF Put, Files

\* A tree with one file written.
LEMMA TreeWrite ==
    ASSUME NEW t \in Tree, NEW n \in FileNames, NEW v \in Content
    PROVE  /\ With(t, Put(t.files, n, v)) \in Tree
           /\ With(t, Put(t.files, n, v)) # None
           /\ With(t, Put(t.files, n, v)).data = t.data
           /\ With(t, Put(t.files, n, v)).initrd = t.initrd
           /\ With(t, Put(t.files, n, v)).files[n] = v
           /\ \A m \in FileNames :
                 m # n => With(t, Put(t.files, n, v)).files[m] = t.files[m]
<1>1. t.files \in Files
  BY TreeParts
<1>2. Put(t.files, n, v) \in Files
  BY <1>1, PutFacts
<1>3. /\ With(t, Put(t.files, n, v)) \in Tree
      /\ With(t, Put(t.files, n, v)) # None
      /\ With(t, Put(t.files, n, v)).data = t.data
      /\ With(t, Put(t.files, n, v)).initrd = t.initrd
      /\ With(t, Put(t.files, n, v)).files = Put(t.files, n, v)
  BY <1>2, WithFacts
<1> QED BY <1>1, <1>3, PutFacts

\* A write in the running system.
LEMMA WriteFacts ==
    ASSUME Root \in Tree, sys \in {"old", "new"},
           NEW n \in FileNames, NEW v \in Content, Write(n, v)
    PROVE  /\ UNCHANGED <<boot, luks, enrolled, bootcopy, grub, cfg>>
           /\ sys = "old" =>
                /\ new' = new /\ old \in Tree /\ old' \in Tree
                /\ old # None /\ old' # None
                /\ old'.data = old.data /\ old'.initrd = old.initrd
                /\ old'.files[n] = v
                /\ \A m \in FileNames : m # n => old'.files[m] = old.files[m]
           /\ sys = "new" =>
                /\ old' = old /\ new \in Tree /\ new' \in Tree
                /\ new # None /\ new' # None
                /\ new'.data = new.data /\ new'.initrd = new.initrd
                /\ new'.files[n] = v
                /\ \A m \in FileNames : m # n => new'.files[m] = new.files[m]
<1>1. UNCHANGED <<boot, luks, enrolled, bootcopy, grub, cfg>>
  BY DEF Write
<1>2. CASE sys = "old"
  <2>1. old \in Tree /\ old # None
    BY <1>2, TreeParts DEF Root
  <2>2. old' = With(old, Put(old.files, n, v)) /\ new' = new
    BY <1>2 DEF Write
  <2> QED BY <1>1, <1>2, <2>1, <2>2, TreeWrite
<1>3. CASE sys = "new"
  <2>1. new \in Tree /\ new # None
    BY <1>3, TreeParts DEF Root
  <2>2. new' = With(new, Put(new.files, n, v)) /\ old' = old
    BY <1>3 DEF Write
  <2> QED BY <1>1, <1>3, <2>1, <2>2, TreeWrite
<1> QED BY <1>2, <1>3

\* A rebuild in the running system.
LEMMA UpdateFacts ==
    ASSUME Root \in Tree, sys \in {"old", "new"}, UpdateInitramfs
    PROVE  /\ UNCHANGED <<new, luks, enrolled, bootcopy, grub, cfg>>
           /\ sys = "old" =>
                /\ boot' = boot /\ old \in Tree /\ old' \in Tree
                /\ old # None /\ old' # None
                /\ old'.data = old.data /\ old'.files = old.files
                /\ old'.initrd = Build(old.files)
           /\ sys = "new" =>
                /\ old' = old /\ new \in Tree /\ new # None
                /\ boot' = Build(new.files)
                /\ boot' \in Initrd /\ boot' # None
<1>1. CASE sys = "old"
  <2>1. old \in Tree /\ old # None
    BY <1>1, TreeParts DEF Root
  <2>2. old' = [old EXCEPT !.initrd = Build(old.files)] /\ boot' = boot
    BY <1>1 DEF UpdateInitramfs
  <2>3. old.files \in Files
    BY <2>1, TreeParts
  <2>4. Build(old.files) \in Initrd
    BY <2>3, BuildFacts
  <2>5. old' \in Tree
    BY <2>1, <2>2, <2>4 DEF Tree
  <2>6. old'.data = old.data /\ old'.files = old.files /\ old'.initrd = Build(old.files)
    BY <2>1, <2>2 DEF Tree
  <2>7. old' # None
    BY <2>5, TreeParts
  <2> QED BY <1>1, <2>1, <2>2, <2>5, <2>6, <2>7 DEF UpdateInitramfs
<1>2. CASE sys = "new"
  <2>1. new \in Tree /\ new # None
    BY <1>2, TreeParts DEF Root
  <2>2. new.files \in Files
    BY <2>1, TreeParts
  <2>3. boot' = Build(new.files) /\ old' = old
    BY <1>2 DEF UpdateInitramfs
  <2>4. boot' \in Initrd /\ boot' # None
    BY <2>2, <2>3, BuildFacts
  <2> QED BY <1>2, <2>1, <2>3, <2>4 DEF UpdateInitramfs
<1> QED BY <1>1, <1>2

\* The root of the running system is there.
LEMMA RootThere == TypeOK /\ Standing /\ pc \in UpSteps => Root \in Tree
BY DEF TypeOK, Standing, Root

-----------------------------------------------------------------------------
(* The initial state. *)

LEMMA EncryptInit == Init => IInv
<1> SUFFICES ASSUME Init PROVE IInv
  OBVIOUS
<1>1. Plain \in Files
  BY DEF Plain, Files, Content
<1>2. Build(Plain) \in Initrd /\ ~Build(Plain).pre
  BY <1>1, BuildFacts DEF Plain, FileNames
<1>3. old \in Tree /\ old # None
  <2>1. old \in Tree
    BY <1>1, <1>2 DEF Init, Tree
  <2> QED BY <2>1, NoneAssumption
<1>4. \A n \in FileNames : old.files[n] = None
  BY DEF Init, Plain
<1>5. \A n \in {"premount", "hook", "conf", "key", "excl", "kconf", "fkey"} :
        old.files[n] = None
  BY <1>4 DEF FileNames
<1>6. todo \in Seq(FileNames)
  BY EmptySeqNames DEF Init
<1>7. TypeOK
  BY <1>3, <1>6 DEF Init, TypeOK, UpSteps, Content
<1>8. Trees
  BY <1>2, <1>5 DEF Init, Trees, Whole, Complete, Runs
<1>9. Prepared /\ Aborted
  BY DEF Init, Prepared, Aborted, PrepSteps
<1>10. Standing
  BY <1>3 DEF Init, Standing, BootsUnlessCut, Root, SafeSteps, LateSteps,
     FallbackSteps
<1>11. Data /\ Moved
  BY DEF Init, Data, Moved
<1>12. Fallen
  BY <1>5 DEF Init, Fallen
<1>13. Arming
  BY <1>2, <1>5 DEF Init, Arming
<1> QED BY <1>7, <1>8, <1>9, <1>10, <1>11, <1>12, <1>13 DEF IInv

-----------------------------------------------------------------------------
(* While the script runs, the initrd it runs from is one with a key. *)

LEMMA JobParts ==
    ASSUME TypeOK, Standing, pc \in SafeSteps \cup LateSteps \cup {"shell"}
    PROVE  /\ job \in Initrd /\ job.key \in Content /\ job.conf \in Content
           /\ job.key # None /\ job.conf # None
<1>1. job \in Initrd /\ job.key # None /\ job.conf # None
  BY DEF TypeOK, Standing, Runs
<1> QED BY <1>1 DEF Initrd

-----------------------------------------------------------------------------
(* Before the point of no return. *)

LEMMA MountOldStep == IInv /\ MountOld => IInv'
<1> SUFFICES ASSUME IInv, MountOld PROVE IInv'
  OBVIOUS
<1> USE DEF MountOld, Go, InInitrd, command, disk, history
<1>1. TypeOK'
  BY DEF IInv, TypeOK, UpSteps, PrepSteps, SafeSteps, LateSteps,
    FallbackSteps
<1>2. Trees'
  BY DEF IInv, Trees, TypeOK, UpSteps, PrepSteps, SafeSteps, LateSteps,
    FallbackSteps
<1>3. Prepared'
  BY DEF IInv, Prepared, TypeOK, Content, Standing, UpSteps, PrepSteps,
    SafeSteps, LateSteps, FallbackSteps
<1>4. Aborted'
  BY DEF IInv, Aborted, TypeOK, Owned, File, Root, UpSteps, PrepSteps,
    SafeSteps, LateSteps, FallbackSteps
<1>5. Standing'
  BY DEF IInv, Standing, BootsUnlessCut, Root, TypeOK, Data, UpSteps,
    PrepSteps, SafeSteps, LateSteps, FallbackSteps
<1>6. Data'
  BY DEF IInv, Data, Standing, TypeOK, Trees, UpSteps, PrepSteps, SafeSteps,
    LateSteps, FallbackSteps
<1>7. Moved'
  BY DEF IInv, Moved, TypeOK, Standing, UpSteps, PrepSteps, SafeSteps,
    LateSteps, FallbackSteps
<1>8. Fallen'
  BY DEF IInv, Fallen, Standing, TypeOK, UpSteps, PrepSteps, SafeSteps,
    LateSteps, FallbackSteps
<1>9. Arming'
  BY DEF IInv, Arming, Standing, TypeOK, UpSteps, PrepSteps, SafeSteps,
    LateSteps, FallbackSteps
<1> QED BY <1>1, <1>2, <1>3, <1>4, <1>5, <1>6, <1>7, <1>8, <1>9 DEF IInv

LEMMA VerifyStep == IInv /\ Verify => IInv'
<1> SUFFICES ASSUME IInv, Verify PROVE IInv'
  OBVIOUS
<1> USE DEF Verify, Go, InInitrd, command, disk, history
<1>1. TypeOK'
  BY DEF IInv, TypeOK, UpSteps, PrepSteps, SafeSteps, LateSteps,
    FallbackSteps
<1>2. Trees'
  BY DEF IInv, Trees, TypeOK, UpSteps, PrepSteps, SafeSteps, LateSteps,
    FallbackSteps
<1>3. Prepared'
  BY DEF IInv, Prepared, TypeOK, Content, Standing, UpSteps, PrepSteps,
    SafeSteps, LateSteps, FallbackSteps
<1>4. Aborted'
  BY DEF IInv, Aborted, TypeOK, Owned, File, Root, UpSteps, PrepSteps,
    SafeSteps, LateSteps, FallbackSteps
<1>5. Standing'
  BY DEF IInv, Standing, BootsUnlessCut, Root, TypeOK, Data, UpSteps,
    PrepSteps, SafeSteps, LateSteps, FallbackSteps
<1>6. Data'
  BY DEF IInv, Data, Standing, Trees, Complete, UpSteps, PrepSteps,
    SafeSteps, LateSteps, FallbackSteps
<1>7. Moved'
  BY DEF IInv, Moved, TypeOK, Standing, UpSteps, PrepSteps, SafeSteps,
    LateSteps, FallbackSteps
<1>8. Fallen'
  BY DEF IInv, Fallen, Standing, TypeOK, UpSteps, PrepSteps, SafeSteps,
    LateSteps, FallbackSteps
<1>9. Arming'
  BY DEF IInv, Arming, Standing, TypeOK, UpSteps, PrepSteps, SafeSteps,
    LateSteps, FallbackSteps
<1> QED BY <1>1, <1>2, <1>3, <1>4, <1>5, <1>6, <1>7, <1>8, <1>9 DEF IInv

LEMMA UnmountOldStep == IInv /\ UnmountOld => IInv'
<1> SUFFICES ASSUME IInv, UnmountOld PROVE IInv'
  OBVIOUS
<1> USE DEF UnmountOld, Go, InInitrd, command, disk, history
<1>1. TypeOK'
  BY DEF IInv, TypeOK, UpSteps, PrepSteps, SafeSteps, LateSteps,
    FallbackSteps
<1>2. Trees'
  BY DEF IInv, Trees, TypeOK, UpSteps, PrepSteps, SafeSteps, LateSteps,
    FallbackSteps
<1>3. Prepared'
  BY DEF IInv, Prepared, TypeOK, Content, Standing, UpSteps, PrepSteps,
    SafeSteps, LateSteps, FallbackSteps
<1>4. Aborted'
  BY DEF IInv, Aborted, TypeOK, Owned, File, Root, UpSteps, PrepSteps,
    SafeSteps, LateSteps, FallbackSteps
<1>5. Standing'
  BY DEF IInv, Standing, BootsUnlessCut, Root, TypeOK, Data, UpSteps,
    PrepSteps, SafeSteps, LateSteps, FallbackSteps
<1>6. Data'
  BY DEF IInv, Data, Standing, TypeOK, Trees, UpSteps, PrepSteps, SafeSteps,
    LateSteps, FallbackSteps
<1>7. Moved'
  BY DEF IInv, Moved, TypeOK, Standing, UpSteps, PrepSteps, SafeSteps,
    LateSteps, FallbackSteps
<1>8. Fallen'
  BY DEF IInv, Fallen, Standing, TypeOK, UpSteps, PrepSteps, SafeSteps,
    LateSteps, FallbackSteps
<1>9. Arming'
  BY DEF IInv, Arming, Standing, TypeOK, UpSteps, PrepSteps, SafeSteps,
    LateSteps, FallbackSteps
<1> QED BY <1>1, <1>2, <1>3, <1>4, <1>5, <1>6, <1>7, <1>8, <1>9 DEF IInv

LEMMA FailStep == IInv /\ Fail => IInv'
<1> SUFFICES ASSUME IInv, Fail PROVE IInv'
  OBVIOUS
<1> USE DEF Fail, Go, InInitrd, command, disk, history
<1>1. TypeOK'
  BY DEF IInv, TypeOK, UpSteps, PrepSteps, SafeSteps, LateSteps,
    FallbackSteps
<1>2. Trees'
  BY DEF IInv, Trees, TypeOK, UpSteps, PrepSteps, SafeSteps, LateSteps,
    FallbackSteps
<1>3. Prepared'
  BY DEF IInv, Prepared, TypeOK, Content, Standing, UpSteps, PrepSteps,
    SafeSteps, LateSteps, FallbackSteps
<1>4. Aborted'
  BY DEF IInv, Aborted, TypeOK, Owned, File, Root, UpSteps, PrepSteps,
    SafeSteps, LateSteps, FallbackSteps
<1>5. Standing'
  BY DEF IInv, Standing, BootsUnlessCut, Root, TypeOK, Data, UpSteps,
    PrepSteps, SafeSteps, LateSteps, FallbackSteps
<1>6. Data'
  BY DEF IInv, Data, Standing, TypeOK, Trees, UpSteps, PrepSteps, SafeSteps,
    LateSteps, FallbackSteps
<1>7. Moved'
  BY DEF IInv, Moved, TypeOK, Standing, UpSteps, PrepSteps, SafeSteps,
    LateSteps, FallbackSteps
<1>8. Fallen'
  BY DEF IInv, Fallen, Standing, TypeOK, UpSteps, PrepSteps, SafeSteps,
    LateSteps, FallbackSteps
<1>9. Arming'
  BY DEF IInv, Arming, Standing, TypeOK, UpSteps, PrepSteps, SafeSteps,
    LateSteps, FallbackSteps
<1> QED BY <1>1, <1>2, <1>3, <1>4, <1>5, <1>6, <1>7, <1>8, <1>9 DEF IInv

-----------------------------------------------------------------------------
(* After the point of no return. *)

LEMMA RepartitionStep == IInv /\ Repartition => IInv'
<1> SUFFICES ASSUME IInv, Repartition PROVE IInv'
  OBVIOUS
<1> USE DEF Repartition, Go, InInitrd, command, disk, history
<1>1. TypeOK'
  BY DEF IInv, TypeOK, UpSteps, PrepSteps, SafeSteps, LateSteps,
    FallbackSteps
<1>2. Trees'
  BY DEF IInv, Trees, TypeOK, UpSteps, PrepSteps, SafeSteps, LateSteps,
    FallbackSteps
<1>3. Prepared'
  BY DEF IInv, Prepared, TypeOK, Content, Standing, UpSteps, PrepSteps,
    SafeSteps, LateSteps, FallbackSteps
<1>4. Aborted'
  BY DEF IInv, Aborted, TypeOK, Owned, File, Root, UpSteps, PrepSteps,
    SafeSteps, LateSteps, FallbackSteps
<1>5. Standing'
  BY DEF IInv, Standing, BootsUnlessCut, Root, TypeOK, Data, UpSteps,
    PrepSteps, SafeSteps, LateSteps, FallbackSteps
<1>6. Data'
  BY DEF IInv, Data, Standing, TypeOK, Trees, UpSteps, PrepSteps, SafeSteps,
    LateSteps, FallbackSteps
<1>7. Moved'
  BY DEF IInv, Moved, TypeOK, Standing, UpSteps, PrepSteps, SafeSteps,
    LateSteps, FallbackSteps
<1>8. Fallen'
  BY DEF IInv, Fallen, Standing, TypeOK, UpSteps, PrepSteps, SafeSteps,
    LateSteps, FallbackSteps
<1>9. Arming'
  BY DEF IInv, Arming, Standing, TypeOK, UpSteps, PrepSteps, SafeSteps,
    LateSteps, FallbackSteps
<1> QED BY <1>1, <1>2, <1>3, <1>4, <1>5, <1>6, <1>7, <1>8, <1>9 DEF IInv

LEMMA FormatStep == IInv /\ Format => IInv'
<1> SUFFICES ASSUME IInv, Format PROVE IInv'
  OBVIOUS
<1> USE DEF Format, Go, InInitrd, command, disk, history
<1>a. /\ job \in Initrd /\ job.key \in Content /\ job.conf \in Content
      /\ job.key # None /\ job.conf # None
  BY JobParts DEF IInv, UpSteps, PrepSteps, SafeSteps, LateSteps,
    FallbackSteps
<1>1. TypeOK'
  BY <1>a DEF IInv, TypeOK, UpSteps, PrepSteps, SafeSteps, LateSteps,
    FallbackSteps
<1>2. Trees'
  BY <1>a DEF IInv, Trees, TypeOK, UpSteps, PrepSteps, SafeSteps, LateSteps,
    FallbackSteps
<1>3. Prepared'
  BY <1>a DEF IInv, Prepared, TypeOK, Content, Standing, UpSteps, PrepSteps,
    SafeSteps, LateSteps, FallbackSteps
<1>4. Aborted'
  BY <1>a DEF IInv, Aborted, TypeOK, Owned, File, Root, UpSteps, PrepSteps,
    SafeSteps, LateSteps, FallbackSteps
<1>5. Standing'
  BY <1>a DEF IInv, Standing, BootsUnlessCut, Root, TypeOK, Data, UpSteps,
    PrepSteps, SafeSteps, LateSteps, FallbackSteps
<1>6. Data'
  BY <1>a DEF IInv, Data, Standing, TypeOK, Trees, UpSteps, PrepSteps,
    SafeSteps, LateSteps, FallbackSteps
<1>7. Moved'
  BY <1>a DEF IInv, Moved, TypeOK, Standing, UpSteps, PrepSteps, SafeSteps,
    LateSteps, FallbackSteps
<1>8. Fallen'
  BY <1>a DEF IInv, Fallen, Standing, TypeOK, UpSteps, PrepSteps, SafeSteps,
    LateSteps, FallbackSteps
<1>9. Arming'
  BY <1>a DEF IInv, Arming, Standing, TypeOK, UpSteps, PrepSteps, SafeSteps,
    LateSteps, FallbackSteps
<1> QED BY <1>1, <1>2, <1>3, <1>4, <1>5, <1>6, <1>7, <1>8, <1>9 DEF IInv

LEMMA RestoreStep == IInv /\ Restore => IInv'
<1> SUFFICES ASSUME IInv, Restore PROVE IInv'
  OBVIOUS
<1> USE DEF Restore, Go, InInitrd, command, disk, history
<1>a. /\ job \in Initrd /\ job.key \in Content /\ job.conf \in Content
      /\ job.key # None /\ job.conf # None
  BY JobParts DEF IInv, UpSteps, PrepSteps, SafeSteps, LateSteps,
    FallbackSteps
<1>1. TypeOK'
  BY <1>a DEF IInv, TypeOK, UpSteps, PrepSteps, SafeSteps, LateSteps,
    FallbackSteps
<1>2. Trees'
  BY <1>a DEF IInv, Trees, TypeOK, UpSteps, PrepSteps, SafeSteps, LateSteps,
    FallbackSteps
<1>3. Prepared'
  BY <1>a DEF IInv, Prepared, TypeOK, Content, Standing, UpSteps, PrepSteps,
    SafeSteps, LateSteps, FallbackSteps
<1>4. Aborted'
  BY <1>a DEF IInv, Aborted, TypeOK, Owned, File, Root, UpSteps, PrepSteps,
    SafeSteps, LateSteps, FallbackSteps
<1>5. Standing'
  BY <1>a DEF IInv, Standing, BootsUnlessCut, Root, TypeOK, Data, UpSteps,
    PrepSteps, SafeSteps, LateSteps, FallbackSteps
<1>6. Data'
  BY <1>a DEF IInv, Data, Standing, TypeOK, Trees, UpSteps, PrepSteps,
    SafeSteps, LateSteps, FallbackSteps
<1>7. Moved'
  BY <1>a DEF IInv, Moved, TypeOK, Standing, UpSteps, PrepSteps, SafeSteps,
    LateSteps, FallbackSteps
<1>8. Fallen'
  BY <1>a DEF IInv, Fallen, Standing, TypeOK, UpSteps, PrepSteps, SafeSteps,
    LateSteps, FallbackSteps
<1>9. Arming'
  BY <1>a DEF IInv, Arming, Standing, TypeOK, UpSteps, PrepSteps, SafeSteps,
    LateSteps, FallbackSteps
<1> QED BY <1>1, <1>2, <1>3, <1>4, <1>5, <1>6, <1>7, <1>8, <1>9 DEF IInv

LEMMA BootPartStep == IInv /\ BootPart => IInv'
<1> SUFFICES ASSUME IInv, BootPart PROVE IInv'
  OBVIOUS
<1> USE DEF BootPart, Go, InInitrd, command, disk, history
<1>a. new \in Tree /\ new # None /\ new.initrd \in Initrd /\ new.initrd # None
  BY TreeParts, NoneAssumption DEF IInv, TypeOK, Standing, UpSteps,
    PrepSteps, SafeSteps, LateSteps, FallbackSteps
<1>1. TypeOK'
  BY <1>a DEF IInv, TypeOK, UpSteps, PrepSteps, SafeSteps, LateSteps,
    FallbackSteps
<1>2. Trees'
  BY <1>a DEF IInv, Trees
<1>3. Prepared'
  BY <1>a DEF IInv, Prepared, TypeOK, Content, Standing, UpSteps, PrepSteps,
    SafeSteps, LateSteps, FallbackSteps
<1>4. Aborted'
  BY <1>a DEF IInv, Aborted, TypeOK, Owned, File, Root, UpSteps, PrepSteps,
    SafeSteps, LateSteps, FallbackSteps
<1>5. Standing'
  BY <1>a DEF IInv, Standing, BootsUnlessCut, Root, TypeOK, Data, UpSteps,
    PrepSteps, SafeSteps, LateSteps, FallbackSteps
<1>6. Data'
  BY <1>a DEF IInv, Data, Standing, TypeOK, Trees, UpSteps, PrepSteps,
    SafeSteps, LateSteps, FallbackSteps
<1>7. Moved'
  BY <1>a DEF IInv, Moved, TypeOK, Standing, UpSteps, PrepSteps, SafeSteps,
    LateSteps, FallbackSteps
<1>8. Fallen'
  BY <1>a DEF IInv, Fallen, Standing, TypeOK, UpSteps, PrepSteps, SafeSteps,
    LateSteps, FallbackSteps
<1>9. Arming'
  BY <1>a DEF IInv, Arming, Standing, TypeOK, UpSteps, PrepSteps, SafeSteps,
    LateSteps, FallbackSteps
<1> QED BY <1>1, <1>2, <1>3, <1>4, <1>5, <1>6, <1>7, <1>8, <1>9 DEF IInv

LEMMA EnrolStep == IInv /\ Enrol => IInv'
<1> SUFFICES ASSUME IInv, Enrol PROVE IInv'
  OBVIOUS
<1>a. \/ /\ pc = "enrol" /\ pc' = "copykey" /\ enrolled' = TRUE
         /\ new.files["fkey"] # None
      \/ pc = "enrol" /\ pc' = "tabs" /\ enrolled' = enrolled
  BY DEF Enrol, Go
<1>b. /\ UNCHANGED <<ram, old, new, boot, luks, bootcopy, grub, cfg, past>>
      /\ UNCHANGED <<sys, choice, todo, removed, job, cut, armed>>
  BY DEF Enrol, Go, InInitrd, command, history
<1>c. enrolled' \in BOOLEAN
  BY <1>a DEF IInv, TypeOK
<1>1. TypeOK'
  BY <1>a, <1>b, <1>c DEF IInv, TypeOK, UpSteps, PrepSteps, SafeSteps,
    LateSteps, FallbackSteps
<1>2. Trees'
  BY <1>a, <1>b, <1>c DEF IInv, Trees, TypeOK, UpSteps, PrepSteps, SafeSteps,
    LateSteps, FallbackSteps
<1>3. Prepared'
  BY <1>a, <1>b, <1>c DEF IInv, Prepared, TypeOK, Content, Standing, UpSteps,
    PrepSteps, SafeSteps, LateSteps, FallbackSteps
<1>4. Aborted'
  BY <1>a, <1>b, <1>c DEF IInv, Aborted, TypeOK, Owned, File, Root, UpSteps,
    PrepSteps, SafeSteps, LateSteps, FallbackSteps
<1>5. Standing'
  BY <1>a, <1>b, <1>c DEF IInv, Standing, BootsUnlessCut, Root, TypeOK, Data,
    UpSteps, PrepSteps, SafeSteps, LateSteps, FallbackSteps
<1>6. Data'
  BY <1>a, <1>b, <1>c DEF IInv, Data, Standing, TypeOK, Trees, UpSteps,
    PrepSteps, SafeSteps, LateSteps, FallbackSteps
<1>7. Moved'
  BY <1>a, <1>b, <1>c DEF IInv, Moved, TypeOK, Standing, UpSteps, PrepSteps,
    SafeSteps, LateSteps, FallbackSteps
<1>8. Fallen'
  BY <1>a, <1>b, <1>c DEF IInv, Fallen, Standing, TypeOK, UpSteps, PrepSteps,
    SafeSteps, LateSteps, FallbackSteps
<1>9. Arming'
  BY <1>a, <1>b, <1>c DEF IInv, Arming, Standing, TypeOK, UpSteps, PrepSteps,
    SafeSteps, LateSteps, FallbackSteps
<1> QED BY <1>1, <1>2, <1>3, <1>4, <1>5, <1>6, <1>7, <1>8, <1>9 DEF IInv

LEMMA CopyKeyStep == IInv /\ CopyKey => IInv'
<1> SUFFICES ASSUME IInv, CopyKey PROVE IInv'
  OBVIOUS
<1> USE DEF CopyKey, Go, InInitrd, command, disk, history
<1>1. TypeOK'
  BY DEF IInv, TypeOK, UpSteps, PrepSteps, SafeSteps, LateSteps,
    FallbackSteps
<1>2. Trees'
  BY DEF IInv, Trees, TypeOK, UpSteps, PrepSteps, SafeSteps, LateSteps,
    FallbackSteps
<1>3. Prepared'
  BY DEF IInv, Prepared, TypeOK, Content, Standing, UpSteps, PrepSteps,
    SafeSteps, LateSteps, FallbackSteps
<1>4. Aborted'
  BY DEF IInv, Aborted, TypeOK, Owned, File, Root, UpSteps, PrepSteps,
    SafeSteps, LateSteps, FallbackSteps
<1>5. Standing'
  BY DEF IInv, Standing, BootsUnlessCut, Root, TypeOK, Data, UpSteps,
    PrepSteps, SafeSteps, LateSteps, FallbackSteps
<1>6. Data'
  BY DEF IInv, Data, Standing, TypeOK, Trees, UpSteps, PrepSteps, SafeSteps,
    LateSteps, FallbackSteps
<1>7. Moved'
  BY DEF IInv, Moved, TypeOK, Standing, UpSteps, PrepSteps, SafeSteps,
    LateSteps, FallbackSteps
<1>8. Fallen'
  BY DEF IInv, Fallen, Standing, TypeOK, UpSteps, PrepSteps, SafeSteps,
    LateSteps, FallbackSteps
<1>9. Arming'
  BY DEF IInv, Arming, Standing, TypeOK, UpSteps, PrepSteps, SafeSteps,
    LateSteps, FallbackSteps
<1> QED BY <1>1, <1>2, <1>3, <1>4, <1>5, <1>6, <1>7, <1>8, <1>9 DEF IInv

LEMMA UpdateGrubStep == IInv /\ UpdateGrub => IInv'
<1> SUFFICES ASSUME IInv, UpdateGrub PROVE IInv'
  OBVIOUS
<1> USE DEF UpdateGrub, Go, InInitrd, command, disk, history
<1>1. TypeOK'
  BY DEF IInv, TypeOK, UpSteps, PrepSteps, SafeSteps, LateSteps,
    FallbackSteps
<1>2. Trees'
  BY DEF IInv, Trees, TypeOK, UpSteps, PrepSteps, SafeSteps, LateSteps,
    FallbackSteps
<1>3. Prepared'
  BY DEF IInv, Prepared, TypeOK, Content, Standing, UpSteps, PrepSteps,
    SafeSteps, LateSteps, FallbackSteps
<1>4. Aborted'
  BY DEF IInv, Aborted, TypeOK, Owned, File, Root, UpSteps, PrepSteps,
    SafeSteps, LateSteps, FallbackSteps
<1>5. Standing'
  BY DEF IInv, Standing, BootsUnlessCut, Root, TypeOK, Data, UpSteps,
    PrepSteps, SafeSteps, LateSteps, FallbackSteps
<1>6. Data'
  BY DEF IInv, Data, Standing, TypeOK, Trees, UpSteps, PrepSteps, SafeSteps,
    LateSteps, FallbackSteps
<1>7. Moved'
  BY DEF IInv, Moved, TypeOK, Standing, UpSteps, PrepSteps, SafeSteps,
    LateSteps, FallbackSteps
<1>8. Fallen'
  BY DEF IInv, Fallen, Standing, TypeOK, UpSteps, PrepSteps, SafeSteps,
    LateSteps, FallbackSteps
<1>9. Arming'
  BY DEF IInv, Arming, Standing, TypeOK, UpSteps, PrepSteps, SafeSteps,
    LateSteps, FallbackSteps
<1> QED BY <1>1, <1>2, <1>3, <1>4, <1>5, <1>6, <1>7, <1>8, <1>9 DEF IInv

LEMMA GrubInstallStep == IInv /\ GrubInstall => IInv'
<1> SUFFICES ASSUME IInv, GrubInstall PROVE IInv'
  OBVIOUS
<1> USE DEF GrubInstall, Go, InInitrd, command, disk, history
<1>1. TypeOK'
  BY DEF IInv, TypeOK, UpSteps, PrepSteps, SafeSteps, LateSteps,
    FallbackSteps
<1>2. Trees'
  BY DEF IInv, Trees, TypeOK, UpSteps, PrepSteps, SafeSteps, LateSteps,
    FallbackSteps
<1>3. Prepared'
  BY DEF IInv, Prepared, TypeOK, Content, Standing, UpSteps, PrepSteps,
    SafeSteps, LateSteps, FallbackSteps
<1>4. Aborted'
  BY DEF IInv, Aborted, TypeOK, Owned, File, Root, UpSteps, PrepSteps,
    SafeSteps, LateSteps, FallbackSteps
<1>5. Standing'
  BY DEF IInv, Standing, BootsUnlessCut, Root, TypeOK, Moved, UpSteps,
    PrepSteps, SafeSteps, LateSteps, FallbackSteps
<1>6. Data'
  BY DEF IInv, Data, Standing, TypeOK, Trees, UpSteps, PrepSteps, SafeSteps,
    LateSteps, FallbackSteps
<1>7. Moved'
  BY DEF IInv, Moved, TypeOK, Standing, UpSteps, PrepSteps, SafeSteps,
    LateSteps, FallbackSteps
<1>8. Fallen'
  BY DEF IInv, Fallen, Standing, TypeOK, UpSteps, PrepSteps, SafeSteps,
    LateSteps, FallbackSteps
<1>9. Arming'
  BY DEF IInv, Arming, Standing, TypeOK, UpSteps, PrepSteps, SafeSteps,
    LateSteps, FallbackSteps
<1> QED BY <1>1, <1>2, <1>3, <1>4, <1>5, <1>6, <1>7, <1>8, <1>9 DEF IInv

LEMMA KeyConfStep == IInv /\ KeyConf => IInv'
<1> SUFFICES ASSUME IInv, KeyConf PROVE IInv'
  OBVIOUS
<1> USE DEF KeyConf, InNew, Go, InInitrd, command, disk, history
<1>a. new \in Tree /\ new.files \in Files /\ new # None
  BY TreeParts DEF IInv, TypeOK, Standing, UpSteps, PrepSteps, SafeSteps,
    LateSteps, FallbackSteps
<1>c. /\ job.conf \in Content /\ job.conf # None
  BY JobParts DEF IInv, UpSteps, PrepSteps, SafeSteps, LateSteps,
    FallbackSteps
<1>d. /\ new' \in Tree /\ new' # None /\ new'.data = new.data
      /\ new'.initrd = new.initrd
      /\ new'.files["kconf"] = job.conf
      /\ \A m \in FileNames : m # "kconf" => new'.files[m] = new.files[m]
  <2>1. new' = With(new, Put(new.files, "kconf", job.conf)) /\ "kconf" \in FileNames
    BY DEF FileNames
  <2> QED BY <1>a, <1>c, <2>1, TreeWrite
<1>e. /\ new'.files["fkey"] = new.files["fkey"]
      /\ new'.files["premount"] = new.files["premount"]
      /\ new'.files["hook"] = new.files["hook"]
      /\ new'.files["conf"] = new.files["conf"]
      /\ new'.files["key"] = new.files["key"]
      /\ new'.files["excl"] = new.files["excl"]
      /\ new'.files["tabs"] = new.files["tabs"]
  BY <1>d DEF FileNames
<1>1. TypeOK'
  BY <1>a, <1>c, <1>d, <1>e DEF IInv, TypeOK, UpSteps, PrepSteps, SafeSteps,
    LateSteps, FallbackSteps
<1>2. Trees'
  BY <1>a, <1>d, <1>e DEF IInv, Trees, Whole
<1>3. Prepared'
  BY <1>a, <1>c, <1>d, <1>e DEF IInv, Prepared, TypeOK, Content, Standing,
    UpSteps, PrepSteps, SafeSteps, LateSteps, FallbackSteps
<1>4. Aborted'
  BY <1>a, <1>c, <1>d, <1>e DEF IInv, Aborted, TypeOK, Owned, File, Root,
    UpSteps, PrepSteps, SafeSteps, LateSteps, FallbackSteps
<1>5. Standing'
  BY <1>a, <1>c, <1>d, <1>e DEF IInv, Standing, BootsUnlessCut, Root, TypeOK,
    Data, UpSteps, PrepSteps, SafeSteps, LateSteps, FallbackSteps
<1>6. Data'
  BY <1>a, <1>c, <1>d, <1>e DEF IInv, Data, Standing, TypeOK, Trees, UpSteps,
    PrepSteps, SafeSteps, LateSteps, FallbackSteps
<1>7. Moved'
  BY <1>a, <1>c, <1>d, <1>e DEF IInv, Moved, TypeOK, Standing, UpSteps,
    PrepSteps, SafeSteps, LateSteps, FallbackSteps
<1>8. Fallen'
  BY <1>a, <1>c, <1>d, <1>e DEF IInv, Fallen, Standing, TypeOK, UpSteps,
    PrepSteps, SafeSteps, LateSteps, FallbackSteps
<1>9. Arming'
  BY <1>a, <1>c, <1>d, <1>e DEF IInv, Arming, Standing, TypeOK, UpSteps,
    PrepSteps, SafeSteps, LateSteps, FallbackSteps
<1> QED BY <1>1, <1>2, <1>3, <1>4, <1>5, <1>6, <1>7, <1>8, <1>9 DEF IInv

LEMMA WriteTabsStep == IInv /\ WriteTabs => IInv'
<1> SUFFICES ASSUME IInv, WriteTabs PROVE IInv'
  OBVIOUS
<1> USE DEF WriteTabs, InNew, Go, InInitrd, command, disk, history, Tabs
<1>a. new \in Tree /\ new.files \in Files /\ new # None
  BY TreeParts DEF IInv, TypeOK, Standing, UpSteps, PrepSteps, SafeSteps,
    LateSteps, FallbackSteps
<1>c. /\ job.conf \in Content /\ job.conf # None
  BY JobParts DEF IInv, UpSteps, PrepSteps, SafeSteps, LateSteps,
    FallbackSteps
<1>d. /\ new' \in Tree /\ new' # None /\ new'.data = new.data
      /\ new'.initrd = new.initrd
      /\ new'.files["tabs"] = job.conf
      /\ \A m \in FileNames : m # "tabs" => new'.files[m] = new.files[m]
  <2>1. new' = With(new, Put(new.files, "tabs", job.conf)) /\ "tabs" \in FileNames
    BY DEF FileNames
  <2> QED BY <1>a, <1>c, <2>1, TreeWrite
<1>e. /\ new'.files["fkey"] = new.files["fkey"]
      /\ new'.files["premount"] = new.files["premount"]
      /\ new'.files["hook"] = new.files["hook"]
      /\ new'.files["conf"] = new.files["conf"]
      /\ new'.files["key"] = new.files["key"]
      /\ new'.files["excl"] = new.files["excl"]
      /\ new'.files["kconf"] = new.files["kconf"]
  BY <1>d DEF FileNames
<1>1. TypeOK'
  BY <1>a, <1>c, <1>d, <1>e DEF IInv, TypeOK, UpSteps, PrepSteps, SafeSteps,
    LateSteps, FallbackSteps
<1>2. Trees'
  BY <1>a, <1>d, <1>e DEF IInv, Trees, Whole
<1>3. Prepared'
  BY <1>a, <1>c, <1>d, <1>e DEF IInv, Prepared, TypeOK, Content, Standing,
    UpSteps, PrepSteps, SafeSteps, LateSteps, FallbackSteps
<1>4. Aborted'
  BY <1>a, <1>c, <1>d, <1>e DEF IInv, Aborted, TypeOK, Owned, File, Root,
    UpSteps, PrepSteps, SafeSteps, LateSteps, FallbackSteps
<1>5. Standing'
  BY <1>a, <1>c, <1>d, <1>e DEF IInv, Standing, BootsUnlessCut, Root, TypeOK,
    Data, UpSteps, PrepSteps, SafeSteps, LateSteps, FallbackSteps
<1>6. Data'
  BY <1>a, <1>c, <1>d, <1>e DEF IInv, Data, Standing, TypeOK, Trees, UpSteps,
    PrepSteps, SafeSteps, LateSteps, FallbackSteps
<1>7. Moved'
  BY <1>a, <1>c, <1>d, <1>e DEF IInv, Moved, TypeOK, Standing, UpSteps,
    PrepSteps, SafeSteps, LateSteps, FallbackSteps
<1>8. Fallen'
  BY <1>a, <1>c, <1>d, <1>e DEF IInv, Fallen, Standing, TypeOK, UpSteps,
    PrepSteps, SafeSteps, LateSteps, FallbackSteps
<1>9. Arming'
  BY <1>a, <1>c, <1>d, <1>e DEF IInv, Arming, Standing, TypeOK, UpSteps,
    PrepSteps, SafeSteps, LateSteps, FallbackSteps
<1> QED BY <1>1, <1>2, <1>3, <1>4, <1>5, <1>6, <1>7, <1>8, <1>9 DEF IInv

LEMMA SelfDestructStep == IInv /\ SelfDestruct => IInv'
<1> SUFFICES ASSUME IInv, SelfDestruct PROVE IInv'
  OBVIOUS
<1> USE DEF SelfDestruct, InNew, Go, InInitrd, command, disk, history
<1>a. new \in Tree /\ new.files \in Files /\ new # None
  BY TreeParts DEF IInv, TypeOK, Standing, UpSteps, PrepSteps, SafeSteps,
    LateSteps, FallbackSteps
<1>b. SelfDestructed \in Files
  BY <1>a DEF SelfDestructed, Files, Content
<1>c. /\ new' \in Tree /\ new' # None /\ new'.data = new.data
      /\ new'.initrd = new.initrd /\ new'.files = SelfDestructed
  BY <1>a, <1>b, WithFacts
<1>d. /\ \A n \in Migration : new'.files[n] = None
      /\ \A n \in FileNames \ Migration : new'.files[n] = new.files[n]
  BY <1>c DEF SelfDestructed, Migration, FileNames
<1>e. /\ new'.files["fkey"] = new.files["fkey"]
      /\ new'.files["kconf"] = new.files["kconf"]
      /\ new'.files["tabs"] = new.files["tabs"]
      /\ new'.files["premount"] = None
  BY <1>d DEF FileNames, Migration
<1>1. TypeOK'
  BY <1>a, <1>c, <1>d, <1>e DEF IInv, TypeOK, UpSteps, PrepSteps, SafeSteps,
    LateSteps, FallbackSteps
<1>2. Trees'
  BY <1>a, <1>c, <1>e DEF IInv, Trees, Whole
<1>3. Prepared'
  BY <1>a, <1>c, <1>d, <1>e DEF IInv, Prepared, TypeOK, Content, Standing,
    UpSteps, PrepSteps, SafeSteps, LateSteps, FallbackSteps
<1>4. Aborted'
  BY <1>a, <1>c, <1>d, <1>e DEF IInv, Aborted, TypeOK, Owned, File, Root,
    UpSteps, PrepSteps, SafeSteps, LateSteps, FallbackSteps
<1>5. Standing'
  BY <1>a, <1>c, <1>d, <1>e DEF IInv, Standing, BootsUnlessCut, Root, TypeOK,
    Data, UpSteps, PrepSteps, SafeSteps, LateSteps, FallbackSteps
<1>6. Data'
  BY <1>a, <1>c, <1>d, <1>e DEF IInv, Data, Standing, TypeOK, Trees, UpSteps,
    PrepSteps, SafeSteps, LateSteps, FallbackSteps
<1>7. Moved'
  BY <1>a, <1>c, <1>d, <1>e DEF IInv, Moved, TypeOK, Standing, UpSteps,
    PrepSteps, SafeSteps, LateSteps, FallbackSteps
<1>8. Fallen'
  BY <1>a, <1>c, <1>d, <1>e DEF IInv, Fallen, Standing, TypeOK, UpSteps,
    PrepSteps, SafeSteps, LateSteps, FallbackSteps
<1>9. Arming'
  BY <1>a, <1>c, <1>d, <1>e DEF IInv, Arming, Standing, TypeOK, UpSteps,
    PrepSteps, SafeSteps, LateSteps, FallbackSteps
<1> QED BY <1>1, <1>2, <1>3, <1>4, <1>5, <1>6, <1>7, <1>8, <1>9 DEF IInv

LEMMA RebuildNewStep == IInv /\ RebuildNew => IInv'
<1> SUFFICES ASSUME IInv, RebuildNew PROVE IInv'
  OBVIOUS
<1> USE DEF RebuildNew, Go, InInitrd, command, disk, history
<1>a. new \in Tree /\ new.files \in Files /\ new # None
  BY TreeParts DEF IInv, TypeOK, Standing, UpSteps, PrepSteps, SafeSteps,
    LateSteps, FallbackSteps
<1>b. /\ boot' \in Initrd /\ boot' # None
      /\ boot'.pre = (new.files["premount"] # None)
      /\ boot'.crypt = (new.files["tabs"] # None)
      /\ boot'.keyfile = (new.files["scripts"] # None /\ new.files["kconf"] # None)
      /\ new.files["hook"] = None => boot'.key = None
      /\ Whole(new.files) => Complete(boot')
  BY <1>a, BuildFacts
<1>c. new.files["premount"] = None /\ new.files["hook"] = None
  BY DEF IInv, Moved, Migration
<1>d. new.files["tabs"] # None
  BY DEF IInv, Moved
<1>e. new.files["kconf"] # None => enrolled /\ bootcopy
  BY <1>a DEF IInv, Fallen
<1>1. TypeOK'
  BY <1>a, <1>b, <1>c, <1>d, <1>e DEF IInv, TypeOK, UpSteps, PrepSteps,
    SafeSteps, LateSteps, FallbackSteps
<1>2. Trees'
  BY <1>a, <1>b, <1>c, <1>d, <1>e DEF IInv, Trees, TypeOK, UpSteps,
    PrepSteps, SafeSteps, LateSteps, FallbackSteps
<1>3. Prepared'
  BY <1>a, <1>b, <1>c, <1>d, <1>e DEF IInv, Prepared, TypeOK, Content,
    Standing, UpSteps, PrepSteps, SafeSteps, LateSteps, FallbackSteps
<1>4. Aborted'
  BY <1>a, <1>b, <1>c, <1>d, <1>e DEF IInv, Aborted, TypeOK, Owned, File,
    Root, UpSteps, PrepSteps, SafeSteps, LateSteps, FallbackSteps
<1>5. Standing'
  BY <1>a, <1>b, <1>c, <1>d, <1>e DEF IInv, Standing, BootsUnlessCut, Root,
    TypeOK, Data, UpSteps, PrepSteps, SafeSteps, LateSteps, FallbackSteps
<1>6. Data'
  BY <1>a, <1>b, <1>c, <1>d, <1>e DEF IInv, Data, Standing, TypeOK, Trees,
    UpSteps, PrepSteps, SafeSteps, LateSteps, FallbackSteps
<1>7. Moved'
  BY <1>a, <1>b, <1>c, <1>d, <1>e DEF IInv, Moved, TypeOK, Standing, UpSteps,
    PrepSteps, SafeSteps, LateSteps, FallbackSteps
<1>8. Fallen'
  BY <1>a, <1>b, <1>c, <1>d, <1>e DEF IInv, Fallen, Standing, TypeOK,
    UpSteps, PrepSteps, SafeSteps, LateSteps, FallbackSteps
<1>9. Arming'
  BY <1>a, <1>b, <1>c, <1>d, <1>e DEF IInv, Arming, Standing, TypeOK,
    UpSteps, PrepSteps, SafeSteps, LateSteps, FallbackSteps
<1> QED BY <1>1, <1>2, <1>3, <1>4, <1>5, <1>6, <1>7, <1>8, <1>9 DEF IInv

LEMMA BackupStep == IInv /\ Backup => IInv'
<1> SUFFICES ASSUME IInv, Backup PROVE IInv'
  OBVIOUS
<1>c. /\ pc = "backup"
      /\ UNCHANGED <<sys, choice, todo, removed, old, new, boot, luks, enrolled,
                     bootcopy, grub, cfg, job, past, cut, armed>>
  BY DEF Backup, InInitrd, command, disk, history
<1>a. old \in Tree /\ old # None /\ old.data = Items
  BY <1>c, TreeParts DEF IInv, TypeOK, Standing, UpSteps, PrepSteps,
    SafeSteps, LateSteps, FallbackSteps
<1>b. PICK got \in SUBSET (old.data \ Dropped(job.excl)) :
         /\ ram' = [old EXCEPT !.data = got]
         /\ pc' = IF BackupOk(got) THEN "verify" ELSE "rootfs"
  BY <1>a DEF Backup
<1>d. /\ ram' \in Tree /\ ram' # None /\ ram'.data = got
      /\ ram'.files = old.files /\ ram'.initrd = old.initrd
  <2>1. ram' \in Tree
    BY <1>a, <1>b DEF Tree
  <2> QED BY <1>a, <1>b, <2>1, NoneAssumption DEF Tree
<1>e. pc' = "rootfs" \/ (pc' = "verify" /\ got = Items \ Dropped(job.excl))
  BY <1>a, <1>b DEF BackupOk
<1>1. TypeOK'
  BY <1>a, <1>c, <1>d, <1>e DEF IInv, TypeOK, UpSteps, PrepSteps, SafeSteps,
    LateSteps, FallbackSteps
<1>2. Trees'
  BY <1>a, <1>c, <1>d, <1>e DEF IInv, Trees, TypeOK, UpSteps, PrepSteps,
    SafeSteps, LateSteps, FallbackSteps
<1>3. Prepared'
  BY <1>a, <1>c, <1>d, <1>e DEF IInv, Prepared, TypeOK, Content, Standing,
    UpSteps, PrepSteps, SafeSteps, LateSteps, FallbackSteps
<1>4. Aborted'
  BY <1>c, <1>e DEF Aborted
<1>5. Standing'
  BY <1>a, <1>c, <1>d, <1>e DEF IInv, Standing, BootsUnlessCut, Root, TypeOK,
    Data, UpSteps, PrepSteps, SafeSteps, LateSteps, FallbackSteps
<1>6. Data'
  BY <1>a, <1>c, <1>d, <1>e DEF IInv, Data, Standing, TypeOK, Trees, UpSteps,
    PrepSteps, SafeSteps, LateSteps, FallbackSteps
<1>7. Moved'
  BY <1>a, <1>c, <1>d, <1>e DEF IInv, Moved, TypeOK, Standing, UpSteps,
    PrepSteps, SafeSteps, LateSteps, FallbackSteps
<1>8. Fallen'
  BY <1>a, <1>c, <1>d, <1>e DEF IInv, Fallen, Standing, TypeOK, UpSteps,
    PrepSteps, SafeSteps, LateSteps, FallbackSteps
<1>9. Arming'
  BY <1>a, <1>c, <1>d, <1>e DEF IInv, Arming, Standing, TypeOK, UpSteps,
    PrepSteps, SafeSteps, LateSteps, FallbackSteps
<1> QED BY <1>1, <1>2, <1>3, <1>4, <1>5, <1>6, <1>7, <1>8, <1>9 DEF IInv

-----------------------------------------------------------------------------
(* Power and boot. *)

LEMMA ShutdownTyped ==
    ASSUME TypeOK, Shutdown, cut' = cut
    PROVE  TypeOK'
<1>1. /\ pc' = "off" /\ ram' = None /\ job' = None /\ past' = FALSE
      /\ choice' = None /\ todo' = <<>> /\ removed' = FALSE
      /\ sys' = sys /\ armed' = armed /\ cut' = cut
      /\ old' = old /\ new' = new /\ boot' = boot /\ luks' = luks
      /\ enrolled' = enrolled /\ bootcopy' = bootcopy
      /\ grub' = grub /\ cfg' = cfg
  BY DEF Shutdown, disk
<1>2. /\ pc' \in UpSteps \cup SafeSteps \cup LateSteps
                \cup {"off", "rootfs", "shell", "dead"}
      /\ todo' \in Seq(FileNames)
      /\ past' \in BOOLEAN /\ removed' \in BOOLEAN
  BY <1>1, EmptySeqNames
<1> QED BY <1>1, <1>2, ZenonT(40) DEF TypeOK

LEMMA RebootStep == IInv /\ Reboot => IInv'
<1> SUFFICES ASSUME IInv, Reboot PROVE IInv'
  OBVIOUS
<1> USE DEF Reboot, Shutdown, command, disk, history
<1>1. TypeOK'
  BY ShutdownTyped DEF IInv, TypeOK
<1>2. Trees'
  BY DEF IInv, Trees, TypeOK, UpSteps, PrepSteps, SafeSteps, LateSteps,
    FallbackSteps
<1>3. Prepared'
  BY DEF IInv, Prepared, TypeOK, Content, Standing, UpSteps, PrepSteps,
    SafeSteps, LateSteps, FallbackSteps
<1>4. Aborted'
  BY DEF IInv, Aborted, TypeOK, Owned, File, Root, UpSteps, PrepSteps,
    SafeSteps, LateSteps, FallbackSteps
<1>5. Standing'
  BY DEF IInv, Standing, BootsUnlessCut, Root, TypeOK, Data, UpSteps,
    PrepSteps, SafeSteps, LateSteps, FallbackSteps
<1>6. Data'
  BY DEF IInv, Data, Standing, TypeOK, Trees, UpSteps, PrepSteps, SafeSteps,
    LateSteps, FallbackSteps
<1>7. Moved'
  BY DEF IInv, Moved, TypeOK, Standing, UpSteps, PrepSteps, SafeSteps,
    LateSteps, FallbackSteps
<1>8. Fallen'
  BY DEF IInv, Fallen, Standing, TypeOK, UpSteps, PrepSteps, SafeSteps,
    LateSteps, FallbackSteps
<1>9. Arming'
  BY DEF IInv, Arming, Standing, TypeOK, UpSteps, PrepSteps, SafeSteps,
    LateSteps, FallbackSteps
<1> QED BY <1>1, <1>2, <1>3, <1>4, <1>5, <1>6, <1>7, <1>8, <1>9 DEF IInv

LEMMA PowerLossStep == IInv /\ PowerLoss => IInv'
<1> SUFFICES ASSUME IInv, PowerLoss PROVE IInv'
  OBVIOUS
<1> USE DEF PowerLoss, Shutdown, command, disk, history
<1>1. TypeOK'
  BY EmptySeqNames DEF IInv, TypeOK, UpSteps, PrepSteps, SafeSteps,
    LateSteps, FallbackSteps
<1>2. Trees'
  BY DEF IInv, Trees, TypeOK, UpSteps, PrepSteps, SafeSteps, LateSteps,
    FallbackSteps
<1>3. Prepared'
  BY DEF IInv, Prepared, TypeOK, Content, Standing, UpSteps, PrepSteps,
    SafeSteps, LateSteps, FallbackSteps
<1>4. Aborted'
  BY DEF IInv, Aborted, TypeOK, Owned, File, Root, UpSteps, PrepSteps,
    SafeSteps, LateSteps, FallbackSteps
<1>5. Standing'
  BY DEF IInv, Standing, BootsUnlessCut, Root, TypeOK, Data, UpSteps,
    PrepSteps, SafeSteps, LateSteps, FallbackSteps
<1>6. Data'
  BY DEF IInv, Data, Standing, TypeOK, Trees, UpSteps, PrepSteps, SafeSteps,
    LateSteps, FallbackSteps
<1>7. Moved'
  BY DEF IInv, Moved, TypeOK, Standing, UpSteps, PrepSteps, SafeSteps,
    LateSteps, FallbackSteps
<1>8. Fallen'
  BY DEF IInv, Fallen, Standing, TypeOK, UpSteps, PrepSteps, SafeSteps,
    LateSteps, FallbackSteps
<1>9. Arming'
  BY DEF IInv, Arming, Standing, TypeOK, UpSteps, PrepSteps, SafeSteps,
    LateSteps, FallbackSteps
<1> QED BY <1>1, <1>2, <1>3, <1>4, <1>5, <1>6, <1>7, <1>8, <1>9 DEF IInv

LEMMA FinishStep == IInv /\ Finish => IInv'
<1> SUFFICES ASSUME IInv, Finish PROVE IInv'
  OBVIOUS
<1> USE DEF Finish, Shutdown, command, disk, history
<1>1. TypeOK'
  BY ShutdownTyped DEF IInv, TypeOK
<1>2. Trees'
  BY DEF IInv, Trees, TypeOK, UpSteps, PrepSteps, SafeSteps, LateSteps,
    FallbackSteps
<1>3. Prepared'
  BY DEF IInv, Prepared, TypeOK, Content, Standing, UpSteps, PrepSteps,
    SafeSteps, LateSteps, FallbackSteps
<1>4. Aborted'
  BY DEF IInv, Aborted, TypeOK, Owned, File, Root, UpSteps, PrepSteps,
    SafeSteps, LateSteps, FallbackSteps
<1>5. Standing'
  BY DEF IInv, Standing, BootsUnlessCut, Root, TypeOK, Data, UpSteps,
    PrepSteps, SafeSteps, LateSteps, FallbackSteps
<1>6. Data'
  BY DEF IInv, Data, Standing, TypeOK, Trees, UpSteps, PrepSteps, SafeSteps,
    LateSteps, FallbackSteps
<1>7. Moved'
  BY DEF IInv, Moved, TypeOK, Standing, UpSteps, PrepSteps, SafeSteps,
    LateSteps, FallbackSteps
<1>8. Fallen'
  BY DEF IInv, Fallen, Standing, TypeOK, UpSteps, PrepSteps, SafeSteps,
    LateSteps, FallbackSteps
<1>9. Arming'
  BY DEF IInv, Arming, Standing, TypeOK, UpSteps, PrepSteps, SafeSteps,
    LateSteps, FallbackSteps
<1> QED BY <1>1, <1>2, <1>3, <1>4, <1>5, <1>6, <1>7, <1>8, <1>9 DEF IInv

LEMMA PowerOnStep == IInv /\ PowerOn => IInv'
<1> SUFFICES ASSUME IInv, PowerOn PROVE IInv'
  OBVIOUS
<1>a. /\ pc = "off"
      /\ UNCHANGED <<choice, todo, removed, ram, old, new, boot, luks, enrolled,
                     bootcopy, grub, cfg, past, cut, armed>>
  BY DEF PowerOn, command, disk, history
<1>b. \/ /\ grub = "old" /\ old # None /\ sys' = "old" /\ job' = old.initrd
         /\ pc' = IF Runs(old.initrd) THEN "mount" ELSE "rootfs"
      \/ /\ grub = "new" /\ cfg = "new" /\ boot # None
         /\ sys' = "new" /\ job' = boot
         /\ pc' = IF Runs(boot) THEN "mount" ELSE "rootfs"
      \/ /\ ~(grub = "old" /\ old # None)
         /\ ~(grub = "new" /\ cfg = "new" /\ boot # None)
         /\ pc' = "dead" /\ job' = job /\ sys' = sys
  BY DEF PowerOn, Start
<1>c. old # None => old \in Tree /\ old.initrd \in Initrd /\ old.initrd # None
  BY TreeParts, NoneAssumption DEF IInv, TypeOK
<1>d. grub \in {"old", "new"} /\ cfg \in {"old", "new"}
  BY DEF IInv, TypeOK
<1>1. TypeOK'
  BY <1>a, <1>b, <1>c, <1>d DEF IInv, TypeOK, UpSteps, PrepSteps, SafeSteps,
    LateSteps, FallbackSteps
<1>2. Trees'
  BY <1>a, <1>b, <1>c, <1>d DEF IInv, Trees, TypeOK, UpSteps, PrepSteps,
    SafeSteps, LateSteps, FallbackSteps
<1>3. Prepared'
  BY <1>a, <1>b, <1>c, <1>d DEF IInv, Prepared, TypeOK, Content, Standing,
    UpSteps, PrepSteps, SafeSteps, LateSteps, FallbackSteps
<1>4. Aborted'
  BY <1>a, <1>b, <1>c, <1>d DEF IInv, Aborted, TypeOK, Owned, File, Root,
    UpSteps, PrepSteps, SafeSteps, LateSteps, FallbackSteps
<1>5. Standing'
  BY <1>a, <1>b, <1>c, <1>d DEF IInv, Standing, BootsUnlessCut, Root, Moved,
    Runs, UpSteps, PrepSteps, SafeSteps, LateSteps, FallbackSteps
<1>6. Data'
  BY <1>a, <1>b, <1>c, <1>d DEF IInv, Data, Standing, TypeOK, Trees, UpSteps,
    PrepSteps, SafeSteps, LateSteps, FallbackSteps
<1>7. Moved'
  BY <1>a, <1>b, <1>c, <1>d DEF IInv, Moved, TypeOK, Standing, UpSteps,
    PrepSteps, SafeSteps, LateSteps, FallbackSteps
<1>8. Fallen'
  BY <1>a, <1>b, <1>c, <1>d DEF IInv, Fallen, Standing, TypeOK, UpSteps,
    PrepSteps, SafeSteps, LateSteps, FallbackSteps
<1>9. Arming'
  BY <1>a, <1>b, <1>d DEF IInv, Arming, Moved, Runs, UpSteps, PrepSteps,
    SafeSteps, LateSteps, FallbackSteps
<1> QED BY <1>1, <1>2, <1>3, <1>4, <1>5, <1>6, <1>7, <1>8, <1>9 DEF IInv

LEMMA MountRootStep == IInv /\ MountRoot => IInv'
<1> SUFFICES ASSUME IInv, MountRoot PROVE IInv'
  OBVIOUS
<1> USE DEF MountRoot, command, disk, history
<1>1. TypeOK'
  BY DEF IInv, TypeOK, UpSteps, PrepSteps, SafeSteps, LateSteps,
    FallbackSteps
<1>2. Trees'
  BY DEF IInv, Trees, TypeOK, UpSteps, PrepSteps, SafeSteps, LateSteps,
    FallbackSteps
<1>3. Prepared'
  BY DEF IInv, Prepared, TypeOK, Content, Standing, UpSteps, PrepSteps,
    SafeSteps, LateSteps, FallbackSteps
<1>4. Aborted'
  BY DEF IInv, Aborted, TypeOK, Owned, File, Root, UpSteps, PrepSteps,
    SafeSteps, LateSteps, FallbackSteps
<1>5. Standing'
  BY DEF IInv, Standing, BootsUnlessCut, Root, TypeOK, Data, UpSteps,
    PrepSteps, SafeSteps, LateSteps, FallbackSteps
<1>6. Data'
  BY DEF IInv, Data, Standing, TypeOK, Trees, UpSteps, PrepSteps, SafeSteps,
    LateSteps, FallbackSteps
<1>7. Moved'
  BY DEF IInv, Moved, TypeOK, Standing, UpSteps, PrepSteps, SafeSteps,
    LateSteps, FallbackSteps
<1>8. Fallen'
  BY DEF IInv, Fallen, Standing, TypeOK, UpSteps, PrepSteps, SafeSteps,
    LateSteps, FallbackSteps
<1>9. Arming'
  BY DEF IInv, Arming, Standing, TypeOK, UpSteps, PrepSteps, SafeSteps,
    LateSteps, FallbackSteps
<1> QED BY <1>1, <1>2, <1>3, <1>4, <1>5, <1>6, <1>7, <1>8, <1>9 DEF IInv

-----------------------------------------------------------------------------
(* Commands in the running system. *)

LEMMA TypeKept ==
    ASSUME TypeOK, todo' \in Seq(FileNames), pc' \in UpSteps,
           choice' \in Choices \cup {None}, removed' \in BOOLEAN,
           UNCHANGED <<sys, ram, job, past, cut, armed, old, new, boot, luks,
                       enrolled, bootcopy, grub, cfg>>
    PROVE  TypeOK'
<1>1. /\ sys' = sys /\ ram' = ram /\ job' = job /\ past' = past /\ cut' = cut
      /\ armed' = armed /\ old' = old /\ new' = new /\ boot' = boot
      /\ luks' = luks /\ enrolled' = enrolled /\ bootcopy' = bootcopy
      /\ grub' = grub /\ cfg' = cfg
  OBVIOUS
<1>2. pc' \in UpSteps \cup SafeSteps \cup LateSteps
              \cup {"off", "rootfs", "shell", "dead"}
  BY SMTT(40)
<1> QED BY <1>1, <1>2, ZenonT(60) DEF TypeOK

LEMMA InterruptStep == IInv /\ Interrupt => IInv'
<1> SUFFICES ASSUME IInv, Interrupt PROVE IInv'
  OBVIOUS
<1>u. TypeOK'
  <2>1. /\ todo' = <<>> /\ choice' = None /\ removed' = FALSE
        /\ pc' \in UpSteps
        /\ UNCHANGED <<sys, ram, job, past, cut, armed, old, new, boot, luks,
                       enrolled, bootcopy, grub, cfg>>
    BY DEF Interrupt, Stay, disk, UpSteps
  <2>2. todo' \in Seq(FileNames)
    BY <2>1, EmptySeqNames
  <2> QED BY <2>1, <2>2, TypeKept DEF IInv, TypeOK
<1> USE DEF Interrupt, Stay, command, disk, history
<1>1. TypeOK'
  BY <1>u
<1>2. Trees'
  BY DEF IInv, Trees, TypeOK, UpSteps, PrepSteps, SafeSteps, LateSteps,
    FallbackSteps
<1>3. Prepared'
  BY DEF IInv, Prepared, TypeOK, Content, Standing, UpSteps, PrepSteps,
    SafeSteps, LateSteps, FallbackSteps
<1>4. Aborted'
  BY DEF IInv, Aborted, TypeOK, Owned, File, Root, UpSteps, PrepSteps,
    SafeSteps, LateSteps, FallbackSteps
<1>5. Standing'
  BY DEF IInv, Standing, BootsUnlessCut, Root, TypeOK, Data, UpSteps,
    PrepSteps, SafeSteps, LateSteps, FallbackSteps
<1>6. Data'
  BY DEF IInv, Data, Standing, TypeOK, Trees, UpSteps, PrepSteps, SafeSteps,
    LateSteps, FallbackSteps
<1>7. Moved'
  BY DEF IInv, Moved, TypeOK, Standing, UpSteps, PrepSteps, SafeSteps,
    LateSteps, FallbackSteps
<1>8. Fallen'
  BY DEF IInv, Fallen, Standing, TypeOK, UpSteps, PrepSteps, SafeSteps,
    LateSteps, FallbackSteps
<1>9. Arming'
  BY DEF IInv, Arming, Standing, TypeOK, UpSteps, PrepSteps, SafeSteps,
    LateSteps, FallbackSteps
<1> QED BY <1>1, <1>2, <1>3, <1>4, <1>5, <1>6, <1>7, <1>8, <1>9 DEF IInv

LEMMA StartPrepStep == IInv /\ StartPrep => IInv'
<1> SUFFICES ASSUME IInv, StartPrep PROVE IInv'
  OBVIOUS
<1> USE DEF StartPrep, Stay, command, disk, history
<1>1. TypeOK'
  BY DEF IInv, TypeOK, UpSteps, PrepSteps, SafeSteps, LateSteps,
    FallbackSteps
<1>2. Trees'
  BY DEF IInv, Trees, TypeOK, UpSteps, PrepSteps, SafeSteps, LateSteps,
    FallbackSteps
<1>3. Prepared'
  BY DEF IInv, Prepared, TypeOK, Content, Standing, File, Root, UpSteps,
    PrepSteps, SafeSteps, LateSteps, FallbackSteps
<1>4. Aborted'
  BY DEF IInv, Aborted, TypeOK, Owned, File, Root, UpSteps, PrepSteps,
    SafeSteps, LateSteps, FallbackSteps
<1>5. Standing'
  BY DEF IInv, Standing, BootsUnlessCut, Root, TypeOK, Data, UpSteps,
    PrepSteps, SafeSteps, LateSteps, FallbackSteps
<1>6. Data'
  BY DEF IInv, Data, Standing, TypeOK, Trees, UpSteps, PrepSteps, SafeSteps,
    LateSteps, FallbackSteps
<1>7. Moved'
  BY DEF IInv, Moved, TypeOK, Standing, UpSteps, PrepSteps, SafeSteps,
    LateSteps, FallbackSteps
<1>8. Fallen'
  BY DEF IInv, Fallen, Standing, TypeOK, UpSteps, PrepSteps, SafeSteps,
    LateSteps, FallbackSteps
<1>9. Arming'
  BY DEF IInv, Arming, Standing, TypeOK, UpSteps, PrepSteps, SafeSteps,
    LateSteps, FallbackSteps
<1> QED BY <1>1, <1>2, <1>3, <1>4, <1>5, <1>6, <1>7, <1>8, <1>9 DEF IInv

LEMMA UpgradeStep == IInv /\ Upgrade => IInv'
<1> SUFFICES ASSUME IInv, Upgrade PROVE IInv'
  OBVIOUS
<1>f. /\ pc \in UpSteps
      /\ UNCHANGED <<sys, ram, job, past, cut, pc, choice, todo, removed, armed>>
  BY DEF Upgrade, Stay, command
<1>a. Root \in Tree /\ sys \in {"old", "new"}
  BY <1>f, RootThere DEF IInv, TypeOK, UpSteps, PrepSteps, SafeSteps, LateSteps,
    FallbackSteps
<1>b. /\ UNCHANGED <<new, luks, enrolled, bootcopy, grub, cfg>>
      /\ sys = "old" =>
           /\ boot' = boot /\ old \in Tree /\ old' \in Tree
           /\ old # None /\ old' # None
           /\ old'.data = old.data /\ old'.files = old.files
           /\ old'.initrd = Build(old.files)
      /\ sys = "new" =>
           /\ old' = old /\ new \in Tree /\ new # None
           /\ boot' = Build(new.files)
           /\ boot' \in Initrd /\ boot' # None
  BY <1>a, UpdateFacts DEF Upgrade
<1>c. \A f \in Files : /\ Whole(f) => Complete(Build(f))
                       /\ Build(f).pre = (f["premount"] # None)
                       /\ Build(f).crypt = (f["tabs"] # None)
                       /\ Build(f).keyfile => f["kconf"] # None
                       /\ f["hook"] = None => Build(f).key = None
  BY BuildFacts
<1>d. (sys = "old" => old.files \in Files) /\ (sys = "new" => new.files \in Files)
  BY <1>b, TreeParts
<1>e. /\ sys = "old" => Whole(old.files)
      /\ sys = "new" => /\ Whole(new.files) /\ old = None /\ grub = "new"
                        /\ new.files["premount"] = None
                        /\ new.files["hook"] = None
                        /\ new.files["tabs"] # None
  BY <1>b DEF IInv, Trees, Standing, Moved, Migration
<1>1. TypeOK'
  BY <1>a, <1>b, <1>c, <1>d, <1>e, <1>f DEF IInv, TypeOK, UpSteps, PrepSteps,
    SafeSteps, LateSteps, FallbackSteps
<1>2. Trees'
  BY <1>a, <1>b, <1>c, <1>d, <1>e, <1>f DEF IInv, Trees, TypeOK, UpSteps,
    PrepSteps, SafeSteps, LateSteps, FallbackSteps
<1>3. Prepared'
  BY <1>a, <1>b, <1>c, <1>d, <1>e, <1>f DEF IInv, Prepared, TypeOK, Content,
    Standing, UpSteps, PrepSteps, SafeSteps, LateSteps, FallbackSteps
<1>4. Aborted'
  BY <1>a, <1>b, <1>c, <1>d, <1>e, <1>f DEF IInv, Aborted, TypeOK, Owned,
    File, Root, UpSteps, PrepSteps, SafeSteps, LateSteps, FallbackSteps
<1>5. Standing'
  BY <1>a, <1>b, <1>c, <1>d, <1>e, <1>f DEF IInv, Standing, BootsUnlessCut,
    Root, TypeOK, Data, UpSteps, PrepSteps, SafeSteps, LateSteps,
    FallbackSteps
<1>6. Data'
  BY <1>a, <1>b, <1>c, <1>d, <1>e, <1>f DEF IInv, Data, Standing, TypeOK,
    Trees, UpSteps, PrepSteps, SafeSteps, LateSteps, FallbackSteps
<1>7. Moved'
  BY <1>a, <1>b, <1>c, <1>d, <1>e, <1>f DEF IInv, Moved, TypeOK, Standing,
    UpSteps, PrepSteps, SafeSteps, LateSteps, FallbackSteps
<1>8. Fallen'
  BY <1>a, <1>b, <1>c, <1>d, <1>e, <1>f DEF IInv, Fallen, Standing, TypeOK,
    UpSteps, PrepSteps, SafeSteps, LateSteps, FallbackSteps
<1>9. Arming'
  BY <1>a, <1>b, <1>c, <1>d, <1>e, <1>f DEF IInv, Arming, Standing, TypeOK,
    UpSteps, PrepSteps, SafeSteps, LateSteps, FallbackSteps
<1> QED BY <1>1, <1>2, <1>3, <1>4, <1>5, <1>6, <1>7, <1>8, <1>9 DEF IInv

LEMMA DeployFacts ==
    ASSUME IInv, NEW s \in PrepSteps, NEW n \in FileNames, NEW v \in Content,
           NEW next, Deploy(s, n, v, next)
    PROVE  /\ pc = s /\ pc' = next /\ sys = "old" /\ choice \in Choices
           /\ choice # None
           /\ UNCHANGED <<sys, choice, todo, removed, ram, new, boot, luks,
                          enrolled, bootcopy, grub, cfg, job, past, cut>>
           /\ old \in Tree /\ old' \in Tree /\ old # None /\ old' # None
           /\ old'.data = old.data /\ old'.initrd = old.initrd
           /\ old'.files[n] = v
           /\ \A m \in FileNames : m # n => old'.files[m] = old.files[m]
<1>1. pc = s /\ pc' = next /\ Write(n, v)
  BY DEF Deploy
<1>2. UNCHANGED <<sys, choice, todo, removed, ram, job, past, cut>>
  BY DEF Deploy, Stay, command
<1>3. sys = "old" /\ choice \in Choices /\ choice # None
  BY <1>1, EncryptAssumption DEF IInv, Prepared
<1>4. Root \in Tree /\ sys \in {"old", "new"}
  BY <1>1, RootThere DEF IInv, TypeOK, UpSteps
<1> QED BY <1>1, <1>2, <1>3, <1>4, WriteFacts

-----------------------------------------------------------------------------
(* Phase A. *)

LEMMA StageScriptsStep == IInv /\ StageScripts => IInv'
<1> SUFFICES ASSUME IInv, StageScripts PROVE IInv'
  OBVIOUS
<1>a. choice \in Content
  BY DEF IInv, TypeOK, Content
<1>b. /\ pc = "stage" /\ pc' = "stagekey" /\ sys = "old" /\ choice \in Choices
      /\ choice # None
      /\ UNCHANGED <<sys, choice, todo, removed, ram, new, boot, luks,
                     enrolled, bootcopy, grub, cfg, job, past, cut>>
      /\ old \in Tree /\ old' \in Tree /\ old # None /\ old' # None
      /\ old'.data = old.data /\ old'.initrd = old.initrd
      /\ old'.files["scripts"] = choice
      /\ \A m \in FileNames : m # "scripts" => old'.files[m] = old.files[m]
  <2>1. Deploy("stage", "scripts", choice, "stagekey")
    BY DEF StageScripts
  <2>2. "stage" \in PrepSteps /\ "scripts" \in FileNames
    BY DEF PrepSteps, FileNames
  <2> QED BY <1>a, <2>1, <2>2, DeployFacts
<1>c. /\ old'.files["premount"] = old.files["premount"]
      /\ old'.files["hook"] = old.files["hook"]
      /\ old'.files["conf"] = old.files["conf"]
      /\ old'.files["key"] = old.files["key"]
      /\ old'.files["excl"] = old.files["excl"]
      /\ old'.files["kconf"] = old.files["kconf"]
  BY <1>b DEF FileNames
<1>d. armed' = armed
  BY DEF StageScripts
<1>1. TypeOK'
  BY <1>b, <1>c, <1>d DEF IInv, TypeOK, UpSteps, PrepSteps
<1>2. Trees'
  BY <1>b, <1>c, <1>d DEF IInv, Trees, Prepared, PrepSteps, Whole
<1>3. Prepared'
  BY <1>b, <1>c, <1>d DEF IInv, Prepared, PrepSteps
<1>4. Aborted'
  BY <1>b, <1>c, <1>d DEF Aborted
<1>5. Standing'
  BY <1>b, <1>c, <1>d DEF IInv, Standing, BootsUnlessCut, Root, TypeOK, Data,
    UpSteps, PrepSteps, SafeSteps, LateSteps, FallbackSteps
<1>6. Data'
  BY <1>b, <1>c, <1>d DEF IInv, Data, Standing, TypeOK, Trees, UpSteps,
    PrepSteps, SafeSteps, LateSteps, FallbackSteps
<1>7. Moved'
  BY <1>b, <1>c, <1>d DEF IInv, Moved, TypeOK, Standing, UpSteps, PrepSteps,
    SafeSteps, LateSteps, FallbackSteps
<1>8. Fallen'
  BY <1>b, <1>c, <1>d DEF IInv, Fallen, Standing, TypeOK, UpSteps, PrepSteps,
    SafeSteps, LateSteps, FallbackSteps
<1>9. Arming'
  BY <1>b, <1>c, <1>d DEF IInv, Arming
<1> QED BY <1>1, <1>2, <1>3, <1>4, <1>5, <1>6, <1>7, <1>8, <1>9 DEF IInv

LEMMA StageKeyStep == IInv /\ StageKey => IInv'
<1> SUFFICES ASSUME IInv, StageKey PROVE IInv'
  OBVIOUS
<1>k. File("fkey") \in Content /\ choice \in Content
  <2>1. pc \in PrepSteps /\ pc \in UpSteps
    BY DEF StageKey, Deploy, PrepSteps, UpSteps
  <2>2. Root \in Tree
    BY <2>1, RootThere DEF IInv
  <2>3. \A m \in FileNames : Root.files[m] \in Content
    BY <2>2, TreeParts
  <2> QED BY <2>3 DEF File, FileNames, IInv, TypeOK, Content
<1>a. StagedKey \in Content
  BY <1>k DEF StagedKey
<1>b. /\ pc = "stagekey" /\ pc' = "conf" /\ sys = "old" /\ choice \in Choices
      /\ choice # None
      /\ UNCHANGED <<sys, choice, todo, removed, ram, new, boot, luks,
                     enrolled, bootcopy, grub, cfg, job, past, cut>>
      /\ old \in Tree /\ old' \in Tree /\ old # None /\ old' # None
      /\ old'.data = old.data /\ old'.initrd = old.initrd
      /\ old'.files["fkey"] = StagedKey
      /\ \A m \in FileNames : m # "fkey" => old'.files[m] = old.files[m]
  <2>1. Deploy("stagekey", "fkey", StagedKey, "conf")
    BY DEF StageKey
  <2>2. "stagekey" \in PrepSteps /\ "fkey" \in FileNames
    BY DEF PrepSteps, FileNames
  <2> QED BY <1>a, <2>1, <2>2, DeployFacts
<1>c. /\ old'.files["premount"] = old.files["premount"]
      /\ old'.files["hook"] = old.files["hook"]
      /\ old'.files["conf"] = old.files["conf"]
      /\ old'.files["key"] = old.files["key"]
      /\ old'.files["excl"] = old.files["excl"]
      /\ old'.files["kconf"] = old.files["kconf"]
  BY <1>b DEF FileNames
<1>d. armed' = armed
  BY DEF StageKey
<1>1. TypeOK'
  BY <1>b, <1>c, <1>d DEF IInv, TypeOK, UpSteps, PrepSteps
<1>2. Trees'
  BY <1>b, <1>c, <1>d DEF IInv, Trees, Prepared, PrepSteps, Whole
<1>3. Prepared'
  BY <1>b, <1>c, <1>d DEF IInv, Prepared, PrepSteps
<1>4. Aborted'
  BY <1>b, <1>c, <1>d DEF Aborted
<1>5. Standing'
  BY <1>b, <1>c, <1>d DEF IInv, Standing, BootsUnlessCut, Root, TypeOK, Data,
    UpSteps, PrepSteps, SafeSteps, LateSteps, FallbackSteps
<1>6. Data'
  BY <1>b, <1>c, <1>d DEF IInv, Data, Standing, TypeOK, Trees, UpSteps,
    PrepSteps, SafeSteps, LateSteps, FallbackSteps
<1>7. Moved'
  BY <1>b, <1>c, <1>d DEF IInv, Moved, TypeOK, Standing, UpSteps, PrepSteps,
    SafeSteps, LateSteps, FallbackSteps
<1>8. Fallen'
  BY <1>b, <1>c, <1>d DEF IInv, Fallen, Standing, TypeOK, UpSteps, PrepSteps,
    SafeSteps, LateSteps, FallbackSteps
<1>9. Arming'
  BY <1>b, <1>c, <1>d DEF IInv, Arming
<1> QED BY <1>1, <1>2, <1>3, <1>4, <1>5, <1>6, <1>7, <1>8, <1>9 DEF IInv

LEMMA WriteConfStep == IInv /\ WriteConf => IInv'
<1> SUFFICES ASSUME IInv, WriteConf PROVE IInv'
  OBVIOUS
<1>a. choice \in Content
  BY DEF IInv, TypeOK, Content
<1>b. /\ pc = "conf" /\ pc' = "trunc" /\ sys = "old" /\ choice \in Choices
      /\ choice # None
      /\ UNCHANGED <<sys, choice, todo, removed, ram, new, boot, luks,
                     enrolled, bootcopy, grub, cfg, job, past, cut>>
      /\ old \in Tree /\ old' \in Tree /\ old # None /\ old' # None
      /\ old'.data = old.data /\ old'.initrd = old.initrd
      /\ old'.files["conf"] = choice
      /\ \A m \in FileNames : m # "conf" => old'.files[m] = old.files[m]
  <2>1. Deploy("conf", "conf", choice, "trunc")
    BY DEF WriteConf
  <2>2. "conf" \in PrepSteps /\ "conf" \in FileNames
    BY DEF PrepSteps, FileNames
  <2> QED BY <1>a, <2>1, <2>2, DeployFacts
<1>c. /\ old'.files["premount"] = old.files["premount"]
      /\ old'.files["hook"] = old.files["hook"]
      /\ old'.files["key"] = old.files["key"]
      /\ old'.files["excl"] = old.files["excl"]
      /\ old'.files["kconf"] = old.files["kconf"]
  BY <1>b DEF FileNames
<1>d. armed' = armed
  BY DEF WriteConf
<1>1. TypeOK'
  BY <1>b, <1>c, <1>d DEF IInv, TypeOK, UpSteps, PrepSteps
<1>2. Trees'
  BY <1>b, <1>c, <1>d DEF IInv, Trees, Prepared, PrepSteps, Whole
<1>3. Prepared'
  BY <1>b, <1>c, <1>d DEF IInv, Prepared, PrepSteps
<1>4. Aborted'
  BY <1>b, <1>c, <1>d DEF Aborted
<1>5. Standing'
  BY <1>b, <1>c, <1>d DEF IInv, Standing, BootsUnlessCut, Root, TypeOK, Data,
    UpSteps, PrepSteps, SafeSteps, LateSteps, FallbackSteps
<1>6. Data'
  BY <1>b, <1>c, <1>d DEF IInv, Data, Standing, TypeOK, Trees, UpSteps,
    PrepSteps, SafeSteps, LateSteps, FallbackSteps
<1>7. Moved'
  BY <1>b, <1>c, <1>d DEF IInv, Moved, TypeOK, Standing, UpSteps, PrepSteps,
    SafeSteps, LateSteps, FallbackSteps
<1>8. Fallen'
  BY <1>b, <1>c, <1>d DEF IInv, Fallen, Standing, TypeOK, UpSteps, PrepSteps,
    SafeSteps, LateSteps, FallbackSteps
<1>9. Arming'
  BY <1>b, <1>c, <1>d DEF IInv, Arming
<1> QED BY <1>1, <1>2, <1>3, <1>4, <1>5, <1>6, <1>7, <1>8, <1>9 DEF IInv

LEMMA TruncExcludeStep == IInv /\ TruncExclude => IInv'
<1> SUFFICES ASSUME IInv, TruncExclude PROVE IInv'
  OBVIOUS
<1>a. Trunc \in Content
  BY DEF Content
<1>b. /\ pc = "trunc" /\ pc' = "excl" /\ sys = "old" /\ choice \in Choices
      /\ choice # None
      /\ UNCHANGED <<sys, choice, todo, removed, ram, new, boot, luks,
                     enrolled, bootcopy, grub, cfg, job, past, cut>>
      /\ old \in Tree /\ old' \in Tree /\ old # None /\ old' # None
      /\ old'.data = old.data /\ old'.initrd = old.initrd
      /\ old'.files["excl"] = Trunc
      /\ \A m \in FileNames : m # "excl" => old'.files[m] = old.files[m]
  <2>1. Deploy("trunc", "excl", Trunc, "excl")
    BY DEF TruncExclude
  <2>2. "trunc" \in PrepSteps /\ "excl" \in FileNames
    BY DEF PrepSteps, FileNames
  <2> QED BY <1>a, <2>1, <2>2, DeployFacts
<1>c. /\ old'.files["premount"] = old.files["premount"]
      /\ old'.files["hook"] = old.files["hook"]
      /\ old'.files["conf"] = old.files["conf"]
      /\ old'.files["key"] = old.files["key"]
      /\ old'.files["kconf"] = old.files["kconf"]
  BY <1>b DEF FileNames
<1>d. armed' = armed
  BY DEF TruncExclude
<1>1. TypeOK'
  BY <1>b, <1>c, <1>d DEF IInv, TypeOK, UpSteps, PrepSteps
<1>2. Trees'
  BY <1>b, <1>c, <1>d DEF IInv, Trees, Prepared, PrepSteps, Whole
<1>3. Prepared'
  BY <1>b, <1>c, <1>d DEF IInv, Prepared, PrepSteps
<1>4. Aborted'
  BY <1>b, <1>c, <1>d DEF Aborted
<1>5. Standing'
  BY <1>b, <1>c, <1>d DEF IInv, Standing, BootsUnlessCut, Root, TypeOK, Data,
    UpSteps, PrepSteps, SafeSteps, LateSteps, FallbackSteps
<1>6. Data'
  BY <1>b, <1>c, <1>d DEF IInv, Data, Standing, TypeOK, Trees, UpSteps,
    PrepSteps, SafeSteps, LateSteps, FallbackSteps
<1>7. Moved'
  BY <1>b, <1>c, <1>d DEF IInv, Moved, TypeOK, Standing, UpSteps, PrepSteps,
    SafeSteps, LateSteps, FallbackSteps
<1>8. Fallen'
  BY <1>b, <1>c, <1>d DEF IInv, Fallen, Standing, TypeOK, UpSteps, PrepSteps,
    SafeSteps, LateSteps, FallbackSteps
<1>9. Arming'
  BY <1>b, <1>c, <1>d DEF IInv, Arming
<1> QED BY <1>1, <1>2, <1>3, <1>4, <1>5, <1>6, <1>7, <1>8, <1>9 DEF IInv

LEMMA WriteExcludeStep == IInv /\ WriteExclude => IInv'
<1> SUFFICES ASSUME IInv, WriteExclude PROVE IInv'
  OBVIOUS
<1>a. choice \in Content
  BY DEF IInv, TypeOK, Content
<1>b. /\ pc = "excl" /\ pc' = "key" /\ sys = "old" /\ choice \in Choices
      /\ choice # None
      /\ UNCHANGED <<sys, choice, todo, removed, ram, new, boot, luks,
                     enrolled, bootcopy, grub, cfg, job, past, cut>>
      /\ old \in Tree /\ old' \in Tree /\ old # None /\ old' # None
      /\ old'.data = old.data /\ old'.initrd = old.initrd
      /\ old'.files["excl"] = choice
      /\ \A m \in FileNames : m # "excl" => old'.files[m] = old.files[m]
  <2>1. Deploy("excl", "excl", choice, "key")
    BY DEF WriteExclude
  <2>2. "excl" \in PrepSteps /\ "excl" \in FileNames
    BY DEF PrepSteps, FileNames
  <2> QED BY <1>a, <2>1, <2>2, DeployFacts
<1>c. /\ old'.files["premount"] = old.files["premount"]
      /\ old'.files["hook"] = old.files["hook"]
      /\ old'.files["conf"] = old.files["conf"]
      /\ old'.files["key"] = old.files["key"]
      /\ old'.files["kconf"] = old.files["kconf"]
  BY <1>b DEF FileNames
<1>d. armed' = armed
  BY DEF WriteExclude
<1>1. TypeOK'
  BY <1>b, <1>c, <1>d DEF IInv, TypeOK, UpSteps, PrepSteps
<1>2. Trees'
  BY <1>b, <1>c, <1>d DEF IInv, Trees, Prepared, PrepSteps, Whole
<1>3. Prepared'
  BY <1>b, <1>c, <1>d DEF IInv, Prepared, PrepSteps
<1>4. Aborted'
  BY <1>b, <1>c, <1>d DEF Aborted
<1>5. Standing'
  BY <1>b, <1>c, <1>d DEF IInv, Standing, BootsUnlessCut, Root, TypeOK, Data,
    UpSteps, PrepSteps, SafeSteps, LateSteps, FallbackSteps
<1>6. Data'
  BY <1>b, <1>c, <1>d DEF IInv, Data, Standing, TypeOK, Trees, UpSteps,
    PrepSteps, SafeSteps, LateSteps, FallbackSteps
<1>7. Moved'
  BY <1>b, <1>c, <1>d DEF IInv, Moved, TypeOK, Standing, UpSteps, PrepSteps,
    SafeSteps, LateSteps, FallbackSteps
<1>8. Fallen'
  BY <1>b, <1>c, <1>d DEF IInv, Fallen, Standing, TypeOK, UpSteps, PrepSteps,
    SafeSteps, LateSteps, FallbackSteps
<1>9. Arming'
  BY <1>b, <1>c, <1>d DEF IInv, Arming
<1> QED BY <1>1, <1>2, <1>3, <1>4, <1>5, <1>6, <1>7, <1>8, <1>9 DEF IInv

LEMMA WriteKeyStep == IInv /\ WriteKey => IInv'
<1> SUFFICES ASSUME IInv, WriteKey PROVE IInv'
  OBVIOUS
<1>a. choice \in Content
  BY DEF IInv, TypeOK, Content
<1>b. /\ pc = "key" /\ pc' = "hook" /\ sys = "old" /\ choice \in Choices
      /\ choice # None
      /\ UNCHANGED <<sys, choice, todo, removed, ram, new, boot, luks,
                     enrolled, bootcopy, grub, cfg, job, past, cut>>
      /\ old \in Tree /\ old' \in Tree /\ old # None /\ old' # None
      /\ old'.data = old.data /\ old'.initrd = old.initrd
      /\ old'.files["key"] = choice
      /\ \A m \in FileNames : m # "key" => old'.files[m] = old.files[m]
  <2>1. Deploy("key", "key", choice, "hook")
    BY DEF WriteKey
  <2>2. "key" \in PrepSteps /\ "key" \in FileNames
    BY DEF PrepSteps, FileNames
  <2> QED BY <1>a, <2>1, <2>2, DeployFacts
<1>c. /\ old'.files["premount"] = old.files["premount"]
      /\ old'.files["hook"] = old.files["hook"]
      /\ old'.files["conf"] = old.files["conf"]
      /\ old'.files["excl"] = old.files["excl"]
      /\ old'.files["kconf"] = old.files["kconf"]
  BY <1>b DEF FileNames
<1>d. armed' = armed
  BY DEF WriteKey
<1>1. TypeOK'
  BY <1>b, <1>c, <1>d DEF IInv, TypeOK, UpSteps, PrepSteps
<1>2. Trees'
  BY <1>b, <1>c, <1>d DEF IInv, Trees, Prepared, PrepSteps, Whole
<1>3. Prepared'
  BY <1>b, <1>c, <1>d DEF IInv, Prepared, PrepSteps
<1>4. Aborted'
  BY <1>b, <1>c, <1>d DEF Aborted
<1>5. Standing'
  BY <1>b, <1>c, <1>d DEF IInv, Standing, BootsUnlessCut, Root, TypeOK, Data,
    UpSteps, PrepSteps, SafeSteps, LateSteps, FallbackSteps
<1>6. Data'
  BY <1>b, <1>c, <1>d DEF IInv, Data, Standing, TypeOK, Trees, UpSteps,
    PrepSteps, SafeSteps, LateSteps, FallbackSteps
<1>7. Moved'
  BY <1>b, <1>c, <1>d DEF IInv, Moved, TypeOK, Standing, UpSteps, PrepSteps,
    SafeSteps, LateSteps, FallbackSteps
<1>8. Fallen'
  BY <1>b, <1>c, <1>d DEF IInv, Fallen, Standing, TypeOK, UpSteps, PrepSteps,
    SafeSteps, LateSteps, FallbackSteps
<1>9. Arming'
  BY <1>b, <1>c, <1>d DEF IInv, Arming
<1> QED BY <1>1, <1>2, <1>3, <1>4, <1>5, <1>6, <1>7, <1>8, <1>9 DEF IInv

LEMMA DeployHookStep == IInv /\ DeployHook => IInv'
<1> SUFFICES ASSUME IInv, DeployHook PROVE IInv'
  OBVIOUS
<1>a. choice \in Content
  BY DEF IInv, TypeOK, Content
<1>b. /\ pc = "hook" /\ pc' = "premount" /\ sys = "old" /\ choice \in Choices
      /\ choice # None
      /\ UNCHANGED <<sys, choice, todo, removed, ram, new, boot, luks,
                     enrolled, bootcopy, grub, cfg, job, past, cut>>
      /\ old \in Tree /\ old' \in Tree /\ old # None /\ old' # None
      /\ old'.data = old.data /\ old'.initrd = old.initrd
      /\ old'.files["hook"] = choice
      /\ \A m \in FileNames : m # "hook" => old'.files[m] = old.files[m]
  <2>1. Deploy("hook", "hook", choice, "premount")
    BY DEF DeployHook
  <2>2. "hook" \in PrepSteps /\ "hook" \in FileNames
    BY DEF PrepSteps, FileNames
  <2> QED BY <1>a, <2>1, <2>2, DeployFacts
<1>c. /\ old'.files["premount"] = old.files["premount"]
      /\ old'.files["conf"] = old.files["conf"]
      /\ old'.files["key"] = old.files["key"]
      /\ old'.files["excl"] = old.files["excl"]
      /\ old'.files["kconf"] = old.files["kconf"]
  BY <1>b DEF FileNames
<1>d. armed' = armed
  BY DEF DeployHook
<1>1. TypeOK'
  BY <1>b, <1>c, <1>d DEF IInv, TypeOK, UpSteps, PrepSteps
<1>2. Trees'
  BY <1>b, <1>c, <1>d DEF IInv, Trees, Prepared, PrepSteps, Whole
<1>3. Prepared'
  BY <1>b, <1>c, <1>d DEF IInv, Prepared, PrepSteps
<1>4. Aborted'
  BY <1>b, <1>c, <1>d DEF Aborted
<1>5. Standing'
  BY <1>b, <1>c, <1>d DEF IInv, Standing, BootsUnlessCut, Root, TypeOK, Data,
    UpSteps, PrepSteps, SafeSteps, LateSteps, FallbackSteps
<1>6. Data'
  BY <1>b, <1>c, <1>d DEF IInv, Data, Standing, TypeOK, Trees, UpSteps,
    PrepSteps, SafeSteps, LateSteps, FallbackSteps
<1>7. Moved'
  BY <1>b, <1>c, <1>d DEF IInv, Moved, TypeOK, Standing, UpSteps, PrepSteps,
    SafeSteps, LateSteps, FallbackSteps
<1>8. Fallen'
  BY <1>b, <1>c, <1>d DEF IInv, Fallen, Standing, TypeOK, UpSteps, PrepSteps,
    SafeSteps, LateSteps, FallbackSteps
<1>9. Arming'
  BY <1>b, <1>c, <1>d DEF IInv, Arming
<1> QED BY <1>1, <1>2, <1>3, <1>4, <1>5, <1>6, <1>7, <1>8, <1>9 DEF IInv

LEMMA DeployPremountStep == IInv /\ DeployPremount => IInv'
<1> SUFFICES ASSUME IInv, DeployPremount PROVE IInv'
  OBVIOUS
<1>a. choice \in Content
  BY DEF IInv, TypeOK, Content
<1>b. /\ pc = "premount" /\ pc' = "rebuild" /\ sys = "old" /\ choice \in Choices
      /\ choice # None
      /\ UNCHANGED <<sys, choice, todo, removed, ram, new, boot, luks,
                     enrolled, bootcopy, grub, cfg, job, past, cut>>
      /\ old \in Tree /\ old' \in Tree /\ old # None /\ old' # None
      /\ old'.data = old.data /\ old'.initrd = old.initrd
      /\ old'.files["premount"] = choice
      /\ \A m \in FileNames : m # "premount" => old'.files[m] = old.files[m]
  <2>1. Deploy("premount", "premount", choice, "rebuild")
    BY DEF DeployPremount
  <2>2. "premount" \in PrepSteps /\ "premount" \in FileNames
    BY DEF PrepSteps, FileNames
  <2> QED BY <1>a, <2>1, <2>2, DeployFacts
<1>c. /\ old'.files["hook"] = old.files["hook"]
      /\ old'.files["conf"] = old.files["conf"]
      /\ old'.files["key"] = old.files["key"]
      /\ old'.files["excl"] = old.files["excl"]
      /\ old'.files["kconf"] = old.files["kconf"]
  BY <1>b DEF FileNames
<1>d. armed' = TRUE
  BY DEF DeployPremount
<1>1. TypeOK'
  BY <1>b, <1>c, <1>d DEF IInv, TypeOK, UpSteps, PrepSteps
<1>2. Trees'
  BY <1>b, <1>c, <1>d DEF IInv, Trees, Prepared, PrepSteps, Whole
<1>3. Prepared'
  BY <1>b, <1>c, <1>d DEF IInv, Prepared, PrepSteps
<1>4. Aborted'
  BY <1>b, <1>c, <1>d DEF Aborted
<1>5. Standing'
  BY <1>b, <1>c, <1>d DEF IInv, Standing, BootsUnlessCut, Root, TypeOK, Data,
    UpSteps, PrepSteps, SafeSteps, LateSteps, FallbackSteps
<1>6. Data'
  BY <1>b, <1>c, <1>d DEF IInv, Data, Standing, TypeOK, Trees, UpSteps,
    PrepSteps, SafeSteps, LateSteps, FallbackSteps
<1>7. Moved'
  BY <1>b, <1>c, <1>d DEF IInv, Moved, TypeOK, Standing, UpSteps, PrepSteps,
    SafeSteps, LateSteps, FallbackSteps
<1>8. Fallen'
  BY <1>b, <1>c, <1>d DEF IInv, Fallen, Standing, TypeOK, UpSteps, PrepSteps,
    SafeSteps, LateSteps, FallbackSteps
<1>9. Arming'
  BY <1>b, <1>c, <1>d DEF IInv, Arming
<1> QED BY <1>1, <1>2, <1>3, <1>4, <1>5, <1>6, <1>7, <1>8, <1>9 DEF IInv

LEMMA PrepRebuildStep == IInv /\ PrepRebuild => IInv'
<1> SUFFICES ASSUME IInv, PrepRebuild PROVE IInv'
  OBVIOUS
<1>f. /\ pc = "rebuild" /\ pc' = "up" /\ choice' = None
      /\ UNCHANGED <<sys, ram, job, past, cut, todo, removed, armed>>
  BY DEF PrepRebuild, Stay
<1>a. Root \in Tree /\ sys \in {"old", "new"}
  BY <1>f, RootThere DEF IInv, TypeOK, UpSteps, PrepSteps, SafeSteps, LateSteps,
    FallbackSteps
<1>b. /\ UNCHANGED <<new, luks, enrolled, bootcopy, grub, cfg>>
      /\ sys = "old" =>
           /\ boot' = boot /\ old \in Tree /\ old' \in Tree
           /\ old # None /\ old' # None
           /\ old'.data = old.data /\ old'.files = old.files
           /\ old'.initrd = Build(old.files)
      /\ sys = "new" =>
           /\ old' = old /\ new \in Tree /\ new # None
           /\ boot' = Build(new.files)
           /\ boot' \in Initrd /\ boot' # None
  BY <1>a, UpdateFacts DEF PrepRebuild
<1>c. \A f \in Files : /\ Whole(f) => Complete(Build(f))
                       /\ Build(f).pre = (f["premount"] # None)
                       /\ Build(f).crypt = (f["tabs"] # None)
                       /\ Build(f).keyfile => f["kconf"] # None
                       /\ f["hook"] = None => Build(f).key = None
  BY BuildFacts
<1>d. (sys = "old" => old.files \in Files) /\ (sys = "new" => new.files \in Files)
  BY <1>b, TreeParts
<1>e. /\ sys = "old" => Whole(old.files)
      /\ sys = "new" => /\ Whole(new.files) /\ old = None /\ grub = "new"
                        /\ new.files["premount"] = None
                        /\ new.files["hook"] = None
                        /\ new.files["tabs"] # None
  BY <1>b DEF IInv, Trees, Standing, Moved, Migration
<1>1. TypeOK'
  BY <1>a, <1>b, <1>c, <1>d, <1>e, <1>f DEF IInv, TypeOK, UpSteps, PrepSteps,
    SafeSteps, LateSteps, FallbackSteps
<1>2. Trees'
  BY <1>a, <1>b, <1>c, <1>d, <1>e, <1>f DEF IInv, Trees, TypeOK, UpSteps,
    PrepSteps, SafeSteps, LateSteps, FallbackSteps
<1>3. Prepared'
  BY <1>a, <1>b, <1>c, <1>d, <1>e, <1>f DEF IInv, Prepared, TypeOK, Content,
    Standing, UpSteps, PrepSteps, SafeSteps, LateSteps, FallbackSteps
<1>4. Aborted'
  BY <1>a, <1>b, <1>c, <1>d, <1>e, <1>f DEF IInv, Aborted, TypeOK, Owned,
    File, Root, UpSteps, PrepSteps, SafeSteps, LateSteps, FallbackSteps
<1>5. Standing'
  BY <1>a, <1>b, <1>c, <1>d, <1>e, <1>f DEF IInv, Standing, BootsUnlessCut,
    Root, TypeOK, Data, UpSteps, PrepSteps, SafeSteps, LateSteps,
    FallbackSteps
<1>6. Data'
  BY <1>a, <1>b, <1>c, <1>d, <1>e, <1>f DEF IInv, Data, Standing, TypeOK,
    Trees, UpSteps, PrepSteps, SafeSteps, LateSteps, FallbackSteps
<1>7. Moved'
  BY <1>a, <1>b, <1>c, <1>d, <1>e, <1>f DEF IInv, Moved, TypeOK, Standing,
    UpSteps, PrepSteps, SafeSteps, LateSteps, FallbackSteps
<1>8. Fallen'
  BY <1>a, <1>b, <1>c, <1>d, <1>e, <1>f DEF IInv, Fallen, Standing, TypeOK,
    UpSteps, PrepSteps, SafeSteps, LateSteps, FallbackSteps
<1>9. Arming'
  BY <1>a, <1>b, <1>c, <1>d, <1>e, <1>f DEF IInv, Arming, Standing, TypeOK,
    UpSteps, PrepSteps, SafeSteps, LateSteps, FallbackSteps
<1> QED BY <1>1, <1>2, <1>3, <1>4, <1>5, <1>6, <1>7, <1>8, <1>9 DEF IInv

-----------------------------------------------------------------------------
(* --abort *)

LEMMA LeftFacts ==
    ASSUME NEW s \in Seq(FileNames), s # <<>>
    PROVE  /\ Tail(s) \in Seq(FileNames) /\ Head(s) \in FileNames
           /\ Head(s) \in Left(s) /\ Left(Tail(s)) \subseteq Left(s)
           /\ Left(s) \subseteq Left(Tail(s)) \cup {Head(s)}
<1>1. Tail(s) \in Seq(FileNames) /\ Head(s) \in FileNames /\ Head(s) = s[1]
      /\ Len(s) \in Nat /\ Len(s) > 0 /\ Len(Tail(s)) = Len(s) - 1
      /\ \A i \in 1 .. Len(Tail(s)) : Tail(s)[i] = s[i + 1]
  OBVIOUS
<1>2. Head(s) \in Left(s)
  BY <1>1 DEF Left
<1>3. Left(Tail(s)) \subseteq Left(s)
  <2>1. SUFFICES ASSUME NEW i \in 1 .. Len(Tail(s)) PROVE Tail(s)[i] \in Left(s)
    BY DEF Left
  <2>2. i + 1 \in 1 .. Len(s) /\ Tail(s)[i] = s[i + 1]
    BY <1>1
  <2> QED BY <2>2 DEF Left
<1>4. Left(s) \subseteq Left(Tail(s)) \cup {Head(s)}
  <2>1. SUFFICES ASSUME NEW i \in 1 .. Len(s), i # 1
                 PROVE  s[i] \in Left(Tail(s))
    BY <1>1 DEF Left
  <2>2. i - 1 \in 1 .. Len(Tail(s)) /\ Tail(s)[i - 1] = s[i]
    BY <1>1, <2>1
  <2> QED BY <2>2 DEF Left
<1> QED BY <1>1, <1>2, <1>3, <1>4

LEMMA LeftConcat ==
    ASSUME NEW s \in Seq(FileNames), NEW t \in Seq(FileNames)
    PROVE  s \o t \in Seq(FileNames) /\ Left(s \o t) = Left(s) \cup Left(t)
<1>1. s \o t \in Seq(FileNames)
  OBVIOUS
<1>2. Len(s \o t) = Len(s) + Len(t) /\ Len(s) \in Nat /\ Len(t) \in Nat
  OBVIOUS
<1>3. \A i \in 1 .. Len(s) : (s \o t)[i] = s[i]
  OBVIOUS
<1>4. \A i \in 1 .. Len(t) : (s \o t)[Len(s) + i] = t[i]
  OBVIOUS
<1>5. \A i \in (1 .. Len(s \o t)) \ (1 .. Len(s)) :
         i - Len(s) \in 1 .. Len(t) /\ i = Len(s) + (i - Len(s))
  BY <1>2
<1>6. Left(s \o t) \subseteq Left(s) \cup Left(t)
  <2> SUFFICES ASSUME NEW i \in 1 .. Len(s \o t)
               PROVE  (s \o t)[i] \in Left(s) \cup Left(t)
    BY DEF Left
  <2>1. CASE i \in 1 .. Len(s)
    BY <1>3, <2>1 DEF Left
  <2>2. CASE i \notin 1 .. Len(s)
    <3>1. i - Len(s) \in 1 .. Len(t) /\ i = Len(s) + (i - Len(s))
      BY <1>5, <2>2
    <3>2. (s \o t)[i] = t[i - Len(s)]
      BY <1>4, <3>1
    <3> QED BY <3>1, <3>2 DEF Left
  <2> QED BY <2>1, <2>2
<1>7. Left(s) \subseteq Left(s \o t)
  <2> SUFFICES ASSUME NEW i \in 1 .. Len(s) PROVE s[i] \in Left(s \o t)
    BY DEF Left
  <2>1. i \in 1 .. Len(s \o t)
    BY <1>2
  <2> QED BY <1>3, <2>1 DEF Left
<1>8. Left(t) \subseteq Left(s \o t)
  <2> SUFFICES ASSUME NEW i \in 1 .. Len(t) PROVE t[i] \in Left(s \o t)
    BY DEF Left
  <2>1. Len(s) + i \in 1 .. Len(s \o t)
    BY <1>2
  <2> QED BY <1>4, <2>1 DEF Left
<1> QED BY <1>1, <1>6, <1>7, <1>8

LEMMA FiveNames ==
    ASSUME NEW a \in FileNames, NEW b \in FileNames, NEW c \in FileNames,
           NEW d \in FileNames, NEW e \in FileNames
    PROVE  /\ <<a, b, c, d, e>> \in Seq(FileNames)
           /\ <<a, b, c, d, e>> # <<>> /\ Head(<<a, b, c, d, e>>) = a
           /\ Left(<<a, b, c, d, e>>) = {a, b, c, d, e}
<1>1. <<a, b, c, d, e>> \in Seq(FileNames)
  OBVIOUS
<1>2. <<a, b, c, d, e>> # <<>> /\ Head(<<a, b, c, d, e>>) = a
  OBVIOUS
<1>3. Left(<<a, b, c, d, e>>) = {a, b, c, d, e}
  BY DEF Left
<1> QED BY <1>1, <1>2, <1>3

LEMMA TwoNames ==
    ASSUME NEW a \in FileNames, NEW b \in FileNames
    PROVE  <<a, b>> \in Seq(FileNames) /\ Left(<<a, b>>) = {a, b}
<1>1. <<a, b>> \in Seq(FileNames)
  OBVIOUS
<1>2. Left(<<a, b>>) = {a, b}
  BY DEF Left
<1> QED BY <1>1, <1>2

LEMMA HeadConcat ==
    ASSUME NEW s \in Seq(FileNames), NEW t \in Seq(FileNames), s # <<>>
    PROVE  s \o t # <<>> /\ Head(s \o t) = Head(s)
OBVIOUS

LEMMA AbortFiles ==
    ASSUME NEW own \in BOOLEAN, NEW s,
           s = AbortOrder \o (IF own THEN <<>> ELSE <<"scripts", "fkey">>)
    PROVE  /\ s \in Seq(FileNames) /\ s # <<>> /\ Head(s) = "hook"
           /\ "premount" \in Left(s) /\ "kconf" \notin Left(s)
           /\ "tabs" \notin Left(s)
           /\ own => "fkey" \notin Left(s)
<1>1. /\ "hook" \in FileNames /\ "premount" \in FileNames /\ "conf" \in FileNames
      /\ "key" \in FileNames /\ "excl" \in FileNames /\ "scripts" \in FileNames
      /\ "fkey" \in FileNames
  BY DEF FileNames
<1>2. /\ AbortOrder \in Seq(FileNames) /\ AbortOrder # <<>>
      /\ Head(AbortOrder) = "hook"
      /\ Left(AbortOrder) = {"hook", "premount", "conf", "key", "excl"}
  BY <1>1, FiveNames DEF AbortOrder
<1>3. CASE own
  <2>1. Left(<<>>) = {}
    BY DEF Left
  <2>2. s = AbortOrder \o <<>> /\ <<>> \in Seq(FileNames)
    BY <1>3, EmptySeqNames
  <2>3. s \in Seq(FileNames) /\ Left(s) = Left(AbortOrder) \cup Left(<<>>)
    BY <1>2, <2>2, LeftConcat, ZenonT(60)
  <2>4. s # <<>> /\ Head(s) = Head(AbortOrder)
    BY <1>2, <2>2, HeadConcat
  <2> QED BY <1>2, <2>1, <2>3, <2>4
<1>4. CASE ~own
  <2>1. PICK t \in Seq(FileNames) :
           t = <<"scripts", "fkey">> /\ Left(t) = {"scripts", "fkey"}
    BY <1>1, TwoNames
  <2>2. s = AbortOrder \o t
    BY <1>4, <2>1
  <2>3. s \in Seq(FileNames) /\ Left(s) = Left(AbortOrder) \cup Left(t)
    BY <1>2, <2>2, LeftConcat, ZenonT(60)
  <2>4. s # <<>> /\ Head(s) = Head(AbortOrder)
    BY <1>2, <2>2, HeadConcat
  <2>5. Left(s) = {"hook", "premount", "conf", "key", "excl", "scripts", "fkey"}
    BY <1>2, <2>1, <2>3
  <2> QED BY <1>2, <1>4, <2>3, <2>4, <2>5
<1> QED BY <1>3, <1>4

LEMMA StartAbortStep == IInv /\ StartAbort => IInv'
<1> SUFFICES ASSUME IInv, StartAbort PROVE IInv'
  OBVIOUS
<1>a. /\ pc = "up" /\ pc' = "abort" /\ removed' = FALSE
      /\ UNCHANGED <<sys, choice, ram, old, new, boot, luks, enrolled, bootcopy,
                     grub, cfg, job, past, cut, armed>>
  BY DEF StartAbort, Stay, disk
<1>b. /\ todo' \in Seq(FileNames) /\ todo' # <<>> /\ Head(todo') = "hook"
      /\ "premount" \in Left(todo') /\ "kconf" \notin Left(todo')
      /\ "tabs" \notin Left(todo')
      /\ Owned => "fkey" \notin Left(todo')
  BY AbortFiles DEF StartAbort, Owned
<1>c. (Owned' <=> Owned) /\ Root' = Root
  BY <1>a DEF Owned, File, Root
<1>d. Left(todo)' = Left(todo')
  BY DEF Left
<1>1. TypeOK'
  <2>1. todo' \in Seq(FileNames)
    BY <1>b
  <2>2. pc' \in UpSteps
    BY <1>a DEF UpSteps
  <2> QED BY <1>a, <2>1, <2>2, TypeKept DEF IInv, TypeOK
<1>2. Trees'
  BY <1>a, <1>b, <1>c, <1>d DEF IInv, Trees, TypeOK, UpSteps, PrepSteps,
    SafeSteps, LateSteps, FallbackSteps
<1>3. Prepared'
  BY <1>a, <1>b, <1>c, <1>d DEF IInv, Prepared, TypeOK, Content, Standing,
    UpSteps, PrepSteps, SafeSteps, LateSteps, FallbackSteps
<1>4. Aborted'
  <2>1. ("kconf" \notin Left(todo))' /\ ("tabs" \notin Left(todo))'
        /\ (Owned => "fkey" \notin Left(todo))'
    BY <1>b, <1>c, Zenon
  <2>2. (todo # <<>> /\ Head(todo) = "hook")' /\ ("premount" \in Left(todo))'
    BY <1>b
  <2> QED BY <2>1, <2>2, Zenon DEF Aborted
<1>5. Standing'
  BY <1>a, <1>b, <1>c, <1>d DEF IInv, Standing, BootsUnlessCut, Root, TypeOK,
    Data, UpSteps, PrepSteps, SafeSteps, LateSteps, FallbackSteps
<1>6. Data'
  BY <1>a, <1>b, <1>c, <1>d DEF IInv, Data, Standing, TypeOK, Trees, UpSteps,
    PrepSteps, SafeSteps, LateSteps, FallbackSteps
<1>7. Moved'
  BY <1>a, <1>b, <1>c, <1>d DEF IInv, Moved, TypeOK, Standing, UpSteps,
    PrepSteps, SafeSteps, LateSteps, FallbackSteps
<1>8. Fallen'
  BY <1>a, <1>b, <1>c, <1>d DEF IInv, Fallen, Standing, TypeOK, UpSteps,
    PrepSteps, SafeSteps, LateSteps, FallbackSteps
<1>9. Arming'
  BY <1>a, <1>b, <1>c, <1>d DEF IInv, Arming, Standing, TypeOK, UpSteps,
    PrepSteps, SafeSteps, LateSteps, FallbackSteps
<1> QED BY <1>1, <1>2, <1>3, <1>4, <1>5, <1>6, <1>7, <1>8, <1>9 DEF IInv

LEMMA RemoveFileStep == IInv /\ RemoveFile => IInv'
<1> SUFFICES ASSUME IInv, RemoveFile PROVE IInv'
  OBVIOUS
<1>a. /\ pc = "abort" /\ todo # <<>> /\ todo' = Tail(todo)
      /\ UNCHANGED <<sys, pc, choice, armed, ram, job, past, cut>>
  BY DEF RemoveFile, Stay
<1>b. /\ Tail(todo) \in Seq(FileNames) /\ Head(todo) \in FileNames
      /\ Head(todo) \in Left(todo) /\ Left(Tail(todo)) \subseteq Left(todo)
      /\ Left(todo) \subseteq Left(Tail(todo)) \cup {Head(todo)}
  BY <1>a, LeftFacts DEF IInv, TypeOK
<1>c. Root \in Tree /\ sys \in {"old", "new"}
  BY <1>a, RootThere DEF IInv, TypeOK, UpSteps
<1>d. /\ UNCHANGED <<boot, luks, enrolled, bootcopy, grub, cfg>>
      /\ sys = "old" =>
           /\ new' = new /\ old \in Tree /\ old' \in Tree
           /\ old # None /\ old' # None
           /\ old'.data = old.data /\ old'.initrd = old.initrd
           /\ old'.files[Head(todo)] = None
           /\ \A m \in FileNames :
                 m # Head(todo) => old'.files[m] = old.files[m]
      /\ sys = "new" =>
           /\ old' = old /\ new \in Tree /\ new' \in Tree
           /\ new # None /\ new' # None
           /\ new'.data = new.data /\ new'.initrd = new.initrd
           /\ new'.files[Head(todo)] = None
           /\ \A m \in FileNames :
                 m # Head(todo) => new'.files[m] = new.files[m]
  BY <1>a, <1>b, <1>c, WriteFacts DEF RemoveFile, Content
<1>e. removed' \in BOOLEAN
  BY DEF RemoveFile, IInv, TypeOK
<1>f. /\ Head(todo) # "kconf" /\ Head(todo) # "tabs"
      /\ Owned => Head(todo) # "fkey"
      /\ File("premount") # None => "premount" \in Left(todo)
      /\ "kconf" \notin Left(Tail(todo)) /\ "tabs" \notin Left(Tail(todo))
      /\ Head(todo) = "hook" \/ File("hook") = None
      /\ Owned => "fkey" \notin Left(Tail(todo))
  BY <1>a, <1>b DEF IInv, Aborted
<1>g. /\ Root' \in Tree /\ Root'.files[Head(todo)] = None
      /\ \A m \in FileNames : m # Head(todo) => Root'.files[m] = Root.files[m]
  BY <1>a, <1>c, <1>d DEF Root
<1>h. /\ Root'.files["kconf"] = Root.files["kconf"]
      /\ Root'.files["tabs"] = Root.files["tabs"]
      /\ Owned => Root'.files["fkey"] = Root.files["fkey"]
      /\ Root'.files["hook"] = None
      /\ Root'.files["premount"] \in {None, Root.files["premount"]}
      /\ Root'.files["conf"] \in {None, Root.files["conf"]}
      /\ Root'.files["key"] \in {None, Root.files["key"]}
      /\ Root'.files["excl"] \in {None, Root.files["excl"]}
      /\ Root'.files["premount"] # None => Head(todo) # "premount"
  BY <1>f, <1>g DEF File, FileNames
<1>i. /\ sys = "old" => Root = old /\ Root' = old'
      /\ sys = "new" => Root = new /\ Root' = new' /\ old = None /\ grub = "new"
  BY <1>a, <1>d DEF Root, IInv, Standing
<1>1. TypeOK'
  BY <1>a, <1>b, <1>c, <1>d, <1>e, <1>i DEF IInv, TypeOK
<1>2. Trees'
  BY <1>a, <1>c, <1>d, <1>h, <1>i DEF IInv, Trees, Whole
<1>3. Prepared'
  BY <1>a DEF Prepared, PrepSteps
<1>4. Aborted'
  BY <1>a, <1>b, <1>f, <1>h DEF Aborted, Owned, File, Left
<1>5. Standing'
  BY <1>a, <1>c, <1>d, <1>h, <1>i DEF IInv, Standing, BootsUnlessCut, Root,
    UpSteps, PrepSteps, SafeSteps, LateSteps, FallbackSteps
<1>6. Data'
  BY <1>a, <1>c, <1>d, <1>h, <1>i DEF IInv, Data, Standing, TypeOK, Trees,
    UpSteps, PrepSteps, SafeSteps, LateSteps, FallbackSteps
<1>7. Moved'
  <2>1. CASE sys = "old"
    BY <1>a, <1>d, <2>1 DEF IInv, Moved, Standing
  <2>2. CASE sys = "new"
    <3>1. \A n \in Migration : Root.files[n] = None
      BY <1>a, <1>i, <2>2 DEF IInv, Moved
    <3>2. \A n \in Migration : Root'.files[n] = None
      BY <1>g, <3>1 DEF Migration, FileNames
    <3> QED BY <1>a, <1>d, <1>h, <1>i, <2>2, <3>2 DEF IInv, Moved
  <2> QED BY <1>c, <2>1, <2>2
<1>8. Fallen'
  BY <1>a, <1>c, <1>d, <1>h, <1>i DEF IInv, Fallen, Standing, Owned, File,
    UpSteps, PrepSteps, SafeSteps, LateSteps, FallbackSteps
<1>9. Arming'
  BY <1>a, <1>c, <1>d, <1>h, <1>i DEF IInv, Arming
<1> QED BY <1>1, <1>2, <1>3, <1>4, <1>5, <1>6, <1>7, <1>8, <1>9 DEF IInv

LEMMA FinishAbortStep == IInv /\ FinishAbort => IInv'
<1> SUFFICES ASSUME IInv, FinishAbort PROVE IInv'
  OBVIOUS
<1>a. /\ pc = "abort" /\ pc' = "up" /\ removed' = FALSE /\ todo = <<>>
      /\ armed' = (armed /\ ~removed)
      /\ UNCHANGED <<sys, choice, todo, ram, job, past, cut>>
  BY DEF FinishAbort, Stay
<1>g. Root \in Tree /\ sys \in {"old", "new"}
  BY <1>a, RootThere DEF IInv, TypeOK, UpSteps
<1>b. removed => /\ UNCHANGED <<new, luks, enrolled, bootcopy, grub, cfg>>
                 /\ sys = "old" =>
                      /\ boot' = boot /\ old \in Tree /\ old' \in Tree
                      /\ old # None /\ old' # None
                      /\ old'.data = old.data /\ old'.files = old.files
                      /\ old'.initrd = Build(old.files)
                 /\ sys = "new" =>
                      /\ old' = old /\ new \in Tree /\ new # None
                      /\ boot' = Build(new.files)
                      /\ boot' \in Initrd /\ boot' # None
  BY <1>g, UpdateFacts DEF FinishAbort, AbortRebuild
<1>c. \A f \in Files : /\ Whole(f) => Complete(Build(f))
                       /\ Build(f).pre = (f["premount"] # None)
                       /\ Build(f).crypt = (f["tabs"] # None)
                       /\ Build(f).keyfile => f["kconf"] # None
                       /\ f["hook"] = None => Build(f).key = None
  BY BuildFacts
<1>d. (sys = "old" => old.files \in Files) /\ (sys = "new" => new.files \in Files)
  BY <1>g, TreeParts DEF Root
<1>e. /\ sys = "old" => Whole(old.files) /\ old # None
      /\ sys = "new" => /\ Whole(new.files) /\ old = None /\ grub = "new"
                        /\ new.files["premount"] = None
                        /\ new.files["hook"] = None
                        /\ new.files["tabs"] # None
  BY <1>g, TreeParts DEF IInv, Trees, Standing, Moved, Migration, Root
<1>f. ~removed => UNCHANGED <<old, new, boot, luks, enrolled, bootcopy, grub, cfg>>
  BY DEF FinishAbort, AbortRebuild, disk
<1>h. File("premount") = None /\ removed \in BOOLEAN
  <2>1. Left(todo) = {}
    BY <1>a DEF Left
  <2> QED BY <1>a, <2>1 DEF IInv, Aborted, TypeOK
<1>1. TypeOK'
  <2>1. armed' \in BOOLEAN
    BY <1>a DEF IInv, TypeOK
  <2>2. boot' \in Initrd \cup {None} /\ old' \in Tree \cup {None}
    BY <1>b, <1>f, <1>g, <1>h, SMTT(40) DEF IInv, TypeOK
  <2>3. new' \in Tree \cup {None}
    BY <1>b, <1>f, <1>g, <1>h DEF IInv, TypeOK
  <2>4. /\ pc' \in UpSteps \cup SafeSteps \cup LateSteps
                  \cup {"off", "rootfs", "shell", "dead"}
        /\ choice' \in Choices \cup {None} /\ todo' \in Seq(FileNames)
        /\ removed' \in BOOLEAN
    BY <1>a DEF IInv, TypeOK, UpSteps
  <2>5. /\ luks' \in Content /\ enrolled' \in BOOLEAN /\ bootcopy' \in BOOLEAN
        /\ grub' \in {"old", "new"} /\ cfg' \in {"old", "new"}
    BY <1>b, <1>f, <1>g, <1>h DEF IInv, TypeOK
  <2>6. /\ sys' \in {"old", "new"} /\ ram' \in Tree \cup {None}
        /\ job' \in Initrd \cup {None}
        /\ past' \in BOOLEAN /\ cut' \in BOOLEAN
    BY <1>a DEF IInv, TypeOK
  <2> QED
    BY <2>1, <2>2, <2>3, <2>4, <2>5, <2>6, ZenonT(60) DEF TypeOK
<1>2. Trees'
  BY <1>a, <1>b, <1>c, <1>d, <1>e, <1>f, <1>g, <1>h DEF IInv, Trees, TypeOK,
    UpSteps, PrepSteps, SafeSteps, LateSteps, FallbackSteps
<1>3. Prepared'
  BY <1>a, <1>b, <1>c, <1>d, <1>e, <1>f, <1>g, <1>h DEF IInv, Prepared,
    TypeOK, Content, Standing, UpSteps, PrepSteps, SafeSteps, LateSteps,
    FallbackSteps
<1>4. Aborted'
  BY <1>a, <1>b, <1>c, <1>d, <1>e, <1>f, <1>g, <1>h DEF IInv, Aborted,
    TypeOK, Owned, File, Root, UpSteps, PrepSteps, SafeSteps, LateSteps,
    FallbackSteps
<1>5. Standing'
  BY <1>a, <1>b, <1>c, <1>d, <1>e, <1>f, <1>g, <1>h DEF IInv, Standing,
    BootsUnlessCut, Root, TypeOK, Data, UpSteps, PrepSteps, SafeSteps,
    LateSteps, FallbackSteps
<1>6. Data'
  BY <1>a, <1>b, <1>c, <1>d, <1>e, <1>f, <1>g, <1>h DEF IInv, Data, Standing,
    TypeOK, Trees, UpSteps, PrepSteps, SafeSteps, LateSteps, FallbackSteps
<1>7. Moved'
  BY <1>a, <1>b, <1>c, <1>d, <1>e, <1>f, <1>g, <1>h DEF IInv, Moved, TypeOK,
    Standing, UpSteps, PrepSteps, SafeSteps, LateSteps, FallbackSteps
<1>8. Fallen'
  BY <1>a, <1>b, <1>c, <1>d, <1>e, <1>f, <1>g, <1>h DEF IInv, Fallen,
    Standing, TypeOK, UpSteps, PrepSteps, SafeSteps, LateSteps, FallbackSteps
<1>9. Arming'
  BY <1>a, <1>b, <1>c, <1>d, <1>e, <1>f, <1>g, <1>h DEF IInv, Arming,
    Standing, File, Root, UpSteps, PrepSteps, SafeSteps, LateSteps,
    FallbackSteps
<1> QED BY <1>1, <1>2, <1>3, <1>4, <1>5, <1>6, <1>7, <1>8, <1>9 DEF IInv

-----------------------------------------------------------------------------
(* The theorems. *)

\* Standing still keeps it too.
LEMMA Stutter == IInv /\ UNCHANGED vars => IInv'
<1> SUFFICES ASSUME IInv, UNCHANGED vars PROVE IInv'
  OBVIOUS
<1>u. /\ pc' = pc /\ sys' = sys /\ choice' = choice /\ todo' = todo
      /\ removed' = removed /\ ram' = ram /\ old' = old /\ new' = new
      /\ boot' = boot /\ luks' = luks /\ enrolled' = enrolled
      /\ bootcopy' = bootcopy /\ grub' = grub /\ cfg' = cfg /\ job' = job
      /\ past' = past /\ cut' = cut /\ armed' = armed
  BY DEF vars, command, disk, history
<1>1. TypeOK'
  BY <1>u DEF IInv, TypeOK
<1>2. Trees'
  BY <1>u DEF IInv, Trees
<1>3. Prepared'
  BY <1>u DEF IInv, Prepared
<1>4. Aborted'
  BY <1>u DEF IInv, Aborted, Owned, File, Root
<1>5. Standing'
  BY <1>u DEF IInv, Standing, BootsUnlessCut, Root
<1>6. Data'
  BY <1>u DEF IInv, Data
<1>7. Moved'
  BY <1>u DEF IInv, Moved
<1>8. Fallen'
  BY <1>u DEF IInv, Fallen
<1>9. Arming'
  BY <1>u DEF IInv, Arming
<1> QED BY <1>1, <1>2, <1>3, <1>4, <1>5, <1>6, <1>7, <1>8, <1>9 DEF IInv

\* Every step of the script, of a boot and of an interruption keeps the
\* inductive invariant.
LEMMA EncryptNext == IInv /\ [Next]_vars => IInv'
<1> SUFFICES ASSUME IInv, [Next]_vars PROVE IInv'
  OBVIOUS
<1>1. CASE Upgrade
  BY <1>1, UpgradeStep
<1>2. CASE Interrupt
  BY <1>2, InterruptStep
<1>3. CASE StartPrep
  BY <1>3, StartPrepStep
<1>4. CASE StageScripts
  BY <1>4, StageScriptsStep
<1>5. CASE StageKey
  BY <1>5, StageKeyStep
<1>6. CASE WriteConf
  BY <1>6, WriteConfStep
<1>7. CASE TruncExclude
  BY <1>7, TruncExcludeStep
<1>8. CASE WriteExclude
  BY <1>8, WriteExcludeStep
<1>9. CASE WriteKey
  BY <1>9, WriteKeyStep
<1>10. CASE DeployHook
  BY <1>10, DeployHookStep
<1>11. CASE DeployPremount
  BY <1>11, DeployPremountStep
<1>12. CASE PrepRebuild
  BY <1>12, PrepRebuildStep
<1>13. CASE StartAbort
  BY <1>13, StartAbortStep
<1>14. CASE RemoveFile
  BY <1>14, RemoveFileStep
<1>15. CASE FinishAbort
  BY <1>15, FinishAbortStep
<1>16. CASE Reboot
  BY <1>16, RebootStep
<1>17. CASE PowerLoss
  BY <1>17, PowerLossStep
<1>18. CASE PowerOn
  BY <1>18, PowerOnStep
<1>19. CASE MountRoot
  BY <1>19, MountRootStep
<1>20. CASE MountOld
  BY <1>20, MountOldStep
<1>21. CASE Backup
  BY <1>21, BackupStep
<1>22. CASE Verify
  BY <1>22, VerifyStep
<1>23. CASE UnmountOld
  BY <1>23, UnmountOldStep
<1>24. CASE Fail
  BY <1>24, FailStep
<1>25. CASE Repartition
  BY <1>25, RepartitionStep
<1>26. CASE Format
  BY <1>26, FormatStep
<1>27. CASE Restore
  BY <1>27, RestoreStep
<1>28. CASE BootPart
  BY <1>28, BootPartStep
<1>29. CASE Enrol
  BY <1>29, EnrolStep
<1>30. CASE CopyKey
  BY <1>30, CopyKeyStep
<1>31. CASE KeyConf
  BY <1>31, KeyConfStep
<1>32. CASE WriteTabs
  BY <1>32, WriteTabsStep
<1>33. CASE SelfDestruct
  BY <1>33, SelfDestructStep
<1>34. CASE RebuildNew
  BY <1>34, RebuildNewStep
<1>35. CASE UpdateGrub
  BY <1>35, UpdateGrubStep
<1>36. CASE GrubInstall
  BY <1>36, GrubInstallStep
<1>37. CASE Finish
  BY <1>37, FinishStep
<1>38. CASE UNCHANGED vars
  BY <1>38, Stutter
<1> QED BY <1>1, <1>2, <1>3, <1>4, <1>5, <1>6, <1>7, <1>8, <1>9, <1>10,
    <1>11, <1>12, <1>13, <1>14, <1>15, <1>16, <1>17, <1>18, <1>19, <1>20,
    <1>21, <1>22, <1>23, <1>24, <1>25, <1>26, <1>27, <1>28, <1>29, <1>30,
    <1>31, <1>32, <1>33, <1>34, <1>35, <1>36, <1>37, <1>38 DEF Next

\* The inductive invariant holds throughout: whichever command of prep, --abort
\* and the boot fails, is interrupted or is followed by a power cut.
THEOREM EncryptInvariant == Spec => []IInv
<1>1. Init => IInv
  BY EncryptInit
<1>2. IInv /\ [Next]_vars => IInv'
  BY EncryptNext
<1> QED BY <1>1, <1>2, PTL DEF Spec

\* Every variable keeps its type.
THEOREM EncryptType == Spec => []TypeOK
<1>1. IInv => TypeOK
  BY DEF IInv
<1> QED BY <1>1, EncryptInvariant, PTL

\* Whichever command fails, everything but the excluded directories is on the
\* old root, in RAM or on the new root, unless the power is cut after the point
\* of no return.
THEOREM EncryptDataSafe == Spec => []DataSafe
<1>1. IInv => DataSafe
  <2> SUFFICES ASSUME IInv, ~cut PROVE DataSafe
    BY DEF DataSafe
  <2>1. CASE old # None
    <3>1. Items \ GivenUp \subseteq old.data
      BY <2>1 DEF IInv, Standing
    <3> QED BY <2>1, <3>1 DEF DataSafe
  <2>2. CASE old = None /\ past
    <3>1. ram # None /\ ram.data = Items \ Dropped(job.key)
      BY <2>2 DEF IInv, Data
    <3>2. luks \in {None, job.key}
      BY <2>2 DEF IInv, Standing
    <3>3. GivenUp = Dropped(job.key)
      BY <2>2, <3>2 DEF GivenUp
    <3> QED BY <3>1, <3>3 DEF DataSafe
  <2>3. CASE old = None /\ ~past
    <3>1. grub = "new" /\ new # None
      BY <2>3 DEF IInv, Standing, TypeOK
    <3>2. new.data = Items \ Dropped(luks) /\ luks # None
      BY <3>1 DEF IInv, Data, Standing
    <3>3. GivenUp = Dropped(luks)
      BY <3>2 DEF GivenUp
    <3> QED BY <3>1, <3>2, <3>3 DEF DataSafe
  <2> QED BY <2>1, <2>2, <2>3 DEF IInv, TypeOK
<1> QED BY <1>1, EncryptInvariant, PTL

\* No initrd mixes two preparations or misses a part of one, at whatever moment
\* an upgrade rebuilds it.
THEOREM EncryptArmedComplete == Spec => []ArmedComplete
<1>1. IInv => ArmedComplete
  <2> SUFFICES ASSUME IInv PROVE ArmedComplete
    OBVIOUS
  <2>1. boot # None => Complete(boot)
    BY DEF IInv, Trees
  <2>2. old # None => Complete(old.initrd)
    BY DEF IInv, Trees
  <2> QED BY <2>1, <2>2 DEF ArmedComplete, Complete
<1> QED BY <1>1, EncryptInvariant, PTL

\* A boot that migrates was asked for after the last completed abort that had
\* something to remove.
THEOREM EncryptAbortCancels == Spec => []AbortCancels
<1>1. IInv => AbortCancels
  BY DEF IInv, Arming, AbortCancels
<1> QED BY <1>1, EncryptInvariant, PTL

\* Once the boot loader reads the new /boot, neither the initrd there nor the new
\* root holds the migration or its passphrase.
THEOREM EncryptMigratesOnce == Spec => []MigratesOnce
<1>1. IInv => MigratesOnce
  BY DEF IInv, Moved, MigratesOnce, Runs
<1> QED BY <1>1, EncryptInvariant, PTL

\* The machine only fails to boot after a power cut past the point of no return
\* or a failed update-grub.
THEOREM EncryptBoots == Spec => []BootsUnlessCut
<1>1. IInv => BootsUnlessCut
  BY DEF IInv, Standing
<1> QED BY <1>1, EncryptInvariant, PTL

\* No abort on the migrated system takes the fallback key away, and an initrd
\* that looks for the key on /boot finds an enrolled one.
THEOREM EncryptFallback == Spec => []FallbackIntact
<1>1. IInv => FallbackIntact
  <2> SUFFICES ASSUME IInv, grub = "new" PROVE FallbackIntact
    BY DEF FallbackIntact
  <2>1. enrolled => new.files["fkey"] # None
    BY DEF IInv, Fallen
  <2>2. boot.keyfile => enrolled /\ bootcopy
    BY DEF IInv, Fallen
  <2> QED BY <2>1, <2>2 DEF FallbackIntact
<1> QED BY <1>1, EncryptInvariant, PTL

\* No boot migrates with parts of two preparations, or after a completed abort
\* that had something to remove.
THEOREM EncryptArmedWhole == Spec => []ArmedWhole
BY EncryptArmedComplete, EncryptAbortCancels, PTL DEF ArmedWhole

\* A migrated system does not migrate again and keeps its fallback key.
THEOREM EncryptMigratedWhole == Spec => []MigratedWhole
BY EncryptMigratesOnce, EncryptFallback, PTL DEF MigratedWhole

-----------------------------------------------------------------------------
(* The inductive invariant. *)

\* Files are queued while they are tried.
LoopTyped ==
    /\ LoopTypeOK
    /\ queue \in Seq(FilesAt(stage))
    /\ step \notin {"try", "read"} => queue = <<>>

\* cryptroot shows one prompt at a time.
OneShown == \A a, b \in Asks : ask[a] = "open" /\ ask[b] = "open" => a = b

Looping == step \in {"mount", "try", "read", "write"}

\* While the loop works for a prompt, nothing was written for it, and the ones
\* something was written for are gone.
Target ==
    Looping => /\ asking \in Asks /\ Cryptsetup(asking)
               /\ ask[asking] # "new" /\ writes[asking] = 0
               /\ \A a \in Asks : writes[a] # 0 => ask[a] = "closed"

\* The key on its way fits the volume of the prompt it was tested for.
Tested ==
    /\ step = "read" => Fits(KeyIn(key), asking)
    /\ step = "write" => Fits(bytes, asking)

ServedInv ==
    \A a \in Asks : /\ writes[a] <= 1
                    /\ writes[a] # 0 => ask[a] # "new" /\ (ask[a] = "open" => a = served)

\* A prompt that is still shown and refused a file is the one of the last round.
RefusedInv ==
    \A p \in failed : /\ p[1] \in Asks /\ ask[p[1]] # "new"
                      /\ ask[p[1]] = "open" => p[1] = asking
                      /\ p[1] = asking => p[2] \in rejected

\* What the loop wrote fits the volume of a prompt that has been shown.
WrittenFits ==
    \A a \in Asks : box[a] # NoAnswer /\ box[a].by = "agent" =>
        \E b \in Asks : Cryptsetup(b) /\ ask[b] # "new" /\ Fits(box[a].key, b)

LoopInv ==
    /\ LoopTyped /\ OneShown /\ Target /\ Tested /\ ServedInv /\ RefusedInv /\ WrittenFits
    /\ ~retested

-----------------------------------------------------------------------------
(* The operators. *)

\* A file lies at a mounted source and holds a key.
LEMMA FileTyped ==
    ASSUME LoopTypeOK, NEW s \in Sources, NEW f \in FilesAt(s)
    PROVE  f[1] = s /\ mnt[s] # Absent /\ mnt[s] \in Seq(Keys) /\ f[2] \in 1 .. Len(mnt[s]) /\ KeyIn(f) \in Keys
<1>1. f[1] = s /\ f[2] \in 1 .. Len(IF mnt[s] = Absent THEN <<>> ELSE mnt[s])
  BY DEF FilesAt
<1>2. mnt[s] # Absent
  BY <1>1
<1>3. mnt[s] \in Seq(Keys) /\ f[2] \in 1 .. Len(mnt[s])
  BY <1>1, <1>2 DEF LoopTypeOK
<1>4. mnt[s][f[2]] \in Keys
  BY <1>3
<1> QED BY <1>1, <1>2, <1>3, <1>4 DEF KeyIn

LEMMA ListingTyped ==
    ASSUME NEW s, NEW keys \in Seq(Keys)
    PROVE  Listing(s, keys) \in Seq({s} \X (1 .. Len(keys)))
<1>1. Len(keys) \in Nat
  OBVIOUS
<1>2. Listing(s, keys) \in [1 .. Len(keys) -> {s} \X (1 .. Len(keys))]
  BY DEF Listing
<1> QED BY <1>1, <1>2, SeqDef

\* The files that are left to try, one by one.
LEMMA QueueTyped ==
    ASSUME LoopTypeOK, NEW q \in Seq(FilesAt(stage))
    PROVE  /\ \A n \in 1 .. Len(q) : q[n] \in FilesAt(stage)
           /\ q # <<>> => Head(q) \in FilesAt(stage) /\ Tail(q) \in Seq(FilesAt(stage))
OBVIOUS

LEMMA NothingQueued == ASSUME NEW S PROVE <<>> \in Seq(S) /\ \A n \in 1 .. Len(<<>>) : <<>>[n] \in S
OBVIOUS

-----------------------------------------------------------------------------
(* The loop. *)

\* Steps of the loop that neither write nor wait leave the prompts alone.
LEMMA StillShown ==
    ASSUME LoopInv, UNCHANGED <<askVars, mediaVars>>
    PROVE  AskTypeOK' /\ OneShown' /\ WrittenFits' /\ media' \in [Sources -> {Absent} \cup Seq(Keys)]
           /\ plugs' \in 0 .. MaxPlugs
BY DEF LoopInv, LoopTyped, LoopTypeOK, AskTypeOK, OneShown, WrittenFits, askVars, mediaVars

LEMMA FindStep ==
    ASSUME LoopInv, NEW a \in Asks, Find(a)
    PROVE  LoopInv'
<1> USE DEF LoopInv
<1>1. /\ step = "find" /\ ask[a] = "open" /\ a # served /\ Cryptsetup(a)
      /\ rejected' = (IF a = asking THEN rejected ELSE {}) /\ asking' = a /\ stage' = "boot" /\ step' = "mount"
      /\ UNCHANGED <<askVars, mediaVars, mnt, queue, served, key, bytes, loopHistory, writes>>
  BY DEF Find, Served, Rejections
<1> USE <1>1 DEF askVars, mediaVars, loopHistory
<1>2. AskTypeOK' /\ OneShown' /\ WrittenFits'
  BY StillShown
<1>3. writes[a] = 0 /\ \A b \in Asks : writes[b] # 0 => ask[b] = "closed"
  <2>1. ASSUME NEW b \in Asks, writes[b] # 0, ask[b] # "closed" PROVE FALSE
    <3>1. ask[b] = "open"
      BY <2>1 DEF ServedInv, LoopTyped, LoopTypeOK, AskTypeOK
    <3>2. b = served
      BY <2>1, <3>1 DEF ServedInv
    <3> QED BY <3>1, <3>2 DEF OneShown
  <2> QED BY <2>1
<1>4. Target' /\ Tested' /\ ServedInv'
  BY <1>3 DEF Target, Looping, Tested, ServedInv, Cryptsetup
<1>5. RefusedInv'
  <2>1. ASSUME NEW p \in failed, a # asking, p[1] = a PROVE FALSE
    BY <2>1 DEF RefusedInv
  <2>2. ASSUME NEW p \in failed
        PROVE  p[1] \in Asks /\ ask[p[1]] # "new" /\ (ask[p[1]] = "open" => p[1] = a)
    BY <2>2 DEF RefusedInv, OneShown
  <2> QED BY <2>1, <2>2 DEF RefusedInv
<1>6. queue = <<>>
  BY DEF LoopTyped
<1>7. LoopTyped'
  BY <1>2, <1>6, NothingQueued DEF LoopTyped, LoopTypeOK, FilesAt, Sources
<1> QED BY <1>2, <1>4, <1>5, <1>7

\* A source that is mounted now gets its files listed; one that was mounted before
\* keeps its files.
LEMMA MountStep ==
    ASSUME LoopInv, Mount
    PROVE  LoopInv'
<1> USE DEF LoopInv
<1>1. /\ step = "mount" /\ step' = "try"
      /\ UNCHANGED <<askVars, mediaVars, stage, asking, served, rejected, key, bytes, loopHistory, writes>>
  BY DEF Mount
<1> USE <1>1 DEF askVars, mediaVars, loopHistory
<1>2. AskTypeOK' /\ OneShown' /\ WrittenFits' /\ LoopTypeOK
  BY StillShown DEF LoopTyped
<1>3. stage \in Sources /\ mnt \in [Sources -> {Absent} \cup Seq(Keys)] /\ media[stage] \in {Absent} \cup Seq(Keys)
  BY <1>2 DEF LoopTypeOK
<1>4. /\ mnt' \in [Sources -> {Absent} \cup Seq(Keys)]
      /\ \A s \in Sources : mnt[s] # Absent => mnt'[s] = mnt[s]
      /\ queue' \in Seq(FilesAt(stage)')
  <2>1. CASE stage \in Enabled /\ media[stage] # Absent
    <3>1. mnt' = IF mnt[stage] = Absent THEN [mnt EXCEPT ![stage] = media[stage]] ELSE mnt
      BY <2>1 DEF Mount
    <3>2. /\ mnt' \in [Sources -> {Absent} \cup Seq(Keys)] /\ mnt'[stage] \in Seq(Keys) /\ mnt'[stage] # Absent
          /\ \A s \in Sources : mnt[s] # Absent => mnt'[s] = mnt[s]
      BY <1>3, <2>1, <3>1
    <3>3. queue' = Listing(stage, mnt'[stage])
      BY <2>1 DEF Mount
    <3>4. queue' \in Seq({stage} \X (1 .. Len(mnt'[stage])))
      BY <3>2, <3>3, ListingTyped
    <3>5. FilesAt(stage)' = {stage} \X (1 .. Len(mnt'[stage]))
      BY <3>2 DEF FilesAt
    <3> QED BY <3>2, <3>4, <3>5
  <2>2. CASE ~(stage \in Enabled /\ media[stage] # Absent)
    BY <1>3, <2>2, NothingQueued DEF Mount
  <2> QED BY <2>1, <2>2
<1>5. \A n \in 1 .. Len(queue') : queue'[n] \in FilesAt(stage)'
  BY <1>4
<1>6. dead' \subseteq {s \in Sources : mnt'[s] # Absent}
  BY <1>2, <1>4 DEF LoopTypeOK
<1>7. LoopTyped'
  BY <1>2, <1>4, <1>5, <1>6 DEF LoopTyped, LoopTypeOK
<1>8. Target' /\ Tested' /\ ServedInv' /\ RefusedInv'
  BY DEF Target, Looping, Tested, ServedInv, RefusedInv, Cryptsetup
<1> QED BY <1>2, <1>7, <1>8

\* A refused file is noted for the prompt, and not tested when it was noted before.
LEMMA TryKeyStep ==
    ASSUME LoopInv, TryKey
    PROVE  LoopInv'
<1> USE DEF LoopInv
<1> DEFINE f == Head(queue)
<1>1. /\ step = "try" /\ queue # <<>>
      /\ UNCHANGED <<askVars, mediaVars, mnt, stage, asking, served, bytes, writes>>
  BY DEF TryKey
<1> USE <1>1 DEF askVars, mediaVars
<1>2. AskTypeOK' /\ OneShown' /\ WrittenFits' /\ LoopTypeOK /\ stage \in Sources
  BY StillShown DEF LoopTyped, LoopTypeOK
<1>3. /\ f \in FilesAt(stage) /\ Tail(queue) \in Seq(FilesAt(stage))
      /\ stage = "boot" \/ stage = "usb"
  BY <1>2, QueueTyped DEF LoopTyped, Sources
<1>4. /\ step' \in {"try", "read"}
      /\ queue' = queue \/ queue' = Tail(queue)
      /\ step' = "read" => key' = f /\ Fits(KeyIn(f), asking)
      /\ \/ UNCHANGED <<rejected, failed>>
         \/ f \notin rejected /\ rejected' = rejected \cup {f} /\ failed' = failed \cup {<<asking, f>>}
      /\ \/ retested' = retested
         \/ f \notin rejected /\ retested' = (retested \/ <<asking, f>> \in failed)
  BY DEF TryKey, Accepted
<1> HIDE DEF f
<1>5. asking \in Asks /\ ask[asking] # "new"
  BY DEF Target, Looping
<1>6. f \notin rejected => <<asking, f>> \notin failed
  <2>1. ASSUME <<asking, f>> \in failed PROVE f \in rejected
    <3>1. <<asking, f>>[1] = asking /\ <<asking, f>>[2] = f
      OBVIOUS
    <3> QED BY <2>1, <3>1 DEF RefusedInv
  <2> QED BY <2>1
<1>7. ~retested'
  BY <1>4, <1>6
<1>8. RefusedInv'
  <2>1. ASSUME NEW p \in failed'
        PROVE  /\ p[1] \in Asks /\ ask[p[1]] # "new"
               /\ ask[p[1]] = "open" => p[1] = asking
               /\ p[1] = asking => p[2] \in rejected'
    <3>1. CASE p \in failed
      BY <1>4, <3>1 DEF RefusedInv
    <3>2. CASE p \notin failed
      <4>1. p = <<asking, f>> /\ f \in rejected'
        BY <1>4, <2>1, <3>2
      <4> QED BY <1>5, <4>1
    <3> QED BY <3>1, <3>2
  <2> QED BY <2>1 DEF RefusedInv
<1>9. Target' /\ ServedInv'
  BY <1>4 DEF Target, Looping, ServedInv, Cryptsetup
<1>10. Tested'
  BY <1>4 DEF Tested, Fits, KeyIn
<1>11. LoopTyped'
  <2>1. queue' \in Seq(FilesAt(stage)) /\ \A n \in 1 .. Len(queue') : queue'[n] \in FilesAt(stage)
    BY <1>2, <1>3, <1>4, QueueTyped DEF LoopTyped
  <2>2. step' = "read" => key' \in FilesAt("boot") \cup FilesAt("usb")
    BY <1>3, <1>4
  <2>3. FilesAt(stage)' = FilesAt(stage) /\ FilesAt("boot")' = FilesAt("boot") /\ FilesAt("usb")' = FilesAt("usb")
    BY DEF FilesAt
  <2> QED BY <1>2, <1>4, <1>7, <2>1, <2>2, <2>3 DEF LoopTyped, LoopTypeOK
<1> QED BY <1>2, <1>7, <1>8, <1>9, <1>10, <1>11

LEMMA SourceExhaustedStep ==
    ASSUME LoopInv, SourceExhausted
    PROVE  LoopInv'
<1> USE DEF LoopInv
<1>1. /\ step = "try" /\ queue = <<>> /\ stage' \in {"usb", stage} /\ step' \in {"mount", "find"}
      /\ UNCHANGED <<askVars, mediaVars, mnt, queue, rejected, asking, served, key, bytes, loopHistory, writes>>
  BY DEF SourceExhausted, AfterBoot
<1> USE <1>1 DEF askVars, mediaVars, loopHistory
<1>2. AskTypeOK' /\ OneShown' /\ WrittenFits'
  BY StillShown
<1>3. Target' /\ Tested' /\ ServedInv' /\ RefusedInv'
  BY DEF Target, Looping, Tested, ServedInv, RefusedInv, Cryptsetup
<1>4. LoopTyped'
  BY <1>2, NothingQueued DEF LoopTyped, LoopTypeOK, FilesAt, Sources
<1> QED BY <1>2, <1>3, <1>4

\* The key is read again, where it was tested.
LEMMA ReadKeyStep ==
    ASSUME LoopInv, ReadKey
    PROVE  LoopInv'
<1> USE DEF LoopInv
<1>1. /\ step = "read" /\ queue' = <<>>
      /\ \/ bytes' = KeyIn(key) /\ step' = "write" /\ UNCHANGED served
         \/ served' = asking /\ step' = "find" /\ UNCHANGED bytes
      /\ UNCHANGED <<askVars, mediaVars, mnt, stage, rejected, asking, key, loopHistory, writes>>
  BY DEF ReadKey
<1> USE <1>1 DEF askVars, mediaVars, loopHistory
<1>2. AskTypeOK' /\ OneShown' /\ WrittenFits' /\ LoopTypeOK
  BY StillShown DEF LoopTyped
<1>3. KeyIn(key) \in Keys
  BY <1>2, FileTyped DEF LoopTypeOK, Sources
<1>4. asking \in Asks /\ \A a \in Asks : writes[a] # 0 => ask[a] = "closed"
  BY DEF Target, Looping
<1>5. Target' /\ ServedInv'
  BY <1>4 DEF Target, Looping, ServedInv, Cryptsetup
<1>6. Tested' /\ RefusedInv'
  BY DEF Tested, RefusedInv, Fits
<1>7. LoopTyped'
  <2>1. bytes' \in Keys \cup {NoAnswer} /\ served' \in Asks \cup {NoAnswer}
    BY <1>2, <1>3, <1>4 DEF LoopTypeOK
  <2>2. step' = "write" => key' \in FilesAt("boot")' \cup FilesAt("usb")'
    BY <1>2 DEF LoopTypeOK, FilesAt
  <2> QED BY <1>2, <2>1, <2>2, NothingQueued DEF LoopTyped, LoopTypeOK
<1> QED BY <1>2, <1>5, <1>6, <1>7

\* The prompt that reads the key need not be the one it was tested for, but no
\* second key is written for that one.
LEMMA WriteFifoStep ==
    ASSUME LoopInv, NEW a \in Asks, WriteFifo(a)
    PROVE  LoopInv'
<1> USE DEF LoopInv
<1>1. /\ step = "write" /\ ask[a] = "open" /\ Deliver(a, bytes)
      /\ writes' = [writes EXCEPT ![asking] = @ + 1]
      /\ served' = asking /\ step' = "find" /\ bytes' = NoAnswer
      /\ UNCHANGED <<ask, expired, vol, mediaVars, mnt, searchVars, asking, loopHistory>>
  BY DEF WriteFifo
<1> USE <1>1 DEF mediaVars, searchVars, loopHistory
<1>2. /\ LoopTypeOK /\ AskTypeOK /\ asking \in Asks /\ Cryptsetup(asking) /\ ask[asking] # "new"
      /\ writes[asking] = 0 /\ Fits(bytes, asking)
      /\ \A b \in Asks : writes[b] # 0 => ask[b] = "closed"
  BY DEF LoopTyped, LoopTypeOK, Target, Looping, Tested
<1>3. bytes \in Keys
  BY <1>2, PromptAssumption DEF Fits
<1>4. AskTypeOK'
  BY <1>2, <1>3 DEF AskTypeOK, Deliver, Answer
<1>5. writes \in [Asks -> Nat] /\ writes'[asking] = 1 /\ \A b \in Asks : b # asking => writes'[b] = writes[b]
  BY <1>2 DEF LoopTypeOK
<1>6. OneShown' /\ Tested' /\ RefusedInv' /\ Target'
  BY DEF OneShown, Tested, RefusedInv, Target, Looping
<1>7. ServedInv'
  BY <1>2, <1>5 DEF ServedInv
<1>8. WrittenFits'
  <2>1. ASSUME NEW b \in Asks, box'[b] # NoAnswer, box'[b].by = "agent"
        PROVE  \E c \in Asks : Cryptsetup(c) /\ ask[c] # "new" /\ Fits(box'[b].key, c)
    <3>1. CASE box'[b] = box[b]
      BY <2>1, <3>1 DEF WrittenFits
    <3>2. CASE box'[b] # box[b]
      <4>1. box'[b] = [by |-> "agent", key |-> bytes]
        BY <1>2, <3>2 DEF Deliver, AskTypeOK
      <4>2. box'[b].key = bytes
        BY <4>1
      <4> QED BY <1>2, <4>2
    <3> QED BY <3>1, <3>2
  <2> QED BY <2>1 DEF WrittenFits, Cryptsetup, Fits
<1>9. LoopTyped'
  <2>1. writes' \in [Asks -> Nat]
    <3>1. \A b \in Asks : writes[b] \in Nat
      BY <1>5
    <3>2. writes' = [writes EXCEPT ![asking] = writes[asking] + 1]
      BY DEF WriteFifo
    <3> QED BY <1>2, <1>5, <3>1, <3>2
  <2>2. FilesAt(stage)' = FilesAt(stage)
    BY DEF FilesAt
  <2> QED BY <1>2, <1>4, <2>1, <2>2 DEF LoopTyped, LoopTypeOK
<1> QED BY <1>4, <1>6, <1>7, <1>8, <1>9

LEMMA FifoGoneStep ==
    ASSUME LoopInv, FifoGone
    PROVE  LoopInv'
<1> USE DEF LoopInv
<1>1. /\ step = "read" /\ step' = "find" /\ queue' = <<>>
      /\ UNCHANGED <<askVars, mediaVars, mnt, stage, rejected, asking, served, key, bytes, loopHistory, writes>>
  BY DEF FifoGone
<1> USE <1>1 DEF askVars, mediaVars, loopHistory
<1>2. AskTypeOK' /\ OneShown' /\ WrittenFits'
  BY StillShown
<1>3. Target' /\ Tested' /\ ServedInv' /\ RefusedInv'
  BY DEF Target, Looping, Tested, ServedInv, RefusedInv
<1>4. LoopTyped'
  BY <1>2, NothingQueued DEF LoopTyped, LoopTypeOK, FilesAt
<1> QED BY <1>2, <1>3, <1>4

LEMMA StopStep ==
    ASSUME LoopInv, Stop
    PROVE  LoopInv'
<1> USE DEF LoopInv
<1>1. /\ step' = "stopped" /\ mnt' = [s \in Sources |-> Absent] /\ dead' = {} /\ queue' = <<>>
      /\ UNCHANGED <<askVars, media, plugs, stage, rejected, asking, served, key, bytes, loopHistory, writes>>
  BY DEF Stop
<1> USE <1>1 DEF askVars, loopHistory
<1>2. AskTypeOK' /\ OneShown' /\ WrittenFits'
  BY DEF LoopTyped, LoopTypeOK, AskTypeOK, OneShown, WrittenFits
<1>3. Target' /\ Tested' /\ ServedInv' /\ RefusedInv'
  BY DEF Target, Looping, Tested, ServedInv, RefusedInv
<1>4. mnt' \in [Sources -> {Absent} \cup Seq(Keys)]
  OBVIOUS
<1>5. LoopTyped'
  BY <1>2, <1>4, NothingQueued DEF LoopTyped, LoopTypeOK
<1> QED BY <1>2, <1>3, <1>5

-----------------------------------------------------------------------------
(* The surroundings. *)

\* A prompt is raised when no other is shown, and stays closed once it is; the
\* console and tang put in no key of the loop.
LEMMA CryptrootStep ==
    ASSUME LoopInv, CryptrootNext
    PROVE  LoopInv'
<1> USE DEF LoopInv
<1>1. UNCHANGED <<mediaVars, loopVars>>
  BY DEF CryptrootNext
<1> USE <1>1 DEF mediaVars, loopVars, searchVars, loopHistory
<1>2. LoopTypeOK /\ AskTypeOK
  BY DEF LoopTyped, LoopTypeOK
<1>3. PICK a \in Asks : \/ Waiting = {} /\ PromptOpen(a)
                        \/ PromptTake(a)
                        \/ \E k \in Keys : OtherAnswer(a, k)
  BY DEF CryptrootNext
<1>4. /\ AskTypeOK' /\ OneShown'
      /\ \A b \in Asks : /\ ask[b] # "new" => ask'[b] # "new" /\ (ask'[b] = "open" => ask[b] = "open")
                         /\ ask[b] = "closed" => ask'[b] = "closed"
                         /\ box'[b] # NoAnswer /\ box'[b].by = "agent" => box'[b] = box[b]
  <2>1. CASE Waiting = {} /\ PromptOpen(a)
    BY <1>2, <2>1 DEF PromptOpen, AskTypeOK, OneShown, Waiting
  <2>2. CASE PromptTake(a)
    BY <1>2, <2>2 DEF PromptTake, AskTypeOK, OneShown, Cryptsetup
  <2>3. CASE \E k \in Keys : OtherAnswer(a, k)
    <3>1. PICK k \in Keys : OtherAnswer(a, k)
      BY <2>3
    <3>2. box' = [box EXCEPT ![a] = [by |-> "other", key |-> k]] /\ UNCHANGED <<ask, expired, vol, sent>>
      BY <3>1 DEF OtherAnswer
    <3>3. [by |-> "other", key |-> k] \in Answer /\ [by |-> "other", key |-> k].by # "agent"
      BY DEF Answer
    <3> QED BY <1>2, <3>2, <3>3 DEF AskTypeOK, OneShown
  <2> QED BY <1>3, <2>1, <2>2, <2>3
<1>5. LoopTyped'
  <2>1. \A s : FilesAt(s)' = FilesAt(s)
    BY DEF FilesAt
  <2> QED BY <1>2, <1>4, <2>1 DEF LoopTyped, LoopTypeOK
<1>6. Target' /\ Tested'
  BY <1>4 DEF Target, Looping, Tested, Cryptsetup, Fits, KeyIn
<1>7. ServedInv' /\ RefusedInv'
  BY <1>4 DEF ServedInv, RefusedInv
<1>8. WrittenFits'
  BY <1>4 DEF WrittenFits, Cryptsetup, Fits
<1> QED BY <1>4, <1>5, <1>6, <1>7, <1>8

LEMMA PlugStep ==
    ASSUME LoopInv, NEW s \in Sources, Plug(s) \/ Pull(s)
    PROVE  LoopInv'
<1> USE DEF LoopInv
<1>1. LoopTypeOK /\ AskTypeOK /\ UNCHANGED <<askVars, loopVars>>
  BY DEF LoopTyped, LoopTypeOK, Plug, Pull
<1> USE <1>1 DEF askVars, loopVars, searchVars, loopHistory
<1>2. media' \in [Sources -> {Absent} \cup Seq(Keys)] /\ plugs' \in 0 .. MaxPlugs
  <2>1. CASE Plug(s)
    <3>1. PICK m \in Media[s] : media' = [media EXCEPT ![s] = m]
      BY <2>1 DEF Plug
    <3>2. m \in Seq(Keys)
      BY LoopAssumption
    <3> QED BY <2>1, <3>1, <3>2, LoopAssumption DEF LoopTypeOK, Plug
  <2>2. CASE Pull(s)
    BY <2>2, LoopAssumption DEF LoopTypeOK, Pull
  <2> QED BY <2>1, <2>2
<1>3. dead' \subseteq {t \in Sources : mnt[t] # Absent}
  BY DEF LoopTypeOK, Plug, Pull
<1>4. LoopTyped'
  <2>1. \A t : FilesAt(t)' = FilesAt(t)
    BY DEF FilesAt
  <2>2. AskTypeOK'
    BY DEF AskTypeOK
  <2> QED BY <1>2, <1>3, <2>1, <2>2 DEF LoopTyped, LoopTypeOK
<1>5. OneShown' /\ Target' /\ Tested' /\ ServedInv' /\ RefusedInv' /\ WrittenFits'
  BY DEF OneShown, Target, Looping, Tested, ServedInv, RefusedInv, WrittenFits, Cryptsetup, Fits, KeyIn
<1> QED BY <1>4, <1>5

-----------------------------------------------------------------------------
(* The theorems. *)

LEMMA LoopStart == LoopInit => LoopInv
<1> SUFFICES ASSUME LoopInit PROVE LoopInv
  OBVIOUS
<1> USE DEF LoopInit, AskInit
<1>1. AskTypeOK
  BY DEF AskTypeOK
<1>2. media \in [Sources -> {Absent} \cup Seq(Keys)]
  <2>1. PICK b \in Media["boot"] \cup {Absent}, u \in Media["usb"] \cup {Absent} :
            media = [s \in Sources |-> IF s = "boot" THEN b ELSE u]
    OBVIOUS
  <2>2. b \in {Absent} \cup Seq(Keys) /\ u \in {Absent} \cup Seq(Keys)
    BY LoopAssumption DEF Sources
  <2> QED BY <2>1, <2>2
<1>3. LoopTyped
  <2>1. mnt \in [Sources -> {Absent} \cup Seq(Keys)] /\ writes \in [Asks -> Nat] /\ plugs \in 0 .. MaxPlugs
    BY LoopAssumption
  <2> QED BY <1>1, <1>2, <2>1, NothingQueued DEF LoopTyped, LoopTypeOK, Sources
<1>4. OneShown /\ Target /\ Tested /\ ServedInv /\ RefusedInv
  BY DEF OneShown, Target, Looping, Tested, ServedInv, RefusedInv
<1>5. WrittenFits
  BY DEF WrittenFits
<1> QED BY <1>3, <1>4, <1>5 DEF LoopInv

LEMMA LoopInvStep == LoopInv /\ [LoopNext]_topVars => LoopInv'
<1> SUFFICES ASSUME LoopInv, [LoopNext]_topVars PROVE LoopInv'
  OBVIOUS
<1>1. CASE LoopStep
  BY <1>1, FindStep, MountStep, TryKeyStep, SourceExhaustedStep, ReadKeyStep, WriteFifoStep, FifoGoneStep
  DEF LoopStep
<1>2. CASE UNCHANGED topVars
  <2> USE <1>2 DEF topVars, askVars, mediaVars, loopVars, searchVars, loopHistory
  <2>1. LoopTyped'
    BY DEF LoopInv, LoopTyped, LoopTypeOK, AskTypeOK, FilesAt
  <2>2. OneShown' /\ Target' /\ Tested' /\ ServedInv' /\ RefusedInv' /\ WrittenFits' /\ ~retested'
    BY DEF LoopInv, OneShown, Target, Looping, Tested, ServedInv, RefusedInv, WrittenFits, Cryptsetup, Fits, KeyIn
  <2> QED BY <2>1, <2>2 DEF LoopInv
<1> QED BY <1>1, <1>2, StopStep, CryptrootStep, PlugStep DEF LoopNext

\* The invariant that the other theorems follow from: which prompt the loop works
\* for, what was written and refused for it, and that one prompt is shown at a time.
THEOREM LoopInvariant == LoopSpec => []LoopInv
BY LoopStart, LoopInvStep, PTL DEF LoopSpec

\* A refused file is tested once for a prompt and one key is written for it, with
\* any number of volumes and however media are plugged and pulled (REJECTED, served).
THEOREM OnceForAPrompt == LoopSpec => [](RejectedFileTestedOnce /\ WrittenOnce)
<1>1. LoopInv => RejectedFileTestedOnce /\ WrittenOnce
  BY DEF LoopInv, RejectedFileTestedOnce, WrittenOnce, ServedInv
<1> QED BY <1>1, LoopInvariant, PTL

OneVolume == \A a, b \in Asks : AskDev[a] = AskDev[b]

\* Where all prompts are for one volume the loop costs nobody a try, although the
\* prompt that reads a key need not be the one it was tested for.  With a second
\* volume it may: what holds then is WrittenFits.
THEOREM LoopSparesPrompts == LoopSpec => [](OneVolume => PromptsSpared)
<1>1. ASSUME LoopInv, OneVolume PROVE PromptsSpared
  <2>1. NoTryBurned
    BY <1>1 DEF LoopInv, WrittenFits, NoTryBurned, OneVolume, Cryptsetup, Fits
  <2>2. RejectedFileTestedOnce /\ WrittenOnce
    BY <1>1 DEF LoopInv, RejectedFileTestedOnce, WrittenOnce, ServedInv
  <2> QED BY <2>1, <2>2 DEF PromptsSpared
<1>2. LoopInv => (OneVolume => PromptsSpared)
  BY <1>1
<1> QED BY <1>2, LoopInvariant, PTL

-----------------------------------------------------------------------------
(* The loop and the migration, side by side. *)

\* Each program of MCBoot behaves as its own specification says, so that what is
\* proved of the loop and of the migration holds of their common runs.
THEOREM BootRunsEach == BootSpec => LoopSpec /\ Spec
<1>1. BootInit => LoopInit /\ Init
  BY DEF BootInit
<1>2. [BootNext]_bootAll => [LoopNext]_topVars /\ [Next]_vars
  <2> SUFFICES ASSUME [BootNext]_bootAll PROVE [LoopNext]_topVars /\ [Next]_vars
    OBVIOUS
  <2>1. CASE RunLoop(LoopNext)
    BY <2>1 DEF RunLoop
  <2>2. CASE Next /\ UNCHANGED <<program, topVars>>
    BY <2>2
  <2>3. CASE UNCHANGED bootAll
    BY <2>3 DEF bootAll
  <2> QED BY <2>1, <2>2, <2>3 DEF BootNext
<1> QED BY <1>1, <1>2, PTL DEF BootSpec, LoopSpec, Spec

\* A file that is queued, a key on its way and a prompt that is served are of the
\* kinds the script writes, and so are the trees and the steps of the migration.
THEOREM BootKeepsTypes == BootSpec => []BootTypeOK
<1>1. LoopInv => LoopTypeOK
  BY DEF LoopInv, LoopTyped
<1>2. LoopTypeOK /\ TypeOK => BootTypeOK
  BY DEF BootTypeOK
<1> QED BY <1>1, <1>2, BootRunsEach, LoopInvariant, EncryptType, PTL

==============================================================================
