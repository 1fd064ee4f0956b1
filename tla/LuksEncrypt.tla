---------------------------- MODULE LuksEncrypt ----------------------------
(***************************************************************************)
(* scripts/luks_encrypt_spark.sh: a machine with a plain root partition is *)
(* encrypted in place.  In the running system the script leaves files that *)
(* put a migration into the initrd (prep) or takes them back (--abort);    *)
(* the next boot copies the root into RAM, repartitions, encrypts and      *)
(* copies it back.  Any command may fail or be interrupted, the power may  *)
(* be cut at any step, and the initrd may be rebuilt by an upgrade at any  *)
(* time.                                                                   *)
(***************************************************************************)
EXTENDS Sequences

CONSTANTS
    Choices,    \* preparations: passphrase, options and excluded directories
    Items,      \* the contents of the root filesystem
    Drops,      \* Drops[c]: what the excludes of c cover
    Fallback,   \* the choices with the boot key file
    None,       \* absent
    Trunc       \* an exclude file not yet filled

ASSUME EncryptAssumption ==
    /\ Drops \in [Choices -> SUBSET Items]
    /\ Fallback \subseteq Choices
    /\ None \notin Choices /\ Trunc \notin Choices /\ None # Trunc

VARIABLES
    pc,         \* the step that is next
    sys,        \* which root the running system is on
    choice,     \* the prep in progress
    todo,       \* --abort: files still to be removed
    removed,    \* --abort: REMOVED
    old,        \* the old root, with the /boot in it
    ram,        \* /tmp/backup
    new,        \* the new root
    boot,       \* the initrd on the new /boot
    luks,       \* whose passphrase opens the new partition
    enrolled,   \* the fallback key has a keyslot
    bootcopy,   \* its copy is on the new /boot
    grub,       \* which /boot the boot loader reads
    cfg,        \* what its grub.cfg on the new /boot was made for
    job,        \* the initrd that is running
    past,       \* PAST_PONR
    cut,        \* the power was cut after the point of no return (history)
    armed       \* a prep has deployed the migration and no abort that had
                \* something to remove has finished since (history)

command == <<choice, todo, removed>>
disk == <<old, new, boot, luks, enrolled, bootcopy, grub, cfg>>
history == <<cut, armed>>
vars == <<pc, sys, command, ram, disk, job, past, history>>

FileNames == {"hook", "premount", "conf", "key", "excl",  \* of the migration
              "scripts", "fkey", "kconf",                 \* keyfile fallback
              "tabs"}                                     \* crypttab, fstab

\* What a file says is determined by the choice it was written for.
Content == Choices \cup {None, Trunc}
Files == [FileNames -> Content]
Plain == [n \in FileNames |-> None]
Migration == {"hook", "premount", "conf", "key", "excl"}

\* The conf, the key and the excludes are copied by the hook; the premount
\* script comes by itself; the keyfile scripts need keyfile.conf.
Initrd == [pre : BOOLEAN, conf : Content, key : Content, excl : Content,
           crypt : BOOLEAN, keyfile : BOOLEAN]

Build(f) ==
    LET hooked(n) == IF f["hook"] # None THEN f[n] ELSE None IN
    [pre |-> f["premount"] # None,
     conf |-> hooked("conf"), key |-> hooked("key"), excl |-> hooked("excl"),
     crypt |-> f["tabs"] # None,
     keyfile |-> f["scripts"] # None /\ f["kconf"] # None]

Tree == [data : SUBSET Items, files : Files, initrd : Initrd]

ASSUME NoneAssumption == None \notin Tree /\ None \notin Initrd

\* The sentinels of the premount script.
Runs(i) == i.pre /\ i.conf # None /\ i.key # None

Dropped(e) == IF e \in Choices THEN Drops[e] ELSE {}

PrepSteps == {"stage", "stagekey", "conf", "trunc", "excl", "key", "hook", "premount",
              "rebuild"}
UpSteps == PrepSteps \cup {"up", "abort"}
SafeSteps == {"mount", "backup", "verify", "umount"}
FallbackSteps == {"enrol", "copykey", "keyconf"}
LateSteps == {"delete", "format", "restore", "bootpart", "tabs", "destruct",
              "initramfs", "grubcfg", "grubinstall", "finish"} \cup FallbackSteps

TypeOK ==
    /\ pc \in UpSteps \cup SafeSteps \cup LateSteps
              \cup {"off", "rootfs", "shell", "dead"}
    /\ sys \in {"old", "new"}
    /\ choice \in Choices \cup {None}
    /\ todo \in Seq(FileNames) /\ removed \in BOOLEAN
    /\ old \in Tree \cup {None} /\ ram \in Tree \cup {None}
    /\ new \in Tree \cup {None}
    /\ boot \in Initrd \cup {None} /\ job \in Initrd \cup {None}
    /\ luks \in Content
    /\ enrolled \in BOOLEAN /\ bootcopy \in BOOLEAN
    /\ grub \in {"old", "new"} /\ cfg \in {"old", "new"}
    /\ past \in BOOLEAN /\ cut \in BOOLEAN /\ armed \in BOOLEAN

Init ==
    /\ pc = "up" /\ sys = "old"
    /\ choice = None /\ todo = <<>> /\ removed = FALSE
    /\ old = [data |-> Items, files |-> Plain, initrd |-> Build(Plain)]
    /\ ram = None /\ new = None /\ boot = None
    /\ luks = None /\ enrolled = FALSE /\ bootcopy = FALSE
    /\ grub = "old" /\ cfg = "old"
    /\ job = None /\ past = FALSE
    /\ cut = FALSE /\ armed = FALSE

-----------------------------------------------------------------------------
(* The running system. *)

Root == IF sys = "old" THEN old ELSE new
File(n) == Root.files[n]

With(t, f) == [t EXCEPT !.files = f]
Put(f, n, v) == [f EXCEPT ![n] = v]

Write(n, v) ==
    /\ IF sys = "old"
       THEN old' = With(old, Put(old.files, n, v)) /\ UNCHANGED new
       ELSE new' = With(new, Put(new.files, n, v)) /\ UNCHANGED old
    /\ UNCHANGED <<boot, luks, enrolled, bootcopy, grub, cfg>>

\* update-initramfs -u -k all
UpdateInitramfs ==
    /\ IF sys = "old"
       THEN old' = [old EXCEPT !.initrd = Build(old.files)] /\ UNCHANGED boot
       ELSE boot' = Build(new.files) /\ UNCHANGED old
    /\ UNCHANGED <<new, luks, enrolled, bootcopy, grub, cfg>>

Stay == UNCHANGED <<sys, ram, job, past, cut>>

\* Another package rebuilds the initrd.
Upgrade ==
    /\ pc \in UpSteps
    /\ UpdateInitramfs
    /\ Stay /\ UNCHANGED <<pc, command, armed>>

\* The command fails or is interrupted.
Interrupt ==
    /\ pc \in UpSteps \ {"up"}
    /\ pc' = "up"
    /\ choice' = None /\ todo' = <<>> /\ removed' = FALSE
    /\ Stay /\ UNCHANGED <<disk, armed>>

-----------------------------------------------------------------------------
(* Phase A. *)

\* Two partitions, an ext4 root, and no encryption deployed.
StartPrep ==
    /\ pc = "up"
    /\ sys = "old"
    /\ File("conf") = None /\ File("premount") = None
    /\ choice' \in Choices
    /\ pc' = IF choice' \in Fallback THEN "stage" ELSE "conf"
    /\ Stay /\ UNCHANGED <<todo, removed, disk, armed>>

Deploy(step, n, v, next) ==
    /\ pc = step
    /\ Write(n, v)
    /\ pc' = next
    /\ Stay /\ UNCHANGED command

StageScripts == Deploy("stage", "scripts", choice, "stagekey") /\ UNCHANGED armed

\* The key is only generated once.
StagedKey == IF File("fkey") = None THEN choice ELSE File("fkey")

StageKey == Deploy("stagekey", "fkey", StagedKey, "conf") /\ UNCHANGED armed

WriteConf == Deploy("conf", "conf", choice, "trunc") /\ UNCHANGED armed
TruncExclude == Deploy("trunc", "excl", Trunc, "excl") /\ UNCHANGED armed
WriteExclude == Deploy("excl", "excl", choice, "key") /\ UNCHANGED armed
WriteKey == Deploy("key", "key", choice, "hook") /\ UNCHANGED armed
DeployHook == Deploy("hook", "hook", choice, "premount") /\ UNCHANGED armed
DeployPremount == Deploy("premount", "premount", choice, "rebuild")
                  /\ armed' = TRUE

PrepRebuild ==
    /\ pc = "rebuild"
    /\ UpdateInitramfs
    /\ pc' = "up" /\ choice' = None
    /\ Stay /\ UNCHANGED <<todo, removed, armed>>

-----------------------------------------------------------------------------
(* --abort *)

\* Mutant: the exclude file goes first.
AbortOrder_ExcludeFirst == <<"excl", "hook", "premount", "conf", "key">>

AbortOrder == <<"hook", "premount", "conf", "key", "excl">>

\* keyfile.conf: the clevis role or a finished encryption has taken over.
Owned == File("kconf") # None

StartAbort ==
    /\ pc = "up"
    /\ todo' = AbortOrder
               \o (IF Owned THEN <<>> ELSE <<"scripts", "fkey">>)
    /\ removed' = FALSE
    /\ pc' = "abort"
    /\ Stay /\ UNCHANGED <<choice, disk, armed>>

\* Only the key does not count as removed: it is not in the initrd.
RemoveFile ==
    /\ pc = "abort" /\ todo # <<>>
    /\ Write(Head(todo), None)
    /\ todo' = Tail(todo)
    /\ removed' = (removed \/ (File(Head(todo)) # None /\ Head(todo) # "fkey"))
    /\ Stay /\ UNCHANGED <<pc, choice, armed>>

\* Only when something was removed.
AbortRebuild == IF removed THEN UpdateInitramfs ELSE UNCHANGED disk

FinishAbort ==
    /\ pc = "abort" /\ todo = <<>>
    /\ AbortRebuild
    /\ armed' = (armed /\ ~removed)
    /\ pc' = "up" /\ removed' = FALSE
    /\ Stay /\ UNCHANGED <<choice, todo>>

-----------------------------------------------------------------------------
(* Power and boot. *)

Shutdown ==
    /\ pc' = "off"
    /\ ram' = None /\ job' = None /\ past' = FALSE
    /\ choice' = None /\ todo' = <<>> /\ removed' = FALSE
    /\ UNCHANGED <<sys, disk, armed>>

Reboot == pc = "up" /\ Shutdown /\ UNCHANGED cut

PowerLoss == pc # "off" /\ Shutdown /\ cut' = (cut \/ past)

Start(i, s) ==
    /\ job' = i /\ sys' = s
    /\ pc' = IF Runs(i) THEN "mount" ELSE "rootfs"

PowerOn ==
    /\ pc = "off"
    /\ CASE grub = "old" /\ old # None -> Start(old.initrd, "old")
         [] grub = "new" /\ cfg = "new" /\ boot # None -> Start(boot, "new")
         [] OTHER -> pc' = "dead" /\ UNCHANGED <<job, sys>>
    /\ UNCHANGED <<command, ram, disk, past, history>>

\* The normal boot goes on; the encrypted root needs crypttab in the initrd.
MountRoot ==
    /\ pc = "rootfs"
    /\ pc' = IF (sys = "old" /\ old # None)
                \/ (sys = "new" /\ job.crypt /\ new # None)
             THEN "up" ELSE "dead"
    /\ ram' = None
    /\ UNCHANGED <<sys, command, disk, job, past, history>>

-----------------------------------------------------------------------------
(* Phase B, before the point of no return. *)

InInitrd == UNCHANGED <<sys, command, job, history>>

Go(step, next) == pc = step /\ pc' = next /\ InInitrd

MountOld == Go("mount", "backup") /\ UNCHANGED <<ram, disk, past>>

\* Mutant: the exit code of rsync is not looked at.
BackupOk_Any(got) == TRUE

BackupOk(got) == got = old.data \ Dropped(job.excl)

\* p2 is the old root; after a migration it would be /boot.
Backup ==
    /\ pc = "backup"
    /\ IF old = None
       THEN ram' = None /\ pc' = "verify"
       ELSE \E got \in SUBSET (old.data \ Dropped(job.excl)) :
               /\ ram' = [old EXCEPT !.data = got]
               /\ pc' = IF BackupOk(got) THEN "verify" ELSE "rootfs"
    /\ InInitrd /\ UNCHANGED <<disk, past>>

\* etc, usr, bin and a kernel are in the copy.
Verify ==
    /\ pc = "verify"
    /\ pc' = IF ram # None THEN "umount" ELSE "rootfs"
    /\ InInitrd /\ UNCHANGED <<ram, disk, past>>

UnmountOld == Go("umount", "delete") /\ past' = TRUE /\ UNCHANGED <<ram, disk>>

\* set -e: the handler at EXIT.
Fail ==
    /\ pc \in SafeSteps \cup (LateSteps \ {"finish"})
    /\ pc' = IF past THEN "shell" ELSE "rootfs"
    /\ InInitrd /\ UNCHANGED <<ram, disk, past>>

-----------------------------------------------------------------------------
(* Phase B, after the point of no return. *)

Repartition ==
    /\ Go("delete", "format")
    /\ old' = None
    /\ UNCHANGED <<ram, new, boot, luks, enrolled, bootcopy, grub, cfg, past>>

Format ==
    /\ Go("format", "restore")
    /\ luks' = job.key
    /\ UNCHANGED <<ram, old, new, boot, enrolled, bootcopy, grub, cfg, past>>

\* LVM, mkfs and rsync.
Restore ==
    /\ Go("restore", "bootpart")
    /\ new' = ram
    /\ UNCHANGED <<ram, old, boot, luks, enrolled, bootcopy, grub, cfg, past>>

\* The old initrds are copied to the new /boot.
BootPart ==
    /\ Go("bootpart", IF job.conf \in Fallback THEN "enrol" ELSE "tabs")
    /\ boot' = new.initrd
    /\ UNCHANGED <<ram, old, new, luks, enrolled, bootcopy, grub, cfg, past>>

\* luksAddKey is a condition: it may fail.
Enrol ==
    /\ \/ Go("enrol", "copykey") /\ new.files["fkey"] # None /\ enrolled' = TRUE
       \/ Go("enrol", "tabs") /\ UNCHANGED enrolled
    /\ UNCHANGED <<ram, old, new, boot, luks, bootcopy, grub, cfg, past>>

CopyKey ==
    /\ Go("copykey", "keyconf")
    /\ bootcopy' = TRUE
    /\ UNCHANGED <<ram, old, new, boot, luks, enrolled, grub, cfg, past>>

InNew(f) ==
    /\ new' = With(new, f)
    /\ UNCHANGED <<ram, old, boot, luks, enrolled, bootcopy, grub, cfg, past>>

KeyConf == Go("keyconf", "tabs") /\ InNew(Put(new.files, "kconf", job.conf))

\* Mutant: crypttab is not written.
Tabs_Fstab == new.files

\* fstab and crypttab.
Tabs == Put(new.files, "tabs", job.conf)

WriteTabs == Go("tabs", "destruct") /\ InNew(Tabs)

\* Mutant: the config is left.
SelfDestructed_Conf ==
    [n \in FileNames |-> IF n \in Migration \ {"conf", "key", "hook"} THEN None
                         ELSE new.files[n]]

SelfDestructed ==
    [n \in FileNames |-> IF n \in Migration THEN None ELSE new.files[n]]

SelfDestruct == Go("destruct", "initramfs") /\ InNew(SelfDestructed)

RebuildNew ==
    /\ Go("initramfs", "grubcfg")
    /\ boot' = Build(new.files)
    /\ UNCHANGED <<ram, old, new, luks, enrolled, bootcopy, grub, cfg, past>>

\* A failure is only logged.
UpdateGrub ==
    /\ Go("grubcfg", "grubinstall")
    /\ cfg' \in {cfg, "new"}
    /\ UNCHANGED <<ram, old, new, boot, luks, enrolled, bootcopy, grub, past>>

GrubInstall ==
    /\ Go("grubinstall", "finish")
    /\ grub' = "new"
    /\ UNCHANGED <<ram, old, new, boot, luks, enrolled, bootcopy, cfg, past>>

Finish == pc = "finish" /\ Shutdown /\ UNCHANGED cut

Next ==
    \/ Upgrade \/ Interrupt \/ StartPrep \/ StageScripts \/ StageKey
    \/ WriteConf \/ TruncExclude \/ WriteExclude \/ WriteKey \/ DeployHook
    \/ DeployPremount \/ PrepRebuild
    \/ StartAbort \/ RemoveFile \/ FinishAbort
    \/ Reboot \/ PowerLoss \/ PowerOn \/ MountRoot
    \/ MountOld \/ Backup \/ Verify \/ UnmountOld \/ Fail
    \/ Repartition \/ Format \/ Restore \/ BootPart \/ Enrol \/ CopyKey
    \/ KeyConf \/ WriteTabs \/ SelfDestruct \/ RebuildNew \/ UpdateGrub
    \/ GrubInstall \/ Finish

Spec == Init /\ [][Next]_vars

-----------------------------------------------------------------------------
(* Properties. *)

\* What the operator gave up with the preparation that is carried out.
GivenUp == CASE luks # None -> Dropped(luks)
             [] luks = None /\ past -> Dropped(job.key)
             [] OTHER -> {}

\* Unless the power is cut after the point of no return, everything but the
\* excluded directories is on the old root, in RAM or on the new root, whatever
\* command fails ("Data is safe in /tmp/backup (RAM)").
DataSafe ==
    \/ cut
    \/ \E t \in {old, ram, new} : t # None /\ Items \ GivenUp \subseteq t.data

\* An initrd that will migrate holds passphrase, options and excludes of one
\* preparation, also when it was built in the middle of one or of an abort.
ArmedComplete ==
    \A i \in {boot} \cup (IF old = None THEN {} ELSE {old.initrd}) :
        i # None => (Runs(i) => i.conf = i.key /\ i.excl = i.key)

\* After an abort that had something to remove no boot migrates until the next
\* preparation ("Encryption cancelled. Safe to reboot normally.").
AbortCancels == pc = "mount" => armed

\* The boot loader is only switched to a /boot without the migration and its
\* passphrase, and the new root holds none either ("self-destruct").
MigratesOnce ==
    grub = "new" => /\ ~Runs(boot) /\ boot.key = None
                    /\ \A n \in Migration : new.files[n] = None

\* The machine boots, except after a power cut past the point of no return and
\* when update-grub has failed.
BootsUnlessCut == pc = "dead" => cut \/ (grub = "new" /\ cfg = "old")

\* On the migrated system the key of the fallback keyslot is kept, and an
\* initrd that looks for the copy on /boot finds one that unlocks.
FallbackIntact ==
    grub = "new" => /\ enrolled => new.files["fkey"] # None
                    /\ boot.keyfile => enrolled /\ bootcopy

\* What will migrate is what the operator last asked for, and all of it: one
\* preparation, and none that he has aborted since.
ArmedWhole == ArmedComplete /\ AbortCancels

\* What has migrated is settled: it does not do it again, holds no passphrase,
\* and keeps the key of its fallback keyslot.
MigratedWhole == MigratesOnce /\ FallbackIntact

Pending == \E n \in Migration : File(n) # None

\* --status and --abort tell whether a reboot will encrypt ("Nothing to remove
\* - no encryption was pending").
StatusTruthful == pc = "up" /\ sys = "old" /\ Runs(old.initrd) => Pending
=============================================================================
