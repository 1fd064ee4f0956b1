---------------------------- MODULE KeyfileSlot ----------------------------
(***************************************************************************)
(* The keyfile tasks of the clevis role (keyfile_fallback.yml with         *)
(* remove_boot_keyfile.yml): the fallback key gets a keyslot, a copy on    *)
(* /boot if wanted, and a place in the initrd's search; the teardown takes *)
(* all of it back.                                                         *)
(***************************************************************************)
EXTENDS LuksHeader

CONSTANT Glitches   \* bound: key tests that fail though the key fits

VARIABLES
    enrolled,   \* clevis_keyfile_enrolled, clevis_keyfile_still_enrolled: rc 0
    kchg,       \* a file of the initrd was changed by a task of this part
    glitch      \* key tests that failed though the key fits, so far

keyVars == <<enrolled, kchg, glitch>>

KeyTypeOK ==
    /\ enrolled \in BOOLEAN /\ kchg \in BOOLEAN
    /\ glitch \in 0 .. Glitches

Fits == keyfile # Absent /\ Holding(keyfile) # {}

\* cryptsetup open --test-passphrase with failed_when: false: whatever goes
\* wrong, also a lack of memory for the key derivation, reads as a wrong key.
TestKeyfile ==
    \/ enrolled' = Fits /\ UNCHANGED glitch
    \/ /\ Fits /\ glitch < Glitches
       /\ enrolled' = FALSE /\ glitch' = glitch + 1

-----------------------------------------------------------------------------
(* Install. *)

\* The key is generated once (creates:).
GenerateKey ==
    /\ pc = "keygen"
    /\ IF keyfile = Absent
       THEN \E k \in Keys : /\ Holding(k) = {} /\ bootcopy # k
                            /\ keyfile' = k
       ELSE keyfile' = keyfile
    /\ pc' = "enrolled"
    /\ UNCHANGED <<slot, bootcopy, etc, initrd, up, ended, opt, keyVars>>

CheckEnrolled ==
    /\ pc = "enrolled"
    /\ TestKeyfile
    /\ pc' = "enrol"
    /\ UNCHANGED <<hostVars, up, ended, opt, kchg>>

\* A key that opens the device is needed: the passphrase or a binding.
Authorised ==
    \/ opt.pw = "good" /\ Holding(Pass) # {}
    \/ \E n \in Clevis : Unlocks(slot[n])

NeedsSlot == ~enrolled

AddKey ==
    /\ pc = "enrol"
    /\ IF NeedsSlot
       THEN Authorised /\ \E n \in Slots \ Used : Put(n, keyfile)
       ELSE slot' = slot
    /\ pc' = "bootcopy"
    /\ UNCHANGED <<keyfile, bootcopy, etc, initrd, up, ended, opt, keyVars>>

\* Copied, or with the option off removed.
BootCopy == IF opt.boot THEN keyfile ELSE Absent

CopyToBoot ==
    /\ pc = "bootcopy"
    /\ bootcopy' = BootCopy
    /\ pc' = "conf"
    /\ UNCHANGED <<slot, keyfile, etc, initrd, up, ended, opt, keyVars>>

DeployConf ==
    /\ pc = "conf"
    /\ etc' = [etc EXCEPT !.conf = IF opt.boot THEN "boot" ELSE "usb"]
    /\ kchg' = (etc' # etc)
    /\ pc' = "module"
    /\ UNCHANGED <<slot, keyfile, bootcopy, initrd, up, ended, opt, enrolled,
                   glitch>>

\* Hook and scripts, or the dracut module and its config.
DeployModule ==
    /\ pc = "module"
    /\ etc' = [etc EXCEPT !.mod = TRUE]
    /\ kchg' = (kchg \/ ~etc.mod)
    /\ pc' = "krebuild"
    /\ UNCHANGED <<slot, keyfile, bootcopy, initrd, up, ended, opt, enrolled,
                   glitch>>

RebuildIfChanged == initrd' = IF kchg THEN Build(etc) ELSE initrd

KeyRebuild ==
    /\ pc = "krebuild"
    /\ RebuildIfChanged
    /\ pc' = "checkkey"
    /\ UNCHANGED <<slot, keyfile, bootcopy, etc, up, ended, opt, keyVars>>

\* lsinitrd: a miss is an error.  lsinitramfs: a miss is displayed.
CheckKey ==
    /\ pc = "checkkey"
    /\ Dracut => initrd.key # "none"
    /\ pc' = "tang"
    /\ UNCHANGED <<hostVars, up, ended, opt, keyVars>>

-----------------------------------------------------------------------------
(* Teardown. *)

\* dracut: the module goes first.
DropModule ==
    /\ pc = "dropmodule"
    /\ IF Dracut
       THEN etc' = [etc EXCEPT !.mod = FALSE] /\ kchg' = etc.mod
       ELSE UNCHANGED <<etc, kchg>>
    /\ pc' = IF Dracut THEN "droprebuild" ELSE "still"
    /\ UNCHANGED <<slot, keyfile, bootcopy, initrd, up, ended, opt, enrolled,
                   glitch>>

DropRebuild ==
    /\ pc = "droprebuild"
    /\ RebuildIfChanged
    /\ pc' = "still"
    /\ UNCHANGED <<slot, keyfile, bootcopy, etc, up, ended, opt, keyVars>>

CheckStillEnrolled ==
    /\ pc = "still"
    /\ TestKeyfile
    /\ pc' = "count"
    /\ UNCHANGED <<hostVars, up, ended, opt, kchg>>

\* Mutant: off by one.
Last_OffByOne == Cardinality(Used) <= 0

Last == Cardinality(Used) <= 1

RefuseLast ==
    /\ pc = "count"
    /\ ~(enrolled /\ Last)
    /\ pc' = "remove"
    /\ UNCHANGED <<hostVars, up, ended, opt, keyVars>>

\* luksRemoveKey removes one keyslot the key opens.
RemoveSlot ==
    /\ pc = "remove"
    /\ IF enrolled THEN \E n \in Holding(keyfile) : Unbind(n)
                   ELSE slot' = slot
    /\ pc' = "dropboot"
    /\ UNCHANGED <<keyfile, bootcopy, etc, initrd, up, ended, opt, keyVars>>

DropBoot ==
    /\ pc = "dropboot"
    /\ bootcopy' = Absent
    /\ pc' = "dropfiles"
    /\ UNCHANGED <<slot, keyfile, etc, initrd, up, ended, opt, keyVars>>

DropFiles ==
    /\ pc = "dropfiles"
    /\ etc' = [etc EXCEPT !.conf = "none",
                          !.mod = IF Dracut THEN etc.mod ELSE FALSE]
    /\ kchg' = (etc' # etc)
    /\ pc' = IF Dracut THEN "shred" ELSE "filesrebuild"
    /\ UNCHANGED <<slot, keyfile, bootcopy, initrd, up, ended, opt, enrolled,
                   glitch>>

FilesRebuild ==
    /\ pc = "filesrebuild"
    /\ RebuildIfChanged
    /\ pc' = "shred"
    /\ UNCHANGED <<slot, keyfile, bootcopy, etc, up, ended, opt, keyVars>>

Shred ==
    /\ pc = "shred"
    /\ keyfile' = Absent
    /\ pc' = "tang"
    /\ UNCHANGED <<slot, bootcopy, etc, initrd, up, ended, opt, keyVars>>

KeyStep ==
    \/ GenerateKey \/ CheckEnrolled \/ AddKey \/ CopyToBoot \/ DeployConf
    \/ DeployModule \/ KeyRebuild \/ CheckKey
    \/ DropModule \/ DropRebuild \/ CheckStillEnrolled \/ RefuseLast
    \/ RemoveSlot \/ DropBoot \/ DropFiles \/ FilesRebuild \/ Shred
=============================================================================
