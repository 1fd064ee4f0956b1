----------------------------- MODULE LuksHeader -----------------------------
(***************************************************************************)
(* What a run of the clevis role changes on a host: the keyslots of the    *)
(* LUKS header, the fallback key and its copy on /boot, the files the next *)
(* initrd is built from, and the initrd.  A run is a list of Ansible tasks *)
(* that ends with the first task that fails; the next run starts from what *)
(* is left.  TangBinding and KeyfileSlot are the tasks, ClevisRole the     *)
(* runs made of them.                                                      *)
(***************************************************************************)
EXTENDS Naturals, FiniteSets

CONSTANTS
    Slots,      \* numbers of the keyslots
    Servers,    \* tang servers
    Keys,       \* fallback keys that may be generated
    Pass,       \* the LUKS passphrase
    Orphan,     \* a keyslot without a clevis token: nobody knows its key
    Free,       \* an unused keyslot
    Absent      \* no such file

\* A clevis binding.  pin: an sss tree or a bare tang pin.  mixed: the tree has
\* other pins beside tang.  live: the servers that still have the key it was
\* bound to.
Binding == [pin : {"sss", "tang"}, mixed : BOOLEAN, t : Nat,
            urls : SUBSET Servers, live : SUBSET Servers]

Content == Binding \cup Keys \cup {Pass, Orphan}

ASSUME HeaderAssumption ==
    /\ Slots \subseteq Nat /\ IsFiniteSet(Slots)
    /\ IsFiniteSet(Servers)
    /\ Pass # Orphan /\ {Pass, Orphan} \cap Keys = {}
    /\ Binding \cap (Keys \cup {Pass, Orphan}) = {}
    /\ Free \notin Content
    /\ Absent \notin Keys

VARIABLES
    slot,       \* slot[n]: what keyslot n is for
    up,         \* the tang servers that can be reached
    keyfile,    \* /etc/clevis-keyfile/fallback.key
    bootcopy,   \* its copy on the boot partition
    etc,        \* what the initrd would be built from now
    initrd,     \* what it was built from
    opt,        \* tags and variables of the run
    pc,         \* the task that is next
    ended       \* how the last run ended

hostVars == <<slot, keyfile, bootcopy, etc, initrd>>

\* The tag of the run; wantsclevis; clevis_luks_passphrase; the keyfile fallback
\* enabled or to be torn down, with or without a copy on /boot;
\* clevis_tang_teardown.
Options == [tag : {"clevis", "clevis_keyfile"}, wants : BOOLEAN,
            pw : {"none", "good", "wrong"}, key : {"off", "install", "teardown"},
            boot : BOOLEAN, untang : BOOLEAN]

\* net: network settings for tang; mod: scripts or dracut module of the
\* keyfile fallback; conf: its keyfile.conf; dracut: the generator of the host,
\* dracut or initramfs-tools.
Etc == [net : BOOLEAN, mod : BOOLEAN, conf : {"none", "usb", "boot"},
        dracut : BOOLEAN]

Dracut == etc.dracut

\* The keyfile part needs both its scripts and keyfile.conf.
Initrd == [net : BOOLEAN, key : {"none", "usb", "boot"}]
Build(e) == [net |-> e.net, key |-> IF e.mod THEN e.conf ELSE "none"]

Used == {n \in Slots : slot[n] # Free}
Clevis == {n \in Slots : slot[n] \in Binding}
Holding(c) == {n \in Slots : slot[n] = c}

Put(n, c) == slot' = [slot EXCEPT ![n] = c]
Unbind(n) == Put(n, Free)

\* clevis luks pass, and cryptsetup accepts what it prints.
Unlocks(b) == Cardinality(b.live \cap up) >= b.t

HeaderTypeOK ==
    /\ slot \in [Slots -> Content \cup {Free}]
    /\ up \subseteq Servers
    /\ keyfile \in Keys \cup {Absent}
    /\ bootcopy \in Keys \cup {Absent}
    /\ etc \in Etc
    /\ initrd \in Initrd
    /\ opt \in Options
    /\ ended \in {"none", "ok", "failed"}

-----------------------------------------------------------------------------
(* The tang servers. *)

Reach(s) ==
    /\ up' = IF s \in up THEN up \ {s} ELSE up \cup {s}
    /\ UNCHANGED <<hostVars, opt, pc, ended>>

\* A server is set up anew: the bindings made before have lost it.
Rekey(s) ==
    /\ slot' = [n \in Slots |->
                  IF slot[n] \in Binding
                  THEN [slot[n] EXCEPT !.live = @ \ {s}] ELSE slot[n]]
    /\ UNCHANGED <<up, keyfile, bootcopy, etc, initrd, opt, pc, ended>>
=============================================================================
