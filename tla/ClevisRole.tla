----------------------------- MODULE ClevisRole -----------------------------
(***************************************************************************)
(* Runs of the clevis role (roles/clevis/tasks/main.yml): the tang tasks,  *)
(* the keyfile tasks, the tang teardown, each run with its own inventory   *)
(* and variables, any run stopped at any task, on a header earlier runs    *)
(* have left behind.                                                       *)
(***************************************************************************)
EXTENDS TangBinding, KeyfileSlot

CONSTANTS
    Wants,      \* inventories: what a run may want
    Opts,       \* variables a run may be given
    Hosts       \* hosts: keyslots to start with, generator

ASSUME RoleAssumption ==
    /\ Wants \subseteq Want
    /\ Opts \subseteq Options
    /\ Hosts \subseteq [header : [Slots -> Content \cup {Free}], dracut : BOOLEAN]
    /\ \A h \in Hosts : \E n \in Slots : h.header[n] # Free
    /\ \A h \in Hosts, n \in Slots : h.header[n] \notin Keys
    /\ Glitches \in Nat

vars == <<hostVars, up, opt, pc, ended, want, tangVars, keyVars>>

Tasks == {"list", "reach", "bind", "bindfailed", "verify", "test", "retire",
          "net", "rebuild", "checknet", "keyfile", "keygen", "enrolled", "enrol",
          "bootcopy", "conf", "module", "krebuild", "checkkey", "dropmodule",
          "droprebuild", "still", "count", "remove", "dropboot", "dropfiles",
          "filesrebuild", "shred", "tang", "teardown", "untang"}

TypeOK ==
    /\ HeaderTypeOK /\ TangTypeOK /\ KeyTypeOK
    /\ pc \in Tasks \cup {"idle"}

\* Registered results and facts live as long as the run.
FactsInit ==
    /\ needs = FALSE /\ chg = FALSE
    /\ match = {} /\ stale = {} /\ doomed = {} /\ proven = {}
    /\ enrolled = FALSE /\ kchg = FALSE

Init ==
    /\ \E h \in Hosts :
          /\ slot = h.header
          /\ etc = [net |-> FALSE, mod |-> FALSE, conf |-> "none",
                    dracut |-> h.dracut]
    /\ up = Servers
    /\ keyfile = Absent /\ bootcopy = Absent
    /\ initrd = Build(etc)
    /\ want \in Wants /\ opt \in Opts
    /\ pc = "idle" /\ ended = "none"
    /\ FactsInit
    /\ glitch = 0

EndRun(how) ==
    /\ pc' = "idle" /\ ended' = how
    /\ needs' = FALSE /\ chg' = FALSE
    /\ match' = {} /\ stale' = {} /\ doomed' = {} /\ proven' = {}
    /\ enrolled' = FALSE /\ kchg' = FALSE

-----------------------------------------------------------------------------
(* main.yml *)

StartRun ==
    /\ pc = "idle"
    /\ want' \in Wants /\ opt' \in Opts
    /\ pc' = IF opt'.tag = "clevis" /\ opt'.wants /\ want'.urls # {}
             THEN "list" ELSE "keyfile"
    /\ ended' = "none"
    /\ UNCHANGED <<hostVars, up, tangVars, keyVars>>

StartKeyfile ==
    /\ pc = "keyfile"
    /\ pc' = CASE opt.key = "off" -> "tang"
               [] opt.key = "install" -> "keygen"
               [] opt.key = "teardown" -> "dropmodule"
    /\ UNCHANGED <<hostVars, up, opt, ended, want, tangVars, keyVars>>

StartTeardown ==
    /\ pc = "tang"
    /\ opt.untang /\ opt.tag = "clevis"
    /\ pc' = "teardown"
    /\ UNCHANGED <<hostVars, up, opt, ended, want, tangVars, keyVars>>

Finish ==
    /\ \/ pc = "tang" /\ ~(opt.untang /\ opt.tag = "clevis")
       \/ pc = "untang" /\ doomed = {}
    /\ EndRun("ok")
    /\ UNCHANGED <<hostVars, up, opt, want, glitch>>

\* The next task fails without effect, is refused, or the run is interrupted.
Abort ==
    /\ pc # "idle"
    /\ EndRun("failed")
    /\ UNCHANGED <<hostVars, up, opt, want, glitch>>

Next ==
    \/ StartRun \/ StartKeyfile \/ StartTeardown \/ Finish \/ Abort
    \/ TangStep /\ UNCHANGED keyVars
    \/ KeyStep /\ UNCHANGED <<want, tangVars>>
    \/ \E s \in Servers : (Reach(s) \/ Rekey(s))
                          /\ UNCHANGED <<want, tangVars, keyVars>>

Spec == Init /\ [][Next]_vars

-----------------------------------------------------------------------------
(* Properties. *)

Finished == pc = "idle" /\ ended = "ok"
TangRun == opt.tag = "clevis" /\ WantsTang

\* No run, finished or stopped anywhere, leaves the header without a keyslot
\* (the assertions in tang_teardown.yml and in the keyfile teardown).
KeyslotRemains == Used # {}

\* Outside the opt-in teardown a binding is unbound only while a binding to
\* the wanted servers stands through which this run has unlocked the device
\* (config_clevis.yml: "only after the desired binding provably unlocks").
RetiredAfterProof ==
    [][\A n \in Slots :
          slot[n] \in Binding /\ slot'[n] = Free /\ pc # "untang" =>
              \E m \in proven : /\ slot[m] \in Binding /\ Wanted(slot[m])
                                /\ slot'[m] = slot[m]]_vars

\* A finished tang run leaves a wanted binding and no other sss binding with
\* tang pins, whatever earlier runs were stopped at.
DriftRepaired ==
    Finished /\ TangRun =>
        /\ \E n \in Clevis : Wanted(slot[n])
        /\ \A n \in Clevis : slot[n].pin = "sss" /\ slot[n].urls # {}
                                => Wanted(slot[n])

\* dracut: the initrd a finished tang run leaves has the network part, whatever
\* earlier runs were stopped at (step 9 of roles/clevis/README.md).
InitrdVerified == Finished /\ TangRun /\ Dracut => initrd.net

\* The key of a fallback keyslot is never destroyed while the slot is there.
FallbackKeyKept == \A k \in Keys : Holding(k) # {} => keyfile = k

\* A finished keyfile run has done all of it or taken all of it back, whatever
\* earlier runs were stopped at.
KeyfileRunComplete ==
    /\ Finished /\ opt.key = "install" =>
          /\ Fits
          /\ bootcopy = IF opt.boot THEN keyfile ELSE Absent
          /\ etc.mod /\ etc.conf = IF opt.boot THEN "boot" ELSE "usb"
    /\ Finished /\ opt.key = "teardown" =>
          /\ keyfile = Absent /\ bootcopy = Absent
          /\ ~etc.mod /\ etc.conf = "none"
          /\ \A k \in Keys : Holding(k) = {}

\* The device stays open to somebody: a keyslot is left, and the key of the
\* fallback keyslot exists as long as its slot unless a key test fails by itself.
KeysRemain == KeyslotRemains /\ (Glitches = 0 => FallbackKeyKept)

\* A run that ends well repairs what earlier runs were stopped at: keyfile,
\* bindings and initrd are those of its variables.
RunsRepair == KeyfileRunComplete /\ DriftRepaired /\ InitrdVerified
=============================================================================
