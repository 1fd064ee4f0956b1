---------------------------- MODULE TangBinding ----------------------------
(***************************************************************************)
(* The tang tasks of the clevis role: config_clevis.yml with the           *)
(* classification of parse_bindings.yml, and the opt-in tang_teardown.yml. *)
(*                                                                         *)
(* A task is an action guarded by what it needs to succeed; a task that    *)
(* fails, is refused by an assertion or is interrupted ends the run        *)
(* (Abort in ClevisRole).                                                  *)
(***************************************************************************)
EXTENDS LuksHeader

VARIABLES
    want,       \* clevis_tang_servers and clevis_sss_threshold
    needs,      \* clevis_needs_bind
    match,      \* _clevis_match_slots
    stale,      \* _clevis_stale_slots, those not yet unbound
    chg,        \* a file of the initrd was changed by a task of this part
    doomed,     \* _clevis_td_slots, those not yet unbound
    proven      \* keyslots the device was unlocked through in this run
                \* (history)

tangVars == <<needs, match, stale, chg, doomed, proven>>

Want == [t : Nat, urls : SUBSET Servers]

TangTypeOK ==
    /\ want \in Want
    /\ needs \in BOOLEAN /\ chg \in BOOLEAN
    /\ match \cup stale \cup doomed \subseteq Clevis
    /\ proven \subseteq Slots

-----------------------------------------------------------------------------
(* parse_bindings.yml *)

\* The sss tree has tang pins only, and the threshold and servers wanted.
Wanted(b) == b.pin = "sss" /\ ~b.mixed /\ b.t = want.t /\ b.urls = want.urls

Matching(listed) == {n \in listed : Wanted(slot[n])}

\* Mutant: a tree with other pins beside tang is not stale.
Stale_Pure(listed) ==
    {n \in listed : slot[n].pin = "sss" /\ ~slot[n].mixed /\ ~Wanted(slot[n])}

\* Only sss slots are parsed; a slot bound to a bare tang pin is not.
Stale(listed) ==
    {n \in listed : slot[n].pin = "sss" /\ slot[n].urls # {} /\ ~Wanted(slot[n])}

-----------------------------------------------------------------------------
(* config_clevis.yml *)

\* The first listing may fail (failed_when: false): then nothing is bound yet.
\* A run that has to bind needs the passphrase.
ListBindings ==
    /\ pc = "list"
    /\ \E listed \in {Clevis, {}} :
          /\ needs' = (Matching(listed) = {})
          /\ needs' => opt.pw # "none"
    /\ pc' = "reach"
    /\ UNCHANGED <<hostVars, up, ended, want, opt, match, stale, chg, doomed,
                   proven>>

\* Every server is asked for its advertisement, also when nothing is bound.
CheckServers ==
    /\ pc = "reach"
    /\ want.urls \subseteq up
    /\ pc' = IF needs THEN "bind" ELSE "verify"
    /\ UNCHANGED <<hostVars, up, ended, want, opt, tangVars>>

NewBinding == [pin |-> "sss", mixed |-> FALSE, t |-> want.t,
               urls |-> want.urls, live |-> want.urls]

\* clevis luks bind with the passphrase, in a free slot.
Bind ==
    /\ pc = "bind"
    /\ want.urls \subseteq up
    /\ opt.pw = "good" /\ Holding(Pass) # {}
    /\ \E n \in Slots \ Used : Put(n, NewBinding)
    /\ pc' = "verify"
    /\ UNCHANGED <<up, keyfile, bootcopy, etc, initrd, ended, want, opt,
                   tangVars>>

\* clevis luks bind dies between adding the keyslot and writing the token; the
\* run can only end.
BindHalf ==
    /\ pc = "bind"
    /\ want.urls \subseteq up
    /\ opt.pw = "good" /\ Holding(Pass) # {}
    /\ \E n \in Slots \ Used : Put(n, Orphan)
    /\ pc' = "bindfailed"
    /\ UNCHANGED <<up, keyfile, bootcopy, etc, initrd, ended, want, opt,
                   tangVars>>

\* The second listing must succeed; at least one slot must match.
Verify ==
    /\ pc = "verify"
    /\ match' = Matching(Clevis)
    /\ match' # {}
    /\ stale' = Stale(Clevis)
    /\ pc' = IF stale' = {} THEN "net" ELSE "test"
    /\ UNCHANGED <<hostVars, up, ended, want, opt, needs, chg, doomed, proven>>

First(S) == CHOOSE n \in S : \A m \in S : n <= m

\* Mutant: the loop stays with the slot it has unbound.
Rest_Same(S) == S

\* The slots a loop has left after its first one.
Rest(S) == S \ {First(S)}

\* Mutant: the test goes through a slot that is about to be retired.
Tested_Stale == First(stale)

\* _clevis_match_slots[0]
Tested == First(match)

\* The test-unlock through the slot that is to replace the stale ones.
TestUnlock ==
    /\ pc = "test"
    /\ slot[Tested] \in Binding /\ Unlocks(slot[Tested])
    /\ proven' = proven \cup {Tested}
    /\ pc' = "retire"
    /\ UNCHANGED <<hostVars, up, ended, want, opt, needs, match, stale, chg,
                   doomed>>

\* clevis luks unbind, slot by slot.
Retire ==
    /\ pc = "retire"
    /\ stale # {}
    /\ Unbind(First(stale))
    /\ stale' = Rest(stale)
    /\ pc' = IF stale' = {} THEN "net" ELSE "retire"
    /\ UNCHANGED <<up, keyfile, bootcopy, etc, initrd, ended, want, opt, needs,
                   match, chg, doomed, proven>>

\* Interface, address and driver of the initrd network: initramfs.conf and
\* modules, or 90-clevis.conf.
DeployNet ==
    /\ pc = "net"
    /\ etc' = [etc EXCEPT !.net = TRUE]
    /\ chg' = ~etc.net
    /\ pc' = "rebuild"
    /\ UNCHANGED <<slot, keyfile, bootcopy, initrd, up, ended, want, opt, needs,
                   match, stale, doomed, proven>>

\* Only after a bind or a change made by this very run.
Rebuild ==
    /\ pc = "rebuild"
    /\ initrd' = IF needs \/ chg THEN Build(etc) ELSE initrd
    /\ pc' = "checknet"
    /\ UNCHANGED <<slot, keyfile, bootcopy, etc, up, ended, want, opt, tangVars>>

\* lsinitrd: a miss is an error.  lsinitramfs: a miss is displayed.
NetPresent == Dracut => initrd.net

CheckNet ==
    /\ pc = "checknet"
    /\ NetPresent
    /\ pc' = "keyfile"
    /\ UNCHANGED <<hostVars, up, ended, want, opt, tangVars>>

-----------------------------------------------------------------------------
(* tang_teardown.yml *)

\* "assert a non-tang keyslot survives the teardown"
Survivor(S) == Cardinality(Used) > Cardinality(S)

WantsTang == opt.wants /\ want.urls # {}

\* Refused while the next run would bind again.  This listing may fail, too;
\* then there is nothing to unbind.
CollectTang ==
    /\ pc = "teardown"
    /\ ~WantsTang
    /\ \E listed \in {Clevis, {}} :
          doomed' = {n \in listed : slot[n].urls # {}}
    /\ Survivor(doomed')
    /\ pc' = "untang"
    /\ UNCHANGED <<hostVars, up, ended, want, opt, needs, match, stale, chg,
                   proven>>

UnbindTang ==
    /\ pc = "untang"
    /\ doomed # {}
    /\ Unbind(First(doomed))
    /\ doomed' = Rest(doomed)
    /\ UNCHANGED <<up, keyfile, bootcopy, etc, initrd, pc, ended, want, opt,
                   needs, match, stale, chg, proven>>

TangStep ==
    \/ ListBindings \/ CheckServers \/ Bind \/ BindHalf \/ Verify
    \/ TestUnlock \/ Retire \/ DeployNet \/ Rebuild \/ CheckNet
    \/ CollectTang \/ UnbindTang
=============================================================================
