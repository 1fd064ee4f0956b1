------------------------------- MODULE MCBoot -------------------------------
(* Instances for TLC of the loop that hands keys to askpass and of the      *)
(* in-place encryption.  They share no state: a behaviour is one of either. *)
EXTENDS LocalTop, MCLuksEncrypt

CONSTANTS d1, a1, a2, k1, k2

\* One volume with two tries.
OneAskDev == (a1 :> d1) @@ (a2 :> d1)
OneUnlocks == {<<k1, d1>>}
OneMedia == [boot |-> {<<k2>>, <<k1>>}, usb |-> {<<k2>>, <<k2, k1>>}]

VARIABLE program

bootAll == <<program, topVars, vars>>

BootInit ==
    /\ program \in {"loop", "encrypt"} /\ LoopInit /\ Init
    /\ program = "encrypt" => \A s \in Sources : media[s] = Absent

RunLoop(A) == program = "loop" /\ A /\ UNCHANGED <<program, vars>>

BootNext ==
    \/ RunLoop(LoopNext)
    \/ program = "encrypt" /\ Next /\ UNCHANGED <<program, topVars>>

\* LoopFairness, when the loop runs.
BootFairness ==
    /\ WF_topVars(program = "loop" /\ LoopStep)
    /\ \A p \in Asks :
          /\ WF_topVars(/\ program = "loop" /\ Waiting = {}
                       /\ PromptOpen(p) /\ UNCHANGED <<mediaVars, loopVars>>)
          /\ WF_topVars(program = "loop" /\ PromptTake(p) /\ UNCHANGED <<mediaVars, loopVars>>)

BootSpec == BootInit /\ [][BootNext]_bootAll /\ BootFairness

\* GoodMediumUnlocks of the behaviours of the loop.
LoopUnlocks == program = "loop" => GoodMediumUnlocks

\* The loop, its prompts and media, and the migration keep their types.
BootTypeOK == LoopTypeOK /\ TypeOK
=============================================================================
