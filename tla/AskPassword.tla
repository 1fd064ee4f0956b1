----------------------------- MODULE AskPassword -----------------------------
(***************************************************************************)
(* The unlock prompts of an initrd and what a password agent promises them.*)
(*                                                                         *)
(* A prompt is one ask-password request of systemd-cryptsetup for a LUKS   *)
(* volume (dracut) or one askpass process of cryptroot (initramfs-tools).  *)
(* It takes the first answer it is given, whoever gave it: an agent, the   *)
(* console, clevis/tang.  A wrong answer costs one of the volume's tries   *)
(* and the volume asks again; with no try left the volume has failed.      *)
(* systemd and cryptroot are not part of the repository: the prompt side   *)
(* is modelled from how the agents of roles/clevis use it.                 *)
(*                                                                         *)
(* AgentAnswer is the promise: an agent answers a prompt at most once and  *)
(* only with a key that opens the volume the prompt is for.  KeyfileAgent  *)
(* (dracut) is shown to implement it; LocalTop (initramfs-tools) is not.   *)
(***************************************************************************)
EXTENDS Naturals

CONSTANTS
    Devs,       \* LUKS volumes
    Asks,       \* prompts; a volume has as many as it has tries
    Keys,       \* keys and passphrases, told apart by content
    AskDev,     \* AskDev[a]: the volume a asks for, NoDev for a prompt of
                \* another service
    NoDev,
    Unlocks,    \* the <<key, volume>> pairs that fit a keyslot
    NoAnswer

ASSUME PromptAssumption ==
    /\ NoDev \notin Devs
    /\ AskDev \in [Asks -> Devs \cup {NoDev}]
    /\ Unlocks \subseteq Keys \X Devs
    /\ NoAnswer \notin [by : {"agent", "other"}, key : Keys]

VARIABLES
    ask,        \* ask[a]: not yet raised, waiting for an answer, gone
    expired,    \* waiting prompts whose NotAfter has passed
    box,        \* box[a]: the answer the prompt will read
    vol,        \* vol[d]: state of the volume
    sent        \* sent[a]: answers the agent delivered to a (history)

askVars == <<ask, expired, box, vol, sent>>

Answer == [by : {"agent", "other"}, key : Keys]

Cryptsetup(a) == AskDev[a] \in Devs
Fits(k, a) == <<k, AskDev[a]>> \in Unlocks

\* Prompts that are being shown: the ask.* files, the live askpass.
Waiting == {a \in Asks : ask[a] = "open"}
TriesLeft(d) == {a \in Asks : AskDev[a] = d /\ ask[a] = "new"}

AskTypeOK ==
    /\ ask \in [Asks -> {"new", "open", "closed"}]
    /\ expired \subseteq Asks
    /\ box \in [Asks -> Answer \cup {NoAnswer}]
    /\ vol \in [Devs -> {"locked", "open", "failed"}]
    /\ sent \in [Asks -> Nat]

AskInit ==
    /\ ask = [a \in Asks |-> "new"]
    /\ expired = {}
    /\ box = [a \in Asks |-> NoAnswer]
    /\ vol = [d \in Devs |-> "locked"]
    /\ sent = [a \in Asks |-> 0]

-----------------------------------------------------------------------------
(* The prompts. *)

\* A locked volume shows its next prompt, one at a time; another service
\* asks whenever it likes.
PromptOpen(a) ==
    /\ ask[a] = "new"
    /\ Cryptsetup(a) => /\ vol[AskDev[a]] = "locked"
                        /\ \A b \in Waiting : AskDev[b] # AskDev[a]
    /\ ask' = [ask EXCEPT ![a] = "open"]
    /\ UNCHANGED <<expired, box, vol, sent>>

\* The prompt reads the answer: the right one opens the volume, a wrong one
\* has burnt a try.
PromptTake(a) ==
    /\ ask[a] = "open"
    /\ box[a] # NoAnswer
    /\ ask' = [ask EXCEPT ![a] = "closed"]
    /\ IF ~Cryptsetup(a)
       THEN vol' = vol
       ELSE vol' = [vol EXCEPT ![AskDev[a]] =
                      IF Fits(box[a].key, a) THEN "open"
                      ELSE IF TriesLeft(AskDev[a]) = {} THEN "failed"
                      ELSE "locked"]
    /\ UNCHANGED <<expired, box, sent>>

\* NotAfter passes while the prompt still waits.
PromptExpire(a) ==
    /\ ask[a] = "open"
    /\ a \notin expired
    /\ expired' = expired \cup {a}
    /\ UNCHANGED <<ask, box, vol, sent>>

\* The expired prompt gives up; systemd-cryptsetup does not ask again.
PromptTimeout(a) ==
    /\ ask[a] = "open"
    /\ a \in expired
    /\ box[a] = NoAnswer
    /\ ask' = [ask EXCEPT ![a] = "closed"]
    /\ vol' = IF Cryptsetup(a) THEN [vol EXCEPT ![AskDev[a]] = "failed"]
                               ELSE vol
    /\ UNCHANGED <<expired, box, sent>>

\* The console, tang or another agent answers, rightly or wrongly.
OtherAnswer(a, k) ==
    /\ ask[a] = "open"
    /\ box[a] = NoAnswer
    /\ box' = [box EXCEPT ![a] = [by |-> "other", key |-> k]]
    /\ UNCHANGED <<ask, expired, vol, sent>>

\* Only the first answer in the socket is read; a later one is delivered,
\* and dropped with the socket.
Deliver(a, k) ==
    /\ box' = [box EXCEPT ![a] = IF @ = NoAnswer
                                 THEN [by |-> "agent", key |-> k] ELSE @]
    /\ sent' = [sent EXCEPT ![a] = @ + 1]

PromptNext ==
    \E a \in Asks :
        \/ PromptOpen(a)
        \/ PromptTake(a)
        \/ PromptExpire(a)
        \/ PromptTimeout(a)
        \/ \E k \in Keys : OtherAnswer(a, k)

-----------------------------------------------------------------------------
(* The promise. *)

AgentAnswer(a, k) ==
    /\ ask[a] = "open"
    /\ sent[a] = 0
    /\ Cryptsetup(a) /\ Fits(k, a)
    /\ Deliver(a, k)
    /\ UNCHANGED <<ask, expired, vol>>

AskNext == PromptNext \/ \E a \in Asks, k \in Keys : AgentAnswer(a, k)

\* The contract of a password agent (roles/clevis/README.md, race model).
Contract == AskInit /\ [][AskNext]_askVars

\* No try is burnt by the agent: whatever it put in front of a prompt opens
\* the volume of that prompt.
NoTryBurned ==
    \A a \in Asks :
        (box[a] # NoAnswer /\ box[a].by = "agent")
            => Cryptsetup(a) /\ Fits(box[a].key, a)
=============================================================================
