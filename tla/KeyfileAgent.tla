---------------------------- MODULE KeyfileAgent ----------------------------
(***************************************************************************)
(* The dracut password agent of the LUKS keyfile fallback                  *)
(* (roles/clevis/files/dracut/90clevis-keyfile/clevis-keyfile-agent.sh).   *)
(*                                                                         *)
(* The agent works in rounds: it scans the ask files, copies the candidate *)
(* keys from the /boot partition and the USB stick, and tries the copies   *)
(* against every prompt it finds.  Between any two of its steps prompts    *)
(* appear, expire or are answered by somebody else, and sticks come and go.*)
(* The state "scan" also stands for the sleep between two rounds, longer   *)
(* after a stale or unreadable source (BACKOFF_NEEDED): time is not        *)
(* modelled, so how long it lasts makes no difference here.                *)
(***************************************************************************)
EXTENDS AskPassword, Sequences

CONSTANTS
    Enabled,    \* the sources switched on in keyfile.conf (BOOT=1, USB=1)
    Media,      \* Media[s]: what may be found at source s: Absent, or the
                \* sequence of its readable keys in the order they are tried
    Absent,
    IdleRounds, \* CLEVIS_KEYFILE_IDLE_ROUNDS, 0 = never exit when idle
    TimeLimited,\* CLEVIS_KEYFILE_MAX_SECONDS > 0
    MaxSwaps    \* bound: how often the environment changes a medium

Sources == {"boot", "usb"}

ASSUME AgentAssumption ==
    /\ Enabled \subseteq Sources
    /\ \A s \in Sources : \A m \in Media[s] : m # Absent => m \in Seq(Keys)
    /\ Absent \notin Seq(Keys)
    /\ IdleRounds \in Nat
    /\ TimeLimited \in BOOLEAN
    /\ MaxSwaps \in Nat

VARIABLES
    media,      \* media[s]: what is plugged in now
    swaps,
    usable,     \* volumes cryptsetup can test a key against already
    late,       \* CLEVIS_KEYFILE_MAX_SECONDS have passed
    pc,         \* where the agent is in its round
    cands,      \* $WORK/cand: copies of the keys, boot before usb
    left,       \* ask files of this round's glob still to be handled
    cur, i,     \* the prompt being handled and the next candidate's index
    done,       \* $STATE/done.<ask>
    tried,      \* $STATE/tried.<ask>: keys rejected for it, by content
    seen, seenEver, idle,
    wasted,     \* wasted[a][k]: failed tests of k for a (history)
    atStart,    \* prompts shown when the round began (history)
    quiet       \* rounds in a row that no prompt outlasted (history)

mediaVars == <<media, swaps, usable, late>>
roundVars == <<cands, left, cur, i>>
stateVars == <<done, tried>>
idleVars == <<seenEver, idle>>
history == <<wasted, atStart, quiet>>
agentVars == <<pc, roundVars, stateVars, seen, idleVars, history>>
vars == <<askVars, mediaVars, agentVars>>

CryptPrompts == {a \in Waiting : Cryptsetup(a)}
KeysAt(s) == IF media[s] = Absent THEN <<>> ELSE media[s]

TypeOK ==
    /\ AskTypeOK
    /\ media \in [Sources -> {Absent} \cup Seq(Keys)]
    /\ swaps \in 0 .. MaxSwaps
    /\ usable \subseteq Devs
    /\ late \in BOOLEAN
    /\ pc \in {"scan", "boot", "usb", "next", "key", "reply", "exit",
             "killed"}
    /\ cands \in Seq(Keys)
    /\ left \subseteq Asks
    /\ cur \in Asks \cup {NoAnswer}
    /\ i \in Nat \ {0}
    /\ done \subseteq Asks
    /\ tried \in [Asks -> SUBSET Keys]
    /\ seen \in BOOLEAN
    /\ seenEver \in BOOLEAN
    /\ idle \in 0 .. IdleRounds
    /\ wasted \in [Asks -> [Keys -> Nat]]
    /\ atStart \subseteq Asks
    /\ quiet \in 0 .. IdleRounds

Init ==
    /\ AskInit
    /\ \E b \in Media["boot"], u \in Media["usb"] :
          media = [s \in Sources |-> IF s = "boot" THEN b ELSE u]
    /\ swaps = 0
    /\ usable \in SUBSET Devs
    /\ late = FALSE
    /\ pc = "scan"
    /\ cands = <<>>
    /\ left = {}
    /\ cur = NoAnswer
    /\ i = 1
    /\ done = {}
    /\ tried = [a \in Asks |-> {}]
    /\ seen = FALSE
    /\ seenEver = FALSE
    /\ idle = 0
    /\ wasted = [a \in Asks |-> [k \in Keys |-> 0]]
    /\ atStart = {}
    /\ quiet = 0

-----------------------------------------------------------------------------
(* The agent. *)

\* The top of the loop: reset the flags, look for any ask file at all.
Scan ==
    /\ pc = "scan"
    /\ seen' = FALSE
    /\ left' = {}
    /\ pc' = IF Waiting # {} THEN "boot" ELSE "next"
    /\ cands' = <<>>
    /\ atStart' = CryptPrompts
    /\ UNCHANGED <<askVars, mediaVars, cur, i, stateVars, idleVars,
                   wasted, quiet>>

\* Mutant: the first source that yields anything ends the search.
Fetch_FirstOnly(s) ==
    cands' = IF s \in Enabled /\ cands = <<>> THEN cands \o KeysAt(s) ELSE cands

\* fetch_from: copy the keys of one source; one that is off, absent or
\* without a readable key adds nothing.
Fetch(s) == cands' = IF s \in Enabled THEN cands \o KeysAt(s) ELSE cands

GatherBoot ==
    /\ pc = "boot"
    /\ Fetch("boot")
    /\ pc' = "usb"
    /\ UNCHANGED <<askVars, mediaVars, left, cur, i, stateVars, seen,
                   idleVars, history>>

\* The last source, then the glob over the ask files.
GatherUsb ==
    /\ pc = "usb"
    /\ Fetch("usb")
    /\ left' = Waiting
    /\ pc' = "next"
    /\ UNCHANGED <<askVars, mediaVars, cur, i, stateVars, seen, idleVars,
                   history>>

\* Mutant: a prompt answered before is handled like a new one.
Skip_ExpiredOnly(a) == a \in expired

\* A prompt answered before, or one past its NotAfter.
Skip(a) == a \in done \/ a \in expired

\* Mutant: the index runs ahead of the first key.
FirstKey_Early == 0

\* The key loop starts at the first candidate.
FirstKey == 1

\* handle_ask up to the key loop.  A file that vanished since the glob, a
\* prompt of another service, one answered before and an expired one are
\* passed over; all but the first two still count as seen.
HandleAsk(a) ==
    /\ pc = "next"
    /\ a \in left
    /\ left' = left \ {a}
    /\ IF a \in CryptPrompts
       THEN /\ seen' = TRUE
            /\ IF ~Skip(a)
               THEN pc' = "key" /\ cur' = a /\ i' = FirstKey
               ELSE UNCHANGED <<pc, cur, i>>
       ELSE UNCHANGED <<seen, pc, cur, i>>
    /\ UNCHANGED <<askVars, mediaVars, cands, stateVars, idleVars,
                   history>>

\* Mutant: every exit status but "wrong passphrase" counts as accepted.
Accepted_UnlessWrong(k, a) == AskDev[a] \in usable => Fits(k, a)

\* cryptsetup --test-passphrase exits 0.
Accepted(k, a) == AskDev[a] \in usable /\ Fits(k, a)

\* One turn of the key loop: skip a key this prompt rejected before, else
\* run cryptsetup --test-passphrase on the copy.
TestKey ==
    /\ pc = "key"
    /\ i <= Len(cands)
    /\ LET k == cands[i] IN
       \/ /\ k \in tried[cur]
          /\ i' = i + 1
          /\ UNCHANGED <<pc, tried, wasted>>
       \/ /\ k \notin tried[cur]
          /\ Accepted(k, cur)
          /\ pc' = "reply"
          /\ UNCHANGED <<i, tried, wasted>>
       \/ /\ k \notin tried[cur]
          /\ AskDev[cur] \in usable /\ ~Fits(k, cur)
          /\ tried' = [tried EXCEPT ![cur] = @ \cup {k}]
          /\ wasted' = [wasted EXCEPT ![cur][k] = @ + 1]
          /\ i' = i + 1
          /\ UNCHANGED pc
       \/ /\ k \notin tried[cur]
          /\ AskDev[cur] \notin usable
          /\ i' = i + 1
          /\ UNCHANGED <<pc, tried, wasted>>
    /\ UNCHANGED <<askVars, mediaVars, cands, left, cur, done, seen,
                   idleVars, atStart, quiet>>

KeysExhausted ==
    /\ pc = "key"
    /\ i > Len(cands)
    /\ pc' = "next"
    /\ cur' = NoAnswer /\ i' = 1
    /\ UNCHANGED <<askVars, mediaVars, cands, left, stateVars, seen,
                   idleVars, history>>

\* systemd-reply-password: it fails when the prompt, and its socket with
\* it, has gone since the ask file was read; the loop then carries on.
Reply ==
    /\ pc = "reply"
    /\ IF ask[cur] = "open"
       THEN /\ Deliver(cur, cands[i])
            /\ done' = done \cup {cur}
            /\ pc' = "next"
            /\ cur' = NoAnswer /\ i' = 1
       ELSE /\ i' = i + 1
            /\ pc' = "key"
            /\ UNCHANGED <<box, sent, done, cur>>
    /\ UNCHANGED <<ask, expired, vol, mediaVars, cands, left, tried, seen,
                   idleVars, history>>

\* Mutant: a prompt that was seen does not restart the count.
CountIdle_NoReset ==
    IF seen THEN seenEver' = TRUE /\ UNCHANGED idle
    ELSE /\ UNCHANGED seenEver
         /\ idle' = IF seenEver /\ idle < IdleRounds THEN idle + 1 ELSE idle

\* Rounds without a LUKS prompt, counted from the first one that had one.
CountIdle ==
    IF seen THEN seenEver' = TRUE /\ idle' = 0
    ELSE /\ UNCHANGED seenEver
         /\ idle' = IF seenEver /\ idle < IdleRounds THEN idle + 1 ELSE idle

\* Mutant: the state files are wiped after every round.
Remembered_Nothing == {}

\* The prompts whose done and tried files are kept.
Remembered == Waiting

\* The bottom of the loop: forget the prompts that have vanished, count idle
\* rounds, then sleep or leave.
EndRound ==
    /\ pc = "next"
    /\ left = {}
    /\ done' = done \cap Remembered
    /\ tried' = [a \in Asks |-> IF a \in Remembered THEN tried[a] ELSE {}]
    /\ CountIdle
    /\ pc' = IF late \/ (~seen /\ seenEver /\ IdleRounds > 0 /\ idle' >= IdleRounds)
             THEN "exit" ELSE "scan"
    /\ quiet' = IF atStart \cap CryptPrompts # {} THEN 0
                ELSE IF quiet < IdleRounds THEN quiet + 1 ELSE quiet
    /\ cands' = <<>>
    /\ UNCHANGED <<askVars, mediaVars, left, cur, i, seen, wasted, atStart>>

\* The unit conflicts with initrd-switch-root.target, which is reached when
\* no volume is locked any more.
Killed ==
    /\ pc \notin {"exit", "killed"}
    /\ \A d \in Devs : vol[d] # "locked"
    /\ pc' = "killed"
    /\ UNCHANGED <<askVars, mediaVars, roundVars, stateVars, seen,
                   idleVars, history>>

AgentStep ==
    \/ Scan \/ GatherBoot \/ GatherUsb \/ TestKey \/ KeysExhausted
    \/ Reply \/ EndRound
    \/ \E a \in Asks : HandleAsk(a)

-----------------------------------------------------------------------------
(* The surroundings. *)

\* A stick is plugged in, pulled or swapped; /boot's disk turns up.
Swap(s) ==
    /\ swaps < MaxSwaps
    /\ \E m \in Media[s] \ {media[s]} : media' = [media EXCEPT ![s] = m]
    /\ swaps' = swaps + 1
    /\ UNCHANGED <<askVars, usable, late, agentVars>>

BecomeUsable(d) ==
    /\ d \notin usable
    /\ usable' = usable \cup {d}
    /\ UNCHANGED <<askVars, media, swaps, late, agentVars>>

TimeUp ==
    /\ TimeLimited /\ ~late
    /\ late' = TRUE
    /\ UNCHANGED <<askVars, media, swaps, usable, agentVars>>

Prompts == PromptNext /\ UNCHANGED <<mediaVars, agentVars>>

Next ==
    \/ AgentStep
    \/ Killed
    \/ Prompts
    \/ \E s \in Sources : Swap(s)
    \/ \E d \in Devs : BecomeUsable(d)
    \/ TimeUp

Spec == Init /\ [][Next]_vars

\* systemd keeps the agent running and serves its own prompts; nobody else
\* has to answer, plug in a stick or wait for ever.
Fairness ==
    /\ WF_vars(AgentStep)
    /\ \A a \in Asks : WF_vars(PromptOpen(a) /\ UNCHANGED <<mediaVars, agentVars>>)
    /\ \A a \in Asks : WF_vars(PromptTake(a) /\ UNCHANGED <<mediaVars, agentVars>>)

FairSpec == Spec /\ Fairness

-----------------------------------------------------------------------------
(* Properties. *)

\* A wrong key costs one memory-hard test per prompt however often the loop
\* meets it, under whatever name and on whatever stick (tried.<ask>).
RejectedKeyTestedOnce ==
    \A a \in Asks, k \in Keys : wasted[a][k] <= 1

\* The agent only leaves as idle after IdleRounds rounds in a row that no
\* LUKS prompt lived through from beginning to end, unless its time is up.
NoEarlyIdleExit ==
    [][pc # "exit" /\ pc' = "exit" /\ ~late
          => IdleRounds > 0 /\ quiet' >= IdleRounds]_vars

\* A key that opens volume d is at hand for good ...
GoodKey(d) ==
    /\ d \in usable
    /\ \E s \in Enabled : \E n \in 1 .. Len(KeysAt(s)) :
          <<KeysAt(s)[n], d>> \in Unlocks

\* ... and nobody but the agent ended one of d's prompts.
Undisturbed(d) ==
    \A a \in Asks : AskDev[a] = d =>
        a \notin expired /\ (box[a] # NoAnswer => box[a].by = "agent")

\* Whatever stale, unreadable or missing source comes before it, a good key
\* that stays at hand opens the volume: no source blocks the next one.
GoodKeyUnlocks ==
    \A d \in Devs :
        (<>[]GoodKey(d)) => <>(vol[d] = "open" \/ late \/ ~Undisturbed(d))
=============================================================================
