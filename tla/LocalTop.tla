------------------------------ MODULE LocalTop ------------------------------
(***************************************************************************)
(* The keyfile loop of initramfs-tools                                     *)
(* (roles/clevis/files/initramfs_local-top_clevis-keyfile and the          *)
(* local-bottom script that ends it).                                      *)
(*                                                                         *)
(* cryptroot unlocks its volumes one after another, a new askpass process  *)
(* for every try.  All of them read the same fifo, so what the loop writes *)
(* reaches the prompt that reads it, which need not be the one the key was *)
(* tested for.  A source is mounted when it is first seen and stays        *)
(* mounted until local-bottom.                                             *)
(***************************************************************************)
EXTENDS AskPassword, Sequences

CONSTANTS
    Enabled,    \* BOOT=1, USB=1 of keyfile.conf
    Media,      \* Media[s]: sequences of the keys that may be found at s
    Absent,
    MaxPlugs    \* bound: how often a medium is plugged in or pulled

Sources == {"boot", "usb"}

ASSUME LoopAssumption ==
    /\ Enabled \subseteq Sources
    /\ \A s \in Sources : Media[s] \subseteq Seq(Keys)
    /\ Absent \notin Seq(Keys)
    /\ MaxPlugs \in Nat

VARIABLES
    media,      \* media[s]: the keys of the medium that is plugged in
    plugs,
    mnt,        \* mnt[s]: the keys under the mount point of s
    dead,       \* mounted sources whose medium was pulled since
    step,
    stage,      \* the source fetch_key is searching
    queue,       \* its files still to be tried
    asking,     \* the prompt this round found, $asking
    served,     \* the last prompt a key was written for, $served
    rejected,   \* $REJECTED: files, by path, refused for this prompt
    key,        \* $KEY: the file that passed the test
    bytes,      \* the content of $KEY as read for the write
    failed,     \* <<prompt, file>> pairs refused so far (history)
    retested,   \* one of them was tested again (history)
    writes      \* writes[a]: keys written on behalf of a (history)

mediaVars == <<media, plugs, dead>>
searchVars == <<stage, queue, rejected>>
loopHistory == <<failed, retested>>
loopVars == <<mnt, step, searchVars, asking, served, key, bytes, loopHistory, writes>>
topVars == <<askVars, mediaVars, loopVars>>

\* FilesAt are told apart by path: the source and the position under it.
FilesAt(s) == {s} \X (1 .. Len(IF mnt[s] = Absent THEN <<>> ELSE mnt[s]))
KeyIn(f) == mnt[f[1]][f[2]]

LoopTypeOK ==
    /\ AskTypeOK
    /\ media \in [Sources -> {Absent} \cup Seq(Keys)]
    /\ mnt \in [Sources -> {Absent} \cup Seq(Keys)]
    /\ plugs \in 0 .. MaxPlugs
    /\ dead \subseteq {s \in Sources : mnt[s] # Absent}
    /\ step \in {"find", "mount", "try", "read", "write", "stopped"}
    /\ stage \in Sources
    /\ \A n \in 1 .. Len(queue) : queue[n] \in FilesAt(stage)
    /\ asking \in Asks \cup {NoAnswer} /\ served \in Asks \cup {NoAnswer}
    /\ step \in {"read", "write"} => key \in FilesAt("boot") \cup FilesAt("usb")
    /\ bytes \in Keys \cup {NoAnswer}
    /\ retested \in BOOLEAN
    /\ writes \in [Asks -> Nat]

LoopInit ==
    /\ AskInit
    /\ \E b \in Media["boot"] \cup {Absent}, u \in Media["usb"] \cup {Absent} :
          media = [s \in Sources |-> IF s = "boot" THEN b ELSE u]
    /\ plugs = 0
    /\ mnt = [s \in Sources |-> Absent]
    /\ dead = {}
    /\ step = "find"
    /\ stage = "boot"
    /\ queue = <<>>
    /\ asking = NoAnswer /\ served = NoAnswer
    /\ rejected = {}
    /\ key = NoAnswer /\ bytes = NoAnswer
    /\ failed = {} /\ retested = FALSE
    /\ writes = [a \in Asks |-> 0]

-----------------------------------------------------------------------------
(* The loop. *)

\* $REJECTED belongs to one prompt.
Rejections(a) == IF a = asking THEN rejected ELSE {}

\* A prompt that a key was written for is left alone.
Served(a) == a = served

\* find_askpass, and the device from the environment of the process it found.
Find(a) ==
    /\ step = "find"
    /\ ask[a] = "open"
    /\ ~Served(a)
    /\ Cryptsetup(a)
    /\ rejected' = Rejections(a)
    /\ asking' = a
    /\ stage' = "boot"
    /\ step' = "mount"
    /\ UNCHANGED <<askVars, mediaVars, mnt, queue, served, key, bytes, loopHistory,
                   writes>>

\* Mutant: the pattern of a glob that matched nothing is taken for a file.
Listing_Unmatched(s, keys) == [n \in 1 .. Len(keys) + 1 |-> <<s, n>>]

\* The files of a source in the order they are tried: for the stick the root
\* file, the file of this host, the others.
Listing(s, keys) == [n \in 1 .. Len(keys) |-> <<s, n>>]

\* The device is there and mount_ro succeeds; a mount point in use is taken as
\* it is, whatever became of the medium that was mounted there.
Mount ==
    /\ step = "mount"
    /\ IF stage \in Enabled /\ media[stage] # Absent
       THEN /\ mnt' = IF mnt[stage] = Absent
                      THEN [mnt EXCEPT ![stage] = media[stage]] ELSE mnt
            /\ queue' = Listing(stage, mnt'[stage])
       ELSE mnt' = mnt /\ queue' = <<>>
    /\ step' = "try"
    /\ UNCHANGED <<askVars, mediaVars, stage, asking, served, rejected, key,
                   bytes, loopHistory, writes>>

\* Mutant: a file that could be read counts as accepted.
Accepted_Readable(f) == f[1] \notin dead

\* cryptsetup open --test-passphrase, against the volume of the prompt that
\* was found.
Accepted(f) == Fits(KeyIn(f), asking)

\* try_key on the next file.  The files of a pulled medium may still come out
\* of the page cache, be gone, or fail to be read by cryptsetup, which the
\* loop cannot tell from a wrong key.
TryKey ==
    /\ step = "try"
    /\ queue # <<>>
    /\ LET f == Head(queue)
           Next_ == queue' = Tail(queue) /\ UNCHANGED <<step, key>>
       IN
       \/ /\ f \in rejected \/ f[1] \in dead
          /\ Next_
          /\ UNCHANGED <<rejected, failed, retested>>
       \/ /\ f \notin rejected
          /\ Accepted(f)
          /\ key' = f
          /\ step' = "read"
          /\ retested' = (retested \/ <<asking, f>> \in failed)
          /\ UNCHANGED <<queue, rejected, failed>>
       \/ /\ f \notin rejected
          /\ ~Accepted(f) \/ f[1] \in dead
          /\ rejected' = rejected \cup {f}
          /\ failed' = failed \cup {<<asking, f>>}
          /\ retested' = (retested \/ <<asking, f>> \in failed)
          /\ Next_
    /\ UNCHANGED <<askVars, mediaVars, mnt, stage, asking, served, bytes, writes>>

\* Mutant: the stick is only searched when /boot offered no file at all.
AfterBoot_Stop == IF mnt["boot"] = Absent THEN "mount" ELSE "find"

\* A source without a good key does not end the search.
AfterBoot == "mount"

\* No file left at this source: on to the stick, or to the next round.
SourceExhausted ==
    /\ step = "try"
    /\ queue = <<>>
    /\ IF stage = "boot" THEN stage' = "usb" /\ step' = AfterBoot
                         ELSE stage' = stage /\ step' = "find"
    /\ UNCHANGED <<askVars, mediaVars, mnt, queue, rejected, asking, served,
                   key, bytes, loopHistory, writes>>

\* The key file is read a second time, now for the write.  Nothing is left to
\* write when its medium was pulled meanwhile; that still counts as served.
ReadKey ==
    /\ step = "read"
    /\ \/ bytes' = KeyIn(key) /\ step' = "write" /\ UNCHANGED served
       \/ /\ key[1] \in dead
          /\ served' = asking /\ step' = "find" /\ UNCHANGED bytes
    /\ queue' = <<>>
    /\ UNCHANGED <<askVars, mediaVars, mnt, stage, rejected, asking, key,
                   loopHistory, writes>>

\* The write blocks until some askpass holds the other end of the fifo.
WriteFifo(a) ==
    /\ step = "write"
    /\ ask[a] = "open"
    /\ Deliver(a, bytes)
    /\ writes' = [writes EXCEPT ![asking] = @ + 1]
    /\ served' = asking
    /\ step' = "find"
    /\ bytes' = NoAnswer /\ key' = NoAnswer
    /\ UNCHANGED <<ask, expired, vol, mediaVars, mnt, searchVars, asking,
                   loopHistory>>

\* [ -p "$fifo" ] fails: askpass has gone and taken the fifo with it.
FifoGone ==
    /\ step = "read"
    /\ Waiting = {}
    /\ step' = "find"
    /\ queue' = <<>>
    /\ UNCHANGED <<askVars, mediaVars, mnt, stage, rejected, asking, served,
                   key, bytes, loopHistory, writes>>

\* local-bottom runs once cryptroot is through with its volumes.
Stop ==
    /\ step # "stopped"
    /\ \A d \in Devs : vol[d] # "locked"
    /\ step' = "stopped"
    /\ mnt' = [s \in Sources |-> Absent]
    /\ dead' = {}
    /\ queue' = <<>>
    /\ UNCHANGED <<askVars, media, plugs, stage, rejected, asking, served,
                   key, bytes, loopHistory, writes>>

LoopStep ==
    \/ \E a \in Asks : Find(a) \/ WriteFifo(a)
    \/ Mount \/ TryKey \/ SourceExhausted \/ ReadKey \/ FifoGone

-----------------------------------------------------------------------------
(* The surroundings. *)

\* cryptroot shows one prompt at a time.
CryptrootNext ==
    /\ \E a \in Asks :
          \/ Waiting = {} /\ PromptOpen(a)
          \/ PromptTake(a)
          \/ \E k \in Keys : OtherAnswer(a, k)
    /\ UNCHANGED <<mediaVars, loopVars>>

Plug(s) ==
    /\ media[s] = Absent
    /\ plugs < MaxPlugs
    /\ \E m \in Media[s] : media' = [media EXCEPT ![s] = m]
    /\ plugs' = plugs + 1
    /\ UNCHANGED <<askVars, dead, loopVars>>

\* Only the stick can be pulled.
Pull(s) ==
    /\ s = "usb"
    /\ media[s] # Absent
    /\ plugs < MaxPlugs
    /\ media' = [media EXCEPT ![s] = Absent]
    /\ plugs' = plugs + 1
    /\ dead' = IF mnt[s] = Absent THEN dead ELSE dead \cup {s}
    /\ UNCHANGED <<askVars, loopVars>>

LoopNext ==
    \/ LoopStep
    \/ Stop
    \/ CryptrootNext
    \/ \E s \in Sources : Plug(s) \/ Pull(s)

LoopSpec == LoopInit /\ [][LoopNext]_topVars

\* The loop runs on and cryptroot serves its own prompts.
LoopFairness ==
    /\ WF_topVars(LoopStep)
    /\ \A a \in Asks :
          /\ WF_topVars(Waiting = {} /\ PromptOpen(a) /\ UNCHANGED <<mediaVars, loopVars>>)
          /\ WF_topVars(PromptTake(a) /\ UNCHANGED <<mediaVars, loopVars>>)

LoopFairSpec == LoopSpec /\ LoopFairness

-----------------------------------------------------------------------------
(* Properties. *)

\* A file that was refused for a prompt is not tested for it again, over all
\* rounds of that prompt (REJECTED).
RejectedFileTestedOnce == ~retested

\* At most one key is written on behalf of a prompt (served).
WrittenOnce == \A a \in Asks : writes[a] <= 1

\* The loop costs nobody a try: it hands a prompt no key that does not open its
\* volume, tests a refused file once for it and writes once for it.
PromptsSpared == NoTryBurned /\ RejectedFileTestedOnce /\ WrittenOnce

\* A key for volume d lies on a medium that is in for good and was in before
\* anything else was mounted in its place ...
GoodMedium(d) ==
    \E s \in Enabled \ dead :
        /\ media[s] # Absent
        /\ mnt[s] \in {Absent, media[s]}
        /\ \E n \in 1 .. Len(media[s]) : <<media[s][n], d>> \in Unlocks

\* ... nobody else answered a prompt of d, and none was given up as served
\* although the stick was pulled before anything could be written.
Undisturbed(d) ==
    /\ \A a \in Asks : AskDev[a] = d =>
           (box[a] # NoAnswer => box[a].by = "agent")
    /\ served # NoAnswer => writes[served] > 0

\* Such a key opens the volume, also when the stick is plugged in while the
\* prompt is shown and whatever the sources before it hold.
GoodMediumUnlocks ==
    \A d \in Devs : (<>[]GoodMedium(d)) => <>(vol[d] = "open" \/ ~Undisturbed(d))
=============================================================================
