# Verification of dgxarley

TLA+ models of the parts of dgxarley whose correctness depends on the order in
which things happen, with the TLC runs that check them and the TLAPS proofs of
what holds for every size.  dgxarley is infrastructure code: Ansible roles, the
shell and Python programs they deploy, and a Python package of operator tools.
There is no single state machine; the modules cover the programs one by one,
those that can lose data, lock a machine or deliver something twice first.

## 1. Inventory

Every component of `PROJECT.json`, with the state it keeps, its operations, whom
it interacts with, and what makes it correct.

### Disk unlocking (`roles/clevis`, `roles/tang`)

* **dracut keyfile agent** (`roles/clevis/files/dracut/90clevis-keyfile/`).
  State: candidate copies of keys, `done.<ask>` and `tried.<ask>` files, idle
  counter.  Runs in rounds beside the console prompt, plymouth and clevis-dracut;
  shares the ask files of `/run/systemd/ask-password` with them.  Hard: prompts
  vanish and reappear between any two steps, sticks are plugged, pulled and
  swapped, several volumes with different keys.  Correct when it never burns a
  try, answers a prompt once, tests a rejected key once per prompt, and does
  answer as soon as a good key is there.
* **initramfs-tools keyfile loop** (`initramfs_local-top_clevis-keyfile`,
  `initramfs_local-bottom_clevis-keyfile`).  The same promise through cryptroot's
  `passfifo`: one fifo for all prompts, so a write reaches whichever prompt reads
  it.  State: `served`, `asking`, `REJECTED`, mounts that stay for the whole boot.
* **clevis/tang binding** (`tasks/config_clevis.yml`, `parse_bindings.yml`,
  `templates/setup_clevis_tang.sh.j2`) and **keyfile fallback**
  (`keyfile_fallback.yml`, `remove_boot_keyfile.yml`), **tang teardown**
  (`tang_teardown.yml`).  State: the keyslots of the LUKS header, the clevis
  tokens, the key file, the initramfs.  Operations: bind, unbind, re-bind on
  drift, enrol and retire the keyfile slot; each a list of Ansible tasks that may
  fail or be interrupted after any of them and be run again.  Correct when no
  sequence of them removes the last way to open the volume.
* **tang server** (`roles/tang`): podman quadlet and backup timer.  No protocol
  of its own; its reachability is an input of the binding tasks.

### In-place encryption (`scripts/luks_encrypt_spark.sh`)

State: what the root partition holds (plain filesystem, LUKS, restored LUKS), the
RAM copy, the files of the deployed initramfs hook, the initramfs itself.  Phase A
(prepare) and `--abort` run in the booted system, Phase B once in the initramfs.
Hard: every command may fail, the handler at EXIT decides between continuing the
old boot and an emergency shell, and a power cut may come at any step.  Correct
when before the point of no return the machine always boots its old system, when
after it the data is in RAM or on the encrypted disk, and when the migration runs
at most once.

### LLM platform helpers (`roles/k8s_infra`)

* **crawl4ai user map** (`files/crawl4ai/crawl4ai_usermap.py`): request threads
  share a registry reloaded from files that change underneath.  Correct when a
  removed user or model is refused once the interval has passed and an unreadable
  map keeps the last good one.  `crawl4ai_launch.sh` patches the vendor file.
* **Hermes email gateway** (`files/hermes_email_gateway_patched.py`): IMAP folders
  INBOX, Working, Done; seen-UID set and its snapshot across reconnects; the verdict
  on a sender; records of originals and claims on quotes.  Hard: crash between fetch
  and finalise, a worker thread that outlives its adapter, non-atomic MOVE, a
  pairing withdrawn between the two checks of a mail, replies of one sender that
  overtake each other.  Correct when no mail is given to the agent twice, each is
  accounted for, what the agent gets was vouched for, and the quote of the original is
  sent once.
* **gateway state refresher** (`files/hermes_gateway_state_refresher.py`):
  read-modify-write of a state file another process also writes, lock probe.
  Correct when the WebUI shows a gateway as running exactly while it is.
* **Gotify bridges** (`alertmgr_gotify_bridge.py`, `keel_gotify_bridge.py`):
  one thread each, between a sender that repeats and a receiver that may fail or not
  answer.  Correct when what the sender takes for delivered is what Gotify shows.
* `hermes_merge_config.py`, `hindsight_tenant_keymap.py`, image-gen plugin,
  self-reflection filter, dashboards downloader: sequential transformations.

### Model serving (`roles/k8s_dgx`)

* **model preload** (`hf_preload_download.py`, `hf_preload_run.sh`,
  `sglang_preload.sh`, `sglang_jfs_warmup.sh`): one head downloads and copies, workers
  wait for marker files with a timeout; incomplete downloads are pruned under a lock.
* **CPU sharding** (`sglang_cpu_shard.py`): one process per rank cuts a checkpoint
  layer by layer; an index file marks the directory as complete.
* **sharding jobs** (`sglang_shard_launch.sh`, `sglang_save_sharded.py`,
  `vllm_shard_launch.sh`, `vllm_save_sharded.py`) and the launchers that trust their
  directories: two nodes, one directory each, one index for both.
* **patches of inference engines** (`sglang_patches/`): a runner, `_patchlib.py`, and
  46 scripts that edit the installed engine by text anchors before each start; edits
  of one script are anchors, gates and imports of others.  Correct when an edit is
  made wholly or not at all, once, and a drifted engine is said to be drifted.
* `sglang_wait_for_worker.sh`, `sglang_tune_moe.sh`, NCCL tests, memory probe:
  polling and measuring.

### Operator tools (`dgxarley/`, `scripts/`)

* **streaming repetition guard** (`integration/streaming_repetition_guard.py`) and
  **thinking parser** (`integration/thinking_parser.py`): stateful readers of a stream
  whose chunks end anywhere.  Correct when the cuts do not matter.
* **KVM switch web servers** (`tools/kceve_kvm_web.py`, `kceve_kvm_web_plain.py` over
  `kceve_kvm.py`): a monitor thread and request handlers share a serial line.  Correct
  when the port that is shown becomes the real one and every request is answered.
* **keel-drift** (`k3shelperstuff/keel_drift.py`): compares running images with a tag
  that may move meanwhile, over two caches.  Correct when a verdict does not depend on
  the order of the look-ups.
* integration tests, benches, stream viewer: clients.  `pin_drift.py`, kubeconfig
  update, image build and distribution scripts: one-shot command-line programs.

### Not state machines

Ansible roles that only template files and call modules (`common`, `dgx_prepare`,
`iot_ap`, `juicefs_storage`, `k3sserver`, `k8s_custom_app`, `mikrotik`, `nut`,
`ops_wireguard`, `rustfs_server`), inventories and group variables, benchmark
reports and documentation.

## 2. Plan

Modules, in the order of what goes wrong at worst: a machine that does not boot or
loses its data, a machine that cannot be unlocked, a volume whose tries are burnt,
a secret or a mail in the wrong hands.

| Step | Modules | State |
|------|---------|-------|
| 1 | `AskPassword`, `KeyfileAgent` (+ `_proofs`), `LocalTop` (in `MCBoot_proofs`) | checked and proved |
| 2 | `LuksHeader`, `TangBinding`, `KeyfileSlot`, `ClevisRole` (+ `_proofs`) | checked and proved |
| 3 | `LuksEncrypt` (in `MCBoot_proofs`) | checked and proved |
| 4 | `UserMap` (in `Services_proofs`) | checked and proved |
| 5 | `MailGateway`, `MailAuth`, `MailReply` (in `Mail_proofs`) | checked and proved |
| 6 | `StateRefresher`, `GotifyBridge`, `KvmWeb` (in `Services_proofs`) | checked; proved but for liveness |
| 7 | `Preload`, `CpuShard`, `ShardJob` (in `Tools_proofs`) | checked and proved |
| 8 | `WholePatches`, `PatchLib` (in `MCTools_proofs`), `PatchSet`, `EngineImages` | checked; the runner and the second run proved |
| 9 | `RepetitionGuard`, `ThinkingParser` (in `Stream_proofs`), `KeelDrift` (in `Tools_proofs`) | checked; proved but for the thresholds of the guard |
| 10 | `process_existing: false` of the mail gateway, the shell template of the clevis set-up, the registry half of `pin_drift.py` | to do |

Abstract specifications: `Contract` in `AskPassword` (what any password agent may
do to the prompts) is implemented by `KeyfileAgent`; `WholePatches` (edits of one patch
enter a file together and stay) by `PatchLib`.

Composition: `KeyfileAgent` and `LocalTop` extend `AskPassword`, the prompts they
share with the console and clevis.  `ClevisRole` composes `TangBinding` and
`KeyfileSlot` over the host state of `LuksHeader`.  `PatchLib` runs the scripts of
`PatchSet` on the engines of `EngineImages`.  Programs that share no state are checked
side by side: `MCBoot`, `MCMail`, `MCServices` and `MCTools` have a variable (`program`,
`service`) that says which of them a behaviour is of; the others keep their initial state,
so the states are a sum and not a product.  `MCPrograms` puts `MCBoot` and `MCServices`
into one run in the same way (`group`).  What is proved of a program alone is proved of
these common runs too: every step of theirs is a step of each program's specification
or leaves it alone (`BootRunsEach`, `MailRunsEach`, `ServicesRunEach`, `ToolsRunEach`), and
the type invariants follow (`BootKeepsTypes`, `MailKeepsTypes`, `ServicesKeepTypes`,
`ToolsKeepTypes`).  A module with the suffix `_proofs` extends the
module it proves about; `MC...` modules give the constants of the runs.

## 3. Disk unlocking

### AskPassword, KeyfileAgent

`AskPassword` is the side of systemd and cryptroot: a prompt opens, takes the first
answer in its box, expires or times out; anybody else may answer it.  It is
modelled from how the agents use it and marked external in the map.  `ask`, `expired`
and `box` are the ask files and their sockets, `vol` the volumes.

`KeyfileAgent` is the shell program, one action per step between which the outside
can move: `Scan`, `GatherBoot`, `GatherUsb` (the copies of the candidate keys),
`HandleAsk`, `TestKey`, `KeysExhausted`, `Reply`, `CountIdle`, `EndRound`.  `done` and
`tried` are the files `done.<ask>` and `tried.<ask>`.  A key is a member of `Keys`,
`Unlocks` says what it opens; a medium is a sequence of keys (an empty one has no
readable key).  The environment swaps media, lets volumes become usable, ends the
time limit and kills the agent.  Real time is left out: the sleep between rounds and
the longer one after a bad source are the state `scan`.

* `agent_two`: two volumes with different keys, one prompt each, media of the wrong
  host, one swap, idle exit after two rounds.  `NoTryBurned` (what the agent sent
  opens the volume), `RejectedKeyTestedOnce`, `NoEarlyIdleExit`, and `Contract`, the
  refinement of the abstract agent.
* `agent_live`: one volume, a prompt of another service, every kind of bad source
  before the good key, one swap.  `GoodKeyUnlocks`: a good key that stays at hand
  opens the volume, unless somebody else answers one of its prompts, a prompt
  expires, or the agent's time limit comes first.
  Fairness: the agent's process goes on (its service runs until the initrd is left)
  and systemd opens and serves its own prompts.  Nobody has to
  answer, plug or expire; that is left unfair.

Two volumes are enough for a key to reach the wrong one, two keys for a rejected one,
two rounds for an idle count that is off by one.  A volume has one prompt in
`agent_two`; repeated prompts of one volume are in `programs_all`.

Proved for every number of volumes, prompts, keys and media (`KeyfileAgent_proofs`):
`AgentInv`, the conjunction of types, `NoTryBurned`, and what the loop relies on: the
prompt being handled is a LUKS prompt not yet answered by the agent, and a key about
to be sent fits it (`HandlingInv`); an answered prompt that is still shown is in `done`
(`DoneInv`); a key that failed a test is in `tried` as long as the agent can come back
to the prompt (`WastedInv`); a prompt shown since the start of a round is met before
it ends, so the idle count never runs ahead (`IdleInv`).  From it `NoTryIsBurned`, `RejectedOnce`,
`NoEarlyExit` and `AgentRefinesContract`: each step of the agent is one correct
answer to an open prompt or leaves the prompts alone.  `AgentTyped` is its type invariant.

### LocalTop

The initramfs-tools loop and its end in local-bottom.  `Find`, `Mount`, `TryKey`,
`SourceExhausted`, `ReadKey`, `WriteFifo`, `FifoGone`, `Stop`; `served`, `asking` and
`rejected` are the variables of the script, `mnt` what a mount point shows, which stays
when the stick is gone.  The fifo gives what is written to any prompt that reads.

* `programs_all`, the behaviours of the loop: one volume with two tries, two plug or pull
  steps.  `PromptsSpared`: no key reaches a prompt that it does not open
  (`NoTryBurned`), a refused file is not tested again for the prompt
  (`RejectedFileTestedOnce`), a prompt is written for at most once (`WrittenOnce`).
  `LoopUnlocks`: a good key on a medium that stays, not at a mount left dead
  by an earlier pull, opens the volume (`GoodMediumUnlocks`), under the fairness of the loop and of cryptroot, which the
  boot waits for.

With two volumes of different keys `NoTryBurned` does not hold (section 7), so it is a
property of one volume.

Proved for any prompts, keys, media and sources (`MCBoot_proofs`).  `LoopInv`: while the
loop works for a prompt, that prompt was shown and nothing was written for it, and those
something was written for are closed (`Target`); the key on its way was tested for that
prompt (`Tested`); a prompt still shown after a write is the one in `served`
(`ServedInv`), one still shown after a refusal is the one of the last round, with the file
in `rejected` (`RefusedInv`); what lies in a box fits a prompt that has been shown
(`WrittenFits`); one prompt is shown at a time, as cryptroot asks in turn (`OneShown`).  The parts need
each other: `rejected` is emptied when the prompt changes, and only `OneShown` says that the
old one does not come back.  From it `OnceForAPrompt` without a condition, and
`LoopSparesPrompts` for one volume (`OneVolume`).

### LuksHeader, TangBinding, KeyfileSlot, ClevisRole

`LuksHeader` is the host: keyslots (a passphrase, a fallback key, a clevis binding
with threshold, servers and those that still know it, or an orphan left by a bind
that died), key file and its copy on /boot, the files the initrd is built from, the
initrd.  `TangBinding` and `KeyfileSlot` have one action per Ansible task that changes
something or decides something; consecutive tasks that only write files of one initrd
feature are one action.  `ClevisRole` starts runs (`StartRun` picks inventory and
variables), chains the parts and ends a run anywhere (`Abort`: the task fails without
effect, is refused by an assertion, or the run is interrupted).  The servers go up and
down (`Reach`) and are set up anew (`Rekey`) at any moment.  What a task registers
(`needs`, `match`, `stale`, `enrolled`, ...) is forgotten at the end of the run.

* `role_all`: an initramfs-tools host whose passphrase was removed and a dracut host
  with a tree of tang and another pin; server lists that grow or become empty; five
  kinds of runs; three slots.  `KeysRemain`: a keyslot is left (`KeyslotRemains`) and a
  fallback keyslot has its key as long as no key test fails by itself
  (`FallbackKeyKept`).  `RetiredAfterProof`: outside the teardown a binding goes only
  while the binding this run unlocked through stands.  `RunsRepair`: a finished run has
  established what its variables ask for, whatever earlier runs were stopped at
  (`DriftRepaired`, `KeyfileRunComplete`, `InitrdVerified`).

Three slots: one wanted, one stale, one for the fallback; every loop over stale slots
can stop between two of them.  The two host starts, the options and the lists are in
`MCClevisRole`.  Runs follow one another without bound.

Proved for any slots, servers, keys, lists and options (`ClevisRole_proofs`):
`SlotInv` says what each task may rely on: the matching slots are still bound as wanted
and the stale ones are not (`Registered`), another slot is used while one is to be
removed (`Spare`), a key that is added or removed exists (`HasKey`).  From it `KeyslotAlwaysRemains` and
`RetiredOnlyAfterProof`.  `KeyInv` adds, with `Glitches = 0`, that no two slots hold one
key and that the tests say the truth: `FallbackKeyOutlivesSlot`.  `KeysAlwaysRemain`
joins the two.  `RepairInv` follows a run through its tasks: what it has established of
the bindings its inventory asks for (`DriftInv`), of the key, its slot and its copy
(`InstallInv`), of the removal (`TeardownInv`), whatever an earlier run was stopped at, and with
the state of the initrd against the files it is built from.  From it `DriftIsRepaired` for any number of key
tests that fail by themselves, and `RunsDoRepair`, all of `RunsRepair`, without such tests.

## 4. In-place encryption: LuksEncrypt

The disk is one of three things: the old root, the LUKS device with the new root, and
/boot; `old` and `new` are trees with data, the files the script deploys and the
initrd, `boot` the initrd grub will read.  An initrd records which preparation its
parts come from, so that a mixture of two shows.  Actions: the steps of prep in their
order, of `--abort`, `Upgrade` (another package rebuilds the initrd), `Interrupt`,
`Reboot`, `PowerLoss` at any step, then Phase B from `MountRoot` to `Finish`, each with
its failure: before the point of no return the handler unmounts and continues the old
boot, after it (`past`) the machine stays in the emergency shell (`dead`) with the
copy in RAM.

* `programs_all`, the behaviours of the encryption: two preparations that differ in what
  they exclude and in the fallback, all orders, all failures.  `DataSafe`; `ArmedWhole`
  (what will migrate is one preparation, and none aborted since: `ArmedComplete`,
  `AbortCancels`); `MigratedWhole` (a migrated system does not migrate again, holds no
  passphrase and keeps its fallback key: `MigratesOnce`, `FallbackIntact`);
  `BootsUnlessCut` (a machine that does not boot had its power cut past the point of no
  return or a failed update-grub).
* `encrypt_status` (violation): an abort that is interrupted before it rebuilds the
  initrd; `--abort` and `--status` then say that nothing is pending, and the next boot
  encrypts the disk.

No counter is bounded: the state space is finite.  All these properties are
proved for any set of preparations and contents (`MCBoot_proofs`).  `IInv` is the
conjunction of the types, the shape of the trees (`Trees`), what a preparation has
written at each step (`Prepared`), what an abort has removed (`Aborted`), which root
there is at which step (`Standing`), where the data is (`Data`), the new root and its
/boot (`Moved`), the fallback key and its files (`Fallen`), and that nothing runs a
migration no preparation has armed (`Arming`).  It is needed because each property only names the
end of a chain: that the boot loader never reads a migrating initrd, for example,
follows from the order of self-destruct, rebuild and grub-install, which `Moved` keeps
step by step.

## 5. Platform helpers

### UserMap

The map switched on.  A request thread arrives, asks for the registry (`Ask`,
`Acquire`, `StillDue`, the steps of `_reload`, `Release`), and decides
(`Authenticate`, `Precheck`, `ApiToken`) on what it holds.  `Publish` replaces files at
any moment, each whole, as a rename or a Secret volume does; no two versions share a
signature; the stats of all sources are one moment; an empty key file is an entry
without a key.  A content that does not parse is one model value.  `clock` is bounded
by `MaxClock`, replacements by `MaxPublish`.

* `users_map`: two threads (symmetric), two users, three documents.  `ChecksSpaced` (no
  two checks within an interval, by any threads), `RegistryCurrent` (a load that was
  not disturbed equals what the files say, or their signature differs:
  `CleanMeansCurrent`), and `RemovedGetsNothing` (a user removed during his request gets no key).
* `users_reread` (violation): a user removed together with his key file stays known:
  the signature of the old sources cannot be taken, at this check and every later one.

Two threads are enough for both to find a check due; two moments for one interval to
pass.

Proved for any threads, users, documents and interval (`Services_proofs`).  `MapInv`: what
versions the files have (`FilesInv`); no check and no thread's moment lies ahead of the clock
(`ClockInv`); nobody is served before the constructor is through (`ThreadsInv`); what a load
has read is what the files say unless one was replaced since it took the lock, and when it signs,
the registry is the parse of it (`LoadInv`); after an undisturbed load the registry is the
parse of one document under its signature, and another text in the users file has
another signature (`SignedInv`).  The last is what makes `RegistryCurrent` inductive: files
go on changing after the load.
From it `RegistryStaysCurrent`, `ChecksAreSpaced`, `RemovedPaysNothing`.

### MailGateway

Receiving, as configured by default: both folders, `process_existing: true`.  `at` is
the folders that hold a mail, `unread` the mails without `\Seen` in INBOX, `ad[a]` one
adapter: where its poll task or its worker thread stands, what the search returned
(`todo`), what was fetched (`batch`; `parked` those with `source_folder` Working), its
seen set.  `Poll`, `Header`, `Consume`, `Body`, `Park` and `FetchEnd` are the worker
thread, `Dispatch`, `Finalize`, `Escalate` the poll task, `Disconnect`, `Connect` and
`Crash` the gateway.  `Disconnect` cancels the task where it waits; the thread goes on
(`FetchEnd` with `a # live`).  `fate`, `handed` and `died` are history.  The verdict on
a sender is free at both places it is asked.  That a disconnect may come at any moment
and that a later connect of the process is a reconnect is what the gateway outside this
repository does.

* `mail_all`, the behaviours of receiving: three mails, one without a Message-ID, one
  arriving at any time; two adapter slots; any two of: a refused or lost command, an
  exception of `handle_message`, a disconnect without a failure, a crash.
  `AtMostOnce`; `MailsAccounted`: a mail that was fetched, and that nothing further
  befell, is in somebody's batch (`FetchedInHand`), one nobody touched is seen by the next
  poll (`WaitingStaysEligible`), one in Done was decided about (`DoneMeansSettled`), and the
  four ways to be lost each take a failure (`LossNeedsFailure`).  These four are real: the
  answer that brings the mail does not arrive (`swallowed`), an exception ends the
  dispatches before its turn (`lost`), its adapter is disconnected (`cut`), the process
  dies (`died`).  Such a mail is read on the server and reaches nobody; one that does not
  parse (`garbage`) is skipped.
* `mail_stuck` (violation): mails in Working that no agent has seen, although no
  process died.

`SeenMax = 2` makes the trim happen with three mails.  Two slots let one orphaned thread
run beside one adapter; a second orphan delays the next connect.  Two failures are
enough for one inside the recovery from another.  Liveness is not checked here:
`WaitingStaysEligible` says that every poll finds the mail.

Proved for any number of mails, adapters, failures and any bound of the seen set
(`Mail_proofs`).  `GatewayInv` ties the fate of a mail to its place: one nobody touched is
unread in INBOX and in no seen set that counts, a fetched one is in a batch, one that was
handed over is decided about and no longer unread (`MailInv`); what an adapter has in its
batch is read on the server, what it has seen was touched, only the running adapter
dispatches, and of the mails handed over it has at most the one it is finalising
(`AdapterInv`); the set a reconnect starts from names only touched mails
(`SnapshotInv`).  `HandedAtMostOnce` needs all of it: the seen set that is trimmed is not what
keeps a mail from being handed over again, the read mark and the batches are.  From it also
`MailsAreAccounted`, with what each fate takes, and `GatewayTyped`.

### MailAuth

One mail on its way: its headers are judged (`Parse`, `Preauthorize`) before it is
downloaded, the mail before it is given to the agent (`DispatchA`); in between a pairing
may be approved or withdrawn (`Pair`).  An `Authentication-Results` header is the stamp
of its server and a sequence of clauses; a clause is its method, its result and the
domains it names, of which only "the From domain", "another" and "none" are told apart.
`Verified` is `_verify_sender_authentication`, `Accepted` is `_sender_accepted`.

* `mail_all`, the behaviours of the check: every header of up to two clauses, every kind
  of sender, every setting.  `AuthAgrees`: with authentication required, what reaches
  the agent was vouched for by a clause of the pinned server, and no two DMARC results
  contradict each other (`HandedIsVouched`); a downloaded mail is dropped only because a
  pairing changed meanwhile (`DroppedMeansMoved`), which excuses a withdrawn pairing: that
  the mail of such a sender is dropped after its download is not called wrong.

Two clauses are enough for one to contradict, repeat or mask another.

Proved for headers of any length, any domains and servers (`AuthAlwaysAgrees`, in
`Mail_proofs`): the stages of a mail record what was judged, and a header that `Verified`
accepts has one clause that vouches and no two DMARC clauses.

### MailReply

`Received` records an original under its Message-ID and under its sender (`byId`,
`lastOf`, each bounded by `LookupMax`); several executor threads send replies: `Claim`
the quote under the lock, `Build`, `Smtp`, `Archive`, `Settle`.  A failed SMTP call may
hide that the server took the mail; a retry is a further `StartSend`.  `pages` and
`confirmed` are history.

* `mail_all`, the behaviours of replying: three mails, two of one sender, two with the
  same Message-ID, one without; two threads, three sends, one record kept.
  `QuotesHold`: a mail is never in two replies that are under way and never quoted again
  after a reply that went out (`QuotedOnce`); a reply that names its mail quotes that
  one or none (`QuotesNamedMail`); only a send that is under way keeps a claim
  (`PendingIsOwned`).

`LookupMax = 1` makes the eviction happen; three sends are a failure, its retry and a
rival.

Proved for any mails, threads, sends and records (`QuotesAlwaysHold`, in `Mail_proofs`).
`ReplyInv`: a mail has one owner (`OneOwner`), an owner's claim is pending and its send
succeeded exactly when it is past SMTP (`Owner`), a claim that is not owned is open and
was never confirmed, or is settled and was confirmed once (`Claimed`).  `RepliesTyped`: `byId` and
`lastOf` are dictionaries, one record for a Message-ID and one for a sender, and never hold
more than `LookupMax`.

### StateRefresher

The loop of the sidecar step by step (`CheckLock`, `ReadFile`, `Replace`, `Sleep`) beside
a gateway that starts, writes its file, stops, and goes at any moment.  A copy that was
read is written back later, over whatever the gateway wrote meanwhile.  Time goes in
rounds of the refresher.

* `programs_all`: three lives of the gateway, a threshold of four rounds.
  `ShownIsTrue`: a gateway that runs is shown as running (`AliveShowsAlive`), one that is
  gone for the threshold is not (`DeadShowsDead`).

Proved for any threshold and any number of lives (`Services_proofs`).
`RefresherInv`: an update is under way only when the gateway lived at the last look, and
what it will write is "running" (`UnderWay`); a file is at least as old as the gateway is
gone (`OldAsGone`); while the gateway runs the file says so and is fresh (`FreshWhileUp`).
The first part makes the other two inductive: the overlapping update is the only way
for an old state to come back.

### GotifyBridge

Alertmanager repeats the notification of a group until it is answered 200; `do_POST` goes
through its alerts (`Skip`, `Forward`, `Refuse` for an answer other than 200, `Raise` for an exception,
before or after Gotify took the message, which is answered 500), then `Acknowledge`.  Gotify may
stall (`Stall`, `Recover`): it accepts requests and answers none.  The post of this bridge has no
timeout (line 102), so that its one thread waits (`Hang`) until the livenessProbe of the
Deployment, which asks the same thread, has the container restarted (`ProbeRestart`).  The post
of the Keel bridge gives up after ten seconds, and Keel is answered 200 whatever it came to (`Post`).

* `programs_all`, the behaviours of the bridges: two alerts, four changes, two failures, one update.
  `ToldIsShown`: after a notification that was answered 200 the last message about each of its alerts
  says the status of the group, unless Gotify refused that message, which is logged and
  answered 200 all the same.  `BridgesSettle`: in the end every alert is told as it is unless
  Gotify stays stalled for good (`AlertsTold`), and Keel is answered even then (`KeelAnswered`).
  Fairness: Alertmanager repeats; a thread goes on unless a post waits (`~hung /\ AlertStep`);
  the kubelet restarts a container whose probe fails; the post with a timeout ends.  Nothing is
  asked of Gotify: it need not recover.
* `bridge_group` (violation): the message about an alert that ended says that it fires, while
  another alert of its group does.

Two alerts are enough for a group that is of two minds, two failures for one during the
repetition that another one caused.

Proved for any number of alerts, changes and failures (`BridgeAlwaysTells`, in
`Services_proofs`).  `BridgeInv`: what counts as delivered is the last notification, and an
alert that was in one is in all later ones (`ToldIsNoted`); each alert the handler has passed is
in Gotify with the status of the group, or was refused (`SaidOrRefused`).

### KvmWeb

Both web servers over the helpers of `kceve_kvm.py`.  The port is found by listening or by
the probe (`Listen`, `Probe`, `ProbeBack`); the monitor thread reads heartbeats under the
lock and parses them outside (`MonitorCheck`, `MonitorRead`, `MonitorParse`); a handler
takes the lock, flushes the line, switches, releases, tells the monitor to drop its
buffer and publishes (`TakeLine`, `Command`, `Signal`, `PublishPort`).  The device beats, its
answers may be missing or lack a part, and the remote control switches or sends foreign codes.

* `programs_all`: two ports, two handlers, three events.  `PortIsTrue`: the server, if it
  starts, does so with the real port (`StartsOnPort`), the port that is shown becomes and stays the
  real one once nobody switches (`KvmConverges`), and every request is answered
  (`KvmAnswers`).  Fairness: threads go on; a thread that waits for the lock gets it if
  it is free again and again (strong fairness of `TakeLine`: the monitor sleeps between
  its reads); the device beats.

`BufMax = 2` and a line of two codes make the cut of the buffer happen.

Proved for any ports, handlers and bounds (`Services_proofs`): `KvmStartsOnPort`.  `KvmInv`: one
handler at most talks to the device, the one that holds the lock (`OneTalks`); until somebody
switches, every code in the line, in the buffer and being parsed names the port that the
device shows, and nothing but the start runs before the server serves (`FirstPort`); the
buffer is bounded by its cut (`KvmTyped`).  That the port converges and requests are
answered is liveness and stays with TLC.

## 6. Model serving and tools

The programs of this section are checked in `tools_all`, each for itself.

### Preload

`Info`, pruning (`Look`, `RemoveFragment`), download under the lock of the blob (`Fetch`,
`FetchEnds`), copies (`Sync`, `Synced`), `Offline`, the markers of the head (`Mark`), the
worker that waits for them (`WorkerGoes`, `WorkerTimeout`).  `begun` are the models that have
a snapshot directory, which appears with their first file; `Offline` takes any of them, complete
or not, as `local_files_only` does, and `blind` remembers those that were not.  A peer in another pod
downloads to the same cache and may die, stall, or start between the look at a fragment
and its removal; the program fails or dies and is started again.
`PreloadSound`: pruning takes no fragment from a living download (`PruneSparesLive`), a
worker goes on, and success is reported, only with models that are complete or were taken for
complete from the cache, although markers outlive pods (`GoMeansThere`), and each is on each
target or came from the cache (`SuccessIsSynced`); either exception takes a request or a copy
that failed (`DoubtNeedsFailure`).  That a worker goes on with complete models only, and that
success means that every target has them, is what the comments of the program say and what
does not hold (section 7).  Two models, one target, two fragments, two failures, one death: a fragment
left behind and one in use.

Proved for any models, targets, fragments, failures and deaths (`PreloadIsSound`, in `Tools_proofs`).
`PreloadInv`: the fragment that is to be removed was left behind (`FragmentsNamed`), a living
download writes one fragment under the lock of its model (`PeerHolds`, `SelfHolds`); what the loops over models and targets have done
(`Progress`); a marker, or a worker that went on, stands for models that are complete or were
taken unseen (`MarksTrue`), which outlives the program that set it.  `CalmInv` follows the first
failure: before it nothing is taken from the cache.

### CpuShard

`CutOf` is what a rank takes of each tensor of a layer, in columns, rows, heads, experts
and rows of the vocabulary; the job is `Begin`, `AddLayer`, `Finalize`, `CopyMetadata`,
`WriteIndex`, and `Die` between any two or in the middle of a write.  `ShardsWhole`: a
directory with an index holds each layer in one whole part file (`MarkedIsWritten`), and the
files of all ranks hold the model up to the rounded divisions, no unit twice but the replicated
ones (`ShardsCoverOnce`).  Rows and columns that do not divide stop the job by an assertion; heads
(line 349) and experts (504) do not: what exceeds a multiple of the ranks is in no file
(`Rounded`), and the directory is marked as complete all the same (section 7).  Five shapes: five heads over
one head of keys, rows that do not divide, experts by tensor and by expert parallelism, three experts
on two ranks; a vocabulary of three rows.

Proved for shapes of any size, even or not, on two ranks and any limit of a part file
(`ShardsAreWhole`, in `Tools_proofs`).  What the part files of a rank must be is fixed by the shape alone: from
the first layer on, a part takes layers until the next one would exceed the limit.  `ShardInv`: the
files on disk are a beginning of that division, each whole or torn, whatever
runs died before; a process is somewhere on the same way, everything before it whole; metadata and index
come only after the last part.  A run that is started again therefore writes the same
files again, and no file of an earlier run is taken for another.  Beside it, `LayersAreWhole`
shows by arithmetic that what the two ranks cut of a layer is the layer of the rounded shape, no
unit twice but the replicated ones: an even shape is its own rounding (`EvenLayersAreWhole`), and
what is cut of another is what is cut of its rounding (`CutRounded`).

### ShardJob

The GPU jobs on a head and a worker, with one directory each: `DeployJobs`, `Launch`,
`Check`, the engine (`CallSave`, `WriteParts`, `SaveReturns`), `Finish` of the worker,
`SyncDir` of the head, deaths of pods, of a program alone on either node, and of an engine that
lost its peer.  The scripts ask no exit status of the program whether anything was saved
(`ProgramFails`): the head goes on to copy what there is, the worker looks for parts.  `OneRunServed`: two marked and complete directories are of one run
(`NeverMixed`), and a rank never saves beside parts of an earlier run
(`SavesIntoEmpty`).  Three deployments, with or without force, and three deaths.

Proved for any number of deployments and deaths (`OneRunIsServed`, in `Tools_proofs`).  `JobInv`:
a directory names a run just when it holds parts (`PartsNamed`), engines save only after both
jobs have checked (`SavingPcs`), a directory without an index is empty when it is checked
(`CheckedClean`), and an index at the head means whole parts there and at the worker none of
another run (`HeadMarked`).

### RepetitionGuard, ThinkingParser

A text is a sequence of units, words, sentence ends and markdown; `Fed` is `feed` with its
counts, frozen n-grams, flood, suffix and stagnation checks, `StreamChunk` the loop of
`guarded_stream` over the reasoning and the content.  `GuardSound`: the counts are those of the
whole text wherever the chunks end (`CountsExact`); a stream is stopped only when one text
says an n-gram again (`FreshTextPasses`); a text that goes on with one word is stopped in
time (`LoopIsCaught`); what is kept ends with a sentence before the repetition
(`CleanBeforeLoop`).  All texts of five units over three words, two marks and a bar, beside a
reasoning of up to three words.

Proved for any texts, cuts and thresholds (`GuardCountsAndCuts`, in `Stream_proofs`):
`CountsExact` and `CleanBeforeLoop`.  `GuardIs`: the words kept are the words of the text, and
the count of an n-gram is the number of all its places in them.  A chunk adds the places that
end in its words, and no place ends in the words of two chunks, so a cut through an n-gram
neither loses nor doubles it.

The tag parser takes every cut of every text of three pieces (tags, beginnings of
tags, another character), with and without the reasoning field of the server.  The history
`tagged`, `fieldText` and `afterText` is what the server sent before, in and after its field.
`SplitSound`: what comes before the field is divided as by `Reference`, which reads it character by
character, what comes in it is thinking and what comes after it content, with tags left in it as text
(`DividedAsSent`); the buffer holds the beginning of a tag that the tagged text ends with and
nothing else (`OnlyBeginningsHeld`); without the field tags alone decide (`TagsDecide`).  That
beginning is kept back for good when the stream ends there or the field comes (section 7).

Proved for any text, cuts and tags (`ParserSplits`, in `Stream_proofs`), provided that no tag
begins inside a tag or is the beginning of the other (`TagAssumption`, true of the tags of
the code): of tags that overlap, a buffer could end with more than one beginning.  `ParserIs`:
mode, parts and held beginning are those of `Reference` after the tagged characters, and what the
field brought has been written after them (`ParserLater`).
`ParseIs`: the loop over the tags of a buffer goes as the reading does, each turn up to the
next tag or to the held beginning; `ChunkIs`: reading what was held and the chunk is
reading on.

### KeelDrift

A digest is a platform manifest or an index over manifests; pushing an index again changes
its digest and not its parts.  `LookAtPods`, `Lookup`, `Compare`, `Children`,
`CompareChildren` are the steps of `examine` for each workload, with the credentials of
that workload, `Throttled` requests, and answers that lack a part; the tag moves and
pods restart in between.  `VerdictsHold`: stale means that nothing that runs is in
the tag or the registry did not say (`StaleIsElsewhere`), current means a shared manifest,
which for a pod that runs an older index may be another platform's (`CurrentIsShared`), and equal digests get equal verdicts (`SameDigestSameVerdict`).  Two
workloads of one tag, two pods, two platforms, one push, one restart, one failure.

Proved for any workloads, pods, platforms, pushes and failures (`VerdictsAreTrue`, in
`Tools_proofs`).  `DriftInv`: the digests that are accepted are those of one index (`LookupTrue`), the cache knows the
manifests of a digest or that the registry did not tell (`CacheTrue`), and each verdict
follows from the digest that ran, the one look-up all workloads share and cache entries that
do not change any more (`Grounded`).

### WholePatches, PatchLib, PatchSet, EngineImages

`WholePatches` is the promise of `_patchlib.py`: "all-or-nothing per file".  `PatchLib` is the
runner over any set of patches: `Open` (target, gates and `when`), `SkipEdit`, `MakeEdit`,
`Drift`, `Write`, `WriteModule`, `RemoveModule`, and the launcher that runs again
(`Again`).  `PatchSet` has what all 46 scripts hand to it: target, gates, anchors in all
spellings, and of each new text which pieces that another script looks for it
contains or takes away.  `EngineImages` are two layouts of the engine, each as it is
and with one difference: an anchor that drifted, an edit that upstream already made in a
patch of several, a missing file (of the old layout only anchors and files that the new
one has not), a sign of a gate that is there or is not, a module that would not import, another
model, a native kernel, an older module.  A file is the set of the pieces found in it.

* `tools_all`: every image, the launcher twice.  `AllOrNothing`: the refinement of
  `WholePatches`.  `SecondRunIsQuiet`: the second run changes nothing.  `PatchesHold`: an
  image with every anchor is patched without a drift, so that no patch takes the anchor
  of a later one (`CleanImageIsPatched`); no drift in the log means that every patch whose
  gate matches is in (`SilenceMeansPatched`); the registry names a kernel only when its
  modules are there (`KernelBehindItsName`).
* `patches_names` (violation): an import that p30 brings for a module that was removed.

One difference at a time is what an update of the engine does to one patch; differences
that need each other are those of the two layouts.  That the pieces of a text do not
overlap otherwise was read off the scripts.

Proved in `MCTools_proofs` for any set of patches and engines that satisfies two assumptions,
which TLC evaluates for the 46 scripts and all images.

`PatchAssumption`: what an edit brings is not the mark of another; one that takes such a
mark away leaves a mark of its own that none takes away; a module that is written has no
edits.  `RunnerIsAllOrNothing`, the refinement, follows from it alone.  Its invariant
`PatchInv` says what the buffer holds while a patch is edited: every mark that is in the
file, beyond these only marks of the patch itself, and those of each edit it needs before
the current one (`Buffered`).

`ScriptAssumption`: what the scripts keep to of each other, and no sentence of `_patchlib.py`
asks for.  A later patch leaves alone what an earlier one looks at (`LaterLeavesEarlier`),
but for the mark of a last edit whose patch stops at the mark of its first (`LastMark`): p33
rewrites what p31 brings, and without the guard of p31 the second launch would edit again.
After its patch each edit has a reason to be skipped (`SkippedAfterwards`).  A module
carries its marker (`ModuleMarked`), a text at which a patch stops comes from itself or the
engine (`StopsAreOwn`, `EnginesAreWhole`), and who asks for the modules of its script has
their gate (`AsksWithItsGate`, `ImportsAsk`).  From it follow

* `SecondRunChangesNothing`: `SecondRunIsQuiet`.  Each patch that ran would leave the disk
  as it is (`Settled`): it is not asked for, or it would skip every edit, or it would
  drift again where it drifted.  That later patches do not disturb this is `SettledStays`, and
  that the edits made so far will be skipped is carried through a patch by `Midway`;
* `LogAndRegistryTell`: `SilenceMeansPatched` and `KernelBehindItsName`.  A patch that ran is in
  when the log is quiet (`Tells`); one to come finds of its own texts only what the engine
  shipped (`Ahead`), so that it never stops at a text of another.

`RunInv` joins these; it is the invariant of both.

## 7. Findings

Five runs end in a violation of what the repository says of itself; `PROJECT.json`
quotes the lines: `encrypt_status`, `users_reread`, `mail_stuck`, `bridge_group`,
`patches_names`.

Seen while modelling.  Those with the name of a definition can be seen by giving it to
TLC as an invariant of the run of its module:

* with two volumes of different keys, the key that the loop tested for the first is read
  by the prompt of the second, whose try is burnt; the comment at line 10 of the
  script says that this never happens (`LocalTop`, `NoTryBurned`, `Devs` of two);
* one key test that fails for want of memory is read as "not enrolled"; the teardown
  shreds the key and leaves its keyslot (`FallbackKeyKept` with `Glitches = 1`);
* a bind that died between adding the keyslot and writing its token leaves a keyslot
  nobody can open; the teardown's assertion counts it (`tang_teardown.yml:49`);
* the set-up template unbinds every binding after one confirmation, before it asks for
  the passphrase of the new one (`setup_clevis_tang.sh.j2:67`);
* a binding with a bare tang pin is never stale (`parse_bindings.yml:12` against `:5`);
* the check of the initramfs-tools initrd only displays what is missing, and a rebuild
  is skipped when the run that made the change failed before it
  (`config_clevis.yml:396`); the same for the dracut teardown
  (`keyfile_fallback.yml:438`);
* when no slot is stale the matching one is not tested (`config_clevis.yml:235`);
* in `luks_encrypt_spark.sh` lines 861 to 878 run under `set -e` although line 855 calls
  the failure not fatal, and a failed update-grub (950) is followed by the success
  message (975);
* with `process_existing: false` the seen set of a mailbox above 2000 mails is trimmed
  at once, and unread mails that the log calls skipped are processed
  (`hermes_email_gateway_patched.py:1072`);
* a mail whose RFC822 answer is lost is read on the server and never fetched again
  (`:1237`; the model's fate `swallowed`);
* a reply that does not name its mail may quote one and be threaded to another that
  arrived while it was built (`QuoteThreaded`);
* the sharding job counts shard files of earlier runs (`sglang_shard_launch.sh:237`
  against the comment at `:216`; `WorkerSavedWhole`), and a head that skips copies its
  index to a worker whose parts are not whole (`:258`; `MarkedPairMatches`);
* the index of the unsharded model is copied among the metadata, so that a CPU sharding
  job that dies while copying is taken for complete (`MarkedIsComplete`);
* a model whose copying failed with an exception is taken from the cache and the program
  succeeds, although the target lacks it (`hf_preload_download.py:250` against the comment at
  244; `ReadyOnTargets`); and the offline path takes a partial snapshot for a complete one
  (257 against 253; `GoMeansComplete`, with `Frags` of two and `Models` of two);
* the head of the sharding job copies and ends well when its program failed: nobody looks
  at `rc` there (`sglang_shard_launch.sh:225`; `HeadSaved`);
* a checkpoint whose heads or experts are no multiple of the ranks loses the rest of them without
  a word, where uneven rows and columns stop the job (`sglang_cpu_shard.py:349`, `:504`;
  `ShardsCoverModel`);
* a message that Gotify refuses is logged and the notification answered 200, so that it is not
  sent again; the post to Gotify of the Alertmanager bridge has no timeout, and only the
  livenessProbe ends one that waits;
* `streaming_repetition_guard.py`: with `min_tokens_before_check`, which its docstring
  recommends to raise against false alarms, at 0.85 of the stagnation window or above,
  fresh text is stopped; suffix periods above 30 characters are tried in steps of
  five; `cooldown_tokens` is not used; a text without a sentence end is kept whole; a
  word that a chunk cuts in two is counted as two;
* `thinking_parser.py`: the beginning of a tag that is held when a stream ends, or when
  the reasoning field comes, is lost, against "gracefully handled" at line 32
  (`MixedModeKeepsText`);
* `keel_drift.py` calls a workload current when only the manifest of another platform is
  unchanged (against the comment at 991; `CurrentIsUpToDate`), and the last running pod speaks
  for its workload;
* `sglang_launch.sh:262` says that edits of one file live in one script; five scripts
  share `dsa_backend.py`.  p31 asks for the kernels namespace and p32, which needs it
  too, does not; p68 prints a drift on the old layout with tilelang.

## 8. What is proved, what is checked, what is left out

Assumptions of the proofs are the named `ASSUME`s of the modules: kinds and
disjointness of the constants, a first slot among natural numbers, a port 1, alerts, models and
targets numbered from 1, at least one shape of a checkpoint, each with a rank for each of the
two jobs and its experts cut over all of them or over none, tags that do not overlap,
`PatchAssumption` and `ScriptAssumption`; TLC
evaluates them in the runs.  Three theorems have a hypothesis of their own, without which
section 7 has a counterexample: `Glitches = 0` (no key test fails by itself) for
`FallbackKeyOutlivesSlot` and `RunsDoRepair`, `OneVolume` for `LoopSparesPrompts`.

Proved, for every value of the constants:

* `KeyfileAgent`: types, `NoTryBurned`, `RejectedKeyTestedOnce`, `NoEarlyIdleExit`, and the
  refinement of `Contract`; `LocalTop`: `PromptsSpared`;
* `ClevisRole`: types, `KeysRemain`, `RetiredAfterProof`, `RunsRepair`; `LuksEncrypt`: all of its properties;
* `UserMap`, `MailGateway`, `MailReply`, `MailAuth`, `StateRefresher`: the properties their runs check;
  `GotifyBridge`: `ToldIsShown`; `KvmWeb`: `StartsOnPort`;
* `Preload`, `CpuShard`, `ShardJob`, `KeelDrift`: the properties of `tools_all` about them;
  `PatchLib`: the refinement of `WholePatches`, `SecondRunIsQuiet`, and of `PatchesHold` the parts
  `SilenceMeansPatched` and `KernelBehindItsName`;
* `ThinkingParser`: `SplitSound`; `RepetitionGuard`: `CountsExact` and `CleanBeforeLoop`.
  Texts are read by recursive functions; what they give is proved with sets of
  numbers (`UpTo` in `Stream_proofs`: a set of naturals with a rest has a least one in it),
  as the induction theorems of the library cannot be used;
* `MCBoot`, `MCMail`, `MCServices`, `MCTools`: `BootTypeOK`, `MailTypeOK`, `ServicesTypeOK`, `ToolsTypeOK`,
  and that the common runs are runs of each program.

Only model-checked:

* liveness (`GoodKeyUnlocks`, `LoopUnlocks`, `BridgesSettle`, and `KvmConverges` and `KvmAnswers` in
  `PortIsTrue`), which the proof system does not reach;
* of `GuardSound`, that fresh text passes and that a loop is caught (`FreshTextPasses`,
  `LoopIsCaught`): they hold for thresholds that fit each other, as those of the code
  and of the run do (section 7 has some that do not), and not for all;
* of `PatchesHold`, that an image with every anchor is patched without a drift
  (`CleanImageIsPatched`): which anchors the clean images have is a matter of their texts;
* the properties of the five runs that end in a violation.

Where the properties of a run are conjunctions, each conjunct is a definition of its own
with its own comment; TLC names the conjunction.

Not modelled: the components with that status in `PROJECT.json`, each with its reason;
in the modelled ones, time as a duration, messages and logs, the passphrase's way to
the terminal, a file that is killed in the middle of being written where the program
replaces it by a rename, and what third-party programs do beyond the results the code
looks at.
