# TLA+ models of gfrguard

gfrguard protects a NAS against ransomware. A Samba VFS module copies files to
a store before they are changed and reports what clients do; a daemon scores
each session, blocks the ones that look like ransomware and starts a restore;
a command-line tool brings files back; a web console edits the policy. This
directory holds TLA+ models of these parts, TLC runs that check them on small
instances, and TLAPS proofs that their safety properties hold for every size
(section Proofs).

## The system

| Part | Source | State it keeps | Operations |
|---|---|---|---|
| VFS module | `src/vfs/vfs_gfrguard.c` | per open file: tracked, backup done/failed, path; the store | openat, pwrite, ftruncate, renameat, unlinkat, mkdirat, close |
| Daemon, main thread | `src/daemon/gfrguardd_main.c` | policy, event id sequence | process_msg, reload, start |
| Session table | `gfrguardd_session.c` | 1024 slots: counters, directories, windows, event, blocked flag | find_or_create, check_window, update |
| Scorer | `gfrguardd_scorer.c` | none (auto blacklist of the policy) | calculate, white/black/exception tests, auto_add |
| Blocker | `gfrguardd_blocker.c` | the blocked file | execute, sync, unblock |
| Restore trigger | `gfrguardd_restore.c` | children | trigger, reap |
| Policy file | `src/common/rguard_config.c` | policy.json | load, persist a verdict |
| Event index | `src/common/rguard_db.c` | SQLite: events, protected_files, created_files, cloud tasks | insert, upsert, update, query |
| fanotify core and channels | `gfrguardd_fanotify.c`, `_fanchannel.c`, `_fangate.c`, `_ftp.c`, `_cloud.c`, `_local.c` | marks, gate, channel table, pipe to the main thread | permission thread, notify drain, block per channel |
| Content analysis | `gfrguardd_yara.c`, `gfrguardd_entropy.c` | compiled rules | scan |
| gfrguard-recover | `src/recover/gfrguard_recover.c` | none (index, store, quarantine) | restore, unblock, status |
| Web console | `web/app.py` | none | edits policy.json and the blocked file, runs restores |

**Interaction.** smbd workers send datagrams to the daemon (one message per
file event, and VFS_BLOCKED when they refuse one). The daemon handles them one
by one. It tells the VFS module whom to refuse through the blocked file, and
forks gfrguard-recover after a verdict. policy.json is written by the daemon
(verdicts) and by administrators. The index is written by the daemon and by
gfrguard-recover. fanotify permission events are answered in a second thread
that passes what it saw to the main thread through a pipe.

**What is hard.** Several smbd workers run the steps of `do_backup` at the same
time and may die in between. The two windows of a session roll independently of
each other and *between* choosing an event id and using it. The blacklist
exists three times (memory, policy.json, blocked file), each updated on its
own, each with its own capacity, and the console rewrites two of them without
the lock the daemon takes. Processes are stopped by pid, in steps that last
seconds, while pids are reused. The permission thread and the main thread wait
for each other: the main thread opens files the other must allow, and stops it
for a reload. A restart forgets everything but policy.json,
the index and the store. Restores may be killed, repeated, or run twice. The
table of sessions is bounded and evicts. `PROJECT.json` lists these hazards at
their lines.

**What makes each part correct.** VFS: an original is in the share or in the
store. Scorer and session: counters count the window, more activity is never
safer. Table: a bounded map that never
splits a session and never drops a blocked one. Daemon: an event id stands for
one session, a verdict is complete and lasts, the blocked file denies exactly
those it should. Recover: no original is destroyed by bringing it back, and the
index tells the truth. fanotify: every open is answered, every directory is
marked sooner or later, a backed-up open leaves the original in the store where
the index says it is, and a file counts once per session and window. Blocked
file: a shared list whose locked updates are atomic, and which its readers see
as it is. Channels: the process of a blocked session dies, and no other that was
there when the daemon looked.

## Modules

| Module | Models | Notes |
|---|---|---|
| `Scorer` | `scorer_calculate` and the validation of its settings | pure |
| `Session` | `session_state`: windows, counters, directories; the table as a map | pure |
| `Analysis` | the middle of `process_msg`: extension and content flags, windows, counters, deferred score | pure |
| `SessionLife` | one session under a stream of messages, with their history | |
| `SessionMap` | what the table promises: a bounded map with LRU eviction that spares blocked sessions | abstract |
| `SessionTable` | the table as laid out: linear probing, eviction in place | implements `SessionMap` |
| `Blacklist` | the blacklist in its three forms | pure |
| `Daemon` | the main thread with policy, files, index, restarts and failing calls | uses `Analysis`, `Blacklist` |
| `Vfs` | callbacks of the VFS module in several workers, `do_backup` by system call | |
| `Recover` | `restore --event` by step, killed, repeated and concurrent | |
| `Fanotify` | permission thread and main thread on the fanotify side: marks, gate, pipe, backups, reload | |
| `BlockList` | what the blocked file promises: a shared list with atomic requests | abstract |
| `BlockedFile` | the blocked file call by call: lock, temporary file, rename, console, the workers' cache | implements `BlockList` |
| `ChannelBlock` | how the cloud, FTP and local channels stop a process; reapers, neo-croner, pid reuse | |
| `SessionLifeProofs`, `SessionTableProofs`, `DaemonProofs`, `VfsProofs`, `RecoverProofs`, `FanotifyProofs`, `BlockedFileProofs`, `ChannelBlockProofs` | theorems about the module of the same name | each extends it |
| `MCSessionLife`, `MCSessionTable`, `MCDaemon`, `MCVfs`, `MCFanotify`, `MCBlockedFile` | constants for TLC | |

Operators named `X_Y` next to a definition `X` and commented "Mutant" are
broken variants of it, of the kind a bug in the code would be. Nothing uses
them; replacing `X` by one shows that the property it is meant for notices.

**Session.** A session is a record. `touched_dirs` and `dir_set_count` move
together and are the cardinality of a set; a directory's hash is the directory.
Counters saturate at `UINT32_MAX`, as in the code. `session_find_or_create`
returns the set of tables it may leave; it is empty where the code returns
NULL, and the message is then dropped. The key of a cloud task is its own, so
the messages of a session are all cloud messages or none is
(`LifeAssumption`), and a session has one pair of window lengths.

**Daemon.** One action is one message handled to completion, because the main
thread alone writes this state. `Admitted` is the sequence of early returns at
the top of `process_msg`; `VfsBlocked`, `BlacklistHit` and `Analyse` are its
three ways on. A VFS_BLOCKED notification may be read after the address was unblocked,
so `VfsBlocked` does not look at the blocked file. Calls whose failure the code survives (index writes, the blocked
file, persisting, fork) fail in any combination of `MayFail`. `Restart` covers
stop and crash between messages; a crash in the middle of a message is not
modelled. `EditConfig` is an administrator's edit in one step. The console's
blacklist requests are three: `ConsoleLoad`, `ConsoleSave` (the file it writes is
computed from the one it loaded) and `ConsoleRestart`. An entry of policy.json
is a string, or an object when the daemon persisted it (`auto`); the console
compares strings. `save_policy` truncates the file and writes it in place: a
reload or persist that meets it half written fails, as `MayFail` lets it.

**Vfs.** A callback is at least two steps (checks; operation and event), with
the steps of `do_backup` in between: the lookup of the backup, its creation
with O_EXCL, the copy. The content of an inode that existed at the start is the
inode itself, all that clients write is `Other`, so "the original is in the
store" is an equality. A worker that dies (`Crash`) leaves what it has done.
The blocked file is read at its current content: the cache and its mtime test
are in `BlockedFile`. `Block` and `Unblock` are what the daemon and gfrguard-recover do to it.
`gf_connect` (the options, a store that cannot be written, the refusal of a blocked
client) comes before `Init` and is left out. `MayFail` names the callbacks whose backup may fail. Read-only opens and O_PATH pass through the module untouched and are
left out, and so is mkdirat, which destroys nothing.

**Recover.** Clients and VFS are one step each here. A restore is: move the
created files away; collect the rows; for each row look the backup up, move the
current file to the quarantine, open (truncate) the file, copy, mark the row,
remove the backup; resolve the event. A file under copy is `Torn`, by process,
because a second process may move it while it is open. The destination of a
failed move is not modelled. A restore starts once the session of its event is
blocked, as the daemon does it and architecture_v2.md (7.4.1) prescribes.

**Fanotify.** Three kinds of process. Clients open, write and create things;
their opens wait in the kernel (`permq`) when the directory is marked. The
permission thread (`thread`) takes one open at a time: `DrainPerm` (channel,
identity, blacklist), `HandlePerm` (backup, gate, pipe), `Answer`. The main
thread (`at`) runs the loop of `main`: `EpollWait`, then `Timer`,
`ProcessQueued`, `DrainNotify`, `NotifyDone` until it waits again, or, on
SIGHUP, `SwapPolicy`, `Join`, `ReloadMarks`, `StartThread`. A walk (`Walk`) marks
and reads one directory per step, so that directories appear in between;
`jobs` are the channels still to be walked and `back` is where the main thread
goes on. Its entropy and YARA scans open the file like any process (`scan`).
While the policy is copied (`at = "swap"`) the permission thread reads any
verdict: the code has no lock there. It reads the store's path and the window in the
same way (`fanchannel.c:75`, `fanotify.c:827`); a reload that changes those is not
modelled. `sent` and `asked` are the history the gate
properties need. A handle is `bare` if no backup was made or found when it was
opened, and a file is in `bare` once one of those has written it. The kernel
(queues, merging of notifications, marks) is modelled from how the code uses
it.

**BlockedFile.** `file` has the blocked file and the temporary file beside it,
each a sequence of lines and an mtime. Writers (gfrguardd, gfrguard-recover) and
console requests (`proc`) go through stages that are their system calls; an open
temporary file follows its inode (`fd`): another process's rename may turn it
into the blocked file or leave it without a name. A worker's check is `stat`, and
if the mtime differs `open` and `read`, of as many bytes as `stat` reported. Any
call may fail and any process be killed. `List` maps this to `BlockList`: the
lines as a set, each writer's request and answer, and `unlocked` while a console
request is under way or a writer that met one is still in its section.
`newest`, `twice` and `overlapped` are history for the two properties: the latest
mtime the list has had, whether its last change came without a later one, and the
writers that met a console in their section.

**ChannelBlock.** The main thread (`main`) goes from an event through the channel's
stages: `check`, `kill` (local); `check`, `fork` (FTP); `query`, `reap`, `save`,
`delete`, `tree`, `fork` (cloud). `reapers` are the children that kill after the
grace period. A process is its birth number, its kind and, below an rclone, its
parent; SIGTERM leaves no trace, because a process may end at any time anyway.
Resolving and scoring are one step: nothing another actor can see lies between
them. The tree is collected in one step; a child forked later escapes in the
model as it does in the code, whether it is forked during the collection or
after it. An event whose process the daemon cannot see has `NoPid`, the code's 0.

## Runs

Passing runs. Three of them ask for liveness and state fairness. `fan_core`: weak
fairness of the permission thread and of the main thread, which are loops
that the kernel schedules, and strong fairness of an `epoll_wait` that reports
the 60 s timer, since the timerfd stays readable until it is read.
`blocked_file`: weak fairness of each writer's steps, and strong fairness of its
flock, since the kernel wakes those who wait for a lock in turn.
`channel_block`: weak fairness of the reapers and of the main thread where its waits
end by a time limit. The one wait without a limit (`HelperExits`, the `waitpid` at
`gfrguardd_cloud.c:308`) has no fairness: `DoomedDie` says who dies all the same, and
`channel_hang` that the wait may never end. Clients,
administrators, helpers and the clock owe nothing. `fan_core`,
`blocked_file`, `channel_block` and the `vfs` runs
check for deadlock; the other runs may stop (their clocks and bounds end every
behaviour) and say CHECK_DEADLOCK FALSE.

| Run | Question | Bounds, and why they are enough |
|---|---|---|
| `session_life` | Do counters count the window, and do the caps behave? | 4 messages of 8 kinds, 5 ticks, windows of 2 and 3 ticks: they roll together, apart and in a burst; weights make two or three operations decide |
| `session_table` | Is the table the bounded map? | 3 slots, 4 keys that collide, 4 ticks: wrap-around, eviction into foreign slots, all slots blocked |
| `daemon_evidence` | Does an event id stand for one session, and do the lists agree? | 2 attackers and a bystander over 2 slots, two days, windows of 1 and 2 ticks, restarts; auto lists of 2 |
| `daemon_lists` | Whom does the blocked file deny, is a verdict complete, and what takes it out of policy.json? | 3 sessions over 2 slots, an edit of policy.json, console requests that add a network and remove an address, reload, restart, unblock, an auto list of 1, blocked-file writes that fail |
| `vfs_strict` | Does strict mode keep originals, and is BACKED_UP true? | one file, one other name, one client, opens backed up at once and opens that leave it to the first write or truncation; backups fail at open and unlink |
| `vfs_crashes` | What do concurrent workers do to the store? | two workers (symmetric) that open, create and rename files, permissive mode, failing backups and workers that die |
| `recover_crash` | Can a killed or repeated restore lose or lie? | two files, one event, every call may fail, a kill at any step, any number of restores |
| `fan_core` | Is every open answered and every directory marked, are originals kept and counted once? | a monitored path that appears after the start, with a directory below it and a file in each; a client with one open, the daemon's own scans, two reloads among three policies (one without channels, one that lists the client), pipe and notification queue of one, failing backups, one tick in a window of one; both keys of a file share a bucket |
| `blocked_file` | Are locked requests atomic, do they end, is a cache that passes for current current? | the daemon (execute, start), recover (unblock), one console request, one worker; three addresses, two of them listed at the start, 4 requests, 2 ticks: two changes at one mtime and at two; every call may fail and every process be killed |
| `channel_block` | Who dies for an event, and is the task saved first? | 2 pids, 3 processes: a successor on the pid, a child, both; 2 blocked events: two reapers at once, a task blocked again; fork failures and crashes. The 256 pids a tree kill remembers are 1 here, and the tree is never larger |

`MayFail` and the messages of a run are part of its question. Where a property
would fail under a wider choice, that is a behaviour of the code and is listed
below; it is not hidden by the bound.

Two runs are expected to be violated: each states what a comment or a document
says of the program, and TLC shows a behaviour of the code that does otherwise.
`findings` in `PROJECT.json` quotes the lines.

- `vfs_race` (`OriginalsSurvive`): a worker overwrites a file while another
  worker's copy of it is incomplete.
- `channel_hang` (`NeverBlocksForever`): neo-croner closes its output and does not
  exit; the main thread waits for it in `waitpid` for ever and takes no further
  event, though the comment at `gfrguardd_cloud.c:226` has every hang end in SIGKILL.
  Two pids, one event and one task suffice, and nothing else fails.

### Other behaviours met while modelling

The models have these behaviours, and they have no run of their own. Paths are below `src/`.

- `daemon/gfrguardd_main.c:608`, `:681`: the long window closes the event in the
  middle of a message; a verdict on that message calls `restore_trigger_auto`
  with an empty id and restores nothing (architecture_v2.md:520 has the verdict
  followed by the restore). `VerdictIsComplete` speaks of a session that still
  has its event.
- `daemon/gfrguardd_main.c:455`, `gfrguardd_fanotify.c:851`: files of the cloud channel
  are copied to `backups/cloud/` and recorded under the name of their task, where
  no restore finds them ("skip the record rather than restore from the wrong
  place" is the comment at `main.c:459`): with `Source <- Cloud` in `FanCore.cfg` TLC
  violates `IndexedIsStored`. `fan_core` checks it for the FTP channel, whose
  share name is its backup directory; with an FTP or local path that itself
  contains `/ftp/` or `/local/` (`Embedded`) it fails there too.
- `web/app.py:45`: a verdict that the daemon persists between the console's load
  and save is lost, and the restart that follows makes the daemon forget it;
  `rguard_config.c:680` writes the file atomically, the console in place.
- `web/app.py:204`: "auto del ip from blacklist when unblock session" never finds
  one: a line of the blocked file has no "@", so `curr_ip` is empty; and verdicts
  are objects, which a comparison with a string never matches (`:407`), so a request
  to remove one changes nothing, although `rguard_config.c:595` has verdicts and
  admin entries "both removable". The address is denied again by the next
  rebuild. The model has this (`Edited`), and `VerdictsAreKept` does not ask for it: it
  lets a request for the removal of a verdict take it out.
- `web/app.py:69`: `write_blocked` takes no lock and shares the name of the
  temporary file with `write_atomic`: an update it overlaps may be lost or half of it
  put in place ("Atomically write blocked list" is its docstring).
- `vfs_gfrguard.c:142`: two changes within the granularity of the file system's
  clock have one mtime, and a worker that read the first never reads the second
  ("atomic rename which always changes ctime/mtime"); `:159`: a list that grew
  between `stat` and `read` is cut for one check.
- `daemon/gfrguardd_ftp.c:361`, `gfrguardd_cloud.c:186`: a reaper kills by pid, half
  a second or two seconds later, whoever has the pid then; between the look and
  the first signal the same may happen. `AimIsTrue` speaks of reuse before the
  look. The cloud channel does not look at the start time at all, although its
  helpers may take ten seconds.
- `gfrguardd_local.c:79`, `:112`: for a process that is gone the start time is 0, which
  disables the check: a successor on the pid is killed, whitelisted or not. For
  an event with pid 0 `kill(0, SIGKILL)` ends the daemon's own process group.
- `gfrguardd_cloud.c:373`: a query that times out is followed by the delete all the
  same, and the configuration is gone; so is one edited in between. The root
  lives for two seconds after the first block, every event of it blocks again,
  finds no task and inserts an empty row, and `db_get_cloud_task_config` returns
  the latest row (`rguard_db.c:560`).
- `gfrguardd_cloud.c:173`: without a reaper only the root is killed. `cloud.c:9`
  names a command, `gfrguard-recover cloud-restore`, that does not exist.
- `daemon/gfrguardd_session.c:93`: a session blocked because of its *user name* is
  appended to the blocked file only; the next rebuild drops it, and `is_blocked`
  keeps the daemon from appending it again.
- `recover/gfrguard_recover.c:264`: a second restore of an event that deleted a
  file and created one of the same name quarantines the original that the first
  one brought back.
- `daemon/gfrguardd_fanotify.c:417`: a reload flushes the marks before it sets them
  again, so opens in between pass without a backup; the comment at `main.c:188`
  has the kernel queue them.
- `gfrguardd_fanotify.c:507`: the permission path does not leave out the daemon's
  own opens (the notification path does, `:739`). A scan of an FTP file
  is a risky open of the session the daemon itself resolves to, is backed up,
  and queues an event that may scan again until the gate stops it. Two files
  whose keys share a bucket keep each other going, which is why the instance
  gives the daemon a bucket of its own for one of its files.
- `gfrguardd_fanotify.c:481`: the thread looks at `g_perm_quit` only when its queue
  is empty; a reload waits for that.
- `gfrguardd_fangate.c:37`: the gate has recorded an event as sent when a full pipe
  drops it (`fanotify.c:579`). A pipe that blocked instead would deadlock with
  the main thread's scan (TLC finds the deadlock).
- `gfrguardd_fanotify.c:394`: a channel is pending until its walk is over, so opens
  below directories already marked are allowed without a backup; the same holds
  between `mkdir` and its notification.
- `daemon/gfrguardd_main.c:640`: a file created by the first message after the
  long window is recorded under no event; no restore finds it.
- `main.c:546`: a scan is skipped for a hit that the roll of the window then
  forgets, so "further scans cannot change the score" does not hold there.
- `main.c:571`: a YARA hit has a weight and does not force CRITICAL
  (`scorer.c:73` says so; the comment in main.c does not).
- `scorer.c:104`: with `critical` <= 60, which `config_load` accepts, delete-only
  sessions become critical (architecture_v2.md:468 wants it validated).
- `scorer.c:106`, `:124`: the two caps can make a session *safer* by what it does
  next. With `high` > 60, which `config_load` accepts, the first delete of a session
  that only touched directories puts the cap of 60 on it and takes it from HIGH to
  SUSPICIOUS; with content weights that reach `critical` by themselves, the first
  operation of a CRITICAL session gives it one dimension, whose cap is
  `critical` - 1. The default settings exclude both, and `ActivityNeverSafer` is
  proved from exactly that.
- `main.c:234`: VFS_BLOCKED rewrites the status of the session's event, also
  from blocked_ransom or resolved to blocked_ip, and also when it is read after
  the address was unblocked.
- `main.c:155`: an event id sequence that cannot be read after a restart starts
  at 0; ids of the day are given out again. `EvidenceOfOneSession` assumes an
  index that answers.
- `main.c:667`, `rguard_config.c:264`: a verdict persisted behind
  RGUARD_WHITELIST_MAX entries is pardoned by the next reload.
- `main.c:675`: after a restart persisted verdicts are manual entries in memory;
  at the cap the file evicts and memory does not. Hence `LockstepUntilFull`.
- `main.c:190`: an auto entry whose persisting failed is forgotten by a reload
  (design.md:434 promises a carry-over).
- `main.c:394`: a blacklisted client of a module without source_type is marked
  blocked and never denied.
- `vfs_gfrguard.c:423`: in strict mode a write refused for a failed *deferred*
  backup succeeds when it is repeated. Hence
  `vfs_strict` lets backups fail at open and unlink only.
- `vfs_gfrguard.c:673`: O_APPEND | O_TRUNC without O_CREAT is not risky, and the open
  truncates the file without a backup ("O_TRUNC always destroys data, so
  create_trunc overrides append_only" is the comment above it); `:603`: so does a
  truncating reopen through /proc, whose path is not known yet.
- `vfs_gfrguard.c:963`: a rename over a file destroys it without a backup, which
  is why the strict runs have no renames.
- `vfs_gfrguard.c:385`: the torn backup of a worker that died is taken for the
  first copy.
- `vfs_gfrguard.c:776`: a blocked client goes on writing through an untracked
  handle; `:803`: permissive mode reports a handle more than once.
- `recover/gfrguard_recover.c:222`, `:234`: two restores of an event, one of them
  killed, or a client that writes between copy and removal, lose an original.
  `NothingLost` is checked for one restore at a time.
- `gfrguard_recover.c:127`: `quarantine_unique` gives up at `.99`, and the move then
  overwrites that copy ("must never silently overwrite an earlier copy" is its
  comment). The quarantine of `Recover` is a set without this limit: `NothingLost`
  holds as long as no file of an event was moved there a hundred times.
- `gfrguard_recover.c:157`: a created file that was changed later is brought back
  by the restore that removed it (a TODO in the code).

## Proofs

Every safety property of the passing runs is also a theorem: invariants, action
properties and the two refinements, for every value of the constants (any number
of slots, workers, files, processes, addresses, events, clock ticks). The
assumptions on the constants are the ASSUMEs of the modules (`SessionAssumption`,
`TableAssumption`, `LifeAssumption`, `DaemonAssumption`, `VfsAssumption`,
`RecoverAssumption`, ...), which TLC evaluates in the runs. Where a theorem has
further hypotheses they are named below; each is there because the code needs it
(without it the property is false and TLC shows how), and the instance of the
run satisfies it unless said otherwise. `theorems` in `PROJECT.json` lists the
results with the properties they state.

**SessionTableProofs** (any number of slots, any keys, any hash).
`TableTypes`, `OneSessionPerKey`, `SessionsAreFound`, `CountIsRight`,
`BlockedSessionsStay`, `TableIsMap`. The inductive invariant is
`TableInv == TypeOK /\ UniqueKeys /\ Reachable`. `UniqueKeys` is not inductive by
itself: a lookup creates a second slot for a key if a free slot lies before the
first, which `Reachable` excludes. `Reachable` is kept because slots are never
freed one by one, and an eviction happens only when all slots are in use, when
every slot is on everyone's probe path (modular arithmetic: `Probe` is onto
`Slots`). `CountIsExact` follows with the cardinality theorems for finite sets.
For `TableIsMap` each action is one of `SessionMap` or leaves the map as it is: a
lookup that hits, creates or evicts is the map's, because `UniqueKeys` makes the
slots a function of the key, and the slot the scan evicts holds an oldest
session among those not blocked.

**SessionLifeProofs** (any messages, windows and valid settings). `LifeTypes` and
`ScoredFresh` need nothing more. `CountersAreRight` assumes that a `uint32_t` can
count the messages (`MaxMsgs <= UINT32_MAX`; counters saturate beyond). Its
invariant adds `Paced`: every entry of the history lies within a window length of
the windows' starts, and a window that has not begun has an empty history. Without
it a roll could leave old messages inside the new window. `ActivityNeverSafer`
assumes besides `thresholds.high <= 60` and content weights below
`thresholds.critical` (see "Other behaviours"); it goes through three monotonicity
lemmas, for the weighted sum (`SumGrows`), the caps (`CapGrows`) and the level
(`LevelGrows`).

**DaemonProofs** (any messages, policies, edits, console requests, restarts).

- `DaemonTypes`, `ListedAreDenied`: whatever fails.
- `NobodyWronglyDenied`: the rebuild of the blocked file does not fail. A failed one
  leaves pardoned addresses in it.
- `EvidenceIsApart`: an index that answers (no failing `event_row` and `seq_read`).
  `EvidenceInv` adds `CounterIsAhead`: no id of the counter's day is beyond the
  counter. It makes the next id free, over day changes and restarts.
- `VerdictsAreComplete`: the calls a verdict makes do not fail. A step property,
  from the types and `EvidenceInv`.
- `VerdictsKept` (what main.c:667 says of a persisted verdict): no policy.json that is put in place by hand has an address twice
  among its verdicts (`NoTwins` is the invariant): only then AUTO_MAX verdicts are
  AUTO_MAX addresses and the oldest one gives way.
- `ListsInLockstep`: the daemon alone writes policy.json, its writes succeed, and
  manual entries leave room for AUTO_MAX verdicts (`DaemonOnly`). `LockstepInv` says
  that file and memory hold the same verdicts until one of them is full.

**VfsProofs** (any workers, names, inodes). `VfsTypes`, `OneWorkerCopies` and
`FirstCopyStays` hold whatever fails and dies: every step is a `StoreStep`, which
only creates a backup where there was none, or completes or removes the one its
worker copies. `AloneIsTruthful` is for one worker that does not die (`Alone`);
`Honest` says that a half-written backup has a copier and an "ok" a complete
backup. `StrictKeepsOriginals` is the promise of strict mode, for a client that is
alone, does not rename, whose backups fail at open and unlink only, and whose
truncating opens are seen by `openat` (`StrictClient`). Its invariant `Sheltered`
says for every name that the original is in the store, or untouched and not yet
copied; for a handle, that "backed up" means so and that an untracked one can only
append; and for a callback past its backup, that what it is about to destroy is
safe. TLC violates the property when any of the conditions is dropped.

**RecoverProofs** (any files, events and restores). `RecoverTypes` holds always.
`SerialRestoresLoseNothing` and `SerialRestoresBringBack` are for restores that run
one at a time (`OneAtATime`) while no client writes (`Undisturbed`), killed or
failing at any step: `restore_one` removes the backup after its copy without looking
again (`gfrguard_recover.c:222`, `:234`), so both are needed. `OneRestore...` derive
them for one process and one event, the instance of `recover_crash`. The invariant
is `DataInv` (an original is in the share, the store or the quarantine; a row that
says restored is of a file that is back; rows of a running event are pending) and
`ProcInv` (what each stage of a restore has still in hand and in the index).

**FanotifyProofs** (any tree, clients, channels, reloads, queue limits).
`FanotifyTypes` rests on `Inv`, which is in parts by variable: the marks, the opens
that wait (each is queued or in the thread's hands once), the phases of a reload in
which there is no thread, the queues, the gate, the store. `NothingWronglyHeld` adds
that an entry of the gate is not later than the history (`Entered`);
`CountedOnceAWindow` that a key alone in its bucket is remembered (`Remembered`), for
channels with a window (a window of 0 switches the gate off). `OriginalsAreKept` adds
`Kept`: a file with a backup is *safe*, i.e. the store has its original or a bare
handle has written it, since a backup may be made late and is never made again.
`RowsNameBackups` is for channels without cloud tasks and paths that do not
repeat their share's name (`PlainPaths`); the others are described above.

**BlockedFileProofs** (any writers, consoles, workers, addresses; every call fails,
everyone is killed). `BlockedFileTypes`, `ChecksAreCurrent`, `ListImplemented`, no
further hypotheses. `FileInv` says what each request knows at its stage (`Fits`), that
the lock holder is the only writer in its section, and that one whom no console has
met is `Ready`: its buffer or temporary file is the effect of its request on the list
*as it is now*, which makes the rename the one step in which the request happens.
`CacheInv` says that a cache is never from the future and that an mtime which has
occurred once names one content. What `LinesWithout`, a recursive function, returns
is shown by the least position at which the claim would fail.

**ChannelBlockProofs** (any pids, processes, events, reapers). `ChannelTypes`,
`KillsAreAimed`; `AimInv == TypeOK /\ StagesFit /\ AimIsTrue`, where `StagesFit` is what
the stages know of each other (only the cloud channel comes without a start time,
and whoever forks a reaper has seen the process). `SavedBeforeDeleted` assumes that
writing the task's row does not fail: after a failure the code deletes all the same.

Only model-checked: the liveness properties (`PermAnswered`, `DirsMarked`,
`WritersFinish`, `DoomedDie`), which are outside what the prover can do, as is
anything with ENABLED or an induction over data; and the two properties of
the runs that are expected to be violated, on their instances.

## Not modelled

On the fanotify side: how the channels read a process's identity from /proc
(`resolve` is what they return); the permission thread's own use of `local_kill`
(same code, on a process that waits in its open); zombies and their reaping; in
`Fanotify`, blocks and kills (clients may stop at any time there); notifications of created, deleted and renamed files,
which only feed `process_msg`; monitored paths that are single files, on several
file systems, or removed again; paths too long to resolve; marks refused with
ENOSPC; a permission thread that fails to start twice.

Elsewhere: what YARA and entropy compute (inputs of `Analysis`); the parsing of
policy.json beyond the blacklist, and the console's requests for other settings and the validation of scores and windows; the
datagram's layout; logging; space checks; vendored cJSON.

## Plan

Done: all modules of the table above, with proofs of the safety properties that the
passing runs check.

1. Weaker hypotheses where the code allows them: `NobodyWronglyDenied` with failing
   rebuilds, for addresses that were never pardoned; `StrictKeepsOriginals` for several
   clients that use different files; `SavedBeforeDeleted` for tasks whose row was
   written before.
2. Larger instances of `ChannelBlock` (a tree larger than the array, the permission
   thread) and of `BlockedFile` (two console requests).
