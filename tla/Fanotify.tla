------------------------------ MODULE Fanotify ------------------------------
(***************************************************************************)
(* The fanotify side of the daemon (gfrguardd_fanotify.c, _fanchannel.c,   *)
(* _fangate.c): the processes that open files under the monitored paths    *)
(* and wait in the kernel for an answer, the permission thread that backs  *)
(* a file up before it answers, and the main thread, which marks the       *)
(* directories, reads the notifications and the events the permission      *)
(* thread queues, opens files itself to scan them, and rebuilds everything *)
(* on SIGHUP while the permission thread is stopped.                       *)
(*                                                                         *)
(* A directory is named with the set of its ancestors.  All monitored      *)
(* paths are directories of one file system.  The kernel (queues, marks,   *)
(* merging of events) is modelled from how the code uses it.               *)
(***************************************************************************)
EXTENDS Naturals, Sequences, FiniteSets

CONSTANTS Clients, Main,    \* processes that open files; the daemon's own
          Dirs, Above,      \* directories; Above[d]: d and its ancestors
          Files, Home,      \* files; the directory each one is in
          Channels, Root,   \* monitored paths; the directory each one names
          Source,           \* channel -> "ftp", "cloud" or "local"
          Embedded,         \* <<share, f>>: the path of f has "/share/" in it
          Session,          \* process -> session key, NoSession: whitelisted
          Slots, Slot,      \* gate buckets; the bucket of each gate key
          Window,           \* channel -> its scoring window
          First, Policies,  \* policies [chans, listed]: at the start, on reloads
          BackupMayFail, PipeLimit, QueueLimit,
          MaxOpens, MaxReloads, MaxTime,
          NoSession, NoChannel, NoEntry, Never

Procs    == Clients \cup {Main}
Sessions == {Session[p] : p \in Procs} \ {NoSession}
Keys     == Sessions \X Files

\* An open file, or none.  wait: in the kernel, for an answer.  has: opened
\* after a backup was made or found.  bare: opened with no backup.
Idle    == [st |-> "idle"]
Handles == {Idle} \cup [st : {"wait", "has", "bare"}, file : Files]

\* What the kernel tells the main thread, and the permission thread queues
\* for it; an entry of the gate; what the permission thread is doing.
Notices == [op : {"write"}, proc : Procs, file : Files]
              \cup [op : {"newdir"}, dir : Dirs] \cup [op : {"overflow"}]
Queries == [chan : Channels, proc : Procs, file : Files, backed : BOOLEAN]
Entries == [key : Keys, last : Nat]
Threads == [at : {"poll", "drain", "off"}]
              \cup [at : {"handle", "answer"}, proc : Procs, deny : BOOLEAN,
                    chan : Channels \cup {NoChannel}, backed : BOOLEAN]

ASSUME FanotifyAssumption ==
    /\ Main \notin Clients /\ NoChannel \notin Channels
    /\ Never \notin Nat /\ NoEntry \notin Entries
    /\ Above \in [Dirs -> SUBSET Dirs] /\ \A d \in Dirs : d \in Above[d]
    /\ Home \in [Files -> Dirs] /\ Root \in [Channels -> Dirs]
    /\ \A c1, c2 \in Channels : Root[c1] = Root[c2] => c1 = c2
    /\ Source \in [Channels -> {"ftp", "cloud", "local"}]
    /\ Slot \in [Keys -> Slots] /\ Window \in [Channels -> Nat]
    /\ Policies \cup {First} \subseteq [chans : SUBSET Channels, listed : SUBSET Sessions]
    /\ BackupMayFail \in BOOLEAN
    /\ {PipeLimit, QueueLimit} \subseteq Nat \ {0}
    /\ {MaxOpens, MaxReloads, MaxTime} \subseteq Nat

VARIABLES dirs, dirty, bare, proc,         \* the system being watched
          marks, permq, notifyq,           \* the kernel's side of fanotify
          policy, chan, gate, pipe,        \* shared by the two threads
          thread, quit,                    \* the permission thread
          store, index,                    \* backups, protected_files rows
          at, back, ready, jobs, todo,     \* the main thread
          current, rewalk,
          opens, reloads, now, sent, asked \* budgets, time and history

watched == <<dirs, dirty, bare, proc>>
kernel  == <<marks, permq, notifyq>>
shared  == <<policy, chan, gate, pipe, sent, asked>>
perm    == <<thread, quit, store>>
main    == <<at, back, ready, jobs, todo, current, rewalk>>
limits  == <<opens, reloads, now>>
vars    == <<watched, kernel, shared, perm, main, index, limits>>

Open(st, f) == [st |-> st, file |-> f]
Poll == [at |-> "poll"]

\* The daemon has started, and the monitored paths do not exist yet.
Init == /\ policy = First /\ dirs = {} /\ marks = {}
        /\ chan = [c \in Channels |-> IF c \in policy.chans THEN "pending" ELSE "off"]
        /\ dirty = {} /\ bare = {} /\ store = {} /\ index = {}
        /\ proc = [p \in Procs |-> Idle]
        /\ permq = <<>> /\ notifyq = <<>> /\ pipe = <<>>
        /\ gate = [s \in Slots |-> NoEntry]
        /\ thread = Poll /\ quit = FALSE
        /\ at = "wait" /\ back = "wait" /\ ready = {} /\ jobs = {}
        /\ todo = {} /\ current = NoChannel /\ rewalk = FALSE
        /\ opens = 0 /\ reloads = 0 /\ now = 0
        /\ sent = [k \in Keys |-> Never] /\ asked = "fine"

-----------------------------------------------------------------------------
(* Channels, identities, the gate and the pipe                             *)

\* find_channel: the active channel with the longest path above d
find_channel(d) ==
    LET match == {c \in Channels : chan[c] = "on" /\ Root[c] \in Above[d]}
        best  == {c \in match : \A b \in match :
                    Cardinality(Above[Root[b]]) <= Cardinality(Above[Root[c]])}
    IN  IF best = {} THEN NoChannel ELSE CHOOSE c \in best : TRUE

\* ops->resolve: cloud_resolve knows rclone processes only, local_resolve
\* skips whitelisted programs, of which the daemon is one, and ftp_resolve
\* gives the daemon a session like any other process.
resolve(c, p) ==
    IF Source[c] \in {"cloud", "local"} /\ p = Main THEN NoSession ELSE Session[p]

\* scorer_is_blacklisted; while the main thread copies the new policy over
\* the old one, what the permission thread reads is anybody's guess.  The
\* store and the windows are read there too; no policy of the model changes them.
Listed(s) == IF at = "swap" THEN BOOLEAN ELSE {s \in policy.listed}

\* Where the backup of f goes (fanotify_do_backup), and where the row that
\* process_msg writes says it is: the share of a cloud event is its task.
Share(c) == IF Source[c] = "cloud" THEN "task" ELSE Source[c]
BackupPath(c, f)  == <<Source[c], "path", f>>
IndexedPath(c, f) == <<Share(c), IF <<Share(c), f>> \in Embedded
                                 THEN "tail" ELSE "path", f>>

\* Mutant: the key of the slot is not compared.
Suppress_BySlot(k, w) ==
    gate[Slot[k]] # NoEntry /\ now - gate[Slot[k]].last < w

\* Mutant: the window ends a second early.
Suppress_Early(k, w) == /\ gate[Slot[k]] # NoEntry
                        /\ gate[Slot[k]].key = k
                        /\ now - gate[Slot[k]].last + 1 < w

\* fangate_allow, under the gate's mutex: does it hold the event back?
Suppress(k, w) == /\ gate[Slot[k]] # NoEntry
                  /\ gate[Slot[k]].key = k
                  /\ now - gate[Slot[k]].last < w

Recent(k, w) == sent[k] # Never /\ now - sent[k] < w
Alone(k)     == \A j \in Keys : Slot[j] = Slot[k] => j = k

\* fanotify_gate_allow with the history of what it let through
GateAsked(k, w) ==
    IF Suppress(k, w)
    THEN /\ asked' = IF Recent(k, w) THEN "fine" ELSE "lost"
         /\ UNCHANGED <<gate, sent>>
    ELSE /\ asked' = IF Recent(k, w) /\ Alone(k) THEN "again" ELSE "fine"
         /\ gate' = IF w > 0 THEN [gate EXCEPT ![Slot[k]] = [key |-> k, last |-> now]]
                    ELSE gate
         /\ sent' = [sent EXCEPT ![k] = now]

\* The kernel's notification queue: full, it takes one overflow event more.
Notified(event) ==
    IF Len(notifyq) < QueueLimit THEN Append(notifyq, event)
    ELSE IF Len(notifyq) = QueueLimit THEN Append(notifyq, [op |-> "overflow"])
    ELSE notifyq

-----------------------------------------------------------------------------
(* The processes of the system                                             *)

\* open(2): FAN_OPEN_PERM if the file's directory is marked
OpenFile(p, f) ==
    /\ proc[p] = Idle /\ Home[f] \in dirs /\ opens < MaxOpens
    /\ opens' = opens + 1
    /\ IF Home[f] \in marks
       THEN /\ proc' = [proc EXCEPT ![p] = Open("wait", f)]
            /\ permq' = Append(permq, p)
       ELSE /\ proc' = [proc EXCEPT ![p] = Open("bare", f)]
            /\ UNCHANGED permq
    /\ UNCHANGED <<dirs, dirty, bare, marks, notifyq, shared, perm, main, index,
                   reloads, now>>

\* Write and close: the kernel merges the two notifications into one.
Save(p) ==
    /\ proc[p].st \in {"has", "bare"}
    /\ LET f == proc[p].file IN
       /\ dirty' = dirty \cup {f}
       /\ bare' = IF proc[p].st = "bare" THEN bare \cup {f} ELSE bare
       /\ notifyq' = IF Home[f] \in marks
                     THEN Notified([op |-> "write", proc |-> p, file |-> f])
                     ELSE notifyq
    /\ proc' = [proc EXCEPT ![p] = Idle]
    /\ UNCHANGED <<dirs, marks, permq, shared, perm, main, index, limits>>

Release(p) ==
    /\ proc[p].st \in {"has", "bare"}
    /\ proc' = [proc EXCEPT ![p] = Idle]
    /\ UNCHANGED <<dirs, dirty, bare, kernel, shared, perm, main, index, limits>>

\* mkdir, or a tree moved in from outside: a notification for its top only
NewDirs(new, d) ==
    /\ d \notin dirs /\ Above[d] \ {d} \subseteq dirs
    /\ dirs' = dirs \cup new
    /\ notifyq' = IF \E e \in marks : Above[d] = Above[e] \cup {d}
                  THEN Notified([op |-> "newdir", dir |-> d]) ELSE notifyq
    /\ UNCHANGED <<dirty, bare, proc, marks, permq, shared, perm, main, index, limits>>

Mkdir(d)  == NewDirs({d}, d)
MoveIn(d) == NewDirs({e \in Dirs : d \in Above[e]}, d) /\ \E e \in Dirs \ {d} : d \in Above[e]

Tick == /\ now < MaxTime /\ now' = now + 1
        /\ UNCHANGED <<watched, kernel, shared, perm, main, index, opens, reloads>>

-----------------------------------------------------------------------------
(* The permission thread                                                   *)

\* perm_thread_fn: the queue is readable, or the thread is told to stop
ThreadWakes ==
    /\ thread = Poll
    /\ \/ permq # <<>> /\ thread' = [at |-> "drain"]
       \/ quit /\ thread' = [at |-> "off"]
    /\ UNCHANGED <<watched, kernel, shared, quit, store, main, index, limits>>

Handling(stage, p, c, deny) ==
    [at |-> stage, proc |-> p, chan |-> c, deny |-> deny, backed |-> FALSE]

\* Mutant: nothing is read while no channel is registered.
Drained_ZeroChannels == permq = <<>> \/ \A c \in Channels : chan[c] = "off"

\* fanotify_drain_perm reads on until the queue is empty, channels or not.
Drained == permq = <<>>

\* With no channel or no session for it, an open is allowed as it is.
DrainPerm ==
    /\ thread.at = "drain"
    /\ IF Drained
       THEN thread' = Poll /\ UNCHANGED permq
       ELSE /\ permq' = Tail(permq)
            /\ LET p == Head(permq)
                   c == find_channel(Home[proc[p].file])
               IN  IF c = NoChannel \/ resolve(c, p) = NoSession
                   THEN thread' = Handling("answer", p, NoChannel, FALSE)
                   ELSE \E deny \in Listed(resolve(c, p)) :
                          thread' = Handling("handle", p, c, deny)
    /\ UNCHANGED <<watched, marks, notifyq, shared, quit, store, main, index, limits>>

\* fanotify_do_backup: O_EXCL keeps the first copy, a failed one is removed.
HasBackup(b) == \E x \in store : x[1] = b
Copy(b, f)   == <<b, IF f \in dirty THEN "changed" ELSE "original">>

\* Mutant: the copy is opened with O_TRUNC instead of O_EXCL.
Stored_Replaces(b, f) == {x \in store : x[1] # b} \cup {Copy(b, f)}

Stored(b, f) == IF HasBackup(b) THEN store ELSE store \cup {Copy(b, f)}

\* Mutant: the flag is set whatever the backup returned.
BackedUp_Always(ok) == TRUE

\* RGUARD_FLAG_BACKED_UP, or else RGUARD_FLAG_BACKUP_FAILED
BackedUp(ok) == ok

\* Mutant: the pipe takes any number of events.
Queued_Unbounded(event) == pipe' = Append(pipe, event)

\* fanotify_queue_event: the pipe does not block, a full one drops the event.
Queued(event) == pipe' = IF Len(pipe) < PipeLimit THEN Append(pipe, event) ELSE pipe

\* fan_channel_handle of an open: the backup, unless it is denied, and its
\* event through the gate.
HandlePerm ==
    /\ thread.at = "handle"
    /\ LET p == thread.proc
           c == thread.chan
           f == proc[p].file
           b == BackupPath(c, f)
           k == <<resolve(c, p), f>>
       IN  \E ok \in IF BackupMayFail THEN BOOLEAN ELSE {~thread.deny} :
             /\ thread.deny => ~ok
             /\ store' = IF ok THEN Stored(b, f) ELSE store
             /\ thread' = [thread EXCEPT !.at = "answer", !.backed = ok]
             /\ GateAsked(k, Window[c])
             /\ IF Suppress(k, Window[c]) THEN UNCHANGED pipe
                ELSE Queued([chan |-> c, proc |-> p, file |-> f,
                             backed |-> ~thread.deny /\ BackedUp(ok)])
    /\ UNCHANGED <<watched, kernel, policy, chan, quit, main, index, limits>>

\* write_fanotify_response; local_kill of a denied process ends its open too.
Answer ==
    /\ thread.at = "answer"
    /\ proc' = [proc EXCEPT ![thread.proc] =
                  IF thread.deny THEN Idle
                  ELSE Open(IF thread.backed THEN "has" ELSE "bare", @.file)]
    /\ thread' = [at |-> "drain"]
    /\ UNCHANGED <<dirs, dirty, bare, kernel, shared, quit, store, main, index, limits>>

PermThread == ThreadWakes \/ DrainPerm \/ HandlePerm \/ Answer

-----------------------------------------------------------------------------
(* The main thread                                                         *)

\* epoll_wait: what is readable, the 60 s timer among it or not
EpollWait(timer) ==
    /\ at = "wait" /\ at' = "serve"
    /\ ready' = (IF timer THEN {"timer"} ELSE {})
                  \cup (IF pipe # <<>> THEN {"pipe"} ELSE {})
    /\ UNCHANGED <<watched, kernel, shared, perm, back, jobs, todo, current,
                   rewalk, index, limits>>

\* Go through the channels cs, then to a stage of the main loop.
Setup(cs, stage) == /\ jobs' = cs
                    /\ IF cs = {} THEN at' = stage /\ back' = "wait"
                                  ELSE at' = "jobs" /\ back' = stage

\* fanotify_retry_pending_channels, on the timer
Timer ==
    /\ at = "serve" /\ "timer" \in ready
    /\ ready' = ready \ {"timer"}
    /\ Setup({c \in Channels : chan[c] = "pending"}, "serve")
    /\ UNCHANGED <<watched, kernel, shared, perm, todo, current, rewalk, index, limits>>

\* A scan opens the file, and waits for the permission thread if it is marked.
ScanOrReturn(f) ==
    \/ /\ Home[f] \in marks
       /\ proc' = [proc EXCEPT ![Main] = Open("wait", f)]
       /\ permq' = Append(permq, Main)
       /\ at' = "scan"
    \/ UNCHANGED <<proc, permq, at>>

ScanDone ==
    /\ at = "scan" /\ proc[Main].st # "wait"
    /\ at' = "serve" /\ proc' = [proc EXCEPT ![Main] = Idle]
    /\ UNCHANGED <<dirs, dirty, bare, kernel, shared, perm, back, ready, jobs, todo,
                   current, rewalk, index, limits>>

\* while (fanotify_process_queued() > 0): process_msg of a queued open, which
\* one of its gates stops (module Daemon), or which writes the row of the
\* backed-up file and may scan it.
ProcessQueued ==
    /\ at = "serve" /\ "pipe" \in ready
    /\ IF pipe = <<>>
       THEN /\ ready' = ready \ {"pipe"}
            /\ UNCHANGED <<at, proc, permq, pipe, index>>
       ELSE LET m == Head(pipe) IN
            /\ pipe' = Tail(pipe)
            /\ UNCHANGED ready
            /\ \/ UNCHANGED <<at, proc, permq, index>>
               \/ /\ resolve(m.chan, m.proc) \notin policy.listed /\ m.backed
                  /\ index' = index \cup {IndexedPath(m.chan, m.file)}
                  /\ ScanOrReturn(m.file)
    /\ UNCHANGED <<dirs, dirty, bare, marks, notifyq, policy, chan, gate, sent, asked,
                   perm, back, jobs, todo, current, rewalk, limits>>

\* fanotify_mark_tree_add: nftw calls mark_tree_cb on a directory, then reads
\* its entries, so that todo holds directories to mark and others to read.
Visit(d) == [do |-> "mark", dir |-> d]

\* fanotify_drain_notify.  A new directory is marked with all it holds; a
\* written file is one risky event through the gate, and a scan at its close.
\* With no channel registered nothing is read; an event is resolved with the
\* mount of an active channel.
NewDir(event) ==
    /\ event.op = "newdir"
    /\ at' = "walk" /\ back' = "serve" /\ todo' = {Visit(event.dir)}
    /\ UNCHANGED <<proc, permq, gate, sent, asked, rewalk>>

Written(event) ==
    /\ event.op = "write"
    /\ LET c == find_channel(Home[event.file])
           s == resolve(c, event.proc)
       IN  IF c = NoChannel \/ s = NoSession
           THEN UNCHANGED <<proc, permq, gate, sent, asked, at>>
           ELSE /\ GateAsked(<<s, event.file>>, Window[c])
                /\ IF s \in policy.listed THEN UNCHANGED <<proc, permq, at>>
                   ELSE ScanOrReturn(event.file)
    /\ UNCHANGED <<back, todo, rewalk>>

\* Mutant: an overflow is logged and nothing else.
Overflow_Forgotten(event) ==
    /\ event.op = "overflow"
    /\ UNCHANGED <<proc, permq, gate, sent, asked, at, back, todo, rewalk>>

Overflow(event) ==
    /\ event.op = "overflow" /\ rewalk' = TRUE
    /\ UNCHANGED <<proc, permq, gate, sent, asked, at, back, todo>>

Skip == UNCHANGED <<proc, permq, gate, sent, asked, at, back, todo, rewalk>>

DrainNotify ==
    /\ at = "serve" /\ ready = {} /\ notifyq # <<>> /\ \E c \in Channels : chan[c] # "off"
    /\ notifyq' = Tail(notifyq)
    /\ IF Head(notifyq).op # "overflow" /\ \A c \in Channels : chan[c] # "on"
       THEN Skip
       ELSE \/ NewDir(Head(notifyq))
            \/ Written(Head(notifyq))
            \/ Overflow(Head(notifyq))
    /\ UNCHANGED <<dirs, dirty, bare, marks, policy, chan, pipe, perm, ready, jobs,
                   current, index, limits>>

\* The queue is empty: after an overflow every active tree is walked again,
\* as soon as there is a channel.
NotifyDone ==
    /\ at = "serve" /\ ready = {}
    /\ \/ (\A c \in Channels : chan[c] = "off") /\ Setup({}, "wait") /\ UNCHANGED rewalk
       \/ /\ notifyq = <<>> /\ rewalk' = FALSE /\ \E c \in Channels : chan[c] # "off"
          /\ Setup({c \in Channels : rewalk /\ chan[c] = "on"}, "wait")
    /\ UNCHANGED <<watched, kernel, shared, perm, ready, todo, current, index, limits>>

\* channel_rt_activate of the next channel: pending while its path is missing
NextJob ==
    /\ at = "jobs"
    /\ \E c \in jobs :
         \/ /\ Root[c] \in dirs
            /\ at' = "walk" /\ todo' = {Visit(Root[c])} /\ current' = c
            /\ jobs' = jobs \ {c} /\ UNCHANGED <<back, chan>>
         \/ /\ Root[c] \notin dirs
            /\ chan' = [chan EXCEPT ![c] = "pending"]
            /\ Setup(jobs \ {c}, back) /\ UNCHANGED <<todo, current>>
    /\ UNCHANGED <<watched, kernel, policy, gate, pipe, sent, asked, perm, ready,
                   rewalk, index, limits>>

Children(d) == {e \in dirs \ {d} : Above[e] = Above[d] \cup {e}}

Walk ==
    /\ at = "walk" /\ todo # {}
    /\ \E step \in todo :
         \/ /\ step.do = "mark"
            /\ marks' = IF step.dir \in dirs THEN marks \cup {step.dir} ELSE marks
            /\ todo' = (todo \ {step}) \cup {[step EXCEPT !.do = "list"]}
         \/ /\ step.do = "list"
            /\ todo' = (todo \ {step}) \cup {Visit(e) : e \in Children(step.dir)}
            /\ UNCHANGED marks
    /\ UNCHANGED <<watched, permq, notifyq, shared, perm, at, back, ready, jobs,
                   current, rewalk, index, limits>>

\* pending = false
WalkDone ==
    /\ at = "walk" /\ todo = {}
    /\ IF current = NoChannel
       THEN UNCHANGED chan ELSE chan' = [chan EXCEPT ![current] = "on"]
    /\ current' = NoChannel /\ Setup(jobs, back)
    /\ UNCHANGED <<watched, kernel, policy, gate, pipe, sent, asked, perm, ready,
                   todo, rewalk, index, limits>>

-----------------------------------------------------------------------------
(* SIGHUP: daemon_reload, in the main thread                               *)

Reload ==
    /\ at = "wait" /\ reloads < MaxReloads
    /\ reloads' = reloads + 1 /\ at' = "swap"
    /\ UNCHANGED <<watched, kernel, shared, perm, back, ready, jobs, todo, current,
                   rewalk, index, opens, now>>

\* *policy = np is done; fanotify_stop_perm_thread
SwapPolicy ==
    /\ at = "swap" /\ at' = "join"
    /\ policy' \in Policies /\ quit' = TRUE
    /\ UNCHANGED <<watched, kernel, chan, gate, pipe, sent, asked, thread, store, back,
                   ready, jobs, todo, current, rewalk, index, limits>>

Join == /\ at = "join" /\ thread.at = "off" /\ at' = "flush"
        /\ UNCHANGED <<watched, kernel, shared, perm, back, ready, jobs, todo, current,
                       rewalk, index, limits>>

\* fanotify_reload_marks, then the setup of the channels of the new policy
ReloadMarks ==
    /\ at = "flush" /\ Setup(policy.chans, "start")
    /\ marks' = {} /\ chan' = [c \in Channels |-> "off"]
    /\ gate' = [s \in Slots |-> NoEntry]
    /\ sent' = [k \in Keys |-> Never] /\ asked' = "fine"
    /\ UNCHANGED <<watched, permq, notifyq, policy, pipe, perm, ready, todo, current,
                   rewalk, index, limits>>

\* fanotify_start_perm_thread, tried a second time when it fails once
StartThread ==
    /\ at \in {"start", "restart"} /\ quit' = FALSE
    /\ \/ thread' = Poll /\ at' = "wait"
       \/ at = "start" /\ at' = "restart" /\ UNCHANGED thread
    /\ UNCHANGED <<watched, kernel, shared, store, back, ready, jobs, todo, current,
                   rewalk, index, limits>>

MainThread ==
    \/ \E timer \in BOOLEAN : EpollWait(timer)
    \/ Timer \/ ProcessQueued \/ ScanDone
    \/ DrainNotify \/ NotifyDone \/ NextJob \/ Walk \/ WalkDone
    \/ SwapPolicy \/ Join \/ ReloadMarks \/ StartThread

System ==
    \/ \E p \in Clients : (\E f \in Files : OpenFile(p, f)) \/ Save(p) \/ Release(p)
    \/ \E d \in Dirs : Mkdir(d) \/ MoveIn(d)
    \/ Tick \/ Reload

Next == PermThread \/ MainThread \/ System

\* Both threads run; the periodic timer is never missed for good.
Spec == /\ Init /\ [][Next]_vars
        /\ WF_vars(PermThread) /\ WF_vars(MainThread)
        /\ SF_vars(EpollWait(TRUE))

-----------------------------------------------------------------------------
(***************************************************************************)
(* Types: marks are on existing directories, both queues keep their limit, *)
(* each open that waits is queued or being handled once, and the main      *)
(* thread has a file open only while it scans.                             *)
(***************************************************************************)
TypeOK ==
    /\ dirs \subseteq Dirs /\ marks \subseteq dirs
    /\ dirty \subseteq Files /\ bare \subseteq dirty
    /\ proc \in [Procs -> Handles] /\ permq \in Seq(Procs) /\ thread \in Threads
    /\ thread.at = "handle" => /\ thread.chan \in Channels
                               /\ resolve(thread.chan, thread.proc) # NoSession
    /\ \A i, j \in DOMAIN permq : permq[i] = permq[j] => i = j
    /\ \A p \in Procs : proc[p].st = "wait" <=>
          \/ \E i \in DOMAIN permq : permq[i] = p
          \/ thread.at \in {"handle", "answer"} /\ thread.proc = p
    /\ thread.at \in {"handle", "answer"} =>
          \A i \in DOMAIN permq : permq[i] # thread.proc
    /\ proc[Main].st # "idle" => at = "scan"
    /\ notifyq \in Seq(Notices) /\ Len(notifyq) <= QueueLimit + 1
    /\ pipe \in Seq(Queries) /\ Len(pipe) <= PipeLimit
    /\ gate \in [Slots -> Entries \cup {NoEntry}]
    /\ sent \in [Keys -> Nat \cup {Never}] /\ now \in Nat
    /\ store \subseteq {<<BackupPath(c, f), x>> : c \in Channels, f \in Files,
                                                  x \in {"original", "changed"}}

(***************************************************************************)
(* A file that was only changed through handles the permission thread let  *)
(* through after a backup has its original content in the store, whatever  *)
(* the daemon's own opens of it, reloads and the order of the threads.     *)
(***************************************************************************)
PreImagesKept ==
    \A f \in dirty \ bare :
        \E c \in Channels : <<BackupPath(c, f), "original">> \in store

(***************************************************************************)
(* What a row of protected_files names as the backup of a file is in the   *)
(* store: gfrguard-recover looks for it nowhere else.                      *)
(***************************************************************************)
IndexedIsStored == \A b \in index : HasBackup(b)

(***************************************************************************)
(* The gate holds an event back only if one of the same session and file   *)
(* went through within the window: "a bucket clash can only emit an extra  *)
(* event, never wrongly suppress one" (gfrguardd_fangate.h).               *)
(***************************************************************************)
SuppressedWasSent == asked # "lost"

(***************************************************************************)
(* Between reloads, a session's risky events on one file count once in a   *)
(* window, the open in the permission thread and the write in the main     *)
(* thread together, unless another key shares the bucket.                  *)
(***************************************************************************)
OnceAWindow == asked # "again"

(***************************************************************************)
(* Every open that waits in the kernel is answered, the main thread's own  *)
(* included: neither a full pipe, nor a reload, nor a reload that leaves   *)
(* no channel at all, leaves an opener hanging.                            *)
(***************************************************************************)
PermAnswered == \A p \in Procs : (proc[p].st = "wait") ~> (proc[p].st # "wait")

Watched(d) == \E c \in policy.chans : Root[c] \in Above[d]
Covered(d) == d \in marks /\ find_channel(d) # NoChannel

(***************************************************************************)
(* Every directory below a monitored path is marked sooner or later, if    *)
(* the path appeared after the start, if it came in a tree moved there,    *)
(* and if the notification of it was lost in an overflow.                  *)
(***************************************************************************)
DirsMarked ==
    \A d \in Dirs : (d \in dirs /\ Watched(d)) ~> (Covered(d) \/ ~Watched(d))
=============================================================================
