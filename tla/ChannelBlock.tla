---------------------------- MODULE ChannelBlock ----------------------------
(***************************************************************************)
(* How the fanotify channels stop the process behind an event once its     *)
(* session is blocked: gfrguardd_local.c kills it, gfrguardd_ftp.c asks it *)
(* to end and leaves the rest to a reaper child, and gfrguardd_cloud.c     *)
(* first saves and deletes the task in neo-croner and then does the same   *)
(* to the tree of processes.  A pid may be reused whenever its process has *)
(* ended, and helpers may hang, forks fail and the daemon crash between    *)
(* any two steps.                                                          *)
(*                                                                         *)
(* SIGTERM may end a process or not, and so may anything else (Exit): it   *)
(* leaves no trace of its own.  The start time of a process is its birth   *)
(* number.  There is one task in neo-croner, in versions.                  *)
(***************************************************************************)
EXTENDS Integers, FiniteSets

CONSTANTS Pids,         \* process ids the kernel hands out
          NoPid,        \* the 0 of an event whose process cannot be seen
          Free,         \* no process has the pid
          MaxPids,      \* 256: the descendants a tree kill remembers
          MaxBirths,    \* bound on the processes started
          MaxVersions,  \* bound on the versions of the task
          MaxEvents,    \* bound on the events of blocked sessions
          MayFail       \* "fork" of a reaper, "save" of a row, "crash"

ASSUME ChannelAssumption ==
    /\ NoPid \notin Pids
    /\ MaxPids \in Nat \ {0} /\ MaxBirths \in Nat /\ MaxVersions \in Nat
    /\ MaxEvents \in Nat
    /\ MayFail \subseteq {"fork", "save", "crash"}

Channels == {"cloud", "ftp", "local"}
Kinds    == {"rclone", "vsftpd", "plain"}

VARIABLES proc,     \* pid -> its process, or Free
          births,   \* processes started so far
          main,     \* what the daemon's main thread is at
          reapers,  \* the reaper children and what they are to kill
          task,     \* the version neo-croner has, or 0
          version,  \* the task's versions so far
          rows,     \* versions in cloud_task_configs
          events,   \* blocked events so far
          doomed    \* history: pids whose process is to die

kernel == <<proc, births>>
croner == <<task, version>>
plans  == <<events, doomed>>
vars   == <<kernel, main, reapers, croner, rows, plans>>

Idle == [at |-> "idle", ch |-> "local", pid |-> NoPid, start |-> 0,
         seen |-> 0, answer |-> 0, pids |-> {}]

proc_alive(p) == p \in Pids /\ proc[p] # Free

\* The daemon has decided to kill these too, and nobody dies twice.
Doom(new) == doomed' = {p \in doomed \cup new : p \in Pids /\ proc'[p] # Free}

Init == /\ proc = [p \in Pids |-> Free] /\ births = 0
        /\ main = Idle /\ reapers = {}
        /\ task = 0 /\ version = 0 /\ rows = {}
        /\ events = 0 /\ doomed = {}
-----------------------------------------------------------------------------
(* The kernel. *)

\* A process starts.  Only the trees of rclone are ever looked at: the parent
\* of another process is left out.
Start(p, up, kind) ==
    /\ proc[p] = Free /\ births < MaxBirths
    /\ up # NoPid => proc_alive(up) /\ proc[up].kind = "rclone" /\ kind = "rclone"
    /\ births' = births + 1
    /\ proc' = [proc EXCEPT ![p] = [born |-> births', up |-> up, kind |-> kind]]
    /\ UNCHANGED <<main, reapers, croner, rows, plans>>

\* Whoever ends leaves its children to init.
Without(p) == [q \in Pids |->
    IF q = p THEN Free
    ELSE IF proc[q] # Free /\ proc[q].up = p THEN [proc[q] EXCEPT !.up = NoPid]
    ELSE proc[q]]

Exit(p) ==
    /\ proc_alive(p) /\ proc' = Without(p)
    /\ Doom({})
    /\ UNCHANGED <<births, main, reapers, croner, rows, events>>

\* kill(p, SIGKILL): nothing happens when no process has the pid.
SIGKILL(p) == proc' = IF proc_alive(p) THEN Without(p) ELSE proc

\* An administrator adds or edits the task.
AddTask ==
    /\ version < MaxVersions
    /\ version' = version + 1 /\ task' = version'
    /\ UNCHANGED <<kernel, main, reapers, rows, plans>>
-----------------------------------------------------------------------------
(* fan_channel_handle, from the event to the channel's block. *)

At(stage)   == main.at = stage
Goto(stage) == main' = [main EXCEPT !.at = stage]
Done        == main' = Idle

\* The kernel reports what a process did; it may be gone when that is read.
Event(ch, p) ==
    /\ At("idle")
    /\ p # NoPid => proc_alive(p)
    /\ main' = [Idle EXCEPT !.at = "event", !.ch = ch, !.pid = p]
    /\ UNCHANGED <<kernel, reapers, croner, rows, plans>>

\* fan_proc_stat: the start time, or 0 when the process is gone.
fan_proc_stat(p) == IF proc_alive(p) THEN proc[p].born ELSE 0

\* A channel looks at what is its business.  For ftp and local a process
\* that is gone belongs to an unknown session; the whitelist of local has the
\* programs of the other two.
cloud_resolve(p) == proc_alive(p) /\ proc[p].kind = "rclone"
local_resolve(p) == proc_alive(p) => proc[p].kind = "plain"
ftp_resolve(p)   == TRUE

Resolves(ch, p) == CASE ch = "cloud" -> cloud_resolve(p)
                     [] ch = "ftp"   -> ftp_resolve(p)
                     [] ch = "local" -> local_resolve(p)

\* Where the block of a channel begins.
FirstStage(ch) == IF ch = "cloud" THEN "query" ELSE "check"

SameInstance ==
    main.start # 0 => fan_proc_stat(main.pid) = main.start

\* Mutant: a vsftpd process is as good as another.
Confirmed_AnyFtp ==
    LET p == main.pid
    IN  CASE main.ch = "ftp"   -> proc_alive(p) /\ proc[p].kind = "vsftpd"
          [] main.ch = "local" -> SameInstance
          [] main.ch = "cloud" -> proc_alive(p)

\* Mutant: a process that is gone passes for the one that is meant.
Confirmed_Gone ==
    LET p == main.pid
    IN  CASE main.ch = "ftp"   -> /\ proc_alive(p) => proc[p].kind = "vsftpd"
                                  /\ SameInstance
          [] main.ch = "local" -> SameInstance
          [] main.ch = "cloud" -> proc_alive(p)

\* The look each channel takes before it kills.
Confirmed ==
    LET p == main.pid
    IN  CASE main.ch = "ftp"   -> /\ proc_alive(p) /\ proc[p].kind = "vsftpd"
                                  /\ SameInstance
          [] main.ch = "local" -> SameInstance
          [] main.ch = "cloud" -> proc_alive(p)

\* The channel resolves who is behind the event, and process_msg scores it:
\* the session is blocked and the process is to die, or the event is done.
fan_channel_handle ==
    LET ch == main.ch
        p  == main.pid
    IN  /\ At("event")
        /\ \/ Done /\ UNCHANGED plans
           \/ /\ Resolves(ch, p)
              /\ events < MaxEvents /\ events' = events + 1
              /\ main' = [main EXCEPT
                     !.at = FirstStage(ch),
                     !.start = IF ch = "cloud" THEN 0 ELSE fan_proc_stat(p)]
              /\ UNCHANGED proc
              /\ Doom(IF Confirmed THEN {p} ELSE {})
        /\ UNCHANGED <<kernel, reapers, croner, rows>>

\* local_kill and ftp_block_execute: is it still the process of the event?
Check ==
    /\ At("check")
    /\ IF ~Confirmed THEN Done
       ELSE main' = [main EXCEPT
                !.at = IF main.ch = "ftp" THEN "fork" ELSE "kill",
                !.seen = IF main.start = 0 THEN 0 ELSE births]
    /\ UNCHANGED <<kernel, reapers, croner, rows, plans>>

\* kill(0, SIGKILL) is for every process of the daemon's own group.
local_kill ==
    /\ At("kill")
    /\ SIGKILL(main.pid)
    /\ IF main.pid = NoPid
       THEN Done /\ reapers' = {} /\ doomed' = {}
       ELSE Done /\ UNCHANGED reapers /\ Doom({})
    /\ UNCHANGED <<births, croner, rows, events>>
-----------------------------------------------------------------------------
(* cloud_block_task. *)

\* neo-croner prints the task, if there is one, and closes its output.
neo_croner_query ==
    /\ At("query")
    /\ main' = [main EXCEPT !.at = "reap", !.answer = task]
    /\ UNCHANGED <<kernel, reapers, croner, rows, plans>>

\* Mutant: the read of its output has no time limit.
QueryTimeout_Never == FALSE /\ UNCHANGED vars

\* Five seconds without output, or no helper at all.
QueryTimeout ==
    /\ At("query") /\ Goto("save")
    /\ UNCHANGED <<kernel, reapers, croner, rows, plans>>

\* Mutant: the task is deleted first and saved afterwards.
HelperExits_Deletes ==
    /\ At("reap") /\ Goto("save")
    /\ task' = 0 /\ UNCHANGED version
    /\ UNCHANGED <<kernel, reapers, rows, plans>>

\* The wait for the end of a helper that closed its output has no limit.
HelperExits ==
    /\ At("reap") /\ Goto("save")
    /\ UNCHANGED <<kernel, reapers, croner, rows, plans>>

\* A row is inserted whatever the answer was, though an empty one restores
\* nothing, and a failure is not noticed.
db_save_cloud_task_config ==
    /\ At("save")
    /\ \/ rows' = rows \cup ({main.answer} \ {0})
       \/ "save" \in MayFail /\ UNCHANGED rows
    /\ Goto("delete")
    /\ UNCHANGED <<kernel, reapers, croner, plans>>

\* A helper that hangs is killed after five seconds: when the wait is over it
\* has deleted the task or not.
rguard_wait_timeout == {task, 0}

neo_croner_delete ==
    /\ At("delete")
    /\ task' \in rguard_wait_timeout /\ UNCHANGED version
    /\ main' = [main EXCEPT !.at = "tree", !.answer = 0]
    /\ UNCHANGED <<kernel, reapers, rows, plans>>
-----------------------------------------------------------------------------
(* The tree of processes. *)

\* What collect_children may find below root, parents before children; of
\* too large a tree it keeps as many as it has room for.
Trees(root) == {S \in SUBSET (Pids \ {root}) :
    \A q \in S : proc[q] # Free /\ proc[q].up \in S \cup {root}}

collect_children(root) ==
    LET fit == {S \in Trees(root) : Cardinality(S) <= MaxPids}
    IN  {S \in fit : \A T \in fit : Cardinality(T) <= Cardinality(S)}

\* The descendants are collected and get a SIGTERM.
cloud_kill_process_tree ==
    LET p == main.pid
    IN  /\ At("tree")
        /\ \/ ~Confirmed /\ Done
           \/ /\ Confirmed
              /\ \E S \in collect_children(p) :
                    main' = [main EXCEPT !.at = "fork", !.pids = S]
        /\ UNCHANGED <<kernel, reapers, croner, rows, plans>>

\* What the child has a copy of.
Reaper == [pid |-> main.pid, start |-> main.start, seen |-> main.seen,
           pids |-> main.pids]

\* ftp_block_execute and cloud_kill_process_tree leave the grace period to a
\* child; when there is none they kill the process themselves.
ForkReaper ==
    /\ At("fork")
    /\ \/ reapers' = reapers \cup {Reaper} /\ UNCHANGED proc /\ Doom(main.pids)
       \/ /\ "fork" \in MayFail
          /\ SIGKILL(main.pid) /\ UNCHANGED reapers /\ Doom({})
    /\ Done
    /\ UNCHANGED <<births, croner, rows, events>>

\* The reaper kills whoever has the pids it was forked with, the root last.
Reap(r) ==
    /\ r \in reapers
    /\ \/ \E q \in r.pids :
             /\ SIGKILL(q)
             /\ reapers' = (reapers \ {r}) \cup {[r EXCEPT !.pids = @ \ {q}]}
       \/ /\ r.pids = {} /\ SIGKILL(r.pid)
          /\ reapers' = reapers \ {r}
    /\ Doom({})
    /\ UNCHANGED <<births, main, croner, rows, events>>

\* The daemon dies, with its children or without them, and starts again.
Crash ==
    /\ "crash" \in MayFail
    /\ main # Idle
    /\ Done
    /\ reapers' \in {reapers, {}}
    /\ doomed' = {}     \* its plans end with it
    /\ UNCHANGED <<kernel, croner, rows, events>>
-----------------------------------------------------------------------------
MainThread == \/ fan_channel_handle \/ Check \/ local_kill
              \/ QueryTimeout \/ db_save_cloud_task_config \/ neo_croner_delete
              \/ cloud_kill_process_tree \/ ForkReaper

Next == \/ \E p \in Pids, up \in Pids \cup {NoPid}, kind \in Kinds :
              Start(p, up, kind)
        \/ \E p \in Pids : Exit(p)
        \/ AddTask
        \/ \E ch \in Channels, p \in Pids \cup {NoPid} : Event(ch, p)
        \/ MainThread \/ neo_croner_query \/ HelperExits
        \/ \E r \in reapers : Reap(r)
        \/ Crash

\* The main thread and the reapers run, and time limits end what they wait
\* for, but for HelperExits: a helper owes nobody anything, neither an answer
\* nor its end once it has closed its output.
Fairness == /\ WF_vars(MainThread)
            /\ \A p \in Pids : WF_vars(\E r \in reapers : r.pid = p /\ Reap(r))

Spec == Init /\ [][Next]_vars /\ Fairness
-----------------------------------------------------------------------------
Plan == [at : {"idle", "event", "check", "kill", "query", "reap",
               "save", "delete", "tree", "fork"},
         ch : Channels, pid : Pids \cup {NoPid}, start : 0..births,
         seen : 0..births, answer : 0..version, pids : SUBSET Pids]

\* Type correctness; in particular no reaper is ever told to kill pid 0, and
\* only the living are to die.
TypeOK ==
    /\ births \in 0..MaxBirths /\ version \in 0..MaxVersions
    /\ events \in 0..MaxEvents
    /\ proc \in [Pids -> {Free} \cup [born : 1..births, kind : Kinds,
                                      up : Pids \cup {NoPid}]]
    /\ main \in Plan
    /\ reapers \subseteq [pid : Pids, start : 0..births, seen : 0..births,
                          pids : SUBSET Pids]
    /\ task \in {0, version} /\ rows \subseteq 1..version
    /\ doomed \subseteq {p \in Pids : proc_alive(p)}

\* Once the local or the ftp channel has found the process of the event still
\* there, whoever is killed by its pid is that process, or was started after
\* the look: a pid that was reused before it kills nobody.
AimIsTrue ==
    \A x \in {y \in {main} : y.at \in {"kill", "fork"}} \cup reapers :
        x.start # 0 /\ proc_alive(x.pid)
            => \/ proc[x.pid].born = x.start
               \/ proc[x.pid].born > x.seen

\* When the daemon deletes a task whose configuration neo-croner has told it,
\* the row that would restore the task is in the database by then.
DeletedIsSaved ==
    [][task # 0 /\ task' = 0 /\ main.answer = task
          => task \in rows]_vars

\* A process that is to die does, whether neo-croner gives no output, a fork
\* fails or descendants appear and end meanwhile, unless the daemon itself
\* dies.  Only the process for whose task the main thread waits in waitpid for
\* ever (cloud.c:308) lives on: those a reaper has die even then.
DoomedDie ==
    \A p \in Pids : p \in doomed
        ~> p \notin doomed \/ [](At("reap") /\ main.pid = p)

\* gfrguardd_cloud.c:226: "a hung neo-croner gets SIGKILL - the event thread
\* must never block forever on an external helper".  Whatever the main thread
\* is at for an event, it comes to the next one.
NeverBlocksForever == main # Idle ~> main = Idle
=============================================================================
