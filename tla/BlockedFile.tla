---------------------------- MODULE BlockedFile -----------------------------
(***************************************************************************)
(* The blocked file as files, system call by system call: the daemon and   *)
(* gfrguard-recover rewrite it under a lock through a temporary file       *)
(* (gfrguardd_blocker.c), the console through the same temporary file      *)
(* without the lock (app.py), and smbd workers read it through a cache     *)
(* that is renewed when the file's mtime changes (vfs_gfrguard.c).         *)
(* Processes may be killed between any two calls, and calls may fail.      *)
(*                                                                         *)
(* A line is an address, and all are of one length: a write of n lines     *)
(* replaces the first n, and a read cut short ends between two lines.      *)
(***************************************************************************)
EXTENDS Integers, SequencesExt

CONSTANTS IPs,        \* addresses
          Writers,    \* gfrguardd and gfrguard-recover processes
          Consoles,   \* requests the console is working on
          Workers,    \* smbd processes
          Requests,   \* process -> the requests it may make
          MayFail,    \* the calls that may fail
          MaxTime,    \* bound on the clock
          MaxAsked,   \* bound on the requests
          Missing, NoProc, NoCache, Idle

Procs   == Writers \cup Consoles
Ops     == {"execute", "sync", "start", "unblock", "remove"}
Request == [op : Ops, arg : IPs \cup Seq(IPs)]

\* Where the inode of an open file is linked.
Places  == {"none", "tmp", "blocked", "gone"}
Stages  == {"ensure", "lock", "read", "open", "write", "rename", "close"}
Answers == {"pending", "ok", "absent", "err"}

Work    == [req : Request, rc : Answers, fd : Places, buf : Seq(IPs), stage : Stages]
Content == [lines : Seq(IPs), mtime : 1 .. MaxTime]

ASSUME BlockedFileAssumption ==
    /\ Requests \in [Procs -> SUBSET Request]
    /\ \A p \in Procs : \A r \in Requests[p] :
          /\ p \in Consoles <=> r.op = "remove"
          /\ r.arg \in IF r.op \in {"sync", "start"} THEN Seq(IPs) ELSE IPs
    /\ Writers \cap Consoles = {} /\ NoProc \notin Procs
    /\ MayFail \subseteq {"lock", "read", "open", "write", "rename", "load", "kill"}
    /\ MaxTime \in Nat \ {0} /\ MaxAsked \in Nat
    /\ Idle \notin Work \cup [req : Request, rc : Answers]
    /\ Missing \notin Content /\ NoCache \notin Content

VARIABLES file,       \* "blocked" and "tmp" -> lines and mtime, or Missing
          lock,       \* who holds the lock file's flock, or NoProc
          proc,       \* process -> the request it works on, or Idle
          worker,     \* smbd process -> its cache and the check it is in
          now,        \* the clock that stamps files
          asked,      \* requests so far
          newest,     \* history: the latest mtime the blocked file has had
          twice,      \* history: the last change left no later one
          overlapped  \* history: writers that met a console in their section

history == <<newest, twice, overlapped>>
vars    == <<file, lock, proc, worker, now, asked, history>>

NoFile == [lines |-> <<>>, mtime |-> 0]
Empty  == [lines |-> <<>>, mtime |-> now]

\* The file as a reader finds it; missing, it is as good as empty.
Current == IF file["blocked"] = Missing THEN NoFile ELSE file["blocked"]

Unchecked(cache) == [stage |-> "idle", saw |-> NoFile, cache |-> cache]

Init == /\ file = [n \in {"blocked", "tmp"} |-> Missing]
        /\ lock = NoProc
        /\ proc = [p \in Procs |-> Idle]
        /\ worker = [w \in Workers |-> Unchecked(NoCache)]
        /\ now = 1 /\ asked = 0
        /\ newest = 0 /\ twice = FALSE /\ overlapped = {}
-----------------------------------------------------------------------------
(* Requests. *)

At(p, stage) == proc[p] # Idle /\ proc[p].stage = stage

Goto(p, stage) == proc' = [proc EXCEPT ![p].stage = stage]

\* The outcome is known; what is left is to release the lock and return.
Conclude(p, rc) == proc' = [proc EXCEPT ![p].stage = "close", ![p].rc = rc,
                                        ![p].fd = "none", ![p].buf = <<>>]

Begin(p, r) ==
    LET whole == r.op \in {"sync", "start"}
    IN  /\ proc[p] = Idle
        /\ asked < MaxAsked /\ asked' = asked + 1
        /\ proc' = [proc EXCEPT ![p] =
                [req |-> r, rc |-> "pending", fd |-> "none",
                 buf |-> IF whole THEN r.arg ELSE <<>>,
                 stage |-> CASE r.op = "start"  -> "ensure"
                             [] r.op = "remove" -> "read"
                             [] OTHER           -> "lock"]]
        /\ UNCHANGED <<file, lock, worker, now>>

\* At its start the daemon creates the file if it is missing.
ensure_blocked_file(p) ==
    /\ At(p, "ensure")
    /\ file' = IF file["blocked"] # Missing THEN file
               ELSE [file EXCEPT !["blocked"] = Empty]
    /\ Goto(p, "lock")
    /\ UNCHANGED <<lock, worker, now, asked>>

\* A rebuild does not read the old content.
AfterLock(p) == IF proc[p].req.op \in {"sync", "start"} THEN "open" ELSE "read"

\* Mutant: a rebuild does without the lock.
blocked_lock_NotForSync(p) ==
    /\ At(p, "lock")
    /\ \/ /\ AfterLock(p) = "open"
          /\ Goto(p, "open") /\ UNCHANGED lock
       \/ /\ AfterLock(p) = "read" /\ lock = NoProc
          /\ lock' = p /\ Goto(p, "read")
    /\ UNCHANGED <<file, worker, now, asked>>

\* flock waits until nobody holds the lock.
blocked_lock(p) ==
    /\ At(p, "lock") /\ lock = NoProc
    /\ lock' = p /\ Goto(p, AfterLock(p))
    /\ UNCHANGED <<file, worker, now, asked>>

LockFails(p) ==
    /\ "lock" \in MayFail /\ At(p, "lock")
    /\ Conclude(p, "err")
    /\ UNCHANGED <<file, lock, worker, now, asked>>

\* blocker_unblock copies the lines it keeps, one after the other.
LinesWithout(lines, ip) ==
    LET kept[i \in 0 .. Len(lines)] ==
            IF i = 0 THEN <<>>
            ELSE IF lines[i] = ip THEN kept[i - 1] ELSE Append(kept[i - 1], lines[i])
    IN  kept[Len(lines)]

\* Read the file, and decide what to write, if anything.
read_file_text(p) ==
    LET ip    == proc[p].req.arg
        lines == Current.lines
        found == Contains(lines, ip)
        Rewrite(buf) == proc' = [proc EXCEPT ![p].stage = "open", ![p].buf = buf]
    IN  /\ At(p, "read")
        /\ \/ "read" \in MayFail /\ Conclude(p, "err")
           \/ CASE proc[p].req.op = "execute" ->
                      IF found THEN Conclude(p, "ok") ELSE Rewrite(Append(lines, ip))
                [] proc[p].req.op = "unblock" ->
                      IF found THEN Rewrite(LinesWithout(lines, ip)) ELSE Conclude(p, "absent")
                [] proc[p].req.op = "remove" ->   \* the console: list.remove
                      IF found THEN Rewrite(RemoveFirst(lines, ip))
                      ELSE Conclude(p, "absent")
        /\ UNCHANGED <<file, lock, worker, now, asked>>
-----------------------------------------------------------------------------
(* write_atomic, and the console's write_blocked. *)

\* Every other open file follows the inode it refers to: the temporary file
\* may become the blocked file, or have no name any more.
Follow(p, rc, where) ==
    proc' = [q \in Procs |->
        IF q = p THEN [proc[p] EXCEPT !.stage = "close", !.rc = rc,
                                      !.fd = "none", !.buf = <<>>]
        ELSE IF proc[q] # Idle /\ proc[q].fd \in DOMAIN where
        THEN [proc[q] EXCEPT !.fd = where[@]] ELSE proc[q]]

\* A failed write: write_atomic removes the temporary file, the console's
\* exception leaves it.
Abort(p) ==
    IF p \in Consoles THEN Conclude(p, "err") /\ UNCHANGED file
    ELSE /\ file' = [file EXCEPT !["tmp"] = Missing]
         /\ Follow(p, "err", [tmp |-> "gone"])

\* O_CREAT | O_TRUNC: a temporary file that is there is taken over.
OpenTmp(p) ==
    /\ At(p, "open")
    /\ \/ /\ "open" \in MayFail
          /\ Conclude(p, "err") /\ UNCHANGED file
       \/ /\ file' = [file EXCEPT !["tmp"] = Empty]
          /\ proc' = [proc EXCEPT ![p].stage = "write", ![p].fd = "tmp"]
    /\ UNCHANGED <<lock, worker, now, asked>>

\* n lines written from the start of the file replace its first n lines.
Overwritten(f, buf) ==
    IF buf = <<>> THEN f
    ELSE [lines |-> buf \o SubSeq(f.lines, Len(buf) + 1, Len(f.lines)),
          mtime |-> now]

WriteTmp(p) ==
    LET fd == proc[p].fd
    IN  /\ At(p, "write")
        /\ \/ "write" \in MayFail /\ Abort(p)
           \/ /\ file' = IF fd = "gone" THEN file
                         ELSE [file EXCEPT ![fd] = Overwritten(@, proc[p].buf)]
              /\ proc' = [proc EXCEPT ![p].stage = "rename",
                                      ![p].fd = "none", ![p].buf = <<>>]
        /\ UNCHANGED <<lock, worker, now, asked>>

\* The rename puts in place whatever the temporary name refers to by now.
Rename(p) ==
    /\ At(p, "rename")
    /\ \/ ("rename" \in MayFail \/ file["tmp"] = Missing) /\ Abort(p)
       \/ /\ file["tmp"] # Missing
          /\ file' = [file EXCEPT !["blocked"] = file["tmp"], !["tmp"] = Missing]
          /\ Follow(p, "ok", [tmp |-> "blocked", blocked |-> "gone"])
    /\ UNCHANGED <<lock, worker, now, asked>>

\* Mutant: an early return forgets to close the lock file.
CloseLock_Forgotten(p) ==
    /\ At(p, "close")
    /\ lock' = IF lock = p /\ proc[p].rc # "absent" THEN NoProc ELSE lock
    /\ proc' = [proc EXCEPT ![p] = Idle]
    /\ UNCHANGED <<file, worker, now, asked>>

\* Closing the lock file releases the lock.
CloseLock(p) ==
    /\ At(p, "close")
    /\ lock' = IF lock = p THEN NoProc ELSE lock
    /\ proc' = [proc EXCEPT ![p] = Idle]
    /\ UNCHANGED <<file, worker, now, asked>>

\* The process is killed; the kernel closes its files.
Kill(p) ==
    /\ "kill" \in MayFail /\ proc[p] # Idle
    /\ lock' = IF lock = p THEN NoProc ELSE lock
    /\ proc' = [proc EXCEPT ![p] = Idle]
    /\ UNCHANGED <<file, worker, now, asked>>
-----------------------------------------------------------------------------
(* is_blocked in an smbd worker: refresh_blocked_cache, and the comparison *)
(* of the client's address with the lines of the cache, which comes with   *)
(* the last of these steps.                                                *)

Judge(w, cache) == worker' = [worker EXCEPT ![w] = Unchecked(cache)]

\* stat, and the comparison of the mtime.
StatBlocked(w) ==
    LET cache == worker[w].cache
    IN  /\ worker[w].stage = "idle"
        /\ \/ file["blocked"] = Missing /\ Judge(w, NoCache)
           \/ /\ file["blocked"] # Missing
              /\ IF cache # NoCache /\ cache.mtime = Current.mtime
                 THEN Judge(w, cache)
                 ELSE worker' = [worker EXCEPT ![w].stage = "load",
                                               ![w].saw = Current]
        /\ UNCHANGED <<file, lock, proc, now, asked>>

\* As much of the file as stat has found.
ReadBlocked(saw) ==
    SubSeq(Current.lines, 1, Min({Len(saw.lines), Len(Current.lines)}))

\* Mutant: what was read is kept under the mtime of the file that was read,
\* though the size is that of the file that was looked at.
LoadBlocked_NewStamp(w) ==
    /\ worker[w].stage = "load"
    /\ Judge(w, [lines |-> ReadBlocked(worker[w].saw), mtime |-> Current.mtime])
    /\ UNCHANGED <<file, lock, proc, now, asked>>

\* open and read.
LoadBlocked(w) ==
    /\ worker[w].stage = "load"
    /\ Judge(w, [lines |-> ReadBlocked(worker[w].saw),
                 mtime |-> worker[w].saw.mtime])
    /\ UNCHANGED <<file, lock, proc, now, asked>>

\* When one of them fails the worker judges by the old cache.
LoadFails(w) ==
    /\ "load" \in MayFail /\ worker[w].stage = "load"
    /\ Judge(w, worker[w].cache)
    /\ UNCHANGED <<file, lock, proc, now, asked>>
-----------------------------------------------------------------------------
Tick == /\ now < MaxTime
        /\ now' = now + 1
        /\ UNCHANGED <<file, lock, proc, worker, asked>>

RequestStep(p) == \/ ensure_blocked_file(p) \/ blocked_lock(p)
                  \/ read_file_text(p)
                  \/ OpenTmp(p) \/ WriteTmp(p) \/ Rename(p) \/ CloseLock(p)

Visiting == \E c \in Consoles : proc[c] # Idle

\* The history kept beside every step.
Observe ==
    /\ twice' = IF Current' = Current THEN twice ELSE Current'.mtime <= newest
    /\ newest' = IF Current'.mtime > newest THEN Current'.mtime ELSE newest
    /\ overlapped' = {p \in Writers : lock' = p /\ (p \in overlapped \/ Visiting')}

Next == /\ \/ \E p \in Procs : \/ \E r \in Requests[p] : Begin(p, r)
                               \/ RequestStep(p)
                               \/ LockFails(p) \/ Kill(p)
           \/ \E w \in Workers : StatBlocked(w) \/ LoadBlocked(w) \/ LoadFails(w)
           \/ Tick
        /\ Observe

\* Processes run, and the kernel serves those that wait for a lock in turn.
Fairness == \A p \in Writers : /\ WF_vars(RequestStep(p) /\ Observe)
                               /\ SF_vars(blocked_lock(p) /\ Observe)

Spec == Init /\ [][Next]_vars /\ Fairness
-----------------------------------------------------------------------------
(* The types of the state; and the lock is held by a writer that is        *)
(* working on a request.                                                   *)
TypeOK ==
    /\ file \in [{"blocked", "tmp"} -> {Missing} \cup Content]
    /\ proc \in [Procs -> {Idle} \cup Work]
    /\ \A p \in Procs : proc[p] # Idle => proc[p].req \in Requests[p]
    /\ lock \in Writers \cup {NoProc}
    /\ lock # NoProc => proc[lock] # Idle
    /\ worker \in [Workers -> [stage : {"idle", "load"},
                               saw : {NoFile} \cup Content,
                               cache : {NoCache} \cup Content]]
    /\ \A w \in Workers : worker[w].stage = "load" => worker[w].saw \in Content
    /\ now \in 1 .. MaxTime /\ newest \in 0 .. MaxTime /\ twice \in BOOLEAN
    /\ overlapped \subseteq Writers

\* The blocked list of the abstract specification.
Answered(p) == IF proc[p] = Idle THEN Idle
               ELSE [req |-> proc[p].req, rc |-> proc[p].rc]

List == INSTANCE BlockList WITH
            lines    <- ToSet(Current.lines),
            ops      <- [p \in Writers |-> Answered(p)],
            unlocked <- Visiting \/ overlapped # {}

(* blocked_lock, write_atomic: every request of the daemon and of          *)
(* gfrguard-recover takes effect at one instant and once, or not at all,   *)
(* and its answer says which, whatever fails and whoever is killed; no     *)
(* reader finds a file half written and no update is lost.  A console      *)
(* request, which takes no lock, can upset those it overlaps and no other. *)
Linearizable == List!ListSpec

(* A writer that waits for the lock gets it and finishes: every way out    *)
(* of a locked section releases it (close(lfd) on each return, and the     *)
(* kernel for a process that was killed).                                  *)
WritersFinish == \A p \in Writers : proc[p] # Idle ~> proc[p] = Idle

(* refresh_blocked_cache: a cache that passes the comparison of the mtime  *)
(* has the file's present content, so unless the file changes during the   *)
(* check a worker judges by what the file says.  The exception is a change *)
(* that left an mtime the file may have had before, which the worker has   *)
(* no way to notice.                                                       *)
CheckIsCurrent ==
    \A w \in Workers :
        LET cache == worker[w].cache
        IN  cache # NoCache /\ cache.mtime = Current.mtime /\ ~twice
                => cache.lines = Current.lines
=============================================================================
