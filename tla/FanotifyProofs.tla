--------------------------- MODULE FanotifyProofs ---------------------------
(***************************************************************************)
(* Proofs about Fanotify, for any number of clients, directories, files,   *)
(* channels, buckets and reloads, and any limits: types, the pre-images    *)
(* the permission thread keeps, what the gate holds back, and the rows of  *)
(* channels that are not cloud channels.                                   *)
(*                                                                         *)
(* The invariant is in parts, each over the variables it is about; each    *)
(* part has a lemma that says which actions leave these alone and what the *)
(* others do to them.                                                      *)
(***************************************************************************)
EXTENDS Fanotify, TLAPS

-----------------------------------------------------------------------------
(* Queues of processes.                                                    *)
In(q, p) == \E i \in DOMAIN q : q[i] = p

Once(q) == \A i, j \in DOMAIN q : q[i] = q[j] => i = j

(* Appending a process that is not in the queue.                           *)
LEMMA AppendIn ==
    ASSUME NEW S, NEW q \in Seq(S), NEW x \in S
    PROVE  /\ Append(q, x) \in Seq(S)
           /\ \A p : In(Append(q, x), p) <=> In(q, p) \/ p = x
           /\ Once(q) /\ ~In(q, x) => Once(Append(q, x))
<1> DEFINE r == Append(q, x)
           n == Len(q)
<1>1. /\ n \in Nat /\ DOMAIN q = 1 .. n /\ r \in Seq(S) /\ DOMAIN r = 1 .. n + 1
      /\ r[n + 1] = x /\ \A i \in 1 .. n : r[i] = q[i]
  OBVIOUS
<1> HIDE DEF r, n
<1>2. \A p : In(r, p) <=> In(q, p) \/ p = x
  BY <1>1 DEF In
<1>3. Once(q) /\ ~In(q, x) => Once(r)
  BY <1>1 DEF In, Once
<1> QED BY <1>1, <1>2, <1>3 DEF r

(* Taking the first process out of the queue.                              *)
LEMMA TailIn ==
    ASSUME NEW S, NEW q \in Seq(S), q # <<>>, Once(q)
    PROVE  /\ Tail(q) \in Seq(S) /\ Head(q) \in S /\ In(q, Head(q)) /\ Once(Tail(q))
           /\ \A p : In(Tail(q), p) <=> In(q, p) /\ p # Head(q)
<1> DEFINE r == Tail(q)
           n == Len(q)
<1>1. /\ n \in Nat \ {0} /\ DOMAIN q = 1 .. n /\ r \in Seq(S) /\ DOMAIN r = 1 .. n - 1
      /\ Head(q) = q[1] /\ Head(q) \in S /\ \A i \in 1 .. n - 1 : r[i] = q[i + 1]
  <2>1. n \in Nat /\ DOMAIN q = 1 .. n /\ n # 0
    OBVIOUS
  <2>2. r \in Seq(S) /\ Len(r) = n - 1 /\ Head(q) = q[1]
    BY <2>1
  <2>3. DOMAIN r = 1 .. n - 1 /\ \A i \in 1 .. n - 1 : r[i] = q[i + 1]
    BY <2>1, <2>2
  <2>4. q[1] \in S
    BY <2>1
  <2> QED BY <2>1, <2>2, <2>3, <2>4
<1> HIDE DEF r, n
<1>2. In(q, Head(q))
  BY <1>1 DEF In
<1>3. Once(r)
  <2> SUFFICES ASSUME NEW i \in 1 .. n - 1, NEW j \in 1 .. n - 1, r[i] = r[j] PROVE i = j
    BY <1>1 DEF Once
  <2>1. i + 1 \in 1 .. n /\ j + 1 \in 1 .. n /\ q[i + 1] = q[j + 1]
    BY <1>1
  <2>2. i + 1 = j + 1
    BY <1>1, <2>1 DEF Once
  <2> QED BY <2>2
<1>4. ASSUME NEW p, In(r, p) PROVE In(q, p) /\ p # Head(q)
  BY <1>1, <1>4 DEF In, Once
<1>5. ASSUME NEW p, In(q, p), p # Head(q) PROVE In(r, p)
  <2>1. PICK i \in 1 .. n : q[i] = p
    BY <1>1, <1>5 DEF In
  <2>2. i # 1
    BY <1>1, <1>5, <2>1
  <2>3. i - 1 \in 1 .. n - 1 /\ r[i - 1] = p
    BY <1>1, <2>1, <2>2
  <2> QED BY <1>1, <2>3 DEF In
<1> QED BY <1>1, <1>2, <1>3, <1>4, <1>5 DEF r
-----------------------------------------------------------------------------
(* The parts of the invariant.                                             *)

Marking(d, m, y, b) == /\ d \subseteq Dirs /\ m \subseteq d
                       /\ y \subseteq Files /\ b \subseteq y

(* The permission thread is at an open.                                    *)
AtOpen(t) == t.at \in {"handle", "answer"}

Waiting(pr, q, t, a) ==
    /\ pr \in [Procs -> Handles] /\ q \in Seq(Procs) /\ t \in Threads
    /\ t.at = "handle" => /\ t.chan \in Channels
                          /\ resolve(t.chan, t.proc) # NoSession
    /\ Once(q)
    /\ \A p \in Procs : pr[p].st = "wait" <=> In(q, p) \/ (AtOpen(t) /\ t.proc = p)
    /\ AtOpen(t) => ~In(q, t.proc)
    /\ pr[Main].st # "idle" => a = "scan"

(* From the join to the start of the next one no permission thread runs.   *)
NoThread(a, b) == \/ a \in {"flush", "start", "restart"}
                  \/ a \in {"jobs", "walk"} /\ b = "start"

Stopped(a, b, t) == /\ b \in {"wait", "serve", "start"}
                    /\ NoThread(a, b) => t.at = "off"

Queues(n, p) == /\ n \in Seq(Notices) /\ Len(n) <= QueueLimit + 1
                /\ p \in Seq(Queries) /\ Len(p) <= PipeLimit

GateTypes(g, s, t) == /\ g \in [Slots -> Entries \cup {NoEntry}]
                      /\ s \in [Keys -> Nat \cup {Never}] /\ t \in Nat

StoreType(x) == x \subseteq {<<BackupPath(c, f), y>> : c \in Channels, f \in Files,
                                                       y \in {"original", "changed"}}

Inv == /\ Marking(dirs, marks, dirty, bare)
       /\ Waiting(proc, permq, thread, at)
       /\ Stopped(at, back, thread)
       /\ Queues(notifyq, pipe)
       /\ GateTypes(gate, sent, now)
       /\ StoreType(store)

(* The invariant is the type invariant and Stopped.                        *)
LEMMA InvParts == Inv <=> TypeOK /\ Stopped(at, back, thread)
BY DEF Inv, TypeOK, Marking, Waiting, Queues, GateTypes, StoreType, In, Once, AtOpen

(* The invariant holds at the start.                                       *)
LEMMA InitInv == Init => Inv
<1> SUFFICES ASSUME Init PROVE Inv
  OBVIOUS
<1>1. Marking(dirs, marks, dirty, bare)
  BY DEF Init, Marking
<1>2. Waiting(proc, permq, thread, at)
  <2>1. Idle \in Handles /\ Idle.st = "idle" /\ Poll \in Threads /\ Poll.at = "poll"
    BY DEF Handles, Idle, Threads, Poll
  <2>2. proc \in [Procs -> Handles] /\ \A p \in Procs : proc[p].st = "idle"
    BY <2>1 DEF Init
  <2>3. permq = <<>> /\ thread = Poll /\ Main \in Procs
    BY DEF Init, Procs
  <2>4. permq \in Seq(Procs) /\ DOMAIN permq = {}
    BY <2>3
  <2> QED BY <2>1, <2>2, <2>3, <2>4 DEF Waiting, Once, In, AtOpen
<1>3. Stopped(at, back, thread)
  <2>1. at = "wait" /\ back = "wait"
    BY DEF Init
  <2> QED BY <2>1 DEF Stopped, NoThread
<1>4. Queues(notifyq, pipe)
  <2>1. notifyq = <<>> /\ pipe = <<>>
    BY DEF Init
  <2> QED BY <2>1, FanotifyAssumption DEF Queues
<1>5. GateTypes(gate, sent, now)
  BY DEF Init, GateTypes
<1>6. StoreType(store)
  BY DEF Init, StoreType
<1> QED BY <1>1, <1>2, <1>3, <1>4, <1>5, <1>6 DEF Inv
-----------------------------------------------------------------------------
(* Directories, marks and files.                                           *)
LEMMA MarkingFrame ==
    ASSUME \/ PermThread \/ Tick \/ Reload
           \/ \E timer \in BOOLEAN : EpollWait(timer)
           \/ Timer \/ ProcessQueued \/ ScanDone \/ DrainNotify \/ NotifyDone \/ NextJob
           \/ WalkDone \/ SwapPolicy \/ Join \/ StartThread
           \/ \E p \in Clients : Release(p) \/ \E f \in Files : OpenFile(p, f)
    PROVE  UNCHANGED <<dirs, marks, dirty, bare>>
<1>1. CASE PermThread
  BY <1>1 DEF PermThread, ThreadWakes, DrainPerm, HandlePerm, Answer, watched, kernel
<1>2. CASE \/ Tick \/ Reload \/ (\E timer \in BOOLEAN : EpollWait(timer))
           \/ Timer \/ ScanDone \/ NotifyDone \/ WalkDone \/ SwapPolicy \/ Join \/ StartThread
  BY <1>2 DEF Tick, Reload, EpollWait, Timer, ScanDone, NotifyDone, WalkDone, SwapPolicy,
              Join, StartThread, watched, kernel
<1>3. CASE ProcessQueued \/ DrainNotify \/ NextJob
  BY <1>3 DEF ProcessQueued, DrainNotify, NextJob, watched, kernel
<1>4. CASE \E p \in Clients : Release(p) \/ \E f \in Files : OpenFile(p, f)
  BY <1>4 DEF Release, OpenFile, kernel
<1> QED BY <1>1, <1>2, <1>3, <1>4

(* Marks stay on directories that exist, and changed files are files.      *)
LEMMA MarkingNext ==
    ASSUME Inv, Next
    PROVE  Marking(dirs', marks', dirty', bare')
<1>1. Marking(dirs, marks, dirty, bare) /\ Waiting(proc, permq, thread, at)
  BY DEF Inv
<1>2. ASSUME NEW p \in Clients, Save(p) PROVE Marking(dirs', marks', dirty', bare')
  <2>1. /\ UNCHANGED <<dirs, marks>> /\ proc[p].st \in {"has", "bare"}
        /\ dirty' = dirty \cup {proc[p].file}
        /\ bare' \in {bare, bare \cup {proc[p].file}}
    BY <1>2 DEF Save
  <2>2. p \in Procs /\ proc[p] \in Handles
    BY <1>1 DEF Waiting, Procs
  <2>3. proc[p].file \in Files
    BY <2>1, <2>2 DEF Handles, Idle
  <2> QED BY <1>1, <2>1, <2>3 DEF Marking
<1>3. ASSUME NEW d \in Dirs, Mkdir(d) \/ MoveIn(d) PROVE Marking(dirs', marks', dirty', bare')
  BY <1>1, <1>3 DEF Mkdir, MoveIn, NewDirs, Marking
<1>4. CASE Walk
  BY <1>1, <1>4 DEF Walk, Marking, watched
<1>5. CASE ReloadMarks
  BY <1>1, <1>5 DEF ReloadMarks, Marking, watched
<1>6. CASE UNCHANGED <<dirs, marks, dirty, bare>>
  BY <1>1, <1>6
<1> QED BY <1>2, <1>3, <1>4, <1>5, <1>6, MarkingFrame DEF Next, System, MainThread
-----------------------------------------------------------------------------
(* The main thread's place while no permission thread runs.                *)
LEMMA StoppedNext ==
    ASSUME Inv, Next
    PROVE  Stopped(at', back', thread')
<1>1. Stopped(at, back, thread)
  BY DEF Inv
<1>2. CASE PermThread
  <2>1. thread.at # "off" /\ UNCHANGED <<at, back>>
    <3>1. Poll.at = "poll"
      BY DEF Poll
    <3>2. \/ thread = Poll \/ thread.at \in {"drain", "handle", "answer"}
      BY <1>2, Zenon DEF PermThread, ThreadWakes, DrainPerm, HandlePerm, Answer
    <3>3. UNCHANGED <<at, back>>
      BY <1>2, Zenon DEF PermThread, ThreadWakes, DrainPerm, HandlePerm, Answer, main
    <3> QED BY <3>1, <3>2, <3>3
  <2> QED BY <1>1, <2>1 DEF Stopped, NoThread
<1>3. CASE System
  <2>1. thread' = thread /\ UNCHANGED back /\ (at' = at \/ at' = "swap")
    BY <1>3, Zenon DEF System, OpenFile, Save, Release, Mkdir, MoveIn, NewDirs, Tick, Reload,
                perm, main
  <2> QED BY <1>1, <2>1 DEF Stopped, NoThread
<1>4. ASSUME NEW cs, NEW stage \in {"wait", "serve", "start"}, Setup(cs, stage),
             thread' = thread, stage = "start" => thread.at = "off"
      PROVE  Stopped(at', back', thread')
  BY <1>4 DEF Setup, Stopped, NoThread
<1>5. CASE \/ (\E timer \in BOOLEAN : EpollWait(timer)) \/ ScanDone
           \/ SwapPolicy
  <2>1. thread' = thread /\ UNCHANGED back /\ at' \in {"serve", "join"}
    BY <1>5, Zenon DEF EpollWait, ScanDone, SwapPolicy, perm
  <2> QED BY <1>1, <2>1 DEF Stopped, NoThread
<1>6. CASE Timer \/ NotifyDone
  <2>1. /\ thread' = thread
        /\ \E cs, stage : Setup(cs, stage) /\ stage \in {"wait", "serve"}
    BY <1>6, Zenon DEF Timer, NotifyDone, perm
  <2> QED BY <1>4, <2>1
<1>7. CASE ProcessQueued
  <2>1. thread' = thread /\ UNCHANGED back /\ at' \in {at, "scan"}
    BY <1>7, Zenon DEF ProcessQueued, ScanOrReturn, perm
  <2> QED BY <1>1, <2>1 DEF Stopped, NoThread
<1>8. CASE DrainNotify
  <2>1. /\ thread' = thread /\ at = "serve"
        /\ \/ at' = at /\ UNCHANGED back
           \/ at' = "scan" /\ UNCHANGED back
           \/ at' = "walk" /\ back' = "serve"
    BY <1>8, Zenon DEF DrainNotify, Skip, NewDir, Written, ScanOrReturn, Overflow, perm
  <2> QED BY <1>1, <2>1 DEF Stopped, NoThread
<1>9. CASE NextJob
  <2>1. /\ thread' = thread /\ at = "jobs"
        /\ \/ at' = "walk" /\ UNCHANGED back
           \/ \E cs : Setup(cs, back)
    BY <1>9, Zenon DEF NextJob, perm
  <2> QED BY <1>1, <1>4, <2>1 DEF Stopped, NoThread
<1>10. CASE Walk
  BY <1>1, <1>10 DEF Walk, perm
<1>11. CASE WalkDone
  <2>1. thread' = thread /\ at = "walk" /\ Setup(jobs, back)
    BY <1>11, Zenon DEF WalkDone, perm
  <2> QED BY <1>1, <1>4, <2>1 DEF Stopped, NoThread
<1>12. CASE Join
  <2>1. thread' = thread /\ thread.at = "off" /\ UNCHANGED back
    BY <1>12 DEF Join, perm
  <2> QED BY <1>1, <2>1 DEF Stopped, NoThread
<1>13. CASE ReloadMarks
  <2>1. thread' = thread /\ at = "flush" /\ Setup(policy.chans, "start")
    BY <1>13, Zenon DEF ReloadMarks, perm
  <2> QED BY <1>1, <1>4, <2>1 DEF Stopped, NoThread
<1>14. CASE StartThread
  <2>1. /\ at \in {"start", "restart"} /\ UNCHANGED back
        /\ at' = "wait" \/ (at' = "restart" /\ thread' = thread)
    BY <1>14, Zenon DEF StartThread
  <2> QED BY <1>1, <2>1 DEF Stopped, NoThread
<1> QED BY <1>2, <1>3, <1>5, <1>6, <1>7, <1>8, <1>9, <1>10, <1>11, <1>12, <1>13, <1>14
        DEF Next, MainThread
-----------------------------------------------------------------------------
(* Opens that wait.                                                        *)

(* Neither a process nor the permission thread moves.                      *)
LEMMA WaitingStays ==
    ASSUME Waiting(proc, permq, thread, at), UNCHANGED <<proc, permq, thread>>,
           at # "scan" \/ at' = at
    PROVE  Waiting(proc', permq', thread', at')
BY DEF Waiting

(* The steps that move no process and no permission thread.                *)
LEMMA WaitingFrame ==
    ASSUME \/ \E d \in Dirs : Mkdir(d) \/ MoveIn(d)
           \/ Tick \/ Reload \/ (\E timer \in BOOLEAN : EpollWait(timer))
           \/ Timer \/ NotifyDone \/ NextJob \/ Walk \/ WalkDone \/ SwapPolicy \/ Join
           \/ ReloadMarks
    PROVE  UNCHANGED <<proc, permq, thread>> /\ (at # "scan" \/ at' = at)
<1>1. CASE \/ \E d \in Dirs : Mkdir(d) \/ MoveIn(d)
           \/ Tick \/ Reload
  BY <1>1, Zenon DEF Mkdir, MoveIn, NewDirs, Tick, Reload, watched, kernel, perm, main
<1>2. CASE \/ (\E timer \in BOOLEAN : EpollWait(timer))
           \/ Timer \/ NotifyDone \/ NextJob \/ Walk \/ WalkDone \/ SwapPolicy \/ Join
           \/ ReloadMarks
  <2>1. UNCHANGED <<proc, permq, thread>>
    BY <1>2, Zenon DEF EpollWait, Timer, NotifyDone, NextJob, Walk, WalkDone, SwapPolicy,
                       Join, ReloadMarks, watched, kernel, perm
  <2>2. at # "scan"
    BY <1>2, Zenon DEF EpollWait, Timer, NotifyDone, NextJob, Walk, WalkDone, SwapPolicy,
                       Join, ReloadMarks
  <2> QED BY <2>1, <2>2
<1> QED BY <1>1, <1>2

(* A process that does not wait takes another handle that does not wait.   *)
LEMMA HandleMoves ==
    ASSUME Waiting(proc, permq, thread, at), NEW p \in Procs, proc[p].st # "wait",
           NEW h \in Handles, h.st # "wait", proc' = [proc EXCEPT ![p] = h],
           UNCHANGED <<permq, thread>>,
           p = Main => h.st = "idle",
           p # Main => at' = at
    PROVE  Waiting(proc', permq', thread', at')
<1>1. Main \in Procs
  BY DEF Procs
<1>2. /\ proc' \in [Procs -> Handles] /\ proc'[p] = h
      /\ \A q \in Procs \ {p} : proc'[q] = proc[q]
  BY DEF Waiting
<1>3. \A q \in Procs : proc'[q].st = "wait" <=> proc[q].st = "wait"
  BY <1>2
<1>4. proc'[Main].st # "idle" => at' = "scan"
  BY <1>1, <1>2 DEF Waiting
<1> QED BY <1>2, <1>3, <1>4 DEF Waiting

(* An idle process opens a marked file.                                    *)
LEMMA WaitStarts ==
    ASSUME Waiting(proc, permq, thread, at), NEW p \in Procs, proc[p].st # "wait",
           NEW f \in Files, proc' = [proc EXCEPT ![p] = Open("wait", f)],
           permq' = Append(permq, p), UNCHANGED thread,
           p = Main => at' = "scan",
           p # Main => at' = at
    PROVE  Waiting(proc', permq', thread', at')
<1> DEFINE h == Open("wait", f)
<1>1. h \in Handles /\ h.st = "wait" /\ Main \in Procs
  BY DEF Open, Handles, Procs
<1>2. proc' = [proc EXCEPT ![p] = h]
  OBVIOUS
<1> HIDE DEF h
<1>3. /\ proc' \in [Procs -> Handles] /\ proc'[p] = h
      /\ \A q \in Procs \ {p} : proc'[q] = proc[q]
  BY <1>1, <1>2 DEF Waiting
<1>4. ~In(permq, p) /\ ~(AtOpen(thread) /\ thread.proc = p)
  BY DEF Waiting
<1>5. /\ permq' \in Seq(Procs) /\ Once(permq')
      /\ \A q : In(permq', q) <=> In(permq, q) \/ q = p
  BY <1>4, AppendIn DEF Waiting
<1>6. \A q \in Procs : proc'[q].st = "wait"
                          <=> In(permq', q) \/ (AtOpen(thread) /\ thread.proc = q)
  BY <1>1, <1>3, <1>4, <1>5 DEF Waiting
<1>7. proc'[Main].st # "idle" => at' = "scan"
  BY <1>1, <1>3 DEF Waiting
<1>8. AtOpen(thread) => ~In(permq', thread.proc)
  BY <1>4, <1>5 DEF Waiting
<1> QED BY <1>3, <1>5, <1>6, <1>7, <1>8 DEF Waiting

(* The permission thread takes the open at the head of the queue.          *)
LEMMA OpenTaken ==
    ASSUME Waiting(proc, permq, thread, at), thread.at = "drain", permq # <<>>,
           NEW st \in {"handle", "answer"}, NEW c \in Channels \cup {NoChannel},
           NEW deny \in BOOLEAN,
           st = "handle" => c \in Channels /\ resolve(c, Head(permq)) # NoSession,
           permq' = Tail(permq), thread' = Handling(st, Head(permq), c, deny),
           UNCHANGED <<proc, at>>
    PROVE  Waiting(proc', permq', thread', at')
<1>1. permq \in Seq(Procs) /\ Once(permq) /\ ~AtOpen(thread)
  BY DEF Waiting, AtOpen
<1>2. /\ permq' \in Seq(Procs) /\ Once(permq')
      /\ Head(permq) \in Procs /\ In(permq, Head(permq))
      /\ \A q : In(permq', q) <=> In(permq, q) /\ q # Head(permq)
  BY <1>1, TailIn
<1>3. /\ thread' \in Threads /\ AtOpen(thread') /\ thread'.at = st
      /\ thread'.proc = Head(permq) /\ thread'.chan = c
  BY <1>2 DEF Handling, Threads, AtOpen
<1>4. \A q \in Procs : proc'[q].st = "wait" <=> In(permq', q) \/ thread'.proc = q
  BY <1>1, <1>2, <1>3 DEF Waiting
<1> QED BY <1>1, <1>2, <1>3, <1>4 DEF Waiting

(* The channel found is a channel.                                         *)
LEMMA FoundChannel == \A d : find_channel(d) \in Channels \cup {NoChannel}
BY DEF find_channel

(* A thread at an open, as a record.                                       *)
LEMMA ThreadFields ==
    ASSUME thread \in Threads, AtOpen(thread)
    PROVE  /\ thread.proc \in Procs /\ thread.chan \in Channels \cup {NoChannel}
           /\ \A ok \in BOOLEAN :
                LET t == [thread EXCEPT !.at = "answer", !.backed = ok]
                IN  t \in Threads /\ t.at = "answer" /\ t.proc = thread.proc
<1>1. thread \in [at : {"handle", "answer"}, proc : Procs, deny : BOOLEAN,
                    chan : Channels \cup {NoChannel}, backed : BOOLEAN]
  BY DEF AtOpen, Threads
<1> QED BY <1>1, Zenon DEF Threads

(* The handled open goes to its answer, and is answered.                   *)
LEMMA WaitingPerm ==
    ASSUME Waiting(proc, permq, thread, at), PermThread
    PROVE  Waiting(proc', permq', thread', at')
<1>1. at' = at
  BY Zenon DEF PermThread, ThreadWakes, DrainPerm, HandlePerm, Answer, main
<1>2. CASE ThreadWakes
  <2>1. /\ thread = Poll /\ UNCHANGED <<proc, permq>>
        /\ thread' = [at |-> "drain"] \/ thread' = [at |-> "off"]
    BY <1>2 DEF ThreadWakes, watched, kernel
  <2>2. ~AtOpen(thread) /\ ~AtOpen(thread') /\ thread' \in Threads /\ thread'.at # "handle"
    BY <2>1 DEF AtOpen, Poll, Threads
  <2> QED BY <1>1, <2>1, <2>2 DEF Waiting
<1>3. CASE DrainPerm
  <2>1. thread.at = "drain" /\ UNCHANGED proc
    BY <1>3 DEF DrainPerm, watched
  <2>2. CASE permq = <<>>
    <3>1. thread' = Poll /\ UNCHANGED permq
      BY <1>3, <2>2 DEF DrainPerm, Drained
    <3>2. ~AtOpen(thread) /\ ~AtOpen(thread') /\ thread' \in Threads /\ thread'.at # "handle"
      BY <2>1, <3>1 DEF AtOpen, Poll, Threads
    <3> QED BY <1>1, <2>1, <3>1, <3>2 DEF Waiting
  <2>3. CASE permq # <<>>
    <3> DEFINE p == Head(permq)
               c == find_channel(Home[proc[p].file])
    <3>1. /\ permq' = Tail(permq)
          /\ IF c = NoChannel \/ resolve(c, p) = NoSession
             THEN thread' = Handling("answer", p, NoChannel, FALSE)
             ELSE \E deny \in Listed(resolve(c, p)) : thread' = Handling("handle", p, c, deny)
      BY <1>3, <2>3, Zenon DEF DrainPerm, Drained
    <3>2. c \in Channels \cup {NoChannel}
      BY FoundChannel
    <3> HIDE DEF c
    <3>3. CASE c = NoChannel \/ resolve(c, p) = NoSession
      <4>1. thread' = Handling("answer", p, NoChannel, FALSE)
        BY <3>1, <3>3
      <4>2. FALSE \in BOOLEAN /\ NoChannel \in Channels \cup {NoChannel}
            /\ "answer" \in {"handle", "answer"} /\ "answer" # "handle"
        OBVIOUS
      <4> QED BY <1>1, <2>1, <2>3, <3>1, <4>1, <4>2, OpenTaken
    <3>4. CASE c # NoChannel /\ resolve(c, p) # NoSession
      <4>1. PICK deny \in Listed(resolve(c, p)) : thread' = Handling("handle", p, c, deny)
        BY <3>1, <3>4
      <4>2. deny \in BOOLEAN
        BY <4>1, Zenon DEF Listed
      <4> HIDE DEF p
      <4>3. "handle" \in {"handle", "answer"} /\ c \in Channels /\ resolve(c, p) # NoSession
        BY <3>2, <3>4
      <4> QED BY <1>1, <2>1, <2>3, <3>1, <4>1, <4>2, <4>3, <3>2, OpenTaken DEF p
    <3> QED BY <3>3, <3>4
  <2> QED BY <2>2, <2>3
<1>4. CASE HandlePerm
  <2>1. /\ thread.at = "handle" /\ UNCHANGED <<proc, permq>>
        /\ \E ok \in BOOLEAN : thread' = [thread EXCEPT !.at = "answer", !.backed = ok]
    <3>1. thread \in Threads /\ AtOpen(thread) /\ thread.at = "handle"
      BY <1>4 DEF HandlePerm, Waiting, AtOpen
    <3>2. thread.deny \in BOOLEAN
      BY <3>1, SMT DEF Threads, AtOpen
    <3> DEFINE d == ~thread.deny
    <3>3. d \in BOOLEAN
      BY Zenon
    <3>4. \E ok \in IF BackupMayFail THEN BOOLEAN ELSE {d} :
              thread' = [thread EXCEPT !.at = "answer", !.backed = ok]
      BY <1>4, Zenon DEF HandlePerm
    <3> HIDE DEF d
    <3>5. \E ok \in BOOLEAN : thread' = [thread EXCEPT !.at = "answer", !.backed = ok]
      BY <3>3, <3>4, Zenon
    <3>6. UNCHANGED <<proc, permq>>
      BY <1>4, Zenon DEF HandlePerm, watched, kernel
    <3> QED BY <3>1, <3>5, <3>6, Zenon
  <2>2. thread \in Threads /\ AtOpen(thread)
    BY <2>1 DEF Waiting, AtOpen
  <2>3. thread' \in Threads /\ thread'.at = "answer" /\ thread'.proc = thread.proc
    BY <2>1, <2>2, ThreadFields, Zenon
  <2>4. AtOpen(thread')
    BY <2>3 DEF AtOpen
  <2> QED BY <1>1, <2>1, <2>2, <2>3, <2>4 DEF Waiting
<1>5. CASE Answer
  <2> DEFINE p == thread.proc
             h == IF thread.deny THEN Idle
                  ELSE Open(IF thread.backed THEN "has" ELSE "bare", proc[p].file)
  <2>1. /\ thread.at = "answer" /\ thread' = [at |-> "drain"] /\ UNCHANGED permq
        /\ proc' = [proc EXCEPT ![p] = h]
    BY <1>5, Zenon DEF Answer, kernel
  <2>2. AtOpen(thread) /\ ~AtOpen(thread') /\ thread' \in Threads /\ thread'.at # "handle"
    BY <2>1 DEF AtOpen, Threads
  <2>3. p \in Procs /\ proc[p] \in Handles /\ proc[p].st = "wait"
    <3>1. thread \in Threads
      BY DEF Waiting
    <3>2. p \in Procs
      BY <2>2, <3>1, ThreadFields, Zenon
    <3> QED BY <2>2, <3>2 DEF Waiting
  <2>4. proc[p].file \in Files
    BY <2>3 DEF Handles, Idle
  <2>5. h \in Handles /\ h.st # "wait"
    BY <2>4 DEF Handles, Idle, Open
  <2> HIDE DEF p, h
  <2>6. /\ proc' \in [Procs -> Handles] /\ proc'[p] = h
        /\ \A q \in Procs \ {p} : proc'[q] = proc[q]
    BY <2>1, <2>3, <2>5 DEF Waiting
  <2>7. \A q \in Procs : proc'[q].st = "wait" <=> In(permq', q)
    BY <2>1, <2>2, <2>5, <2>6 DEF Waiting, p
  <2>8. proc'[Main].st # "idle" => at' = "scan"
    BY <1>1, <2>3, <2>6 DEF Waiting, Procs
  <2> QED BY <2>1, <2>2, <2>6, <2>7, <2>8 DEF Waiting
<1> QED BY <1>2, <1>3, <1>4, <1>5 DEF PermThread

(* The main thread reads an event in its loop, and may scan the file.      *)
LEMMA ScanStarts ==
    ASSUME Waiting(proc, permq, thread, at), UNCHANGED thread, at = "serve", NEW f \in Files,
           ScanOrReturn(f)
    PROVE  Waiting(proc', permq', thread', at')
<1>1. Main \in Procs /\ proc[Main].st = "idle"
  BY DEF Waiting, Procs
<1>2. CASE UNCHANGED <<proc, permq, at>>
  BY <1>2, WaitingStays
<1>3. CASE /\ proc' = [proc EXCEPT ![Main] = Open("wait", f)]
           /\ permq' = Append(permq, Main) /\ at' = "scan"
  BY <1>1, <1>3, WaitStarts
<1> QED BY <1>2, <1>3 DEF ScanOrReturn

(* The first element of a queue, and the rest of it.                       *)
LEMMA HeadTail ==
    ASSUME NEW S, NEW q \in Seq(S), q # <<>>
    PROVE  /\ Head(q) \in S /\ Tail(q) \in Seq(S) /\ Len(Tail(q)) = Len(q) - 1
           /\ Len(q) \in Nat \ {0} /\ DOMAIN q = 1 .. Len(q) /\ Head(q) = q[1]
           /\ DOMAIN Tail(q) = 1 .. Len(q) - 1
           /\ \A i \in 1 .. Len(q) - 1 : Tail(q)[i] = q[i + 1]
<1>1. Len(q) \in Nat /\ DOMAIN q = 1 .. Len(q) /\ Len(q) # 0
  OBVIOUS
<1>2. Tail(q) \in Seq(S) /\ Len(Tail(q)) = Len(q) - 1 /\ Head(q) = q[1]
  BY <1>1
<1>3. DOMAIN Tail(q) = 1 .. Len(q) - 1 /\ \A i \in 1 .. Len(q) - 1 : Tail(q)[i] = q[i + 1]
  BY <1>1, <1>2
<1>4. q[1] \in S
  BY <1>1
<1> QED BY <1>1, <1>2, <1>3, <1>4

(* A queued open and a notification of a write name a file and a process.  *)
LEMMA EventFields ==
    /\ \A m \in Queries : /\ m.chan \in Channels /\ m.proc \in Procs /\ m.file \in Files
    /\ \A e \in Notices : e.op = "write" => e.proc \in Procs /\ e.file \in Files
BY DEF Queries, Notices

(* Every step keeps the waiting opens and the permission thread in step.   *)
LEMMA WaitingNext ==
    ASSUME Inv, Next
    PROVE  Waiting(proc', permq', thread', at')
<1>1. Waiting(proc, permq, thread, at) /\ Stopped(at, back, thread) /\ Queues(notifyq, pipe)
  BY DEF Inv
<1>2. CASE PermThread
  BY <1>1, <1>2, WaitingPerm
<1>3. ASSUME NEW p \in Clients, NEW f \in Files, OpenFile(p, f)
      PROVE  Waiting(proc', permq', thread', at')
  <2>1. p \in Procs /\ p # Main
    BY FanotifyAssumption DEF Procs
  <2>2. proc[p].st # "wait" /\ UNCHANGED <<thread, at>>
    BY <1>3 DEF OpenFile, Idle, perm, main
  <2>3. CASE Home[f] \in marks
    <3>1. proc' = [proc EXCEPT ![p] = Open("wait", f)] /\ permq' = Append(permq, p)
      BY <1>3, <2>3, Zenon DEF OpenFile
    <3> QED BY <1>1, <2>1, <2>2, <3>1, WaitStarts
  <2>4. CASE Home[f] \notin marks
    <3>1. proc' = [proc EXCEPT ![p] = Open("bare", f)] /\ UNCHANGED permq
      BY <1>3, <2>4, Zenon DEF OpenFile
    <3>2. Open("bare", f) \in Handles /\ Open("bare", f).st # "wait"
      BY DEF Open, Handles
    <3> QED BY <1>1, <2>1, <2>2, <3>1, <3>2, HandleMoves
  <2> QED BY <2>3, <2>4
<1>4. ASSUME NEW p \in Clients, Save(p) \/ Release(p)
      PROVE  Waiting(proc', permq', thread', at')
  <2>1. p \in Procs /\ p # Main
    BY FanotifyAssumption DEF Procs
  <2>2. proc[p].st \in {"has", "bare"} /\ UNCHANGED <<thread, at, permq>>
        /\ proc' = [proc EXCEPT ![p] = Idle]
    BY <1>4, Zenon DEF Save, Release, perm, main, kernel
  <2>3. Idle \in Handles /\ Idle.st = "idle" /\ proc[p].st # "wait"
    BY <2>2 DEF Idle, Handles
  <2> QED BY <1>1, <2>1, <2>2, <2>3, HandleMoves
<1>5. CASE ProcessQueued
  <2>1. at = "serve" /\ UNCHANGED thread
    BY <1>5 DEF ProcessQueued, perm
  <2>2. CASE UNCHANGED <<proc, permq, at>>
    BY <1>1, <2>1, <2>2, WaitingStays
  <2>3. CASE pipe # <<>> /\ ScanOrReturn(Head(pipe).file)
    <3>1. Head(pipe).file \in Files
      BY <1>1, <2>3, HeadTail, EventFields DEF Queues
    <3> QED BY <1>1, <2>1, <2>3, <3>1, ScanStarts
  <2> QED BY <1>5, <2>2, <2>3, Zenon DEF ProcessQueued
<1>6. CASE ScanDone
  <2>1. /\ proc[Main].st # "wait" /\ UNCHANGED <<thread, permq>>
        /\ proc' = [proc EXCEPT ![Main] = Idle]
    BY <1>6 DEF ScanDone, perm, kernel
  <2>2. Main \in Procs /\ Idle \in Handles /\ Idle.st = "idle"
    BY DEF Idle, Handles, Procs
  <2> QED BY <1>1, <2>1, <2>2, HandleMoves
<1>7. CASE DrainNotify
  <2> DEFINE e == Head(notifyq)
  <2>1. /\ at = "serve" /\ UNCHANGED thread /\ notifyq # <<>>
        /\ Skip \/ NewDir(e) \/ Written(e) \/ Overflow(e)
    BY <1>7, Zenon DEF DrainNotify, perm
  <2>2. CASE Skip \/ NewDir(e) \/ Overflow(e)
    <3>1. UNCHANGED <<proc, permq>>
      BY <2>2, Zenon DEF Skip, NewDir, Overflow
    <3> QED BY <1>1, <2>1, <3>1, WaitingStays
  <2>3. CASE Written(e)
    <3>1. e \in Notices
      BY <1>1, <2>1, HeadTail DEF Queues
    <3>2. e.op = "write"
      BY <2>3 DEF Written
    <3>3. e.file \in Files
      BY <3>1, <3>2, EventFields
    <3>4. UNCHANGED <<proc, permq, at>> \/ ScanOrReturn(e.file)
      BY <2>3, Zenon DEF Written
    <3> QED BY <1>1, <2>1, <3>3, <3>4, ScanStarts, WaitingStays
  <2> QED BY <2>1, <2>2, <2>3
<1>8. CASE StartThread
  <2>1. /\ at \in {"start", "restart"} /\ UNCHANGED <<proc, permq>>
        /\ thread' = Poll \/ UNCHANGED thread
    BY <1>8, Zenon DEF StartThread, watched, kernel
  <2>2. thread.at = "off" /\ ~AtOpen(thread) /\ at # "scan"
    BY <1>1, <2>1 DEF Stopped, NoThread, AtOpen
  <2>3. ~AtOpen(Poll) /\ Poll \in Threads /\ Poll.at # "handle"
    BY DEF AtOpen, Poll, Threads
  <2> QED BY <1>1, <2>1, <2>2, <2>3 DEF Waiting
<1> QED BY <1>1, <1>2, <1>3, <1>4, <1>5, <1>6, <1>7, <1>8, WaitingFrame, WaitingStays
        DEF Next, System, MainThread
-----------------------------------------------------------------------------
(* The two queues of the main thread.                                      *)

(* The kernel adds a notification, or the overflow event, or neither.      *)
LEMMA NotifiedType ==
    ASSUME Queues(notifyq, pipe), NEW e \in Notices
    PROVE  Queues(Notified(e), pipe)
<1>1. /\ QueueLimit \in Nat /\ Len(notifyq) \in Nat /\ [op |-> "overflow"] \in Notices
  BY FanotifyAssumption DEF Notices, Queues
<1>2. ASSUME NEW x \in Notices
      PROVE  Append(notifyq, x) \in Seq(Notices) /\ Len(Append(notifyq, x)) = Len(notifyq) + 1
  BY DEF Queues
<1> QED BY <1>1, <1>2 DEF Notified, Queues

(* The queues stay within their limits.                                    *)
LEMMA QueuesNext ==
    ASSUME Inv, Next
    PROVE  Queues(notifyq', pipe')
<1>1. Waiting(proc, permq, thread, at) /\ Queues(notifyq, pipe)
  BY DEF Inv
<1>2. ASSUME NEW p \in Clients, Save(p) PROVE Queues(notifyq', pipe')
  <2>1. p \in Procs /\ proc[p] \in Handles /\ proc[p].st \in {"has", "bare"}
    BY <1>1, <1>2 DEF Save, Waiting, Procs
  <2>2. proc[p].file \in Files
    BY <2>1 DEF Handles, Idle
  <2> DEFINE e == [op |-> "write", proc |-> p, file |-> proc[p].file]
  <2>3. e \in Notices
    BY <2>1, <2>2 DEF Notices
  <2>4. pipe' = pipe /\ notifyq' \in {notifyq, Notified(e)}
    BY <1>2, Zenon DEF Save, shared
  <2> QED BY <1>1, <2>3, <2>4, NotifiedType
<1>3. ASSUME NEW d \in Dirs, Mkdir(d) \/ MoveIn(d) PROVE Queues(notifyq', pipe')
  <2> DEFINE e == [op |-> "newdir", dir |-> d]
  <2>1. e \in Notices
    BY DEF Notices
  <2>2. pipe' = pipe /\ notifyq' \in {notifyq, Notified(e)}
    BY <1>3, Zenon DEF Mkdir, MoveIn, NewDirs, shared
  <2> QED BY <1>1, <2>1, <2>2, NotifiedType
<1>4. CASE HandlePerm
  <2> DEFINE p == thread.proc
             f == proc[p].file
             Event(b) == [chan |-> thread.chan, proc |-> p, file |-> f, backed |-> b]
  <2>1. thread \in Threads /\ AtOpen(thread) /\ thread.at = "handle" /\ UNCHANGED notifyq
    BY <1>1, <1>4 DEF HandlePerm, Waiting, AtOpen, kernel
  <2>2. p \in Procs
    BY <2>1, ThreadFields, Zenon
  <2>3. proc[p] \in Handles /\ proc[p].st = "wait" /\ thread.chan \in Channels
    BY <1>1, <2>1, <2>2 DEF Waiting
  <2>4. f \in Files
    BY <2>3 DEF Handles, Idle
  <2>5. UNCHANGED pipe \/ \E ok \in BOOLEAN : Queued(Event(ok))
    <3>1. UNCHANGED pipe \/ \E ok : Queued(Event(~thread.deny /\ BackedUp(ok)))
      BY <1>4, Zenon DEF HandlePerm
    <3>2. \A ok : (~thread.deny /\ BackedUp(ok)) \in BOOLEAN
      BY Zenon
    <3> QED BY <3>1, <3>2, Zenon
  <2>6. \A ok \in BOOLEAN : Event(ok) \in Queries
    BY <2>2, <2>3, <2>4 DEF Queries
  <2> HIDE DEF Event
  <2>7. ASSUME NEW ok \in BOOLEAN, Queued(Event(ok)) PROVE Queues(notifyq', pipe')
    <3>1. /\ Append(pipe, Event(ok)) \in Seq(Queries)
          /\ Len(Append(pipe, Event(ok))) = Len(pipe) + 1 /\ Len(pipe) \in Nat
      BY <1>1, <2>6 DEF Queues
    <3>2. PipeLimit \in Nat
      BY FanotifyAssumption
    <3> QED BY <1>1, <2>1, <2>7, <3>1, <3>2 DEF Queues, Queued
  <2> QED BY <1>1, <2>1, <2>5, <2>7
<1>5. CASE ProcessQueued
  <2>1. UNCHANGED notifyq /\ (UNCHANGED pipe \/ (pipe # <<>> /\ pipe' = Tail(pipe)))
    BY <1>5, Zenon DEF ProcessQueued
  <2>2. CASE pipe # <<>> /\ pipe' = Tail(pipe)
    <3>1. pipe' \in Seq(Queries) /\ Len(pipe') = Len(pipe) - 1 /\ Len(pipe) \in Nat
      BY <1>1, <2>2, HeadTail DEF Queues
    <3>2. PipeLimit \in Nat
      BY FanotifyAssumption
    <3> QED BY <1>1, <2>1, <3>1, <3>2 DEF Queues
  <2> QED BY <1>1, <2>1, <2>2
<1>6. CASE DrainNotify
  <2>1. UNCHANGED pipe /\ notifyq # <<>> /\ notifyq' = Tail(notifyq)
    BY <1>6, Zenon DEF DrainNotify
  <2> QED BY <1>1, <2>1, HeadTail, FanotifyAssumption DEF Queues
<1>7. CASE UNCHANGED <<notifyq, pipe>>
  BY <1>1, <1>7
<1>8. CASE \/ (\E p \in Clients : Release(p) \/ \E f \in Files : OpenFile(p, f))
           \/ Tick \/ Reload \/ ThreadWakes \/ DrainPerm \/ Answer
  BY <1>7, <1>8, Zenon DEF Release, OpenFile, Tick, Reload, ThreadWakes, DrainPerm, Answer,
                           shared, kernel
<1>9. CASE \/ (\E timer \in BOOLEAN : EpollWait(timer))
           \/ Timer \/ ScanDone \/ NotifyDone \/ NextJob
           \/ Walk \/ WalkDone \/ SwapPolicy \/ Join \/ ReloadMarks \/ StartThread
  BY <1>7, <1>9, Zenon DEF EpollWait, Timer, ScanDone, NotifyDone, NextJob, Walk, WalkDone,
                           SwapPolicy, Join, ReloadMarks, StartThread, shared, kernel
<1> QED BY <1>2, <1>3, <1>4, <1>5, <1>6, <1>8, <1>9 DEF Next, System, MainThread, PermThread
-----------------------------------------------------------------------------
(* The gate.                                                               *)

(* What a step does to the gate and to its clock.                          *)
GateStep == \/ UNCHANGED <<gate, sent, asked, now>>
            \/ UNCHANGED <<gate, sent, asked>> /\ now' = now + 1
            \/ /\ gate' = [s \in Slots |-> NoEntry] /\ sent' = [k \in Keys |-> Never]
               /\ asked' = "fine" /\ UNCHANGED now
            \/ \E k \in Keys, c \in Channels : GateAsked(k, Window[c]) /\ UNCHANGED now

(* A resolved event is about a key of the gate.                            *)
LEMMA ResolvedKey ==
    ASSUME NEW c, NEW p \in Procs, NEW f \in Files, resolve(c, p) # NoSession
    PROVE  <<resolve(c, p), f>> \in Keys
BY DEF resolve, Keys, Sessions

(* Every step is one of these.                                             *)
LEMMA GateSteps ==
    ASSUME Inv, Next
    PROVE  GateStep
<1>1. Waiting(proc, permq, thread, at) /\ Queues(notifyq, pipe)
  BY DEF Inv
<1>2. CASE HandlePerm
  <2> DEFINE p == thread.proc
             c == thread.chan
             f == proc[p].file
  <2>1. thread \in Threads /\ AtOpen(thread) /\ thread.at = "handle"
    BY <1>1, <1>2 DEF HandlePerm, Waiting, AtOpen
  <2>2. p \in Procs
    BY <2>1, ThreadFields, Zenon
  <2>3. /\ proc[p] \in Handles /\ proc[p].st = "wait" /\ c \in Channels
        /\ resolve(c, p) # NoSession
    BY <1>1, <2>1, <2>2 DEF Waiting
  <2>4. f \in Files
    BY <2>3 DEF Handles, Idle
  <2>5. <<resolve(c, p), f>> \in Keys
    BY <2>2, <2>3, <2>4, ResolvedKey
  <2>6. GateAsked(<<resolve(c, p), f>>, Window[c]) /\ UNCHANGED now
    BY <1>2, Zenon DEF HandlePerm, limits
  <2> QED BY <2>3, <2>5, <2>6, Zenon DEF GateStep
<1>3. CASE DrainNotify
  <2> DEFINE e == Head(notifyq)
  <2>1. /\ UNCHANGED now /\ notifyq # <<>>
        /\ UNCHANGED <<gate, sent, asked>> \/ Written(e)
    BY <1>3, Zenon DEF DrainNotify, Skip, NewDir, Overflow, limits
  <2>2. CASE Written(e)
    <3> DEFINE c == find_channel(Home[e.file])
               s == resolve(c, e.proc)
    <3>1. e \in Notices
      BY <1>1, <2>1, HeadTail DEF Queues
    <3>2. e.op = "write"
      BY <2>2 DEF Written
    <3>3. e.file \in Files /\ e.proc \in Procs
      BY <3>1, <3>2, EventFields
    <3>4. \/ UNCHANGED <<gate, sent, asked>>
          \/ c # NoChannel /\ s # NoSession /\ GateAsked(<<s, e.file>>, Window[c])
      BY <2>2, Zenon DEF Written
    <3>5. c \in Channels \cup {NoChannel}
      BY FoundChannel
    <3>6. s # NoSession => <<s, e.file>> \in Keys
      BY <3>3, ResolvedKey
    <3> QED BY <2>1, <3>4, <3>5, <3>6, Zenon DEF GateStep
  <2> QED BY <2>1, <2>2 DEF GateStep
<1>4. CASE ReloadMarks
  BY <1>4, Zenon DEF ReloadMarks, GateStep, limits
<1>5. CASE Tick
  BY <1>5, Zenon DEF Tick, GateStep, shared
<1>6. CASE UNCHANGED <<gate, sent, asked, now>>
  BY <1>6 DEF GateStep
<1>7. CASE \/ (\E p \in Clients : Save(p) \/ Release(p) \/ \E f \in Files : OpenFile(p, f))
           \/ (\E d \in Dirs : Mkdir(d) \/ MoveIn(d))
           \/ Reload \/ ThreadWakes \/ DrainPerm \/ Answer
  BY <1>6, <1>7, Zenon DEF Save, Release, OpenFile, Mkdir, MoveIn, NewDirs, Reload,
                           ThreadWakes, DrainPerm, Answer, shared, limits
<1>8. CASE \/ (\E timer \in BOOLEAN : EpollWait(timer))
           \/ Timer \/ ProcessQueued \/ ScanDone \/ NotifyDone \/ NextJob
           \/ Walk \/ WalkDone \/ SwapPolicy \/ Join \/ StartThread
  BY <1>6, <1>8, Zenon DEF EpollWait, Timer, ProcessQueued, ScanDone, NotifyDone, NextJob,
                           Walk, WalkDone, SwapPolicy, Join, StartThread, shared, limits
<1> QED BY <1>2, <1>3, <1>4, <1>5, <1>7, <1>8 DEF Next, System, MainThread, PermThread

(* An event the gate lets through: its entry and the history.              *)
Passed(k, w) ==
    /\ sent' = [sent EXCEPT ![k] = now]
    /\ \/ w = 0 /\ UNCHANGED gate
       \/ \E e \in Entries : /\ e.key = k /\ e.last = now
                             /\ gate' = [gate EXCEPT ![Slot[k]] = e]

(* The two answers of the gate.                                            *)
LEMMA GateAnswers ==
    ASSUME GateTypes(gate, sent, now), NEW k \in Keys, NEW c \in Channels,
           GateAsked(k, Window[c])
    PROVE  \/ /\ Suppress(k, Window[c]) /\ UNCHANGED <<gate, sent>>
              /\ asked' = IF Recent(k, Window[c]) THEN "fine" ELSE "lost"
           \/ /\ ~Suppress(k, Window[c]) /\ Passed(k, Window[c])
              /\ asked' = IF Recent(k, Window[c]) /\ Alone(k) THEN "again" ELSE "fine"
<1>1. Window[c] \in Nat
  BY FanotifyAssumption
<1> DEFINE e == [key |-> k, last |-> now]
<1>2. e \in Entries /\ e.key = k /\ e.last = now
  BY DEF Entries, GateTypes
<1>3. Suppress(k, Window[c]) => UNCHANGED <<gate, sent>>
                                /\ asked' = IF Recent(k, Window[c]) THEN "fine" ELSE "lost"
  BY Zenon DEF GateAsked
<1>4. ~Suppress(k, Window[c]) =>
        /\ asked' = IF Recent(k, Window[c]) /\ Alone(k) THEN "again" ELSE "fine"
        /\ sent' = [sent EXCEPT ![k] = now]
        /\ gate' = IF Window[c] > 0 THEN [gate EXCEPT ![Slot[k]] = e] ELSE gate
  BY Zenon DEF GateAsked
<1> HIDE DEF e
<1>5. ~Suppress(k, Window[c]) => Passed(k, Window[c])
  <2> SUFFICES ASSUME ~Suppress(k, Window[c]) PROVE Passed(k, Window[c])
    OBVIOUS
  <2>1. CASE Window[c] > 0
    BY <1>2, <1>4, <2>1 DEF Passed
  <2>2. CASE ~(Window[c] > 0)
    BY <1>1, <1>4, <2>2 DEF Passed
  <2> QED BY <2>1, <2>2
<1> QED BY <1>3, <1>4, <1>5, Zenon

(* The gate keeps its types.                                               *)
LEMMA GateTypesNext ==
    ASSUME GateTypes(gate, sent, now), GateStep
    PROVE  GateTypes(gate', sent', now')
<1>1. CASE UNCHANGED <<gate, sent>> /\ (now' = now \/ now' = now + 1)
  BY <1>1 DEF GateTypes
<1>2. CASE gate' = [s \in Slots |-> NoEntry] /\ sent' = [k \in Keys |-> Never] /\ UNCHANGED now
  BY <1>2 DEF GateTypes
<1>3. ASSUME NEW k \in Keys, NEW c \in Channels, GateAsked(k, Window[c]), UNCHANGED now
      PROVE  GateTypes(gate', sent', now')
  <2>1. CASE UNCHANGED <<gate, sent>>
    BY <1>3, <2>1 DEF GateTypes
  <2>2. CASE Passed(k, Window[c])
    <3>1. Slot[k] \in Slots
      BY FanotifyAssumption
    <3> QED BY <1>3, <2>2, <3>1 DEF GateTypes, Passed
  <2> QED BY <1>3, <2>1, <2>2, GateAnswers
<1> QED BY <1>1, <1>2, <1>3 DEF GateStep
-----------------------------------------------------------------------------
(* The store.                                                              *)

(* Only the handling of an open writes to it.                              *)
LEMMA StoreFrame ==
    ASSUME Next, ~HandlePerm
    PROVE  UNCHANGED store
<1>1. CASE \/ (\E p \in Clients : Save(p) \/ Release(p) \/ \E f \in Files : OpenFile(p, f))
           \/ (\E d \in Dirs : Mkdir(d) \/ MoveIn(d))
           \/ Tick \/ Reload \/ ThreadWakes \/ DrainPerm \/ Answer
  BY <1>1, Zenon DEF Save, Release, OpenFile, Mkdir, MoveIn, NewDirs, Tick, Reload,
                     ThreadWakes, DrainPerm, Answer, perm
<1>2. CASE \/ (\E timer \in BOOLEAN : EpollWait(timer))
           \/ Timer \/ ProcessQueued \/ ScanDone \/ DrainNotify \/ NotifyDone \/ NextJob
           \/ Walk \/ WalkDone \/ SwapPolicy \/ Join \/ ReloadMarks \/ StartThread
  BY <1>2, Zenon DEF EpollWait, Timer, ProcessQueued, ScanDone, DrainNotify, NotifyDone,
                     NextJob, Walk, WalkDone, SwapPolicy, Join, ReloadMarks, StartThread, perm
<1> QED BY <1>1, <1>2 DEF Next, System, MainThread, PermThread

(* The open that is handled: its file, and its channel.                    *)
LEMMA Handled ==
    ASSUME Waiting(proc, permq, thread, at), AtOpen(thread)
    PROVE  /\ thread.proc \in Procs /\ proc[thread.proc].st = "wait"
           /\ proc[thread.proc].file \in Files
           /\ thread.at = "handle" => thread.chan \in Channels
<1>1. thread \in Threads
  BY DEF Waiting
<1>2. thread.proc \in Procs
  BY <1>1, ThreadFields, Zenon
<1>3. proc[thread.proc] \in Handles /\ proc[thread.proc].st = "wait"
  BY <1>2 DEF Waiting
<1>4. proc[thread.proc].file \in Files
  BY <1>3 DEF Handles, Idle
<1> QED BY <1>2, <1>3, <1>4 DEF Waiting

(* What HandlePerm does to the store and to the thread.                    *)
LEMMA HandleStep ==
    ASSUME Waiting(proc, permq, thread, at), HandlePerm
    PROVE  LET f == proc[thread.proc].file
               b == BackupPath(thread.chan, f)
           IN  /\ AtOpen(thread) /\ thread.at = "handle"
               /\ UNCHANGED <<dirs, dirty, bare, proc, permq, index>>
               /\ \E ok \in BOOLEAN :
                    /\ store' = IF ok THEN Stored(b, f) ELSE store
                    /\ thread' = [thread EXCEPT !.at = "answer", !.backed = ok]
                    /\ \/ UNCHANGED pipe
                       \/ Queued([chan |-> thread.chan, proc |-> thread.proc, file |-> f,
                                  backed |-> ~thread.deny /\ BackedUp(ok)])
<1> DEFINE f == proc[thread.proc].file
           b == BackupPath(thread.chan, f)
           d == ~thread.deny
           Does(ok) == /\ store' = IF ok THEN Stored(b, f) ELSE store
                       /\ thread' = [thread EXCEPT !.at = "answer", !.backed = ok]
                       /\ \/ UNCHANGED pipe
                          \/ Queued([chan |-> thread.chan, proc |-> thread.proc, file |-> f,
                                     backed |-> ~thread.deny /\ BackedUp(ok)])
<1>1. thread.at = "handle" /\ UNCHANGED <<dirs, dirty, bare, proc, permq, index>>
  BY Zenon DEF HandlePerm, watched, kernel
<1>2. \E ok \in IF BackupMayFail THEN BOOLEAN ELSE {d} : Does(ok)
  BY Zenon DEF HandlePerm
<1>3. d \in BOOLEAN
  BY Zenon
<1> HIDE DEF d, Does
<1>4. \E ok \in BOOLEAN : Does(ok)
  BY <1>2, <1>3, Zenon
<1>5. AtOpen(thread)
  BY <1>1 DEF AtOpen
<1> QED BY <1>1, <1>4, <1>5, Zenon DEF Does

(* What is stored is a file's backup under the path of its channel.        *)
LEMMA StoreTypeNext ==
    ASSUME Inv, Next
    PROVE  StoreType(store')
<1>1. StoreType(store) /\ Waiting(proc, permq, thread, at)
  BY DEF Inv
<1>2. CASE ~HandlePerm
  BY <1>1, <1>2, StoreFrame
<1>3. CASE HandlePerm
  <2> DEFINE f == proc[thread.proc].file
             c == thread.chan
  <2>1. /\ AtOpen(thread) /\ thread.at = "handle"
        /\ store' = store \/ store' = Stored(BackupPath(c, f), f)
    BY <1>1, <1>3, HandleStep, Zenon
  <2>2. f \in Files /\ c \in Channels
    BY <1>1, <2>1, Handled
  <2>3. Stored(BackupPath(c, f), f) \subseteq store \cup {Copy(BackupPath(c, f), f)}
    BY Zenon DEF Stored
  <2>4. \E x \in {"original", "changed"} : Copy(BackupPath(c, f), f) = <<BackupPath(c, f), x>>
    BY Zenon DEF Copy
  <2> HIDE DEF f, c
  <2>5. StoreType({Copy(BackupPath(c, f), f)})
    <3>1. PICK x \in {"original", "changed"} : Copy(BackupPath(c, f), f) = <<BackupPath(c, f), x>>
      BY <2>4
    <3>2. StoreType({<<BackupPath(c, f), x>>})
      BY <2>2 DEF StoreType
    <3> QED BY <3>1, <3>2
  <2>6. StoreType(store \cup {Copy(BackupPath(c, f), f)})
    BY <1>1, <2>5 DEF StoreType
  <2>7. \A s1, s2 : s1 \subseteq s2 /\ StoreType(s2) => StoreType(s1)
    BY DEF StoreType
  <2> QED BY <1>1, <2>1, <2>3, <2>6, <2>7
<1> QED BY <1>2, <1>3

(* The invariant holds in every state.                                     *)
THEOREM WatchInvariant == Spec => []Inv
<1>1. Inv /\ [Next]_vars => Inv'
  <2> SUFFICES ASSUME Inv, [Next]_vars PROVE Inv'
    OBVIOUS
  <2>1. CASE Next
    <3>1. GateTypes(gate', sent', now')
      BY <2>1, GateSteps, GateTypesNext DEF Inv
    <3> QED BY <2>1, <3>1, MarkingNext, WaitingNext, StoppedNext, QueuesNext, StoreTypeNext
            DEF Inv
  <2>2. CASE UNCHANGED vars
    BY <2>2 DEF vars, watched, kernel, shared, perm, main, limits, Inv, StoreType, Queues,
                GateTypes, Marking, Stopped, NoThread, Waiting, AtOpen, In, Once
  <2> QED BY <2>1, <2>2
<1> QED BY InitInv, <1>1, PTL DEF Spec

(* The type invariant: both queues keep their limit, and each open that    *)
(* waits in the kernel is queued or being handled once, whatever the order *)
(* of the threads, the reloads and the directories that appear.            *)
THEOREM FanotifyTypes == Spec => []TypeOK
<1>1. Inv => TypeOK
  BY InvParts
<1> QED BY WatchInvariant, <1>1, PTL
-----------------------------------------------------------------------------
(* What the gate holds back.                                               *)

(* An entry of the gate is of a key that went through, not later than the  *)
(* history says, which is not later than now.                              *)
Entered(g, s, t) ==
    /\ \A x \in Slots : g[x] # NoEntry =>
          s[g[x].key] # Never /\ g[x].last <= s[g[x].key]
    /\ \A k \in Keys : s[k] # Never => s[k] <= t

(* A step of the gate keeps this, and holds back only what went through.   *)
LEMMA EnteredNext ==
    ASSUME GateTypes(gate, sent, now), Entered(gate, sent, now), GateStep,
           SuppressedWasSent
    PROVE  Entered(gate', sent', now') /\ SuppressedWasSent'
<1>1. /\ \A x \in Slots : gate[x] # NoEntry => gate[x].key \in Keys /\ gate[x].last \in Nat
      /\ \A k \in Keys : sent[k] # Never => sent[k] \in Nat
      /\ now \in Nat
  BY DEF GateTypes, Entries
<1>2. CASE UNCHANGED <<gate, sent, asked, now>>
  BY <1>2 DEF Entered, SuppressedWasSent
<1>3. CASE UNCHANGED <<gate, sent, asked>> /\ now' = now + 1
  BY <1>1, <1>3 DEF Entered, SuppressedWasSent
<1>4. CASE /\ gate' = [s \in Slots |-> NoEntry] /\ sent' = [k \in Keys |-> Never]
           /\ asked' = "fine" /\ UNCHANGED now
  BY <1>4 DEF Entered, SuppressedWasSent
<1>5. ASSUME NEW k \in Keys, NEW c \in Channels, GateAsked(k, Window[c]), UNCHANGED now
      PROVE  Entered(gate', sent', now') /\ SuppressedWasSent'
  <2>1. Window[c] \in Nat /\ Slot[k] \in Slots
    BY FanotifyAssumption
  <2>2. CASE Suppress(k, Window[c]) /\ UNCHANGED <<gate, sent>>
    <3>1. Recent(k, Window[c])
      BY <1>1, <2>1, <2>2 DEF Suppress, Recent, Entered
    <3>2. asked' = "fine"
      BY <1>5, <2>2, <3>1, Zenon DEF GateAsked
    <3> QED BY <1>5, <2>2, <3>2 DEF Entered, SuppressedWasSent
  <2>3. CASE ~Suppress(k, Window[c]) /\ Passed(k, Window[c])
    <3>1. asked' \in {"again", "fine"}
      BY <1>5, <2>3, Zenon DEF GateAsked
    <3>2. \A j \in Keys : sent'[j] = IF j = k THEN now ELSE sent[j]
      BY <2>3 DEF Passed, GateTypes
    <3>3. \A j \in Keys : sent'[j] # Never => sent'[j] <= now
      BY <1>1, <3>2 DEF Entered
    <3>4. \A j \in Keys : sent[j] # Never => sent'[j] # Never /\ sent[j] <= sent'[j]
      BY <1>1, <3>2, FanotifyAssumption DEF Entered
    <3>5. ASSUME NEW x \in Slots, gate'[x] # NoEntry
          PROVE  sent'[gate'[x].key] # Never /\ gate'[x].last <= sent'[gate'[x].key]
      <4>1. CASE gate'[x] = gate[x]
        <5>1. gate[x].key \in Keys /\ gate[x].last \in Nat /\ sent[gate[x].key] # Never
              /\ gate[x].last <= sent[gate[x].key]
          BY <1>1, <3>5, <4>1 DEF Entered
        <5> QED BY <1>1, <3>2, <3>4, <4>1, <5>1
      <4>2. CASE \E e \in Entries : e.key = k /\ e.last = now /\ gate'[x] = e
        BY <1>1, <3>2, <4>2, FanotifyAssumption
      <4>3. gate'[x] = gate[x] \/ \E e \in Entries : e.key = k /\ e.last = now /\ gate'[x] = e
        BY <2>1, <2>3 DEF Passed, GateTypes
      <4> QED BY <4>1, <4>2, <4>3
    <3> QED BY <1>5, <3>1, <3>3, <3>5 DEF Entered, SuppressedWasSent
  <2> QED BY <1>5, <2>2, <2>3, GateAnswers
<1> QED BY <1>2, <1>3, <1>4, <1>5 DEF GateStep

(* fangate_allow holds an event back only if one of the same session and   *)
(* file went through within the window: buckets that clash cost an extra   *)
(* event, never a lost one, for any hash and any order of the two threads. *)
THEOREM NothingWronglyHeld == Spec => []SuppressedWasSent
<1> DEFINE I == Entered(gate, sent, now) /\ SuppressedWasSent
<1>1. Init => I
  BY DEF Init, Entered, SuppressedWasSent
<1>2. Inv /\ I /\ [Next]_vars => I'
  <2> SUFFICES ASSUME Inv, I, [Next]_vars PROVE I'
    OBVIOUS
  <2>1. CASE Next
    BY <2>1, GateSteps, EnteredNext DEF Inv
  <2>2. CASE UNCHANGED vars
    BY <2>2 DEF vars, shared, limits, Entered, SuppressedWasSent
  <2> QED BY <2>1, <2>2
<1>3. I => SuppressedWasSent
  OBVIOUS
<1> HIDE DEF I
<1> QED BY WatchInvariant, <1>1, <1>2, <1>3, PTL DEF Spec

(* A key that shares its bucket with no other is in it once it went        *)
(* through, with the time it did.                                          *)
Remembered(g, s) ==
    \A k \in Keys : Alone(k) /\ s[k] # Never =>
        g[Slot[k]] # NoEntry /\ g[Slot[k]].key = k /\ g[Slot[k]].last = s[k]

(* With no window of zero seconds, a step of the gate keeps this.          *)
LEMMA RememberedNext ==
    ASSUME GateTypes(gate, sent, now), Remembered(gate, sent), GateStep, OnceAWindow,
           \A c \in Channels : Window[c] > 0
    PROVE  Remembered(gate', sent') /\ OnceAWindow'
<1>1. CASE UNCHANGED <<gate, sent, asked>>
  BY <1>1 DEF Remembered, OnceAWindow
<1>2. CASE /\ gate' = [s \in Slots |-> NoEntry] /\ sent' = [k \in Keys |-> Never]
           /\ asked' = "fine" /\ UNCHANGED now
  BY <1>2 DEF Remembered, OnceAWindow
<1>3. ASSUME NEW k \in Keys, NEW c \in Channels, GateAsked(k, Window[c]), UNCHANGED now
      PROVE  Remembered(gate', sent') /\ OnceAWindow'
  <2>1. Window[c] \in Nat /\ Window[c] > 0 /\ \A j \in Keys : Slot[j] \in Slots
    BY FanotifyAssumption
  <2>2. CASE Suppress(k, Window[c]) /\ UNCHANGED <<gate, sent>>
    <3>1. asked' \in {"fine", "lost"}
      BY <1>3, <2>2, Zenon DEF GateAsked
    <3> QED BY <2>2, <3>1 DEF Remembered, OnceAWindow
  <2>3. CASE ~Suppress(k, Window[c]) /\ Passed(k, Window[c])
    <3>1. ~(Recent(k, Window[c]) /\ Alone(k))
      BY <2>3 DEF Recent, Suppress, Remembered
    <3>2. asked' = "fine"
      BY <1>3, <2>3, <3>1, Zenon DEF GateAsked
    <3>3. PICK e \in Entries : /\ e.key = k /\ e.last = now
                               /\ gate' = [gate EXCEPT ![Slot[k]] = e]
      BY <2>1, <2>3 DEF Passed
    <3>4. \A j \in Keys : sent'[j] = IF j = k THEN now ELSE sent[j]
      BY <2>3 DEF Passed, GateTypes
    <3>5. gate'[Slot[k]] = e /\ \A x \in Slots \ {Slot[k]} : gate'[x] = gate[x]
      BY <2>1, <3>3 DEF GateTypes
    <3>6. ASSUME NEW j \in Keys, Alone(j), sent'[j] # Never
          PROVE  /\ gate'[Slot[j]] # NoEntry /\ gate'[Slot[j]].key = j
                 /\ gate'[Slot[j]].last = sent'[j]
      <4>1. CASE j = k
        BY <3>3, <3>4, <3>5, <4>1, FanotifyAssumption
      <4>2. CASE j # k
        <5>1. Slot[j] # Slot[k]
          BY <3>6, <4>2 DEF Alone
        <5>2. gate'[Slot[j]] = gate[Slot[j]] /\ sent'[j] = sent[j]
          BY <2>1, <3>4, <3>5, <4>2, <5>1
        <5> QED BY <3>6, <5>2 DEF Remembered
      <4> QED BY <4>1, <4>2
    <3> QED BY <3>2, <3>6 DEF Remembered, OnceAWindow
  <2> QED BY <1>3, <2>2, <2>3, GateAnswers
<1> QED BY <1>1, <1>2, <1>3 DEF GateStep

(* Where no channel has a window of zero, a session's risky events on one  *)
(* file go through once in a window between reloads, the permission thread *)
(* and the main thread together, unless another key shares the bucket.     *)
THEOREM CountedOnceAWindow ==
    ASSUME \A c \in Channels : Window[c] > 0
    PROVE  Spec => []OnceAWindow
<1> DEFINE I == Remembered(gate, sent) /\ OnceAWindow
<1>1. Init => I
  BY DEF Init, Remembered, OnceAWindow
<1>2. Inv /\ I /\ [Next]_vars => I'
  <2> SUFFICES ASSUME Inv, I, [Next]_vars PROVE I'
    OBVIOUS
  <2>1. CASE Next
    BY <2>1, GateSteps, RememberedNext DEF Inv
  <2>2. CASE UNCHANGED vars
    BY <2>2 DEF vars, shared, Remembered, OnceAWindow
  <2> QED BY <2>1, <2>2
<1>3. I => OnceAWindow
  OBVIOUS
<1> HIDE DEF I
<1> QED BY WatchInvariant, <1>1, <1>2, <1>3, PTL DEF Spec
-----------------------------------------------------------------------------
(* The pre-images.                                                         *)

(* The original content of f is in the store, or f was written through a   *)
(* handle that has no backup.                                              *)
Safe(st, br, f) ==
    f \in br \/ \E c \in Channels : <<BackupPath(c, f), "original">> \in st

(* All changed files are safe, and so is a file with a backup, which may   *)
(* have been copied late: nobody will copy it again.  Therefore a file is  *)
(* safe once its open was answered, or is about to be, after a backup.     *)
Kept(st, br, dr, pr, t) ==
    /\ \A f \in dr : Safe(st, br, f)
    /\ \A c \in Channels, f \in Files :
          (\E x \in st : x[1] = BackupPath(c, f)) => Safe(st, br, f)
    /\ t.at = "answer" /\ t.backed => Safe(st, br, pr[t.proc].file)
    /\ \A p \in Procs : pr[p].st = "has" => Safe(st, br, pr[p].file)

(* A process moves only when it does not wait; only an answer gives it a   *)
(* handle with a backup.                                                   *)
LEMMA ProcSteps ==
    ASSUME Inv, Next, ~Answer
    PROVE  \A p \in Procs : \/ proc'[p] = proc[p]
                            \/ proc'[p].st # "has" /\ proc[p].st # "wait"
<1>1. Waiting(proc, permq, thread, at)
  BY DEF Inv
<1>2. ASSUME NEW q \in Procs, NEW h, h.st # "has", proc[q].st # "wait",
             proc' = [proc EXCEPT ![q] = h]
      PROVE  \A p \in Procs : \/ proc'[p] = proc[p]
                              \/ proc'[p].st # "has" /\ proc[p].st # "wait"
  BY <1>1, <1>2 DEF Waiting
<1>3. Idle.st # "has" /\ \A f : Open("wait", f).st # "has" /\ Open("bare", f).st # "has"
  BY DEF Idle, Open
<1>4. ASSUME NEW p \in Clients, NEW f \in Files, OpenFile(p, f)
      PROVE  \E h : h.st # "has" /\ proc[p].st # "wait" /\ proc' = [proc EXCEPT ![p] = h]
  <2>1. proc[p].st # "wait"
    BY <1>4 DEF OpenFile, Idle
  <2>2. \/ proc' = [proc EXCEPT ![p] = Open("wait", f)]
        \/ proc' = [proc EXCEPT ![p] = Open("bare", f)]
    BY <1>4, Zenon DEF OpenFile
  <2> QED BY <1>3, <2>1, <2>2
<1>5. ASSUME NEW p \in Clients, Save(p) \/ Release(p)
      PROVE  \E h : h.st # "has" /\ proc[p].st # "wait" /\ proc' = [proc EXCEPT ![p] = h]
  <2>1. proc[p].st \in {"has", "bare"} /\ proc' = [proc EXCEPT ![p] = Idle]
    BY <1>5, Zenon DEF Save, Release
  <2> QED BY <1>3, <2>1
<1>6. ASSUME NEW f, ScanOrReturn(f), at = "serve"
      PROVE  \/ UNCHANGED proc
             \/ \E h : h.st # "has" /\ proc[Main].st # "wait" /\ proc' = [proc EXCEPT ![Main] = h]
  BY <1>1, <1>3, <1>6 DEF ScanOrReturn, Waiting
<1>7. CASE ProcessQueued \/ DrainNotify
  <2>1. UNCHANGED proc \/ (at = "serve" /\ \E f : ScanOrReturn(f))
    BY <1>7, Zenon DEF ProcessQueued, DrainNotify, Skip, NewDir, Overflow, Written
  <2>2. Main \in Procs
    BY DEF Procs
  <2> QED BY <1>2, <1>6, <2>1, <2>2
<1>8. CASE ScanDone
  <2>1. proc[Main].st # "wait" /\ proc' = [proc EXCEPT ![Main] = Idle]
    BY <1>8, Zenon DEF ScanDone
  <2>2. Main \in Procs
    BY DEF Procs
  <2> QED BY <1>2, <1>3, <2>1, <2>2
<1>9. CASE ThreadWakes \/ DrainPerm \/ HandlePerm \/ StartThread
  BY <1>9, Zenon DEF ThreadWakes, DrainPerm, HandlePerm, StartThread, watched
<1>10. Clients \subseteq Procs
  BY DEF Procs
<1> QED BY <1>2, <1>4, <1>5, <1>7, <1>8, <1>9, <1>10, WaitingFrame
        DEF Next, System, MainThread, PermThread

(* Only the handling of an open brings the thread to an answer after a     *)
(* backup.                                                                 *)
LEMMA ThreadSteps ==
    ASSUME Next, ~HandlePerm
    PROVE  thread' = thread \/ ~(thread'.at = "answer" /\ thread'.backed)
<1>1. CASE ThreadWakes \/ Answer \/ StartThread
  <2>1. thread' \in {[at |-> "drain"], [at |-> "off"], Poll, thread}
    BY <1>1, Zenon DEF ThreadWakes, Answer, StartThread
  <2> QED BY <2>1 DEF Poll
<1>2. CASE DrainPerm
  <2>1. \/ thread' = Poll
        \/ \E st, p, c, deny : thread' = Handling(st, p, c, deny)
    BY <1>2, Zenon DEF DrainPerm
  <2> QED BY <2>1 DEF Poll, Handling
<1>3. CASE ProcessQueued \/ DrainNotify \/ ScanDone
  BY <1>3, Zenon DEF ProcessQueued, DrainNotify, ScanDone, perm
<1>4. CASE \E p \in Clients : Save(p) \/ Release(p) \/ \E f \in Files : OpenFile(p, f)
  BY <1>4, Zenon DEF Save, Release, OpenFile, perm
<1> QED BY <1>1, <1>2, <1>3, <1>4, WaitingFrame DEF Next, System, MainThread, PermThread

(* A safe file stays safe: backups are not replaced.                       *)
LEMMA SafeStays ==
    ASSUME NEW f, Safe(store, bare, f), store \subseteq store', bare \subseteq bare'
    PROVE  Safe(store', bare', f)
BY DEF Safe

(* A step that handles and answers no open, and saves no file.             *)
LEMMA KeptFrame ==
    ASSUME Inv, Next, ~HandlePerm, ~Answer, Kept(store, bare, dirty, proc, thread),
           UNCHANGED <<dirty, bare>>
    PROVE  Kept(store', bare', dirty', proc', thread')
<1>1. UNCHANGED store
  BY StoreFrame
<1>2. ASSUME thread'.at = "answer", thread'.backed
      PROVE  Safe(store', bare', proc'[thread'.proc].file)
  <2>1. thread' = thread
    BY <1>2, ThreadSteps
  <2>2. AtOpen(thread) /\ Waiting(proc, permq, thread, at)
    BY <1>2, <2>1 DEF AtOpen, Inv
  <2>3. thread.proc \in Procs /\ proc[thread.proc].st = "wait"
    BY <2>2, Handled
  <2>4. proc'[thread.proc] = proc[thread.proc]
    BY <2>3, ProcSteps
  <2> QED BY <1>1, <1>2, <2>1, <2>4 DEF Kept
<1>3. ASSUME NEW p \in Procs, proc'[p].st = "has" PROVE Safe(store', bare', proc'[p].file)
  <2>1. proc'[p] = proc[p]
    BY <1>3, ProcSteps
  <2> QED BY <1>1, <1>3, <2>1 DEF Kept
<1> QED BY <1>1, <1>2, <1>3 DEF Kept

(* A process writes through its handle.                                    *)
LEMMA KeptSave ==
    ASSUME Inv, Kept(store, bare, dirty, proc, thread), NEW p \in Clients, Save(p)
    PROVE  Kept(store', bare', dirty', proc', thread')
<1> DEFINE f == proc[p].file
<1>1. /\ UNCHANGED <<store, thread>> /\ dirty' = dirty \cup {f}
      /\ bare' = IF proc[p].st = "bare" THEN bare \cup {f} ELSE bare
      /\ proc[p].st \in {"has", "bare"}
  BY Zenon DEF Save, perm
<1>2. p \in Procs
  BY DEF Procs
<1>3. bare \subseteq bare' /\ \A g : Safe(store, bare, g) => Safe(store', bare', g)
  BY <1>1, SafeStays
<1>4. Safe(store', bare', f)
  <2>1. CASE proc[p].st = "has"
    BY <1>2, <1>3, <2>1 DEF Kept
  <2>2. CASE proc[p].st = "bare"
    BY <1>1, <2>2 DEF Safe
  <2> QED BY <1>1, <2>1, <2>2
<1>5. ~HandlePerm /\ ~Answer /\ Next
  <2>1. Next
    BY Zenon DEF Next, System
  <2>2. dirs' = dirs /\ proc' = [proc EXCEPT ![p] = Idle] /\ UNCHANGED thread
    BY Zenon DEF Save, perm
  <2>3. ~HandlePerm
    <3> SUFFICES ASSUME HandlePerm PROVE FALSE
      OBVIOUS
    <3>1. proc' = proc
      BY Zenon DEF HandlePerm, watched
    <3>2. proc'[p] = Idle
      BY <1>2, <2>2 DEF Inv, Waiting
    <3> QED BY <1>1, <3>1, <3>2 DEF Idle
  <2>4. ~Answer
    <3> SUFFICES ASSUME Answer PROVE FALSE
      OBVIOUS
    <3>1. thread.at = "answer" /\ thread' = [at |-> "drain"]
      BY Zenon DEF Answer
    <3> QED BY <1>1, <3>1
  <2> QED BY <2>1, <2>3, <2>4
<1>6. ASSUME thread'.at = "answer", thread'.backed
      PROVE  Safe(store', bare', proc'[thread'.proc].file)
  <2>1. AtOpen(thread) /\ Waiting(proc, permq, thread, at)
    BY <1>1, <1>6 DEF AtOpen, Inv
  <2>2. thread.proc \in Procs /\ proc[thread.proc].st = "wait"
    BY <2>1, Handled
  <2>3. proc'[thread.proc] = proc[thread.proc]
    BY <1>5, <2>2, ProcSteps
  <2> QED BY <1>1, <1>3, <1>6, <2>3 DEF Kept
<1>7. ASSUME NEW q \in Procs, proc'[q].st = "has" PROVE Safe(store', bare', proc'[q].file)
  <2>1. proc'[q] = proc[q]
    BY <1>5, <1>7, ProcSteps
  <2> QED BY <1>3, <1>7, <2>1 DEF Kept
<1> HIDE DEF f
<1> QED BY <1>1, <1>3, <1>4, <1>6, <1>7 DEF Kept

(* The permission thread makes a backup, or finds one.                     *)
LEMMA KeptHandle ==
    ASSUME Inv, Kept(store, bare, dirty, proc, thread), HandlePerm
    PROVE  Kept(store', bare', dirty', proc', thread')
<1> DEFINE f == proc[thread.proc].file
           b == BackupPath(thread.chan, f)
<1>1. Waiting(proc, permq, thread, at)
  BY DEF Inv
<1>2. PICK ok \in BOOLEAN :
        /\ AtOpen(thread) /\ thread.at = "handle" /\ UNCHANGED <<dirty, bare, proc>>
        /\ store' = IF ok THEN Stored(b, f) ELSE store
        /\ thread' = [thread EXCEPT !.at = "answer", !.backed = ok]
  BY <1>1, HandleStep, Zenon
<1>3. thread \in Threads /\ f \in Files /\ thread.chan \in Channels /\ thread.proc \in Procs
  BY <1>1, <1>2, Handled DEF Waiting
<1>4. thread'.proc = thread.proc /\ thread'.backed = ok
  <2>1. thread'.proc = thread.proc
    BY <1>2, <1>3, ThreadFields, Zenon
  <2>2. thread \in [at : {"handle", "answer"}, proc : Procs, deny : BOOLEAN,
                    chan : Channels \cup {NoChannel}, backed : BOOLEAN]
    BY <1>2, <1>3 DEF Threads, AtOpen
  <2>3. thread'.backed = ok
    BY <1>2, <2>2
  <2> QED BY <2>1, <2>3
<1>5. b = <<Source[thread.chan], "path", f>> /\ Copy(b, f)[1] = b
  BY Zenon DEF BackupPath, Copy
<1>6. store \subseteq store' /\ store' \subseteq store \cup {Copy(b, f)}
  BY <1>2, Zenon DEF Stored
<1>7. \A g : Safe(store, bare, g) => Safe(store', bare', g)
  BY <1>2, <1>6, SafeStays
<1>8. Copy(b, f) \in store' => Safe(store', bare', f)
  <2>1. CASE f \in dirty
    BY <1>7, <2>1 DEF Kept
  <2>2. CASE f \notin dirty
    <3>1. Copy(b, f) = <<BackupPath(thread.chan, f), "original">>
      BY <2>2 DEF Copy
    <3> QED BY <1>3, <3>1 DEF Safe
  <2> QED BY <2>1, <2>2
<1>9. ASSUME NEW c \in Channels, NEW g \in Files, NEW x \in store', x[1] = BackupPath(c, g)
      PROVE  Safe(store', bare', g)
  <2>1. CASE x \in store
    BY <1>7, <1>9, <2>1 DEF Kept
  <2>2. CASE x \notin store
    <3>1. x = Copy(b, f)
      BY <1>6, <2>2
    <3>2. BackupPath(c, g) = b
      BY <1>5, <1>9, <3>1
    <3>3. g = f
      BY <3>2 DEF BackupPath
    <3> QED BY <1>8, <3>1, <3>3
  <2> QED BY <2>1, <2>2
<1>10. ok => Safe(store', bare', f)
  <2> SUFFICES ASSUME ok PROVE Safe(store', bare', f)
    OBVIOUS
  <2>1. CASE HasBackup(b)
    <3>1. Safe(store, bare, f)
      BY <1>3, <2>1, Zenon DEF Kept, HasBackup
    <3> QED BY <1>7, <3>1
  <2>2. CASE ~HasBackup(b)
    <3>1. Copy(b, f) \in store'
      BY <1>2, <2>2, Zenon DEF Stored
    <3> QED BY <1>8, <3>1
  <2> QED BY <2>1, <2>2
<1> HIDE DEF f, b
<1> QED BY <1>2, <1>4, <1>7, <1>9, <1>10 DEF Kept, f

(* An open is answered.                                                    *)
LEMMA KeptAnswer ==
    ASSUME Inv, Kept(store, bare, dirty, proc, thread), Answer
    PROVE  Kept(store', bare', dirty', proc', thread')
<1> DEFINE p == thread.proc
           h == IF thread.deny THEN Idle
                ELSE Open(IF thread.backed THEN "has" ELSE "bare", proc[p].file)
<1>1. /\ thread.at = "answer" /\ thread' = [at |-> "drain"]
      /\ UNCHANGED <<store, bare, dirty>> /\ proc' = [proc EXCEPT ![p] = h]
  BY Zenon DEF Answer
<1>2. Waiting(proc, permq, thread, at) /\ AtOpen(thread)
  BY <1>1 DEF Inv, AtOpen
<1>3. p \in Procs
  BY <1>2, Handled
<1>4. h.st = "has" => thread.backed /\ h.file = proc[p].file
  BY DEF Idle, Open
<1> HIDE DEF h, p
<1>5. \A q \in Procs : proc'[q] = IF q = p THEN h ELSE proc[q]
  BY <1>1, <1>2 DEF Waiting
<1>6. ASSUME NEW q \in Procs, proc'[q].st = "has" PROVE Safe(store', bare', proc'[q].file)
  <2>1. CASE q = p
    BY <1>1, <1>3, <1>4, <1>5, <1>6, <2>1 DEF Kept, p
  <2>2. CASE q # p
    BY <1>1, <1>5, <1>6, <2>2 DEF Kept
  <2> QED BY <2>1, <2>2
<1> QED BY <1>1, <1>6 DEF Kept

(* A file that was only changed through handles the permission thread let  *)
(* through after a backup has its original content in the store: for any   *)
(* channels, nested or not, any failing backups, reloads and interleaving. *)
THEOREM OriginalsAreKept == Spec => []PreImagesKept
<1> DEFINE I == Kept(store, bare, dirty, proc, thread)
<1>1. Init => I
  BY DEF Init, Kept, Idle, Poll
<1>2. Inv /\ I /\ [Next]_vars => I'
  <2> SUFFICES ASSUME Inv, I, [Next]_vars PROVE Kept(store', bare', dirty', proc', thread')
    OBVIOUS
  <2>1. CASE HandlePerm
    BY <2>1, KeptHandle
  <2>2. CASE Answer
    BY <2>2, KeptAnswer
  <2>3. CASE \E p \in Clients : Save(p)
    BY <2>3, KeptSave
  <2>4. CASE Next /\ ~HandlePerm /\ ~Answer /\ UNCHANGED <<dirty, bare>>
    BY <2>4, KeptFrame
  <2>5. CASE Next /\ ~HandlePerm /\ ~Answer /\ ~\E p \in Clients : Save(p)
    <3>1. UNCHANGED <<dirty, bare>>
      <4>1. CASE \/ (\E d \in Dirs : Mkdir(d) \/ MoveIn(d)) \/ Walk \/ ReloadMarks
        BY <4>1, Zenon DEF Mkdir, MoveIn, NewDirs, Walk, ReloadMarks, watched
      <4> QED BY <2>5, <4>1, MarkingFrame DEF Next, System, MainThread
    <3> QED BY <2>4, <2>5, <3>1
  <2>6. CASE UNCHANGED vars
    <3>1. UNCHANGED <<store, bare, dirty, proc, thread>>
      BY <2>6 DEF vars, watched, perm
    <3> QED BY <3>1
  <2> QED BY <2>1, <2>2, <2>3, <2>5, <2>6
<1>3. I => PreImagesKept
  BY DEF Kept, Safe, PreImagesKept
<1> HIDE DEF I
<1> QED BY WatchInvariant, <1>1, <1>2, <1>3, PTL DEF Spec
-----------------------------------------------------------------------------
(* The rows of the index.                                                  *)

(* Paths that the row writer reads as they were built: no cloud channel,   *)
(* and no path that has the name of its share in it a second time.         *)
PlainPaths == /\ \A c \in Channels : Source[c] # "cloud"
              /\ \A c \in Channels, f \in Files : <<Source[c], f>> \notin Embedded

(* A queued event that says so is of a file with a backup in the store.    *)
Truthful(q, st) ==
    \A i \in DOMAIN q : q[i].backed =>
        \E x \in st : x[1] = BackupPath(q[i].chan, q[i].file)

(* The store grows.                                                        *)
LEMMA StoreGrows ==
    ASSUME Inv, Next
    PROVE  store \subseteq store'
<1>1. CASE HandlePerm
  <2>1. \E b, f : store' = store \/ store' = Stored(b, f)
    BY <1>1, HandleStep, Zenon DEF Inv
  <2>2. \A b, f : store \subseteq Stored(b, f)
    BY Zenon DEF Stored
  <2> QED BY <2>1, <2>2
<1> QED BY <1>1, StoreFrame

(* Every step keeps the queued events truthful.                            *)
LEMMA TruthfulNext ==
    ASSUME Inv, Next, Truthful(pipe, store)
    PROVE  Truthful(pipe', store')
<1>1. Waiting(proc, permq, thread, at) /\ Queues(notifyq, pipe)
  BY DEF Inv
<1>2. store \subseteq store'
  BY StoreGrows
<1>3. CASE UNCHANGED pipe
  BY <1>2, <1>3 DEF Truthful
<1>4. CASE HandlePerm
  <2> DEFINE f == proc[thread.proc].file
             b == BackupPath(thread.chan, f)
             y(ok) == ~thread.deny /\ BackedUp(ok)
             E(ok) == [chan |-> thread.chan, proc |-> thread.proc, file |-> f, backed |-> y(ok)]
  <2>1. PICK ok \in BOOLEAN : /\ store' = IF ok THEN Stored(b, f) ELSE store
                              /\ UNCHANGED pipe \/ Queued(E(ok))
    BY <1>1, <1>4, HandleStep, Zenon
  <2>2. E(ok).chan = thread.chan /\ E(ok).file = f /\ (E(ok).backed => ok)
    BY Zenon DEF BackedUp
  <2>3. ok => \E x \in store' : x[1] = b
    <3>1. Copy(b, f)[1] = b
      BY DEF Copy
    <3>2. ok => \E x \in Stored(b, f) : x[1] = b
      BY <3>1, Zenon DEF Stored, HasBackup
    <3> QED BY <2>1, <3>2, Zenon
  <2> DEFINE e == E(ok)
  <2>4. e.backed => \E x \in store' : x[1] = BackupPath(e.chan, e.file)
    BY <2>2, <2>3, Zenon
  <2>5. UNCHANGED pipe \/ pipe' = Append(pipe, e)
    BY <2>1, Zenon DEF Queued
  <2> HIDE DEF e
  <2>6. CASE pipe' = Append(pipe, e)
    <3>1. /\ Len(pipe) \in Nat /\ DOMAIN pipe = 1 .. Len(pipe)
          /\ DOMAIN pipe' = 1 .. Len(pipe) + 1 /\ pipe'[Len(pipe) + 1] = e
          /\ \A i \in 1 .. Len(pipe) : pipe'[i] = pipe[i]
      <4>1. pipe \in Seq(Queries)
        BY <1>1 DEF Queues
      <4> QED BY <2>6, <4>1
    <3>2. ASSUME NEW i \in DOMAIN pipe', pipe'[i].backed
          PROVE  \E x \in store' : x[1] = BackupPath(pipe'[i].chan, pipe'[i].file)
      <4>1. CASE i = Len(pipe) + 1
        BY <2>4, <3>1, <3>2, <4>1
      <4>2. CASE i \in 1 .. Len(pipe)
        BY <1>2, <3>1, <3>2, <4>2 DEF Truthful
      <4> QED BY <3>1, <3>2, <4>1, <4>2
    <3> QED BY <3>2 DEF Truthful
  <2> QED BY <1>3, <2>5, <2>6
<1>5. CASE ProcessQueued
  <2>1. UNCHANGED pipe \/ (pipe # <<>> /\ pipe' = Tail(pipe))
    BY <1>5, Zenon DEF ProcessQueued
  <2>2. CASE pipe # <<>> /\ pipe' = Tail(pipe)
    <3>1. /\ Len(pipe) \in Nat /\ DOMAIN pipe = 1 .. Len(pipe)
          /\ DOMAIN pipe' = 1 .. Len(pipe) - 1
          /\ \A i \in 1 .. Len(pipe) - 1 : pipe'[i] = pipe[i + 1]
      BY <1>1, <2>2, HeadTail DEF Queues
    <3>2. ASSUME NEW i \in DOMAIN pipe', pipe'[i].backed
          PROVE  \E x \in store' : x[1] = BackupPath(pipe'[i].chan, pipe'[i].file)
      <4>1. i + 1 \in DOMAIN pipe /\ pipe'[i] = pipe[i + 1]
        BY <3>1, <3>2
      <4> QED BY <1>2, <3>2, <4>1 DEF Truthful
    <3> QED BY <3>2 DEF Truthful
  <2> QED BY <1>3, <2>1, <2>2
<1>6. CASE \/ (\E p \in Clients : Save(p) \/ Release(p) \/ \E f \in Files : OpenFile(p, f))
           \/ (\E d \in Dirs : Mkdir(d) \/ MoveIn(d))
           \/ Tick \/ Reload \/ ThreadWakes \/ DrainPerm \/ Answer
  BY <1>3, <1>6, Zenon DEF Save, Release, OpenFile, Mkdir, MoveIn, NewDirs, Tick, Reload,
                           ThreadWakes, DrainPerm, Answer, shared
<1>7. CASE \/ (\E timer \in BOOLEAN : EpollWait(timer))
           \/ Timer \/ ScanDone \/ DrainNotify \/ NotifyDone \/ NextJob
           \/ Walk \/ WalkDone \/ SwapPolicy \/ Join \/ ReloadMarks \/ StartThread
  BY <1>3, <1>7, Zenon DEF EpollWait, Timer, ScanDone, DrainNotify, NotifyDone,
                     NextJob, Walk, WalkDone, SwapPolicy, Join, ReloadMarks, StartThread, shared
<1> QED BY <1>4, <1>5, <1>6, <1>7 DEF Next, System, MainThread, PermThread

(* Only process_msg of a queued open with a backup writes a row.           *)
LEMMA IndexSteps ==
    ASSUME Inv, Next
    PROVE  \/ UNCHANGED index
           \/ /\ pipe # <<>> /\ Head(pipe).backed
              /\ index' = index \cup {IndexedPath(Head(pipe).chan, Head(pipe).file)}
<1>1. CASE ProcessQueued
  BY <1>1, Zenon DEF ProcessQueued
<1>2. CASE \/ (\E p \in Clients : Save(p) \/ Release(p) \/ \E f \in Files : OpenFile(p, f))
           \/ (\E d \in Dirs : Mkdir(d) \/ MoveIn(d))
           \/ Tick \/ Reload \/ PermThread
  BY <1>2, Zenon DEF Save, Release, OpenFile, Mkdir, MoveIn, NewDirs, Tick, Reload,
                     PermThread, ThreadWakes, DrainPerm, HandlePerm, Answer
<1>3. CASE \/ (\E timer \in BOOLEAN : EpollWait(timer))
           \/ Timer \/ ScanDone \/ DrainNotify \/ NotifyDone \/ NextJob
           \/ Walk \/ WalkDone \/ SwapPolicy \/ Join \/ ReloadMarks \/ StartThread
  BY <1>3, Zenon DEF EpollWait, Timer, ScanDone, DrainNotify, NotifyDone,
                     NextJob, Walk, WalkDone, SwapPolicy, Join, ReloadMarks, StartThread
<1> QED BY <1>1, <1>2, <1>3 DEF Next, System, MainThread

(* Where the paths are plain, the backup a row of protected_files names is *)
(* in the store: the event that makes the row is queued after the copy,    *)
(* and the pipe neither reorders nor changes it.  A cloud channel breaks   *)
(* this (run fan_index).                                                   *)
THEOREM RowsNameBackups ==
    ASSUME PlainPaths
    PROVE  Spec => []IndexedIsStored
<1> DEFINE I == Truthful(pipe, store) /\ IndexedIsStored
<1>1. Init => I
  <2> SUFFICES ASSUME Init PROVE I
    OBVIOUS
  <2>1. pipe = <<>> /\ index = {}
    BY DEF Init
  <2> QED BY <2>1 DEF Truthful, IndexedIsStored
<1>2. ASSUME NEW c \in Channels, NEW f \in Files PROVE IndexedPath(c, f) = BackupPath(c, f)
  BY <1>2 DEF PlainPaths, IndexedPath, BackupPath, Share
<1>3. Inv /\ I /\ [Next]_vars => I'
  <2> SUFFICES ASSUME Inv, I, [Next]_vars PROVE Truthful(pipe', store') /\ IndexedIsStored'
    OBVIOUS
  <2>1. CASE Next
    <3>1. Truthful(pipe', store') /\ store \subseteq store'
      BY <2>1, TruthfulNext, StoreGrows
    <3>2. \A b : HasBackup(b) => \E x \in store' : x[1] = b
      BY <3>1, Zenon DEF HasBackup
    <3>3. CASE UNCHANGED index
      BY <3>1, <3>2, <3>3, Zenon DEF IndexedIsStored, HasBackup
    <3>4. CASE /\ pipe # <<>> /\ Head(pipe).backed
               /\ index' = index \cup {IndexedPath(Head(pipe).chan, Head(pipe).file)}
      <4> DEFINE m == Head(pipe)
      <4>1. pipe \in Seq(Queries)
        BY DEF Inv, Queues
      <4>2. m \in Queries /\ 1 \in DOMAIN pipe /\ m = pipe[1]
        BY <3>4, <4>1, HeadTail
      <4>3. m.chan \in Channels /\ m.file \in Files
        BY <4>2, EventFields
      <4>4. HasBackup(BackupPath(m.chan, m.file))
        BY <3>4, <4>2, Zenon DEF Truthful, HasBackup
      <4>5. IndexedPath(m.chan, m.file) = BackupPath(m.chan, m.file)
        BY <1>2, <4>3
      <4> HIDE DEF m
      <4>6. index' = index \cup {BackupPath(m.chan, m.file)}
        BY <3>4, <4>5 DEF m
      <4> QED BY <3>1, <3>2, <4>4, <4>6, Zenon DEF IndexedIsStored, HasBackup
    <3> QED BY <2>1, <3>3, <3>4, IndexSteps
  <2>2. CASE UNCHANGED vars
    BY <2>2, Zenon DEF vars, shared, perm, Truthful, IndexedIsStored, HasBackup
  <2> QED BY <2>1, <2>2
<1>4. I => IndexedIsStored
  OBVIOUS
<1> HIDE DEF I
<1> QED BY WatchInvariant, <1>1, <1>3, <1>4, PTL DEF Spec
=============================================================================
