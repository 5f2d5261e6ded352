------------------------- MODULE ChannelBlockProofs -------------------------
(***************************************************************************)
(* Proofs about ChannelBlock for any set of pids, any number of processes, *)
(* events and versions of the task, and whatever may fail.                 *)
(***************************************************************************)
EXTENDS ChannelBlock, TLAPS

CloudStages == {"query", "reap", "save", "delete", "tree"}

(* What the stages of the main thread know of one another: the task is     *)
(* handled for the cloud channel alone, which has no start time to compare *)
(* with, and whoever is about to fork a reaper has seen the process alive. *)
StagesFit ==
    /\ main.at \in CloudStages => main.ch = "cloud" /\ main.start = 0
    /\ main.at = "event" => main.start = 0
    /\ main.at = "check" => main.ch # "cloud"
    /\ main.at = "fork" => main.pid \in Pids

(* TypeOK and AimIsTrue are not inductive without what the stages know:    *)
(* the first because of the pid a reaper is given, the second because the  *)
(* cloud channel takes no look that could fail.                            *)
AimInv == TypeOK /\ StagesFit /\ AimIsTrue
-----------------------------------------------------------------------------
(* The kill of a process, or its end, gives no pid to another process: who *)
(* is alive afterwards was so before, born at the same time.               *)
LEMMA WithoutFacts ==
    ASSUME TypeOK, NEW p \in Pids
    PROVE  /\ Without(p) \in [Pids -> {Free} \cup [born : 1..births, kind : Kinds,
                                                  up : Pids \cup {NoPid}]]
           /\ \A q \in Pids : Without(p)[q] # Free
                 => proc[q] # Free /\ Without(p)[q].born = proc[q].born
<1> DEFINE R == [born : 1..births, kind : Kinds, up : Pids \cup {NoPid}]
<1>1. ASSUME NEW q \in Pids
      PROVE  /\ Without(p)[q] \in {Free} \cup R
             /\ Without(p)[q] # Free
                   => proc[q] # Free /\ Without(p)[q].born = proc[q].born
  <2>1. proc[q] \in {Free} \cup R
    BY DEF TypeOK
  <2>2. CASE q = p \/ proc[q] = Free
    BY <2>2 DEF Without
  <2>3. CASE q # p /\ proc[q] # Free
    <3>1. proc[q] \in R
      BY <2>1, <2>3
    <3>2. [proc[q] EXCEPT !.up = NoPid] \in R
      BY <3>1
    <3>3. [proc[q] EXCEPT !.up = NoPid].born = proc[q].born
      BY <3>1
    <3> QED BY <2>3, <3>1, <3>2, <3>3 DEF Without
  <2> QED BY <2>2, <2>3
<1> QED BY <1>1 DEF Without

(* A SIGKILL, of a pid in use or not, is no different.                     *)
LEMMA SIGKILLFacts ==
    ASSUME TypeOK, NEW p, SIGKILL(p)
    PROVE  /\ proc' \in [Pids -> {Free} \cup [born : 1..births, kind : Kinds,
                                              up : Pids \cup {NoPid}]]
           /\ \A q \in Pids : proc'[q] # Free
                 => proc[q] # Free /\ proc'[q].born = proc[q].born
BY WithoutFacts DEF SIGKILL, proc_alive, TypeOK

(* Whoever is to die is alive.                                             *)
LEMMA DoomFacts ==
    ASSUME NEW new, Doom(new)
    PROVE  doomed' \subseteq {p \in Pids : proc_alive(p)}'
BY DEF Doom, proc_alive

(* Before anything has happened.                                           *)
LEMMA AimInvInit == Init => AimInv
<1> SUFFICES ASSUME Init PROVE AimInv
  OBVIOUS
<1>1. TypeOK
  BY ChannelAssumption DEF Init, TypeOK, Plan, Idle, Channels, proc_alive
<1>2. StagesFit /\ AimIsTrue
  BY DEF Init, StagesFit, AimIsTrue, Idle, CloudStages
<1> QED BY <1>1, <1>2 DEF AimInv

(* AimIsTrue survives whenever no pid passes to another process and the    *)
(* main thread and the reapers aim at what was aimed at before.            *)
LEMMA AimSurvives ==
    ASSUME AimIsTrue,
           \A q \in Pids : proc'[q] # Free
                 => proc[q] # Free /\ proc'[q].born = proc[q].born,
           main' = main \/ main'.at \notin {"kill", "fork"},
           \A r \in reapers' : r \in reapers
              \/ /\ main.at = "fork"
                 /\ r.pid = main.pid /\ r.start = main.start /\ r.seen = main.seen
              \/ \E s \in reapers :
                    r.pid = s.pid /\ r.start = s.start /\ r.seen = s.seen
    PROVE  AimIsTrue'
<1> SUFFICES ASSUME NEW x, \/ x = main' /\ x.at \in {"kill", "fork"}
                           \/ x \in reapers',
                    x.start # 0, x.pid \in Pids, proc'[x.pid] # Free
             PROVE  proc'[x.pid].born = x.start \/ proc'[x.pid].born > x.seen
  BY DEF AimIsTrue, proc_alive
<1>1. PICK y : /\ (y = main /\ y.at \in {"kill", "fork"}) \/ y \in reapers
               /\ y.pid = x.pid /\ y.start = x.start /\ y.seen = x.seen
  OBVIOUS
<1>2. proc[x.pid].born = x.start \/ proc[x.pid].born > x.seen
  BY <1>1 DEF AimIsTrue, proc_alive
<1> QED BY <1>2
-----------------------------------------------------------------------------
(* A process that starts is born after every look that was taken.          *)
LEMMA StartKeepsInv ==
    ASSUME AimInv, NEW p \in Pids, NEW up \in Pids \cup {NoPid},
           NEW kind \in Kinds, Start(p, up, kind)
    PROVE  AimInv'
<1> DEFINE new == [born |-> births', up |-> up, kind |-> kind]
<1>1. /\ births' = births + 1 /\ births' \in 0..MaxBirths /\ births \in Nat
      /\ proc' = [proc EXCEPT ![p] = new] /\ proc[p] = Free
      /\ UNCHANGED <<main, reapers, task, version, rows, events, doomed>>
  BY ChannelAssumption DEF AimInv, TypeOK, Start, croner, plans
<1>2. new \in [born : 1..births', kind : Kinds, up : Pids \cup {NoPid}]
  BY <1>1
<1>3. TypeOK'
  <2>1. proc' \in [Pids -> {Free} \cup [born : 1..births', kind : Kinds,
                                        up : Pids \cup {NoPid}]]
    <3>1. ASSUME NEW q \in Pids
          PROVE  proc[q] \in {Free} \cup [born : 1..births', kind : Kinds,
                                          up : Pids \cup {NoPid}]
      BY <1>1 DEF AimInv, TypeOK
    <3> HIDE DEF new
    <3> QED BY <1>1, <1>2, <3>1 DEF AimInv, TypeOK
  <2>2. main' \in Plan'
    BY <1>1 DEF AimInv, TypeOK, Plan
  <2>3. reapers' \subseteq [pid : Pids, start : 0..births', seen : 0..births',
                            pids : SUBSET Pids]
    BY <1>1 DEF AimInv, TypeOK
  <2>4. doomed' \subseteq {q \in Pids : proc_alive(q)}'
    BY <1>1 DEF AimInv, TypeOK, proc_alive
  <2> QED BY <1>1, <2>1, <2>2, <2>3, <2>4 DEF AimInv, TypeOK
<1>4. StagesFit'
  BY <1>1 DEF AimInv, StagesFit
<1>5. AimIsTrue'
  <2> SUFFICES ASSUME NEW x \in {y \in {main} : y.at \in {"kill", "fork"}} \cup reapers,
                      x.start # 0, x.pid \in Pids, proc'[x.pid] # Free
               PROVE  proc'[x.pid].born = x.start \/ proc'[x.pid].born > x.seen
    BY <1>1 DEF AimIsTrue, proc_alive
  <2>1. x.seen \in 0..births
    BY DEF AimInv, TypeOK, Plan
  <2>2. CASE x.pid = p
    BY <1>1, <2>1, <2>2 DEF AimInv, TypeOK
  <2>3. CASE x.pid # p
    BY <1>1, <2>3 DEF AimInv, TypeOK, AimIsTrue, proc_alive
  <2> QED BY <2>2, <2>3
<1> QED BY <1>3, <1>4, <1>5 DEF AimInv

(* The end of a process.                                                   *)
LEMMA ExitKeepsInv ==
    ASSUME AimInv, NEW p \in Pids, Exit(p)
    PROVE  AimInv'
<1>1. /\ UNCHANGED <<births, main, reapers, task, version, rows, events>>
      /\ SIGKILL(p) /\ Doom({})
  BY DEF Exit, SIGKILL, croner
<1>2. TypeOK'
  BY <1>1, SIGKILLFacts, DoomFacts DEF AimInv, TypeOK, Plan
<1>3. StagesFit'
  BY <1>1 DEF AimInv, StagesFit
<1>4. AimIsTrue'
  BY <1>1, SIGKILLFacts, AimSurvives DEF AimInv
<1> QED BY <1>2, <1>3, <1>4 DEF AimInv

(* The task is edited, and nothing else happens.                           *)
LEMMA AddTaskKeepsInv ==
    ASSUME AimInv, AddTask
    PROVE  AimInv'
<1>1. /\ UNCHANGED <<proc, births, main, reapers, rows, events, doomed>>
      /\ version' = version + 1 /\ version' \in 0..MaxVersions
      /\ task' = version' /\ version \in Nat
  BY ChannelAssumption DEF AimInv, TypeOK, AddTask, kernel, plans
<1>2. TypeOK'
  <2>1. main' \in Plan'
    BY <1>1 DEF AimInv, TypeOK, Plan
  <2> QED BY <1>1, <2>1 DEF AimInv, TypeOK, proc_alive
<1>3. StagesFit' /\ AimIsTrue'
  BY <1>1 DEF AimInv, StagesFit, AimIsTrue, proc_alive
<1> QED BY <1>2, <1>3 DEF AimInv

(* The steps of the main thread that touch no process.                     *)
LEMMA EventKeepsInv ==
    ASSUME AimInv, NEW ch \in Channels, NEW p \in Pids \cup {NoPid}, Event(ch, p)
    PROVE  AimInv'
<1>1. UNCHANGED <<proc, births, reapers, task, version, rows, events, doomed>>
  BY DEF Event, kernel, croner, plans
<1>2. /\ main' = [at |-> "event", ch |-> ch, pid |-> p, start |-> 0,
                  seen |-> 0, answer |-> 0, pids |-> {}]
  BY DEF Event, Idle
<1>3. TypeOK'
  BY <1>1, <1>2 DEF AimInv, TypeOK, Plan, proc_alive
<1>4. StagesFit'
  BY <1>2 DEF StagesFit, CloudStages
<1>5. AimIsTrue'
  BY <1>1, <1>2, AimSurvives DEF AimInv
<1> QED BY <1>3, <1>4, <1>5 DEF AimInv

(* The permission thread handles an open.                                  *)
LEMMA HandleKeepsInv ==
    ASSUME AimInv, fan_channel_handle
    PROVE  AimInv'
<1>1. UNCHANGED <<proc, births, reapers, task, version, rows>>
  BY DEF fan_channel_handle, kernel, croner
<1>2. /\ main' \in Plan' /\ StagesFit' /\ main'.at \notin {"kill", "fork"}
      /\ events' \in 0..MaxEvents
      /\ doomed' \subseteq {p \in Pids : proc_alive(p)}'
  <2>1. CASE Done /\ UNCHANGED plans
    BY <1>1, <2>1
       DEF AimInv, TypeOK, Done, plans, Plan, Idle, Channels, StagesFit,
           CloudStages, proc_alive
  <2>2. CASE ~(Done /\ UNCHANGED plans)
    <3>1. /\ events < MaxEvents /\ events' = events + 1
          /\ \E new : Doom(new)
          /\ main' = [main EXCEPT !.at = FirstStage(main.ch),
                        !.start = IF main.ch = "cloud" THEN 0
                                  ELSE fan_proc_stat(main.pid)]
      BY <2>2 DEF fan_channel_handle
    <3>2. main \in Plan /\ births \in Nat /\ FirstStage(main.ch) \in {"query", "check"}
      BY ChannelAssumption DEF AimInv, TypeOK, FirstStage
    <3>3. fan_proc_stat(main.pid) \in 0..births
      BY DEF AimInv, TypeOK, fan_proc_stat, proc_alive
    <3>4. main' \in Plan'
      <4> DEFINE start == IF main.ch = "cloud" THEN 0 ELSE fan_proc_stat(main.pid)
      <4>1. start \in 0..births
        BY <3>2, <3>3
      <4> HIDE DEF start
      <4>2. [main EXCEPT !.at = FirstStage(main.ch), !.start = start] \in Plan
        BY <3>2, <4>1 DEF Plan
      <4> QED BY <1>1, <3>1, <4>2 DEF Plan, start
    <3>5. StagesFit' /\ main'.at \notin {"kill", "fork"}
      BY <3>1, <3>2 DEF Plan, StagesFit, CloudStages, FirstStage
    <3> QED BY <3>1, <3>4, <3>5, DoomFacts, ChannelAssumption
            DEF AimInv, TypeOK
  <2> QED BY <2>1, <2>2
<1>3. TypeOK'
  BY <1>1, <1>2 DEF AimInv, TypeOK
<1>4. AimIsTrue'
  BY <1>1, <1>2, AimSurvives DEF AimInv
<1> QED BY <1>2, <1>3, <1>4 DEF AimInv

(* The look: what it finds is the process of the event, so that the kill   *)
(* that follows is aimed at it.                                            *)
LEMMA CheckKeepsInv ==
    ASSUME AimInv, Check
    PROVE  AimInv'
<1>1. UNCHANGED <<proc, births, reapers, task, version, rows, events, doomed>>
  BY DEF Check, kernel, croner, plans
<1>2. /\ main \in Plan /\ main.at = "check" /\ main.ch \in {"ftp", "local"}
      /\ births \in Nat
  BY ChannelAssumption DEF AimInv, TypeOK, StagesFit, Check, At, Plan, Channels
<1>3. CASE ~Confirmed
  <2>1. main' = Idle
    BY <1>3 DEF Check, Done
  <2>2. TypeOK' /\ StagesFit'
    BY <1>1, <2>1 DEF AimInv, TypeOK, Plan, Idle, Channels, StagesFit,
                      CloudStages, proc_alive
  <2>3. AimIsTrue'
    BY <1>1, <2>1, AimSurvives DEF AimInv, Idle
  <2> QED BY <2>2, <2>3 DEF AimInv
<1>4. CASE Confirmed
  <2>1. main' = [main EXCEPT
                   !.at = IF main.ch = "ftp" THEN "fork" ELSE "kill",
                   !.seen = IF main.start = 0 THEN 0 ELSE births]
    BY <1>4 DEF Check
  <2>2. main' \in Plan
    <3> DEFINE at == IF main.ch = "ftp" THEN "fork" ELSE "kill"
               seen == IF main.start = 0 THEN 0 ELSE births
    <3>1. at \in {"fork", "kill"} /\ seen \in 0..births
      BY <1>2
    <3> HIDE DEF at, seen
    <3>2. [main EXCEPT !.at = at, !.seen = seen] \in Plan
      BY <1>2, <3>1 DEF Plan
    <3> QED BY <2>1, <3>2 DEF at, seen
  <2>3. TypeOK'
    BY <1>1, <2>2 DEF AimInv, TypeOK, Plan, proc_alive
  <2>4. StagesFit'
    BY <1>2, <1>4, <2>1 DEF StagesFit, CloudStages, Plan, Confirmed, proc_alive
  <2>5. main.start # 0 => fan_proc_stat(main.pid) = main.start
    BY <1>2, <1>4 DEF Confirmed, SameInstance
  <2>6. AimIsTrue'
    <3> SUFFICES ASSUME NEW x \in {y \in {main'} : y.at \in {"kill", "fork"}}
                                  \cup reapers,
                        x.start # 0, proc_alive(x.pid)
                 PROVE  proc[x.pid].born = x.start \/ proc[x.pid].born > x.seen
      BY <1>1 DEF AimIsTrue, proc_alive
    <3>1. CASE x \in reapers
      BY <3>1 DEF AimInv, AimIsTrue
    <3>2. CASE x = main'
      BY <1>2, <2>1, <2>5, <3>2 DEF fan_proc_stat, Plan
    <3> QED BY <3>1, <3>2
  <2> QED BY <2>3, <2>4, <2>6 DEF AimInv
<1> QED BY <1>3, <1>4

(* kill(0, SIGKILL) ends the reapers and no process that is looked at.     *)
LEMMA KillKeepsInv ==
    ASSUME AimInv, local_kill
    PROVE  AimInv'
<1>1. /\ UNCHANGED <<births, task, version, rows, events>>
      /\ SIGKILL(main.pid) /\ main' = Idle /\ reapers' \subseteq reapers
      /\ doomed' = {} \/ Doom({})
  BY DEF local_kill, croner, Done
<1>2. main' \in Plan /\ StagesFit'
  BY <1>1, ChannelAssumption
     DEF AimInv, TypeOK, Plan, Idle, Channels, StagesFit, CloudStages
<1>3. TypeOK'
  BY <1>1, <1>2, SIGKILLFacts, DoomFacts DEF AimInv, TypeOK, Plan
<1>4. AimIsTrue'
  BY <1>1, SIGKILLFacts, AimSurvives DEF AimInv, Idle
<1> QED BY <1>2, <1>3, <1>4 DEF AimInv

(* The stages of cloud_block_task, which leave the processes alone.        *)
LEMMA CloudKeepsInv ==
    ASSUME AimInv,
           \/ neo_croner_query \/ QueryTimeout \/ HelperExits
           \/ db_save_cloud_task_config \/ neo_croner_delete
    PROVE  AimInv'
<1>1. /\ UNCHANGED <<proc, births, reapers, version, events, doomed>>
      /\ task' \in {task, 0} /\ rows \subseteq rows'
      /\ rows' \subseteq rows \cup ({main.answer} \ {0})
      /\ main.at \in CloudStages
  BY DEF neo_croner_query, QueryTimeout, HelperExits, db_save_cloud_task_config,
         neo_croner_delete, rguard_wait_timeout, kernel, croner, plans,
         CloudStages, At
<1>2. main \in Plan /\ main.answer \in 0..version /\ version \in Nat
  BY ChannelAssumption DEF AimInv, TypeOK, Plan
<1>3. /\ main' \in Plan /\ main'.at \in CloudStages
      /\ main'.ch = main.ch /\ main'.start = main.start
  <2>1. task \in 0..version /\ 0 \in 0..version
    BY <1>2 DEF AimInv, TypeOK
  <2>2. \/ main' = [main EXCEPT !.at = "reap", !.answer = task]
        \/ main' = [main EXCEPT !.at = "tree", !.answer = 0]
        \/ main' = [main EXCEPT !.at = "save"]
        \/ main' = [main EXCEPT !.at = "delete"]
    BY Zenon DEF neo_croner_query, QueryTimeout, HelperExits,
                 db_save_cloud_task_config, neo_croner_delete, Goto
  <2>3. CASE main' = [main EXCEPT !.at = "reap", !.answer = task]
    BY <1>2, <2>1, <2>3 DEF Plan, CloudStages
  <2>4. CASE main' = [main EXCEPT !.at = "tree", !.answer = 0]
    BY <1>2, <2>1, <2>4 DEF Plan, CloudStages
  <2>5. CASE main' = [main EXCEPT !.at = "save"]
    BY <1>2, <2>5 DEF Plan, CloudStages
  <2>6. CASE main' = [main EXCEPT !.at = "delete"]
    BY <1>2, <2>6 DEF Plan, CloudStages
  <2> QED BY <2>2, <2>3, <2>4, <2>5, <2>6
<1>4. StagesFit' /\ main'.at \notin {"kill", "fork"}
  BY <1>1, <1>3 DEF AimInv, StagesFit, CloudStages
<1>5. TypeOK'
  <2>1. rows' \subseteq 1..version
    BY <1>1, <1>2 DEF AimInv, TypeOK
  <2> QED BY <1>1, <1>3, <2>1 DEF AimInv, TypeOK, Plan, proc_alive
<1>6. AimIsTrue'
  BY <1>1, <1>4, AimSurvives DEF AimInv
<1> QED BY <1>4, <1>5, <1>6 DEF AimInv

(* The cloud channel has no start time: whom it kills is not claimed.      *)
LEMMA TreeKeepsInv ==
    ASSUME AimInv, cloud_kill_process_tree
    PROVE  AimInv'
<1>1. /\ UNCHANGED <<proc, births, reapers, task, version, rows, events, doomed>>
      /\ main.at = "tree"
  <2>1. UNCHANGED <<kernel, reapers, croner, rows, plans>> /\ main.at = "tree"
    BY Zenon DEF cloud_kill_process_tree, At
  <2> QED BY <2>1 DEF kernel, croner, plans
<1>2. main \in Plan /\ main.ch = "cloud" /\ main.start = 0
  BY <1>1 DEF AimInv, TypeOK, StagesFit, CloudStages
<1>3. CASE main' = Idle
  <2>1. TypeOK' /\ StagesFit'
    BY <1>1, <1>3, ChannelAssumption
       DEF AimInv, TypeOK, Plan, Idle, Channels, StagesFit, CloudStages,
           proc_alive
  <2>2. AimIsTrue'
    BY <1>1, <1>3, AimSurvives DEF AimInv, Idle
  <2> QED BY <2>1, <2>2 DEF AimInv
<1>4. CASE main' # Idle
  <2>1. Confirmed
    BY <1>4, Zenon DEF cloud_kill_process_tree, Done
  <2>2. main.pid \in Pids
    BY <1>2, <2>1 DEF Confirmed, proc_alive
  <2>3. PICK S \in SUBSET Pids : main' = [main EXCEPT !.at = "fork", !.pids = S]
    <3>1. PICK S \in collect_children(main.pid) :
                 main' = [main EXCEPT !.at = "fork", !.pids = S]
      BY <1>4, Zenon DEF cloud_kill_process_tree, Done
    <3>2. S \in SUBSET Pids
      BY DEF collect_children, Trees
    <3> QED BY <3>1, <3>2, Zenon
  <2>4. main' \in Plan /\ main'.start = 0 /\ StagesFit'
    BY <1>2, <2>2, <2>3 DEF Plan, StagesFit, CloudStages
  <2>5. TypeOK'
    BY <1>1, <2>4 DEF AimInv, TypeOK, Plan, proc_alive
  <2>6. AimIsTrue'
    BY <1>1, <2>4 DEF AimInv, AimIsTrue, proc_alive
  <2> QED BY <2>4, <2>5, <2>6 DEF AimInv
<1> QED BY <1>3, <1>4

(* The reaper inherits the aim of the main thread.                         *)
LEMMA ForkKeepsInv ==
    ASSUME AimInv, ForkReaper
    PROVE  AimInv'
<1>1. /\ UNCHANGED <<births, task, version, rows, events>>
      /\ main' = Idle /\ main.at = "fork" /\ \E new : Doom(new)
      /\ reapers' \subseteq reapers \cup {Reaper}
      /\ proc' = proc \/ SIGKILL(main.pid)
  BY DEF ForkReaper, croner, Done, At
<1>2. /\ proc' \in [Pids -> {Free} \cup [born : 1..births, kind : Kinds,
                                         up : Pids \cup {NoPid}]]
      /\ \A q \in Pids : proc'[q] # Free
            => proc[q] # Free /\ proc'[q].born = proc[q].born
  BY <1>1, SIGKILLFacts DEF AimInv, TypeOK
<1>3. main' \in Plan /\ StagesFit'
  BY <1>1, ChannelAssumption
     DEF AimInv, TypeOK, Plan, Idle, Channels, StagesFit, CloudStages
<1>4. Reaper \in [pid : Pids, start : 0..births, seen : 0..births,
                  pids : SUBSET Pids]
  BY <1>1 DEF AimInv, TypeOK, Plan, StagesFit, Reaper
<1>5. TypeOK'
  BY <1>1, <1>2, <1>3, <1>4, DoomFacts DEF AimInv, TypeOK, Plan
<1>6. AimIsTrue'
  BY <1>1, <1>2, AimSurvives DEF AimInv, Idle, Reaper
<1> QED BY <1>3, <1>5, <1>6 DEF AimInv

(* A reaper forgets the descendants it has killed, not whom it aims at.    *)
LEMMA ReapKeepsInv ==
    ASSUME AimInv, NEW r \in reapers, Reap(r)
    PROVE  AimInv'
<1>1. /\ UNCHANGED <<births, main, task, version, rows, events>>
      /\ Doom({}) /\ \E q : SIGKILL(q)
  BY DEF Reap, croner
<1>2. r \in [pid : Pids, start : 0..births, seen : 0..births, pids : SUBSET Pids]
  BY DEF AimInv, TypeOK
<1>3. \A s \in reapers' : s \in reapers
         \/ /\ s \in [pid : Pids, start : 0..births, seen : 0..births,
                      pids : SUBSET Pids]
            /\ s.pid = r.pid /\ s.start = r.start /\ s.seen = r.seen
  BY <1>2 DEF Reap
<1>4. TypeOK'
  BY <1>1, <1>3, SIGKILLFacts, DoomFacts DEF AimInv, TypeOK, Plan
<1>5. StagesFit'
  BY <1>1 DEF AimInv, StagesFit
<1>6. AimIsTrue'
  BY <1>1, <1>3, SIGKILLFacts, AimSurvives DEF AimInv
<1> QED BY <1>4, <1>5, <1>6 DEF AimInv

(* The daemon is killed.                                                   *)
LEMMA CrashKeepsInv ==
    ASSUME AimInv, Crash
    PROVE  AimInv'
<1>1. /\ UNCHANGED <<proc, births, task, version, rows, events>>
      /\ main' = Idle /\ reapers' \subseteq reapers /\ doomed' = {}
  BY DEF Crash, kernel, croner, Done
<1>2. TypeOK' /\ StagesFit'
  BY <1>1, ChannelAssumption
     DEF AimInv, TypeOK, Plan, Idle, Channels, StagesFit, CloudStages
<1>3. AimIsTrue'
  BY <1>1, AimSurvives DEF AimInv, Idle
<1> QED BY <1>2, <1>3 DEF AimInv
-----------------------------------------------------------------------------
(* The invariant survives every step.                                      *)
LEMMA AimInvNext == AimInv /\ [Next]_vars => AimInv'
<1> SUFFICES ASSUME AimInv, [Next]_vars PROVE AimInv'
  OBVIOUS
<1>1. ASSUME NEW p \in Pids, NEW up \in Pids \cup {NoPid}, NEW kind \in Kinds,
             Start(p, up, kind)
      PROVE  AimInv'
  BY <1>1, StartKeepsInv
<1>2. ASSUME NEW p \in Pids, Exit(p) PROVE AimInv'
  BY <1>2, ExitKeepsInv
<1>3. CASE AddTask
  BY <1>3, AddTaskKeepsInv
<1>4. ASSUME NEW ch \in Channels, NEW p \in Pids \cup {NoPid}, Event(ch, p)
      PROVE  AimInv'
  BY <1>4, EventKeepsInv
<1>5. CASE MainThread \/ neo_croner_query \/ HelperExits
  BY <1>5, HandleKeepsInv, CheckKeepsInv, KillKeepsInv, CloudKeepsInv,
     TreeKeepsInv, ForkKeepsInv DEF MainThread
<1>6. ASSUME NEW r \in reapers, Reap(r) PROVE AimInv'
  BY <1>6, ReapKeepsInv
<1>7. CASE Crash
  BY <1>7, CrashKeepsInv
<1>8. CASE UNCHANGED vars
  BY <1>8 DEF vars, kernel, croner, plans, AimInv, TypeOK, Plan, StagesFit,
              AimIsTrue, proc_alive
<1> QED BY <1>1, <1>2, <1>3, <1>4, <1>5, <1>6, <1>7, <1>8 DEF Next

(* The whole invariant, for every set of pids and every bound.             *)
THEOREM AimInvariant == Spec => []AimInv
<1> QED BY AimInvInit, AimInvNext, PTL DEF Spec

(* Type correctness: in particular no reaper of ftp_block_execute or       *)
(* cloud_kill_process_tree is ever told to kill pid 0.                     *)
THEOREM ChannelTypes == Spec => []TypeOK
<1>1. AimInv => TypeOK
  BY DEF AimInv
<1> QED BY <1>1, AimInvariant, PTL

(* The guard of local_kill and of ftp_block_execute is enough for every    *)
(* interleaving of pid reuse: after it, the kill by pid and the reaper's   *)
(* late one meet the process of the event or one born after the look.      *)
THEOREM KillsAreAimed == Spec => []AimIsTrue
<1>1. AimInv => AimIsTrue
  BY DEF AimInv
<1> QED BY <1>1, AimInvariant, PTL
-----------------------------------------------------------------------------
(* When cloud_block_task is about to delete, what neo-croner has told is   *)
(* in the database: its rows are never taken away.                         *)
AnswerIsSaved == main.at = "delete" /\ main.answer # 0 => main.answer \in rows

(* Where a row, once written, is not lost, the answer is saved before the  *)
(* delete is sent.                                                         *)
LEMMA AnswerIsSavedNext ==
    ASSUME "save" \notin MayFail, TypeOK, AnswerIsSaved, [Next]_vars
    PROVE  AnswerIsSaved'
<1> SUFFICES ASSUME main'.at = "delete", main'.answer # 0
             PROVE  main'.answer \in rows'
  BY DEF AnswerIsSaved
<1>1. CASE UNCHANGED <<main, rows>>
  BY <1>1 DEF AnswerIsSaved
<1>2. CASE db_save_cloud_task_config
  <2>1. main' = [main EXCEPT !.at = "delete"] /\ rows' = rows \cup ({main.answer} \ {0})
    BY <1>2 DEF db_save_cloud_task_config, Goto
  <2> QED BY <2>1 DEF TypeOK, Plan
<1>3. CASE main' = Idle
  BY <1>3 DEF Idle
<1>4. CASE \E ch \in Channels, p \in Pids \cup {NoPid} : Event(ch, p)
  BY <1>4 DEF Event, Idle
<1>5. CASE neo_croner_query \/ QueryTimeout \/ HelperExits \/ neo_croner_delete
  <2>1. \/ main' = [main EXCEPT !.at = "reap", !.answer = task]
        \/ main' = [main EXCEPT !.at = "tree", !.answer = 0]
        \/ main' = [main EXCEPT !.at = "save"]
    BY <1>5, Zenon DEF neo_croner_query, QueryTimeout, HelperExits,
                       neo_croner_delete, Goto
  <2> QED BY <2>1 DEF TypeOK, Plan
<1>6. CASE fan_channel_handle
  <2>1. main' = Idle \/ main' = [main EXCEPT !.at = FirstStage(main.ch),
                             !.start = IF main.ch = "cloud" THEN 0
                                       ELSE fan_proc_stat(main.pid)]
    BY <1>6, Zenon DEF fan_channel_handle, Done
  <2> QED BY <1>3, <2>1 DEF TypeOK, Plan, FirstStage
<1>7. CASE Check
  <2>1. main' = Idle \/ main' = [main EXCEPT
                            !.at = IF main.ch = "ftp" THEN "fork" ELSE "kill",
                            !.seen = IF main.start = 0 THEN 0 ELSE births]
    BY <1>7, Zenon DEF Check, Done
  <2> QED BY <1>3, <2>1 DEF TypeOK, Plan
<1>8. CASE cloud_kill_process_tree
  <2>1. main' = Idle \/ \E S : main' = [main EXCEPT !.at = "fork", !.pids = S]
    BY <1>8, Zenon DEF cloud_kill_process_tree, Done
  <2>2. ASSUME NEW S, main' = [main EXCEPT !.at = "fork", !.pids = S]
        PROVE  FALSE
    BY <2>2 DEF TypeOK, Plan
  <2> QED BY <1>3, <2>1, <2>2, Zenon
<1>9. CASE local_kill \/ ForkReaper \/ Crash
  BY <1>3, <1>9 DEF local_kill, ForkReaper, Crash, Done
<1>10. CASE \/ \E p \in Pids, up \in Pids \cup {NoPid}, kind \in Kinds :
                  Start(p, up, kind)
            \/ \E p \in Pids : Exit(p)
            \/ AddTask \/ (\E r \in reapers : Reap(r)) \/ UNCHANGED vars
  BY <1>1, <1>10 DEF Start, Exit, AddTask, Reap, vars
<1> QED BY <1>2, <1>4, <1>5, <1>6, <1>7, <1>8, <1>9, <1>10 DEF Next, MainThread

(* Only neo_croner_delete takes the task away.                             *)
LEMMA OnlyDeleteDeletes ==
    ASSUME [Next]_vars, TypeOK, task # 0, task' = 0
    PROVE  main.at = "delete"
<1>1. task' # task
  OBVIOUS
<1>2. ~AddTask
  BY ChannelAssumption DEF AddTask, TypeOK
<1>3. UNCHANGED croner => FALSE
  BY <1>1 DEF croner
<1>4. ~UNCHANGED vars
  BY <1>1 DEF vars, croner
<1>5. /\ \A p, up, kind : ~Start(p, up, kind)
      /\ \A p : ~Exit(p)
      /\ \A ch, p : ~Event(ch, p)
      /\ \A r : ~Reap(r)
      /\ ~Crash
  BY <1>3, Zenon DEF Start, Exit, Event, Reap, Crash
<1>6. ~(neo_croner_query \/ QueryTimeout \/ HelperExits \/ fan_channel_handle
          \/ Check \/ local_kill \/ db_save_cloud_task_config
          \/ cloud_kill_process_tree \/ ForkReaper)
  BY <1>3, Zenon DEF neo_croner_query, QueryTimeout, HelperExits,
         fan_channel_handle, Check, local_kill, db_save_cloud_task_config,
         cloud_kill_process_tree, ForkReaper
<1>7. neo_croner_delete
  BY <1>2, <1>4, <1>5, <1>6 DEF Next, MainThread
<1> QED BY <1>7, Zenon DEF neo_croner_delete, At

(* cloud_block_task never deletes a task it has read before the row that   *)
(* restores it is written, if the insert itself does not fail (the code    *)
(* does not look at its result).                                           *)
THEOREM SavedBeforeDeleted ==
    ASSUME "save" \notin MayFail
    PROVE  Spec => DeletedIsSaved
<1>1. Init => AnswerIsSaved
  BY DEF Init, Idle, AnswerIsSaved
<1>2. TypeOK /\ AnswerIsSaved /\ [Next]_vars => AnswerIsSaved'
  BY AnswerIsSavedNext
<1>3. TypeOK /\ AnswerIsSaved /\ [Next]_vars
         => [task # 0 /\ task' = 0 /\ main.answer = task => task \in rows]_vars
  <2> SUFFICES ASSUME TypeOK, AnswerIsSaved, [Next]_vars,
                      task # 0, task' = 0, main.answer = task
               PROVE  task \in rows
    OBVIOUS
  <2> QED BY OnlyDeleteDeletes DEF AnswerIsSaved
<1> QED BY <1>1, <1>2, <1>3, ChannelTypes, PTL DEF Spec, DeletedIsSaved
=============================================================================
