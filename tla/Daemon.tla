------------------------------- MODULE Daemon -------------------------------
(***************************************************************************)
(* gfrguardd's main thread: process_msg, the SIGHUP reload, start-up, and  *)
(* the restore child it forks, with everything they read and write: the    *)
(* session table, the policy in memory, policy.json, the blocked file, the *)
(* event index (SQLite) and the event id sequence.                         *)
(*                                                                         *)
(* One action is one message (or signal) handled to completion: the main   *)
(* thread is the only writer of all of this but policy.json and the        *)
(* blocked file, which administrators also edit: directly (EditConfig,     *)
(* Unblock), or policy.json with the console, in several steps.            *)
(* Calls whose failure the code survives may fail: an action is given the  *)
(* set F of the calls that fail in it.                                     *)
(***************************************************************************)
EXTENDS Analysis, Blacklist

CONSTANTS Messages,   \* file events the senders may produce (see Analysis)
          Settings,   \* contents policy.json may have besides blacklist.ips
          FirstConfig,\* policy.json when the daemon first starts
          Edits,      \* what an administrator may replace policy.json by
          Forms,      \* what the console may be asked to change
          MayFail,    \* the calls that may fail
          DAY,        \* length of a day in clock ticks
          MaxTime,    \* bound on the clock
          MaxSeq,     \* bound on the event ids of a day
          MaxCount    \* bound on the counters of a session

Failures == {"event_row", "pf_row", "created_row", "update_row", "seq_read",
             "blocked_write", "persist", "sync", "fork"}

Config == [cfg : Settings, ips : Seq(Entry)]

\* config_load accepts the settings (rguard_config.c, validation).
config_ok(cfg) == /\ ValidScoring(cfg.scoring)
                  /\ \A w \in DOMAIN cfg.windows : cfg.windows[w] > 0

ASSUME DaemonAssumption ==
    /\ MayFail \subseteq Failures
    /\ \A m \in Messages : m.dir \in Dirs \cup {NoDir}
    /\ \A cfg \in Settings : cfg.scoring \in Scoring
    /\ FirstConfig \in Config /\ config_ok(FirstConfig.cfg)
    /\ Edits \subseteq Config
    /\ \A f \in Forms : \/ f.op \in {"add_ip", "remove_ip"} /\ f.arg \in IPs \cup Nets
                        \/ /\ f.op \in {"add_user", "remove_user"}
                           /\ \A cfg \in Settings :
                                {[cfg EXCEPT !.bl_users = @ \cup {f.arg}],
                                 [cfg EXCEPT !.bl_users = @ \ {f.arg}]} \subseteq Settings
    /\ NoEvent \notin Nat \X Nat
    /\ {DAY, MaxSeq, MaxTime, MaxCount} \subseteq Nat \ {0}

VARIABLES sessions,   \* the session table: a map from keys to sessions
          policy,     \* the policy in memory: settings, manual and auto list
          config,     \* policy.json
          blocked,    \* the blocked file, as a set of lines
          events,     \* table events: event id -> session key, action, status
          protected,  \* table protected_files
          created,    \* table created_files
          restores,   \* events whose restore child has been forked
          seq,        \* daily_seq
          anchor,     \* day_anchor, as a day; 0 before the first event id
          now,        \* the clock
          console     \* the request the console works on

daemonVars == <<sessions, policy, config, blocked, events, protected, created,
                restores, seq, anchor, now>>
vars == <<daemonVars, console>>
index == <<events, protected, created>>
files == <<config, blocked>>
ids   == <<seq, anchor>>

Day(t) == 1 + (t \div DAY)

\* rguard_make_session_key
Key(m) == <<m.user, m.ip>>

\* The policy config_load builds: a new struct, so an empty auto list.
config_load(c) ==
    [cfg |-> c.cfg, manual |-> config_load_ips(c.ips), auto |-> <<>>]

NoVisit == [stage |-> "idle"]

Synced(p) == blocker_sync_blacklist(p.manual, p.auto)

Init == /\ sessions = <<>>
        /\ config = FirstConfig
        /\ policy = config_load(config)
        /\ blocked = Synced(policy)
        /\ events = <<>> /\ protected = {} /\ created = {}
        /\ restores = {}
        /\ seq = 0 /\ anchor = 0
        /\ now = 1
        /\ console = NoVisit
-----------------------------------------------------------------------------
(* The index. *)

Insert(f, x, v) == [y \in DOMAIN f \cup {x} |-> IF y = x THEN v ELSE f[y]]

\* db_get_max_daily_seq found n; a failed query leaves 0.
DailyMax(n, F) ==
    LET today == {e \in DOMAIN events : e[1] = Day(now)}
    IN  IF "seq_read" \in F THEN n = 0
        ELSE /\ \A e \in today : e[2] <= n
             /\ n = 0 \/ <<Day(now), n>> \in today

\* Mutant: the day starts at 0 without a look at the index.
make_event_id_NoSeed(id, F) ==
    \E n \in 0 .. MaxSeq - 1 :
        /\ n = IF anchor = Day(now) THEN seq ELSE 0
        /\ id = <<Day(now), n + 1>>

\* make_event_id for a session without an event: the next id, seeded from
\* the index on the first id of a day.
make_event_id(id, F) ==
    \E n \in 0 .. MaxSeq - 1 :
        /\ IF anchor = Day(now) THEN n = seq ELSE DailyMax(n, F)
        /\ id = <<Day(now), n + 1>>

\* The event the session s continues or starts.
EventFor(s, id, F) ==
    IF s.event # NoEvent
    THEN id = s.event /\ UNCHANGED ids
    ELSE /\ make_event_id(id, F)
         /\ seq' = id[2]
         /\ anchor' = Day(now)

EventIds == {NoEvent} \cup ((1 .. Day(MaxTime)) \X (1 .. MaxSeq))

\* INSERT OR IGNORE
db_insert_event(rows, id, row, F) ==
    IF id \in DOMAIN rows \/ "event_row" \in F THEN rows
    ELSE Insert(rows, id, row)

\* INSERT ... ON CONFLICT DO UPDATE
db_upsert_event(rows, id, row, F) ==
    IF "event_row" \in F THEN rows ELSE Insert(rows, id, row)

\* UPDATE ... WHERE event_id = id: nothing happens without such a row.
db_update_event(rows, id, action, status, F) ==
    IF id \notin DOMAIN rows \/ "update_row" \in F THEN rows
    ELSE [rows EXCEPT ![id].action = action, ![id].status = status]

\* INSERT OR IGNORE under UNIQUE(event_id, original_path)
db_insert_protected_file(rows, id, m, F) ==
    IF "pf_row" \in F \/ \E r \in rows : r.event = id /\ r.file = m.file
    THEN rows
    ELSE rows \cup {[event |-> id, file |-> m.file, key |-> Key(m),
                     status |-> "pending"]}

db_insert_created_file(rows, id, m, F) ==
    IF "created_row" \in F THEN rows
    ELSE rows \cup {[event |-> id, file |-> m.file, key |-> Key(m)]}
-----------------------------------------------------------------------------
(* The gates of process_msg. *)

SwitchOf(src) == IF src = "LEGACY" THEN "SMB" ELSE src

scorer_is_whitelisted(m, cfg) ==
    m.user \in cfg.wl_users \/ \E e \in cfg.wl_ips : Matches(e, m.ip)

Admitted(m) ==
    LET cfg == policy.cfg
    IN  /\ cfg.enabled
        /\ SwitchOf(m.src) \in cfg.sources
        /\ cfg.all_exts \/ m.ext \in cfg.exts
        /\ m.file \notin cfg.exceptions
        /\ ~scorer_is_whitelisted(m, cfg)

IpBlacklisted(m) == scorer_ip_blacklisted(policy.manual, policy.auto, m.ip)

scorer_is_blacklisted(m) == m.user \in policy.cfg.bl_users \/ IpBlacklisted(m)

\* Only SMB and FTP messages carry an address for the blocked file, and
\* only if it is one (valid_client_ip).
BlockIP(m) == IF m.src \in {"SMB", "FTP"} THEN {m.ip} \cap IPs ELSE {}

\* blocker_execute: without an address there is nothing that can fail.
BlockLands(m, F) == BlockIP(m) = {} \/ "blocked_write" \notin F

\* Mutant: the file is rewritten with this address alone.
blocker_execute_Overwrites(lines, m) ==
    IF BlockIP(m) = {} THEN lines ELSE BlockIP(m)

\* The address is appended to the blocked file unless it is there.
blocker_execute(lines, m) == lines \cup BlockIP(m)
-----------------------------------------------------------------------------
(* RGUARD_MSG_VFS_BLOCKED: the VFS module refused an SMB operation.  The   *)
(* datagram may be read late, when the address is not denied any more.     *)
VfsBlocked(m, F) ==
    /\ m.src = "SMB"
    /\ \E map \in session_find_or_create(sessions, Key(m), now),
          id \in EventIds :
        /\ EventFor(map[Key(m)], id, F)
        /\ sessions' = [map EXCEPT ![Key(m)].event = id]
        /\ events' = db_upsert_event(events, id,
                         [key |-> Key(m), action |-> "blocked",
                          status |-> "blocked_ip"], F)
    /\ UNCHANGED <<policy, files, protected, created, restores, now>>

(* A message of a blacklisted user or address: the session is blocked.  *)
BlacklistHit(m, F) ==
    /\ Admitted(m) /\ scorer_is_blacklisted(m)
    /\ \E map \in session_find_or_create(sessions, Key(m), now),
          id \in EventIds :
        LET s      == map[Key(m)]
            status == IF IpBlacklisted(m) THEN "blocked_ip" ELSE "blocked_user"
            row    == [key |-> Key(m), action |-> "blocked", status |-> status]
            opened == IF s.event = NoEvent
                      THEN db_upsert_event(events, id, row, F) ELSE events
        IN  \/ /\ s.is_blocked
               /\ id = NoEvent
               /\ sessions' = map
               /\ UNCHANGED <<blocked, events, ids>>
            \/ /\ ~s.is_blocked
               /\ EventFor(s, id, F)
               /\ sessions' = [map EXCEPT ![Key(m)].event = id,
                                          ![Key(m)].is_blocked =
                                              BlockLands(m, F)]
               /\ IF BlockLands(m, F)
                  THEN /\ blocked' = blocker_execute(blocked, m)
                       /\ events' = db_update_event(opened, id, "blocked",
                                                    status, F)
                  ELSE blocked' = blocked /\ events' = opened
    /\ UNCHANGED <<policy, config, protected, created, restores, now>>

(* The verdict on a session whose score turned critical: what blocks it,   *)
(* what remembers it, and the restore of its event id (possibly NoEvent).  *)
Verdict(m, id, opened, F) ==
    LET added == scorer_blacklist_auto_add(policy.manual, policy.auto, m.ip)
    IN  /\ policy' = [policy EXCEPT !.auto = added]
        /\ config' = IF "persist" \in F THEN config
                     ELSE [config EXCEPT !.ips =
                              config_persist_blacklist_ip(@, m.ip)]
        /\ blocked' = IF "sync" \in F THEN blocker_execute(blocked, m)
                      ELSE Synced(policy')
        /\ events' = db_update_event(opened, id, "blocked", "blocked_ransom", F)
        /\ restores' = restores \cup
               (IF policy.cfg.auto_restore /\ id # NoEvent /\ "fork" \notin F
                THEN {id} ELSE {})

(* Every other message: recorded under the session's event, analysed and   *)
(* acted upon.  The windows may close the event before it is acted upon.   *)
Analyse(m, F) ==
    /\ Admitted(m) /\ ~scorer_is_blacklisted(m)
    /\ \E map \in session_find_or_create(sessions, Key(m), now),
          id \in EventIds :
        LET s        == map[Key(m)]
            opened   == IF s.event # NoEvent THEN events
                        ELSE db_insert_event(events, id,
                               [key |-> Key(m), action |-> "none",
                                status |-> "active"], F)
            analysed == Analysed(m, [s EXCEPT !.event = id], policy.cfg, now)
            critical == /\ analysed.risk_level = RISK_CRITICAL
                        /\ ~analysed.is_blocked
            lands    == critical /\ BlockLands(m, F)
        IN  /\ EventFor(s, id, F)
            /\ \A n \in {analysed.modified, analysed.rename, analysed.delete,
                         analysed.high_entropy, analysed.yara_match,
                         analysed.content_same} : n <= MaxCount
            /\ sessions' = [map EXCEPT ![Key(m)] =
                               [analysed EXCEPT !.is_blocked = @ \/ lands]]
            /\ protected' = IF /\ "BACKED_UP" \in m.flags
                               /\ m.op \in WriteOps \cup {"DELETE"}
                            THEN db_insert_protected_file(protected, id, m, F)
                            ELSE protected
            /\ created' = IF "NEW_FILE" \in m.flags
                          THEN db_insert_created_file(created,
                                   analysed.event, m, F)
                          ELSE created
            /\ IF lands THEN Verdict(m, analysed.event, opened, F)
               ELSE events' = opened /\ UNCHANGED <<policy, files, restores>>
    /\ UNCHANGED now

\* fanotify_submit_event looks the session up again after process_msg; for
\* a message the gates turned away that is the only trace it leaves.
GatedSubmit(m) ==
    /\ m.src \in {"FTP", "CLOUD_SYNC", "HOST"} /\ ~Admitted(m)
    /\ sessions' \in session_find_or_create(sessions, Key(m), now)
    /\ UNCHANGED <<policy, files, index, restores, ids, now>>
-----------------------------------------------------------------------------
\* SIGHUP (daemon_reload): a policy.json that does not load changes nothing.
Reload(F) ==
    /\ config_ok(config.cfg)
    /\ policy' = config_load(config)
    /\ blocked' = IF "sync" \in F THEN blocked ELSE Synced(policy')
    /\ UNCHANGED <<sessions, config, index, restores, ids, now>>

\* Mutant: the blocked file of the last run is kept.
Restart_KeepsFile(F) ==
    /\ config_ok(config.cfg)
    /\ sessions' = <<>>
    /\ seq' = 0 /\ anchor' = 0
    /\ policy' = config_load(config)
    /\ UNCHANGED <<config, blocked, index, restores, now>>

\* The daemon stops or crashes between two messages and starts again.
Restart(F) ==
    /\ config_ok(config.cfg)
    /\ sessions' = <<>>
    /\ seq' = 0 /\ anchor' = 0
    /\ policy' = config_load(config)
    /\ blocked' = IF "sync" \in F THEN blocked ELSE Synced(policy')
    /\ UNCHANGED <<config, index, restores, now>>

\* The restore child of an event runs (gfrguard-recover restore --event).
RestoreChild(id) ==
    LET mine == {r \in protected : r.event = id}
    IN  /\ restores' = restores \ {id}
        /\ protected' = (protected \ mine)
                            \cup {[r EXCEPT !.status = "restored"] : r \in mine}
        /\ events' = IF mine = {} /\ \A r \in created : r.event # id
                     THEN events
                     ELSE db_update_event(events, id, "restored", "resolved", {})
        /\ UNCHANGED <<sessions, policy, files, created, ids, now>>

\* An administrator replaces policy.json.
EditConfig == /\ config' \in Edits
              /\ UNCHANGED <<sessions, policy, blocked, index, restores, ids, now>>

\* gfrguard-recover unblock (blocker_unblock)
Unblock(ip) == /\ ip \in blocked
               /\ blocked' = blocked \ {ip}
               /\ UNCHANGED <<sessions, policy, config, index, restores, ids, now>>

(* The console (app.py): it loads policy.json, changes and saves it, and   *)
(* has systemd restart the daemon.  It takes no lock; the file it saves is *)
(* the one it has loaded, whatever the daemon has persisted since.         *)

ConsoleLoad(f) ==
    /\ console = NoVisit
    /\ console' = [stage |-> "edit", form |-> f, seen |-> config]
    /\ UNCHANGED daemonVars

\* Mutant: an address is added to the strings of the list, and the objects
\* are dropped.
Edited_Strings(c, f) ==
    CASE f.op = "add_user"    -> [c EXCEPT !.cfg.bl_users = @ \cup {f.arg}]
      [] f.op = "remove_user" -> [c EXCEPT !.cfg.bl_users = @ \ {f.arg}]
      [] f.op = "add_ip"      -> [c EXCEPT !.ips =
                                    Append(SelectSeq(@, LAMBDA e : ~e.auto),
                                           [ip |-> f.arg, auto |-> FALSE])]
      [] f.op = "remove_ip"   -> [c EXCEPT !.ips =
                                    RemoveFirst(@, [ip |-> f.arg, auto |-> FALSE])]

\* The console compares with the strings of the list; the objects that hold
\* the daemon's verdicts are none.
Edited(c, f) ==
    LET entry == [ip |-> f.arg, auto |-> FALSE]
    IN  CASE f.op = "add_user"    -> [c EXCEPT !.cfg.bl_users = @ \cup {f.arg}]
          [] f.op = "remove_user" -> [c EXCEPT !.cfg.bl_users = @ \ {f.arg}]
          [] f.op = "add_ip"      -> IF Contains(c.ips, entry) THEN c
                                     ELSE [c EXCEPT !.ips = Append(@, entry)]
          [] f.op = "remove_ip"   -> [c EXCEPT !.ips = RemoveFirst(@, entry)]

\* save_policy; a request that changes nothing saves nothing.
ConsoleSave ==
    LET edited == Edited(console.seen, console.form)
    IN  /\ console.stage = "edit"
        /\ IF edited = console.seen THEN config' = config /\ console' = NoVisit
           ELSE config' = edited /\ console' = [stage |-> "restart"]
        /\ UNCHANGED <<sessions, policy, blocked, index, restores, ids, now>>

ConsoleRestart(F) == /\ console.stage = "restart"
                     /\ Restart(F)
                     /\ console' = NoVisit

Tick == /\ now < MaxTime
        /\ now' = now + 1
        /\ UNCHANGED <<sessions, policy, files, index, restores, ids>>

DaemonNext == \/ \E F \in SUBSET MayFail :
                    \/ \E m \in Messages :
                          VfsBlocked(m, F) \/ BlacklistHit(m, F) \/ Analyse(m, F)
                    \/ Reload(F) \/ Restart(F)
              \/ \E m \in Messages : GatedSubmit(m)
              \/ \E id \in restores : RestoreChild(id)
              \/ EditConfig
              \/ \E ip \in IPs : Unblock(ip)
              \/ Tick

Next == \/ DaemonNext /\ UNCHANGED console
        \/ \E f \in Forms : ConsoleLoad(f)
        \/ ConsoleSave
        \/ \E F \in SUBSET MayFail : ConsoleRestart(F)

Spec == Init /\ [][Next]_vars
-----------------------------------------------------------------------------
Keys     == {Key(m) : m \in Messages}
EventRow == [key : Keys, action : {"none", "blocked", "restored"},
             status : {"active", "blocked_ip", "blocked_user",
                       "blocked_ransom", "resolved"}]
FileRow  == [event : EventIds, file : {m.file : m \in Messages}, key : Keys]
SavedRow == [event : EventIds, file : {m.file : m \in Messages}, key : Keys,
             status : {"pending", "restored"}]

(* The types of the daemon's state; the table is never over its capacity   *)
(* and the runtime blacklist never over AUTO_MAX.                          *)
TypeOK ==
    /\ DOMAIN sessions \subseteq Keys /\ IsFiniteSet(DOMAIN sessions)
    /\ Cardinality(DOMAIN sessions) <= SESSION_BUCKETS
    /\ sessions \in [DOMAIN sessions -> SessionRecords(EventIds)]
    /\ config \in Config
    /\ policy \in [cfg : Settings, manual : SUBSET (IPs \cup Nets), auto : Seq(IPs)]
    /\ config_ok(policy.cfg) /\ Len(policy.auto) <= AUTO_MAX
    /\ blocked \subseteq IPs
    /\ DOMAIN events \subseteq EventIds \ {NoEvent}
    /\ events \in [DOMAIN events -> EventRow]
    /\ protected \subseteq SavedRow /\ created \subseteq FileRow
    /\ restores \subseteq EventIds \ {NoEvent}
    /\ seq \in 0 .. MaxSeq /\ anchor \in 0 .. Day(MaxTime)
    /\ now \in 1 .. MaxTime
    /\ \/ console = NoVisit \/ console.stage = "restart"
       \/ console \in [stage : {"edit"}, form : Forms, seen : Config]

\* The event id, if any, names a row of that session.
Indexed(id, k) == id # NoEvent => id \in DOMAIN events /\ events[id].key = k

(* An event id never stands for two sessions: the id a session carries and *)
(* the ids its files are recorded under name rows of that session, through *)
(* windows, evictions, day changes and restarts, as long as the index can  *)
(* be read and written.  A restore of one session therefore never touches  *)
(* files of another.                                                       *)
EvidenceOfOneSession ==
    /\ \A k \in DOMAIN sessions : Indexed(sessions[k].event, k)
    /\ \A r \in protected \cup created : Indexed(r.event, r.key)

(* The VFS module turns away nobody without a reason: an address in the    *)
(* blocked file is on the list in memory, or is that of a session the      *)
(* daemon has blocked.                                                     *)
NoInnocentDenied ==
    \A ip \in blocked : \/ ip \in policy.manual \cup ToSet(policy.auto)
                        \/ \E k \in DOMAIN sessions :
                              k[2] = ip /\ sessions[k].is_blocked

(* An address that stays on the list in memory leaves the blocked file     *)
(* only by an explicit unblock, whatever rebuilds or appends to it.        *)
ListedStayDenied ==
    [][\A ip \in Synced(policy) \cap Synced(policy') :
          ip \in blocked /\ ip \notin blocked' => Unblock(ip)]_vars

(* gfrguardd_main.c:675: the copies of the blacklist stay "in lockstep":   *)
(* what policy.json lists is what memory lists (the blocked file's part is *)
(* ListedStayDenied), until AUTO_MAX verdicts are persisted.  From then on *)
(* each evicts by itself, and they may part after a restart.  Stated for a *)
(* policy.json only the daemon writes.                                     *)
LockstepUntilFull ==
    Cardinality({i \in DOMAIN config.ips : config.ips[i].auto}) < AUTO_MAX
        => Listed(config.ips) = policy.manual \cup ToSet(policy.auto)

\* The session of m turned blocked by its score in this step.
BlockedByScore(k) ==
    /\ k \in DOMAIN sessions' /\ sessions'[k].is_blocked
    /\ sessions'[k].risk_level = RISK_CRITICAL
    /\ k \in DOMAIN sessions => ~sessions[k].is_blocked
    /\ policy'.auto # policy.auto

(* A verdict that lands and whose index and file writes succeed is         *)
(* complete: the address is denied, a restart finds it in policy.json      *)
(* unless the list there is over LIST_MAX, and, when the session still has *)
(* its event, the event is marked and its restore started.                 *)
VerdictIsComplete ==
    [][\A k \in Keys : BlockedByScore(k) =>
          LET id == sessions'[k].event
          IN  /\ k[2] \in blocked'
              /\ Len(config'.ips) <= LIST_MAX =>
                     k[2] \in blocker_sync_blacklist(
                                 config_load(config').manual, <<>>)
              /\ id # NoEvent => /\ events'[id].status = "blocked_ransom"
                                 /\ policy.cfg.auto_restore => id \in restores']_vars

\* The verdicts policy.json holds.
Verdicts(c) == {c.ips[i].ip : i \in {j \in DOMAIN c.ips : c.ips[j].auto}}

\* The console is about to save a request to remove the address.
RemovalAsked(ip) == /\ console.stage = "edit"
                    /\ console.form.op = "remove_ip" /\ console.form.arg = ip

(* gfrguardd_main.c:667: a verdict is persisted so that a save of the      *)
(* console, the restart after it or a SIGHUP cannot pardon it, only an     *)
(* explicit removal can.  A verdict in policy.json goes only when an       *)
(* administrator removes it, in the file or by a request for it; when it   *)
(* is the oldest and a newer one needs its place; or when the console had  *)
(* loaded the file before the verdict was there.                           *)
VerdictsAreKept ==
    [][\A ip \in Verdicts(config) \ Verdicts(config') :
          \/ config' \in Edits
          \/ RemovalAsked(ip)
          \/ Cardinality(Verdicts(config)) >= AUTO_MAX
             /\ Verdicts(config') \ Verdicts(config) # {}
          \/ console.stage = "edit" /\ ip \notin Verdicts(console.seen)]_vars
=============================================================================
