------------------------------ MODULE Session -------------------------------
(***************************************************************************)
(* One session_state (gfrguardd_session.h, gfrguardd_session.c): the       *)
(* counters of the short window, the directory set, event id and risk of   *)
(* the long window, and the blocked flag.  A session is a record, the C    *)
(* functions that update it are operators that return the new record.      *)
(*                                                                         *)
(* touched_dirs and dir_set_count always move together, so both are the    *)
(* cardinality of the set dirs.  total_events only feeds the report and is *)
(* left out.                                                               *)
(***************************************************************************)
EXTENDS Scorer

CONSTANTS SESSION_BUCKETS,\* slots of the session table
          DIR_SET_MAX,    \* directories a session remembers
          Dirs,           \* parent directories of the files (their hashes)
          NoDir,          \* dir_hash = 0: a file in the root directory
          NoEvent         \* current_event_id = ""

ASSUME SessionAssumption ==
    /\ SESSION_BUCKETS \in Nat \ {0}
    /\ DIR_SET_MAX \in Nat \ {0}
    /\ NoDir \notin Dirs /\ IsFiniteSet(Dirs)

\* op_type
WriteOps == {"OPEN", "WRITE", "TRUNCATE"}
Ops      == WriteOps \cup {"RENAME", "DELETE", "CLOSE"}

\* The flags session_update looks at, as the message carries them and as
\* the daemon's own analysis adds them.
Flags == {"RISKY", "BACKED_UP", "BACKUP_FAILED", "NEW_FILE", "CONTENT_SAME",
          "EXT_CHANGE", "RANSOM_EXT", "HIGH_ENTROPY", "YARA_MATCH"}

\* The sessions whose event id is in E (struct session_state).
SessionRecords(E) ==
    [modified : Nat, rename : Nat, delete : Nat, ext_change : Nat,
     ransom_ext : Nat, high_entropy : Nat, yara_match : Nat,
     content_same : Nat, dirs : SUBSET Dirs, risk_score : Nat,
     risk_level : RiskLevels, win_s : Nat, win_l : Nat,
     is_blocked : BOOLEAN, last_seen : Nat, event : E]

\* A zeroed slot with last_seen set, as session_find_or_create leaves it.
NewSession(now) ==
    [modified |-> 0, rename |-> 0, delete |-> 0, ext_change |-> 0,
     ransom_ext |-> 0, high_entropy |-> 0, yara_match |-> 0,
     content_same |-> 0, dirs |-> {}, risk_score |-> 0,
     risk_level |-> RISK_NORMAL, win_s |-> 0, win_l |-> 0,
     is_blocked |-> FALSE, last_seen |-> now, event |-> NoEvent]

\* The table as its callers see it: a map from the keys in use to their
\* sessions.  The bucket layout is module SessionTable's concern.
Evictable(map) ==
    LET idle == {k \in DOMAIN map : ~map[k].is_blocked}
    IN  {v \in idle : \A u \in idle : map[v].last_seen <= map[u].last_seen}

Renamed(map, victims, k, now) ==
    [j \in (DOMAIN map \ victims) \cup {k} |->
        IF j = k THEN NewSession(now) ELSE map[j]]

\* session_find_or_create, as the set of maps it may leave: the session is
\* found, or takes a free slot, or replaces a least recently seen session
\* that is not blocked.  The set is empty when the code returns NULL.
session_find_or_create(map, k, now) ==
    IF k \in DOMAIN map THEN {[map EXCEPT ![k].last_seen = now]}
    ELSE IF Cardinality(DOMAIN map) < SESSION_BUCKETS
    THEN {Renamed(map, {}, k, now)}
    ELSE {Renamed(map, {v}, k, now) : v \in Evictable(map)}

\* What the scorer reads of a session.
Counters(s) ==
    [modified |-> s.modified, rename |-> s.rename, delete |-> s.delete,
     dirs |-> Cardinality(s.dirs), ext_change |-> s.ext_change,
     ransom_ext |-> s.ransom_ext, high_entropy |-> s.high_entropy,
     yara_match |-> s.yara_match, content_same |-> s.content_same]

\* A window whose start is 0 starts with the first event it sees.
OpenWindows(s, now) ==
    [s EXCEPT !.win_s = IF @ = 0 THEN now ELSE @,
              !.win_l = IF @ = 0 THEN now ELSE @]

\* Mutant: a counter the reset forgets.
RollShort_Partial(s, now) ==
    [s EXCEPT !.modified = 0, !.rename = 0, !.delete = 0, !.ext_change = 0,
              !.ransom_ext = 0, !.high_entropy = 0, !.yara_match = 0,
              !.win_s = now]

RollShort(s, now) ==
    [s EXCEPT !.modified = 0, !.rename = 0, !.delete = 0, !.ext_change = 0,
              !.ransom_ext = 0, !.high_entropy = 0, !.yara_match = 0,
              !.content_same = 0, !.win_s = now]

\* A long window closes the event; is_blocked is deliberately kept.
RollLong(s, now) ==
    [s EXCEPT !.dirs = {}, !.win_l = now, !.event = NoEvent,
              !.risk_level = RISK_NORMAL, !.risk_score = 0]

\* Mutant: a window lasts one second too long.
session_check_window_Late(s, now, window_short, window_long) ==
    LET opened == OpenWindows(s, now)
        short  == IF now - opened.win_s > window_short
                  THEN RollShort(opened, now) ELSE opened
    IN  IF now - short.win_l > window_long
        THEN RollLong(short, now) ELSE short

session_check_window(s, now, window_short, window_long) ==
    LET opened == OpenWindows(s, now)
        short  == IF now - opened.win_s >= window_short
                  THEN RollShort(opened, now) ELSE opened
    IN  IF now - short.win_l >= window_long
        THEN RollLong(short, now) ELSE short

\* Counters saturate.
Bump(n, hit) == IF hit /\ n < UINT32_MAX THEN n + 1 ELSE n

\* CLOSE of a file whose content is the backup's takes a modification back.
Retracts(s, op, flags) ==
    op = "CLOSE" /\ "CONTENT_SAME" \in flags /\ s.modified > 0

\* Mutant: the set never stops growing.
AddDir_Unbounded(dirs, dir) == IF dir = NoDir THEN dirs ELSE dirs \cup {dir}

\* dir_add after dir_seen: the set stops growing at DIR_SET_MAX.
AddDir(dirs, dir) ==
    IF dir = NoDir \/ Cardinality(dirs) >= DIR_SET_MAX THEN dirs
    ELSE dirs \cup {dir}

session_update(s, op, flags, dir) ==
    LET writes  == op \in WriteOps
        renames == op = "RENAME"
    IN  [s EXCEPT
           !.modified     = IF Retracts(s, op, flags) THEN @ - 1
                            ELSE Bump(@, writes /\ "RISKY" \in flags),
           !.content_same = Bump(@, Retracts(s, op, flags)),
           !.rename       = Bump(@, renames),
           !.delete       = Bump(@, op = "DELETE"),
           !.ext_change   = Bump(@, renames /\ "EXT_CHANGE" \in flags),
           !.ransom_ext   = Bump(@, (writes \/ renames)
                                    /\ "RANSOM_EXT" \in flags),
           !.high_entropy = Bump(@, "HIGH_ENTROPY" \in flags),
           !.yara_match   = Bump(@, "YARA_MATCH" \in flags),
           !.dirs         = AddDir(@, dir)]

\* scorer_calculate on the session
scorer_calculate(s, sc) ==
    [s EXCEPT !.risk_score = RiskScore(Counters(s), sc),
              !.risk_level = Level(Counters(s), sc)]
=============================================================================
