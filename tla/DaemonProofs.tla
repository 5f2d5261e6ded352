---------------------------- MODULE DaemonProofs ----------------------------
(***************************************************************************)
(* Proofs about the daemon's main thread (module Daemon), for any          *)
(* messages, settings, failures, table sizes and list capacities.          *)
(***************************************************************************)
EXTENDS Daemon, FiniteSetTheorems, SequenceTheorems, WellFoundedInduction, TLAPS

(***************************************************************************)
(* The session record under the operators of Scorer, Session and Analysis. *)
(***************************************************************************)

\* Counting up keeps a counter a natural number.
LEMMA BumpType == ASSUME NEW n \in Nat, NEW hit
                  PROVE  Bump(n, hit) \in Nat
  BY UINT32Assumption DEF Bump

\* The directories of a session are a finite set.
LEMMA DirsFinite == ASSUME NEW D \in SUBSET Dirs
                    PROVE  IsFiniteSet(D) /\ Cardinality(D) \in Nat
  BY SessionAssumption, FS_Subset, FS_CardinalityType DEF SessionAssumption

\* The score of a session is a natural number, under any valid settings.
LEMMA ScoreType ==
  ASSUME NEW E, NEW s \in SessionRecords(E),
         NEW sc \in Scoring, ValidScoring(sc)
  PROVE  /\ RiskScore(Counters(s), sc) \in Nat
         /\ Level(Counters(s), sc) \in RiskLevels
<1> DEFINE c == Counters(s)
           w == sc.weights
           t == sc.thresholds
           sum == WeightedSum(c, w)
           summed == ContentSameCap(c, t, sum)
<1>1. /\ c.modified \in Nat /\ c.rename \in Nat /\ c.delete \in Nat
      /\ c.ext_change \in Nat /\ c.ransom_ext \in Nat
      /\ c.high_entropy \in Nat /\ c.yara_match \in Nat
      /\ c.dirs \in Nat
  BY DirsFinite DEF SessionRecords, Counters
<1>2. /\ w.modified \in Int /\ w.rename \in Int /\ w.delete \in Int
      /\ w.ext_change \in Int /\ w.ransom_ext \in Int
      /\ w.high_entropy \in Int /\ w.yara_match \in Int
      /\ w.dirs \in Int
      /\ t.warn \in Int /\ t.high \in Int /\ t.critical \in Int
      /\ t.warn >= 1 /\ t.critical > t.high /\ t.high > t.warn
  BY DEF Scoring, ValidScoring
<1> HIDE DEF c, w, t
<1>3. sum \in Int
  <2>1. \A n \in Nat, k \in Int : n * k \in Int
    OBVIOUS
  <2>2. \A n \in Nat : Once(n) \in Nat
    BY DEF Once
  <2> QED
    BY <1>1, <1>2, <2>1, <2>2 DEF WeightedSum
<1> HIDE DEF sum
<1>4. summed \in Int
  <2>1. CappedAt(sum, t.warn - 1) \in Int /\ 0 \in Int
    BY <1>2, <1>3 DEF CappedAt
  <2> QED
    BY <1>3, <2>1, Zenon DEF ContentSameCap
<1> HIDE DEF summed
<1>5. clamp100(summed) \in Nat
  BY <1>4 DEF clamp100
<1>6. DeleteOnlyCap(c, clamp100(summed)) \in Nat
  BY <1>5 DEF DeleteOnlyCap, CappedAt
<1>7. SingleDimCap(c, t, DeleteOnlyCap(c, clamp100(summed))) \in Nat
  BY <1>2, <1>6 DEF SingleDimCap, CappedAt
<1>8. RiskScore(c, sc) \in Nat
  BY <1>7 DEF RiskScore, summed, sum, t, w
<1>9. Level(c, sc) \in RiskLevels
  BY DEF Level, RiskLevel, RiskLevels, RISK_CRITICAL, RISK_HIGH,
         RISK_SUSPICIOUS, RISK_NORMAL
<1> QED
  BY <1>8, <1>9 DEF c

\* The sessions with the event and the blocked flag of s.
Kin(s, E) == {r \in SessionRecords(E) : /\ r.is_blocked = s.is_blocked
                                       /\ r.event = s.event}

\* Setting a counter, the directories or a window keeps a session of a kind.
LEMMA FieldTypes ==
  ASSUME NEW E, NEW s, NEW r \in Kin(s, E)
  PROVE  /\ \A n \in Nat : /\ [r EXCEPT !.modified = n] \in Kin(s, E)
                          /\ [r EXCEPT !.content_same = n] \in Kin(s, E)
                          /\ [r EXCEPT !.rename = n] \in Kin(s, E)
                          /\ [r EXCEPT !.delete = n] \in Kin(s, E)
                          /\ [r EXCEPT !.ext_change = n] \in Kin(s, E)
                          /\ [r EXCEPT !.ransom_ext = n] \in Kin(s, E)
                          /\ [r EXCEPT !.high_entropy = n] \in Kin(s, E)
                          /\ [r EXCEPT !.yara_match = n] \in Kin(s, E)
                          /\ [r EXCEPT !.win_s = n] \in Kin(s, E)
                          /\ [r EXCEPT !.win_l = n] \in Kin(s, E)
                          /\ [r EXCEPT !.risk_score = n] \in Kin(s, E)
                          /\ [r EXCEPT !.last_seen = n] \in Kin(s, E)
         /\ \A D \in SUBSET Dirs : [r EXCEPT !.dirs = D] \in Kin(s, E)
         /\ \A l \in RiskLevels : [r EXCEPT !.risk_level = l] \in Kin(s, E)
  BY DEF Kin, SessionRecords

\* A window that ends resets the counters.
LEMMA ShortType ==
  ASSUME NEW E, NEW s \in SessionRecords(E), NEW t \in Nat
  PROVE  RollShort(s, t) \in Kin(s, E)
<1> DEFINE a == [s EXCEPT !.modified = 0]
           b == [a EXCEPT !.rename = 0]
           c == [b EXCEPT !.delete = 0]
           d == [c EXCEPT !.ext_change = 0]
           e == [d EXCEPT !.ransom_ext = 0]
           f == [e EXCEPT !.high_entropy = 0]
           g == [f EXCEPT !.yara_match = 0]
           h == [g EXCEPT !.content_same = 0]
<1>1. RollShort(s, t) = [h EXCEPT !.win_s = t]
  BY Zenon DEF RollShort
<1>2. s \in Kin(s, E) /\ 0 \in Nat
  BY DEF Kin
<1>3. a \in Kin(s, E)
  BY <1>2, FieldTypes, Zenon
<1> HIDE DEF a
<1>4. b \in Kin(s, E)
  BY <1>2, <1>3, FieldTypes, Zenon
<1> HIDE DEF b
<1>5. c \in Kin(s, E)
  BY <1>2, <1>4, FieldTypes, Zenon
<1> HIDE DEF c
<1>6. d \in Kin(s, E)
  BY <1>2, <1>5, FieldTypes, Zenon
<1> HIDE DEF d
<1>7. e \in Kin(s, E)
  BY <1>2, <1>6, FieldTypes, Zenon
<1> HIDE DEF e
<1>8. f \in Kin(s, E)
  BY <1>2, <1>7, FieldTypes, Zenon
<1> HIDE DEF f
<1>9. g \in Kin(s, E)
  BY <1>2, <1>8, FieldTypes, Zenon
<1> HIDE DEF g
<1>10. h \in Kin(s, E)
  BY <1>2, <1>9, FieldTypes, Zenon
<1> HIDE DEF h
<1>11. [h EXCEPT !.win_s = t] \in Kin(s, E)
  BY <1>10, FieldTypes, Zenon
<1> QED
  BY <1>1, <1>11, Zenon

\* A long window that ends closes the event and keeps the blocked flag.
LEMMA LongType ==
  ASSUME NEW E, NoEvent \in E, NEW s \in SessionRecords(E), NEW t \in Nat
  PROVE  LET r == RollLong(s, t)
         IN  r \in SessionRecords(E) /\ r.is_blocked = s.is_blocked /\ r.event = NoEvent
<1> DEFINE a == [s EXCEPT !.dirs = {}]
           b == [a EXCEPT !.win_l = t]
           c == [b EXCEPT !.event = NoEvent]
           d == [c EXCEPT !.risk_level = RISK_NORMAL]
<1>1. RollLong(s, t) = [d EXCEPT !.risk_score = 0]
  BY Zenon DEF RollLong
<1>2. /\ s \in Kin(s, E) /\ 0 \in Nat /\ {} \in SUBSET Dirs
      /\ RISK_NORMAL \in RiskLevels
  BY DEF Kin, RiskLevels, RISK_NORMAL, RISK_CRITICAL
<1>3. a \in Kin(s, E)
  BY <1>2, FieldTypes, Zenon
<1> HIDE DEF a
<1>4. b \in Kin(s, E)
  BY <1>3, FieldTypes, Zenon
<1> HIDE DEF b
<1>5. c \in SessionRecords(E) /\ c.is_blocked = s.is_blocked /\ c.event = NoEvent
  BY <1>4 DEF Kin, SessionRecords
<1>6. c \in Kin(c, E)
  BY <1>5, Zenon DEF Kin
<1> HIDE DEF c
<1>7. d \in Kin(c, E)
  BY <1>2, <1>6, FieldTypes, Zenon
<1> HIDE DEF d
<1>8. [d EXCEPT !.risk_score = 0] \in Kin(c, E)
  BY <1>2, <1>7, FieldTypes, Zenon
<1>9. RollLong(s, t) \in Kin(c, E)
  BY <1>1, <1>8, Zenon
<1> QED
  BY <1>5, <1>9, Zenon DEF Kin

\* The windows keep a session a session; the event is kept or closed.
LEMMA WindowType ==
  ASSUME NEW E, NoEvent \in E, NEW s \in SessionRecords(E), NEW t \in Nat,
         NEW short, NEW long
  PROVE  LET r == session_check_window(s, t, short, long)
         IN  /\ r \in SessionRecords(E)
             /\ r.is_blocked = s.is_blocked
             /\ r.event \in {s.event, NoEvent}
<1> DEFINE opened == OpenWindows(s, t)
           rolled == RollShort(opened, t)
           mid == IF t - opened.win_s >= short THEN rolled ELSE opened
<1>1. /\ opened \in SessionRecords(E)
      /\ opened.is_blocked = s.is_blocked /\ opened.event = s.event
  BY DEF OpenWindows, SessionRecords
<1> HIDE DEF opened
<1>2. /\ rolled \in SessionRecords(E)
      /\ rolled.is_blocked = s.is_blocked /\ rolled.event = s.event
  BY <1>1, ShortType, Zenon DEF Kin
<1> HIDE DEF rolled
<1>3. /\ mid \in SessionRecords(E)
      /\ mid.is_blocked = s.is_blocked /\ mid.event = s.event
  BY <1>1, <1>2
<1>5. session_check_window(s, t, short, long)
        = IF t - mid.win_l >= long THEN RollLong(mid, t) ELSE mid
  BY Zenon DEF session_check_window, mid, rolled, opened
<1> HIDE DEF mid
<1>4. /\ RollLong(mid, t) \in SessionRecords(E)
      /\ RollLong(mid, t).is_blocked = s.is_blocked
      /\ RollLong(mid, t).event = NoEvent
  BY <1>3, LongType, Zenon
<1> QED
  BY <1>3, <1>4, <1>5, Zenon

\* Counting a message keeps a session a session.
LEMMA UpdateType ==
  ASSUME NEW E, NEW s \in SessionRecords(E), NEW op, NEW flags,
         NEW dir \in Dirs \cup {NoDir}
  PROVE  LET r == session_update(s, op, flags, dir)
         IN  /\ r \in SessionRecords(E)
             /\ r.is_blocked = s.is_blocked /\ r.event = s.event
<1>1. AddDir(s.dirs, dir) \in SUBSET Dirs
  BY DEF AddDir, SessionRecords
<1>2. (IF Retracts(s, op, flags) THEN s.modified - 1
       ELSE Bump(s.modified, op \in WriteOps /\ "RISKY" \in flags)) \in Nat
  <2>1. CASE Retracts(s, op, flags)
    BY <2>1 DEF Retracts, SessionRecords
  <2>2. CASE ~Retracts(s, op, flags)
    BY <2>2, BumpType DEF SessionRecords
  <2> QED
    BY <2>1, <2>2
<1>3. \A hit : /\ Bump(s.content_same, hit) \in Nat
               /\ Bump(s.rename, hit) \in Nat
               /\ Bump(s.delete, hit) \in Nat
               /\ Bump(s.ext_change, hit) \in Nat
               /\ Bump(s.ransom_ext, hit) \in Nat
               /\ Bump(s.high_entropy, hit) \in Nat
               /\ Bump(s.yara_match, hit) \in Nat
  BY BumpType DEF SessionRecords
<1> DEFINE a == [s EXCEPT !.modified = IF Retracts(s, op, flags) THEN s.modified - 1
                            ELSE Bump(s.modified, op \in WriteOps /\ "RISKY" \in flags)]
           b == [a EXCEPT !.content_same = Bump(s.content_same, Retracts(s, op, flags))]
           c == [b EXCEPT !.rename = Bump(s.rename, op = "RENAME")]
           d == [c EXCEPT !.delete = Bump(s.delete, op = "DELETE")]
           e == [d EXCEPT !.ext_change = Bump(s.ext_change,
                                            op = "RENAME" /\ "EXT_CHANGE" \in flags)]
           f == [e EXCEPT !.ransom_ext = Bump(s.ransom_ext,
                            (op \in WriteOps \/ op = "RENAME") /\ "RANSOM_EXT" \in flags)]
           g == [f EXCEPT !.high_entropy = Bump(s.high_entropy, "HIGH_ENTROPY" \in flags)]
           h == [g EXCEPT !.yara_match = Bump(s.yara_match, "YARA_MATCH" \in flags)]
<1>4. session_update(s, op, flags, dir) = [h EXCEPT !.dirs = AddDir(s.dirs, dir)]
  BY Zenon DEF session_update
<1>5. s \in Kin(s, E)
  BY DEF Kin
<1>6. a \in Kin(s, E)
  BY <1>2, <1>5, FieldTypes, Zenon
<1> HIDE DEF a
<1>7. b \in Kin(s, E)
  BY <1>3, <1>6, FieldTypes, Zenon
<1> HIDE DEF b
<1>8. c \in Kin(s, E)
  BY <1>3, <1>7, FieldTypes, Zenon
<1> HIDE DEF c
<1>9. d \in Kin(s, E)
  BY <1>3, <1>8, FieldTypes, Zenon
<1> HIDE DEF d
<1>10. e \in Kin(s, E)
  BY <1>3, <1>9, FieldTypes, Zenon
<1> HIDE DEF e
<1>11. f \in Kin(s, E)
  BY <1>3, <1>10, FieldTypes, Zenon
<1> HIDE DEF f
<1>12. g \in Kin(s, E)
  BY <1>3, <1>11, FieldTypes, Zenon
<1> HIDE DEF g
<1>13. h \in Kin(s, E)
  BY <1>3, <1>12, FieldTypes, Zenon
<1> HIDE DEF h
<1>14. [h EXCEPT !.dirs = AddDir(s.dirs, dir)] \in Kin(s, E)
  BY <1>1, <1>13, FieldTypes, Zenon
<1>15. session_update(s, op, flags, dir) \in Kin(s, E)
  BY <1>4, <1>14, Zenon
<1> QED
  BY <1>15, Zenon DEF Kin

\* Scoring keeps a session a session.
LEMMA ScoredType ==
  ASSUME NEW E, NEW s \in SessionRecords(E),
         NEW sc \in Scoring, ValidScoring(sc)
  PROVE  LET r == scorer_calculate(s, sc)
         IN  /\ r \in SessionRecords(E)
             /\ r.is_blocked = s.is_blocked /\ r.event = s.event
<1>1. /\ RiskScore(Counters(s), sc) \in Nat
      /\ Level(Counters(s), sc) \in RiskLevels
  BY ScoreType
<1> QED
  BY <1>1 DEF scorer_calculate, SessionRecords

\* What the analysis of a message makes of a session: the blocked flag is
\* kept, the event is kept or closed by the long window.
LEMMA AnalysedType ==
  ASSUME NEW E, NoEvent \in E, NEW s \in SessionRecords(E), NEW t \in Nat,
         NEW m, m.dir \in Dirs \cup {NoDir},
         NEW cfg, cfg.scoring \in Scoring, ValidScoring(cfg.scoring)
  PROVE  LET r == Analysed(m, s, cfg, t)
         IN  /\ r \in SessionRecords(E)
             /\ r.is_blocked = s.is_blocked
             /\ r.event \in {s.event, NoEvent}
<1> DEFINE flags == analysis_flags(m, s, cfg)
           seen == session_check_window(s, t, win_short(m, cfg), win_long(m, cfg))
           counted == session_update(seen, m.op, flags, m.dir)
           scored == scorer_calculate(counted, cfg.scoring)
<1>1. /\ seen \in SessionRecords(E)
      /\ seen.is_blocked = s.is_blocked
      /\ seen.event \in {s.event, NoEvent}
  BY WindowType
<1> HIDE DEF seen
<1>2. /\ counted \in SessionRecords(E)
      /\ counted.is_blocked = seen.is_blocked /\ counted.event = seen.event
  BY <1>1, UpdateType
<1> HIDE DEF counted
<1>3. /\ scored \in SessionRecords(E)
      /\ scored.is_blocked = counted.is_blocked /\ scored.event = counted.event
  BY <1>2, ScoredType
<1> HIDE DEF scored
<1>4. Analysed(m, s, cfg, t) = IF defer_score(m.op, flags) THEN counted ELSE scored
  BY Zenon DEF Analysed, Counted, counted, scored, seen, flags
<1> QED
  BY <1>1, <1>2, <1>3, <1>4, Zenon

(***************************************************************************)
(* The session table as one message sees it.                               *)
(***************************************************************************)

\* The types of the table.
Table(map) ==
    /\ DOMAIN map \subseteq Keys /\ IsFiniteSet(DOMAIN map)
    /\ Cardinality(DOMAIN map) <= SESSION_BUCKETS
    /\ map \in [DOMAIN map -> SessionRecords(EventIds)]

\* r is map after a look-up of k: no other session changes, and none that is
\* blocked is lost.
LookedUp(map, r, k) ==
    /\ k \in DOMAIN r
    /\ \A j \in DOMAIN r \ {k} : j \in DOMAIN map /\ r[j] = map[j]
    /\ \A j \in DOMAIN map \ DOMAIN r : ~map[j].is_blocked

\* What the look-up finds or makes for k.
Found(map, s, k) ==
    IF k \in DOMAIN map
    THEN s.event = map[k].event /\ s.is_blocked = map[k].is_blocked
    ELSE s.event = NoEvent /\ ~s.is_blocked

\* A fresh slot is a session.
LEMMA NewType == ASSUME NEW t \in Nat
                 PROVE  NewSession(t) \in SessionRecords(EventIds)
  BY DEF NewSession, SessionRecords, EventIds, RiskLevels, RISK_NORMAL,
         RISK_CRITICAL

\* Renaming victims to k keeps the table's types, if there is room.
LEMMA RenamedType ==
  ASSUME NEW map, Table(map), NEW k \in Keys, k \notin DOMAIN map, NEW t \in Nat,
         NEW V \in SUBSET DOMAIN map, \A v \in V : ~map[v].is_blocked,
         Cardinality(DOMAIN map \ V) < SESSION_BUCKETS
  PROVE  LET r == Renamed(map, V, k, t)
         IN  Table(r) /\ LookedUp(map, r, k) /\ Found(map, r[k], k)
<1> DEFINE r == Renamed(map, V, k, t)
           D == DOMAIN map \ V
<1>1. DOMAIN r = D \cup {k} /\ r[k] = NewSession(t) /\ \A j \in D : r[j] = map[j]
  BY DEF Renamed
<1>2. IsFiniteSet(D) /\ k \notin D
  BY FS_Subset, FS_Difference DEF Table
<1>3. IsFiniteSet(D \cup {k}) /\ Cardinality(D \cup {k}) = Cardinality(D) + 1
  BY <1>2, FS_AddElement
<1>4. Cardinality(D) \in Nat
  BY <1>2, FS_CardinalityType
<1>5. Cardinality(D \cup {k}) <= SESSION_BUCKETS
  BY <1>3, <1>4, SessionAssumption DEF SessionAssumption
<1>6. r \in [DOMAIN r -> SessionRecords(EventIds)]
  BY NewType DEF Renamed, Table
<1>7. Table(r)
  BY <1>1, <1>3, <1>5, <1>6 DEF Table
<1>8. LookedUp(map, r, k)
  <2> HIDE DEF r
  <2> QED
    BY <1>1 DEF LookedUp
<1>9. Found(map, r[k], k)
  BY <1>1 DEF Found, NewSession
<1> QED
  BY <1>7, <1>8, <1>9

\* session_find_or_create: the table stays within its capacity, and only the
\* session of k is touched or one that is not blocked is evicted.
LEMMA LookUp ==
  ASSUME NEW map, Table(map), NEW k \in Keys, NEW t \in Nat,
         NEW r \in session_find_or_create(map, k, t)
  PROVE  Table(r) /\ LookedUp(map, r, k) /\ Found(map, r[k], k)
<1>1. CASE k \in DOMAIN map
  <2>1. r = [map EXCEPT ![k].last_seen = t]
    BY <1>1 DEF session_find_or_create
  <2> DEFINE z == [map[k] EXCEPT !.last_seen = t]
  <2>2. map[k] \in Kin(map[k], EventIds)
    BY <1>1 DEF Kin, Table
  <2>3. z \in Kin(map[k], EventIds)
    BY <2>2, FieldTypes, Zenon
  <2>4. z \in SessionRecords(EventIds) /\ z.event = map[k].event
        /\ z.is_blocked = map[k].is_blocked
    BY <2>3, Zenon DEF Kin
  <2>5. r = [map EXCEPT ![k] = z]
    BY <2>1
  <2> HIDE DEF z
  <2>6. DOMAIN r = DOMAIN map /\ r[k] = z /\ \A j \in DOMAIN map \ {k} : r[j] = map[j]
    BY <1>1, <2>5 DEF Table
  <2>7. r \in [DOMAIN r -> SessionRecords(EventIds)]
    BY <1>1, <2>4, <2>5 DEF Table
  <2> QED
    BY <1>1, <2>4, <2>6, <2>7 DEF Table, LookedUp, Found
<1>2. CASE k \notin DOMAIN map /\ Cardinality(DOMAIN map) < SESSION_BUCKETS
  <2>1. r = Renamed(map, {}, k, t)
    BY <1>2 DEF session_find_or_create
  <2>2. DOMAIN map \ {} = DOMAIN map
    OBVIOUS
  <2> QED
    BY <1>2, <2>1, <2>2, RenamedType
<1>3. CASE k \notin DOMAIN map /\ ~(Cardinality(DOMAIN map) < SESSION_BUCKETS)
  <2>1. PICK v \in Evictable(map) : r = Renamed(map, {v}, k, t)
    BY <1>3 DEF session_find_or_create
  <2>2. v \in DOMAIN map /\ ~map[v].is_blocked
    BY DEF Evictable
  <2>3. /\ Cardinality(DOMAIN map \ {v}) = Cardinality(DOMAIN map) - 1
        /\ Cardinality(DOMAIN map) \in Nat
    BY <2>2, FS_RemoveElement, FS_CardinalityType DEF Table
  <2>4. Cardinality(DOMAIN map \ {v}) < SESSION_BUCKETS
    BY <2>3, SessionAssumption DEF SessionAssumption, Table
  <2> QED
    BY <1>3, <2>1, <2>2, <2>4, RenamedType
<1> QED
  BY <1>1, <1>2, <1>3

\* Storing a session of k keeps the table's types.
LEMMA StoreType ==
  ASSUME NEW map, NEW k, NEW z \in SessionRecords(EventIds),
         Table(map), k \in DOMAIN map
  PROVE  LET r == [map EXCEPT ![k] = z]
         IN  /\ Table(r) /\ DOMAIN r = DOMAIN map /\ r[k] = z
             /\ \A j \in DOMAIN map \ {k} : r[j] = map[j]
  BY DEF Table

(***************************************************************************)
(* The rows of the event index.                                            *)
(***************************************************************************)

\* The types of the event table.
Rows(rows) == /\ DOMAIN rows \subseteq EventIds \ {NoEvent}
              /\ rows \in [DOMAIN rows -> EventRow]

\* new is rows with at most the row of id added or given to k.
RowsKept(rows, new, k, id) ==
    /\ DOMAIN rows \subseteq DOMAIN new /\ DOMAIN new \subseteq DOMAIN rows \cup {id}
    /\ \A e \in DOMAIN rows : new[e].key = rows[e].key \/ (e = id /\ new[e].key = k)
    /\ id \in DOMAIN new \ DOMAIN rows => new[id].key = k

\* Adding a row, or giving it a new content, keeps the other rows.
LEMMA InsertRow ==
  ASSUME NEW rows, Rows(rows), NEW id \in EventIds \ {NoEvent},
         NEW row \in EventRow
  PROVE  LET new == Insert(rows, id, row)
         IN  Rows(new) /\ RowsKept(rows, new, row.key, id) /\ id \in DOMAIN new
<1> DEFINE new == Insert(rows, id, row)
<1>1. /\ DOMAIN new = DOMAIN rows \cup {id} /\ new[id] = row
      /\ \A e \in DOMAIN rows \ {id} : new[e] = rows[e]
  BY DEF Insert
<1>2. new \in [DOMAIN new -> EventRow]
  BY DEF Insert, Rows
<1> HIDE DEF new
<1>3. Rows(new)
  BY <1>1, <1>2 DEF Rows
<1>4. RowsKept(rows, new, row.key, id)
  BY <1>1 DEF RowsKept
<1> QED
  BY <1>1, <1>3, <1>4 DEF new

\* Nothing changes if nothing is written.
LEMMA SameRows == ASSUME NEW rows, NEW k, NEW id
                  PROVE  RowsKept(rows, rows, k, id)
  BY DEF RowsKept

\* INSERT OR IGNORE, which may fail.
LEMMA InsertEvent ==
  ASSUME NEW rows, Rows(rows), NEW id \in EventIds \ {NoEvent},
         NEW row \in EventRow, NEW F
  PROVE  LET new == db_insert_event(rows, id, row, F)
         IN  /\ Rows(new) /\ RowsKept(rows, new, row.key, id)
             /\ "event_row" \notin F => id \in DOMAIN new
  BY InsertRow, SameRows DEF db_insert_event

\* INSERT ... ON CONFLICT DO UPDATE, which may fail.
LEMMA UpsertEvent ==
  ASSUME NEW rows, Rows(rows), NEW id \in EventIds \ {NoEvent},
         NEW row \in EventRow, NEW F
  PROVE  LET new == db_upsert_event(rows, id, row, F)
         IN  /\ Rows(new) /\ RowsKept(rows, new, row.key, id)
             /\ "event_row" \notin F => id \in DOMAIN new
  BY InsertRow, SameRows DEF db_upsert_event

\* UPDATE: rows and keys stay, the row of id, if any, gets the status.
LEMMA UpdateEvent ==
  ASSUME NEW rows, Rows(rows), NEW id, NEW F,
         NEW action \in {"none", "blocked", "restored"},
         NEW status \in {"active", "blocked_ip", "blocked_user",
                         "blocked_ransom", "resolved"}
  PROVE  LET new == db_update_event(rows, id, action, status, F)
         IN  /\ Rows(new) /\ DOMAIN new = DOMAIN rows
             /\ \A e \in DOMAIN rows : new[e].key = rows[e].key
             /\ id \in DOMAIN rows /\ "update_row" \notin F => new[id].status = status
<1> DEFINE new == db_update_event(rows, id, action, status, F)
<1>1. CASE id \notin DOMAIN rows \/ "update_row" \in F
  <2>1. new = rows
    BY <1>1, Zenon DEF db_update_event
  <2> QED
    BY <1>1, <2>1, Zenon
<1>2. CASE id \in DOMAIN rows /\ "update_row" \notin F
  <2> DEFINE z == [[rows[id] EXCEPT !.action = action] EXCEPT !.status = status]
  <2>1. rows[id] \in EventRow
    BY <1>2 DEF Rows
  <2>2. z \in EventRow /\ z.key = rows[id].key /\ z.status = status
    BY <2>1 DEF EventRow
  <2>3. new = [rows EXCEPT ![id] = z]
    BY <1>2 DEF db_update_event, Rows
  <2> HIDE DEF z
  <2>4. /\ DOMAIN new = DOMAIN rows /\ new[id] = z
        /\ \A e \in DOMAIN rows \ {id} : new[e] = rows[e]
    BY <1>2, <2>3 DEF Rows
  <2>5. Rows(new)
    BY <1>2, <2>2, <2>3 DEF Rows
  <2> HIDE DEF new
  <2> QED
    BY <2>2, <2>4, <2>5 DEF new
<1> QED
  BY <1>1, <1>2

\* A row of a protected file is added once.
LEMMA ProtectedRow ==
  ASSUME NEW rows \in SUBSET SavedRow, NEW id \in EventIds, NEW m \in Messages, NEW F
  PROVE  LET new == db_insert_protected_file(rows, id, m, F)
         IN  /\ new \in SUBSET SavedRow
             /\ \A r \in new : r \in rows \/ (r.event = id /\ r.key = Key(m))
  BY DEF db_insert_protected_file, SavedRow, Keys

\* A row of a created file.
LEMMA CreatedRow ==
  ASSUME NEW rows \in SUBSET FileRow, NEW id \in EventIds, NEW m \in Messages, NEW F
  PROVE  LET new == db_insert_created_file(rows, id, m, F)
         IN  /\ new \in SUBSET FileRow
             /\ \A r \in new : r \in rows \/ (r.event = id /\ r.key = Key(m))
  BY DEF db_insert_created_file, FileRow, Keys

(***************************************************************************)
(* What handling a message may do, whichever of the three handlers does    *)
(* it: MsgStep says all the properties need to know of VfsBlocked,         *)
(* BlacklistHit and Analyse.                                               *)
(***************************************************************************)

\* The session of k is looked up and given the event id, if any event.
Touched(map, new, k, id) ==
    /\ Table(new) /\ LookedUp(map, new, k)
    /\ new[k].event \in {id, NoEvent}
    /\ k \in DOMAIN map /\ map[k].is_blocked => new[k].is_blocked

\* id is the event the session of k had, or a new one with its row.
NextId(k, id, F) ==
    \/ /\ UNCHANGED ids
       /\ id = NoEvent \/ (k \in DOMAIN sessions /\ id = sessions[k].event)
    \/ /\ make_event_id(id, F) /\ id # NoEvent
       /\ seq' = id[2] /\ anchor' = Day(now)
       /\ "event_row" \notin F => id \in DOMAIN events'

\* The index gets rows of this session under id only.
IndexStep(m, id) ==
    /\ Rows(events') /\ RowsKept(events, events', Key(m), id)
    /\ protected' \in SUBSET SavedRow
    /\ \A r \in protected' : r \in protected \/ (r.event = id /\ r.key = Key(m))
    /\ created' \in SUBSET FileRow
    /\ \A r \in created' : r \in created \/ (r.event \in {id, NoEvent} /\ r.key = Key(m))
    /\ restores' \subseteq restores \cup ({id} \ {NoEvent})

\* The lists stay, or the address of a blocked session is denied.
ListStep(m) ==
    /\ UNCHANGED <<policy, config>>
    /\ \/ blocked' = blocked
       \/ blocked' = blocker_execute(blocked, m) /\ sessions'[Key(m)].is_blocked

\* A verdict by score.
VerdictStep(m, F) ==
    LET e == sessions'[Key(m)].event
    IN  /\ sessions'[Key(m)].is_blocked
        /\ policy' = [policy EXCEPT !.auto =
                        scorer_blacklist_auto_add(policy.manual, policy.auto, m.ip)]
        /\ config' = IF "persist" \in F THEN config
                     ELSE [config EXCEPT !.ips =
                              config_persist_blacklist_ip(config.ips, m.ip)]
        /\ blocked' = IF "sync" \in F THEN blocker_execute(blocked, m)
                      ELSE Synced(policy')
        /\ e \in DOMAIN events' /\ "update_row" \notin F
              => events'[e].status = "blocked_ransom"
        /\ policy.cfg.auto_restore /\ e # NoEvent /\ "fork" \notin F
              => e \in restores'

MsgStep(m, F, id) ==
    /\ Touched(sessions, sessions', Key(m), id)
    /\ NextId(Key(m), id, F)
    /\ IndexStep(m, id)
    /\ ListStep(m) \/ VerdictStep(m, F)
    /\ now' = now /\ id \in EventIds

\* Days are numbered from 1.
LEMMA DayType == ASSUME NEW t \in Nat
                 PROVE  Day(t) \in Nat /\ Day(t) >= 1
<1>1. DAY \in Nat \ {0}
  BY DaemonAssumption DEF DaemonAssumption
<1> QED
  BY <1>1 DEF Day

\* Storing what became of the session that was looked up.
LEMMA TouchType ==
  ASSUME TypeOK, NEW k \in Keys, NEW id,
         NEW map \in session_find_or_create(sessions, k, now),
         NEW z \in SessionRecords(EventIds), z.event \in {id, NoEvent},
         map[k].is_blocked => z.is_blocked
  PROVE  Touched(sessions, [map EXCEPT ![k] = z], k, id)
<1> DEFINE new == [map EXCEPT ![k] = z]
<1>1. Table(sessions) /\ now \in Nat
  BY DaemonAssumption DEF TypeOK, Table, DaemonAssumption
<1>2. Table(map) /\ LookedUp(sessions, map, k) /\ Found(sessions, map[k], k)
  BY <1>1, LookUp
<1>3. k \in DOMAIN map
  BY <1>2 DEF LookedUp
<1>4. /\ Table(new) /\ DOMAIN new = DOMAIN map /\ new[k] = z
      /\ \A j \in DOMAIN map \ {k} : new[j] = map[j]
  BY <1>2, <1>3, StoreType
<1> HIDE DEF new
<1>5. LookedUp(sessions, new, k)
  BY <1>2, <1>3, <1>4 DEF LookedUp
<1>6. k \in DOMAIN sessions /\ sessions[k].is_blocked => new[k].is_blocked
  BY <1>2, <1>4, Zenon DEF Found
<1> QED
  BY <1>4, <1>5, <1>6 DEF Touched, new

\* The event a message is recorded under is never "".
LEMMA EventForType ==
  ASSUME TypeOK, NEW k \in Keys, NEW id \in EventIds, NEW F,
         NEW s, Found(sessions, s, k), EventFor(s, id, F)
  PROVE  /\ id # NoEvent
         /\ \/ s.event # NoEvent /\ UNCHANGED ids
               /\ k \in DOMAIN sessions /\ id = sessions[k].event
            \/ /\ s.event = NoEvent /\ make_event_id(id, F)
               /\ seq' = id[2] /\ anchor' = Day(now)
<1>1. CASE s.event # NoEvent
  BY <1>1, Zenon DEF EventFor, Found
<1>2. CASE s.event = NoEvent
  <2>1. make_event_id(id, F) /\ seq' = id[2] /\ anchor' = Day(now)
    BY <1>2, Zenon DEF EventFor
  <2>2. PICK n \in 0 .. MaxSeq - 1 : id = <<Day(now), n + 1>>
    BY <2>1 DEF make_event_id
  <2>3. Day(now) \in Nat /\ n + 1 \in Nat
    BY DayType, DaemonAssumption DEF TypeOK, DaemonAssumption
  <2>4. id # NoEvent
    BY <2>2, <2>3, DaemonAssumption DEF DaemonAssumption
  <2> QED
    BY <1>2, <2>1, <2>4, Zenon
<1> QED
  BY <1>1, <1>2

\* What the handlers find when they have looked the session up.
LEMMA LookedUpNow ==
  ASSUME TypeOK, NEW m \in Messages,
         NEW map \in session_find_or_create(sessions, Key(m), now)
  PROVE  /\ Key(m) \in Keys /\ now \in Nat /\ Rows(events)
         /\ protected \in SUBSET SavedRow /\ created \in SUBSET FileRow
         /\ Table(map) /\ Key(m) \in DOMAIN map
         /\ LookedUp(sessions, map, Key(m))
         /\ Found(sessions, map[Key(m)], Key(m))
         /\ map[Key(m)] \in SessionRecords(EventIds)
<1>1. Key(m) \in Keys
  BY DEF Keys
<1>2. Table(sessions) /\ now \in Nat /\ Rows(events)
      /\ protected \in SUBSET SavedRow /\ created \in SUBSET FileRow
  BY DaemonAssumption DEF TypeOK, Table, Rows, DaemonAssumption
<1>3. Table(map) /\ LookedUp(sessions, map, Key(m)) /\ Found(sessions, map[Key(m)], Key(m))
  BY <1>1, <1>2, LookUp
<1>4. Key(m) \in DOMAIN map
  BY <1>3 DEF LookedUp
<1>5. map[Key(m)] \in SessionRecords(EventIds)
  BY <1>3, <1>4 DEF Table
<1> QED
  BY <1>1, <1>2, <1>3, <1>4, <1>5

\* Giving a session an event keeps it a session.
LEMMA WithEvent ==
  ASSUME NEW s \in SessionRecords(EventIds), NEW id \in EventIds
  PROVE  /\ [s EXCEPT !.event = id] \in SessionRecords(EventIds)
         /\ [s EXCEPT !.event = id].event = id
         /\ [s EXCEPT !.event = id].is_blocked = s.is_blocked
  BY DEF SessionRecords

\* Setting the blocked flag keeps it a session.
LEMMA WithFlag ==
  ASSUME NEW s \in SessionRecords(EventIds), NEW b \in BOOLEAN
  PROVE  /\ [s EXCEPT !.is_blocked = b] \in SessionRecords(EventIds)
         /\ [s EXCEPT !.is_blocked = b].event = s.event
         /\ [s EXCEPT !.is_blocked = b].is_blocked = b
  BY Zenon DEF SessionRecords

\* A notification of the VFS module.
LEMMA VfsBlockedStep ==
  ASSUME TypeOK, NEW m \in Messages, NEW F, VfsBlocked(m, F)
  PROVE  \E id \in EventIds : MsgStep(m, F, id)
<1> DEFINE k == Key(m)
           row == [key |-> k, action |-> "blocked", status |-> "blocked_ip"]
<1>1. PICK map \in session_find_or_create(sessions, k, now), id \in EventIds :
        /\ EventFor(map[k], id, F)
        /\ sessions' = [map EXCEPT ![k].event = id]
        /\ events' = db_upsert_event(events, id, row, F)
  BY Zenon DEF VfsBlocked
<1>2. UNCHANGED <<policy, config, blocked, protected, created, restores, now>>
  BY Zenon DEF VfsBlocked, files
<1>3. /\ k \in Keys /\ Rows(events) /\ Found(sessions, map[k], k)
      /\ protected \in SUBSET SavedRow /\ created \in SUBSET FileRow
      /\ map[k] \in SessionRecords(EventIds)
  BY LookedUpNow
<1> DEFINE z == [map[k] EXCEPT !.event = id]
<1>4. z \in SessionRecords(EventIds) /\ z.event = id /\ z.is_blocked = map[k].is_blocked
  BY <1>3, WithEvent
<1>5. sessions' = [map EXCEPT ![k] = z]
  BY <1>1
<1>6. row \in EventRow /\ row.key = k
  BY <1>3 DEF EventRow
<1> HIDE DEF z, row, k
<1>7. Touched(sessions, [map EXCEPT ![k] = z], k, id)
  BY <1>1, <1>3, <1>4, TouchType
<1>8. /\ id # NoEvent
      /\ \/ UNCHANGED ids /\ k \in DOMAIN sessions /\ id = sessions[k].event
         \/ make_event_id(id, F) /\ seq' = id[2] /\ anchor' = Day(now)
  BY <1>1, <1>3, EventForType, Zenon
<1>9. /\ Rows(events') /\ RowsKept(events, events', k, id)
      /\ "event_row" \notin F => id \in DOMAIN events'
  BY <1>1, <1>3, <1>6, <1>8, UpsertEvent
<1>10. NextId(k, id, F)
  BY <1>8, <1>9, Zenon DEF NextId
<1>11. IndexStep(m, id)
  BY <1>2, <1>3, <1>9 DEF IndexStep, k
<1>12. ListStep(m)
  BY <1>2, Zenon DEF ListStep
<1>13. Touched(sessions, sessions', k, id)
  BY <1>5, <1>7, Zenon
<1> QED
  BY <1>1, <1>2, <1>10, <1>11, <1>12, <1>13 DEF MsgStep, k

\* A message of a listed user or address.
LEMMA BlacklistHitStep ==
  ASSUME TypeOK, NEW m \in Messages, NEW F, BlacklistHit(m, F)
  PROVE  \E id \in EventIds : MsgStep(m, F, id)
<1> DEFINE k == Key(m)
           status == IF IpBlacklisted(m) THEN "blocked_ip" ELSE "blocked_user"
           row == [key |-> k, action |-> "blocked", status |-> status]
           opened(s, id) == IF s.event = NoEvent
                            THEN db_upsert_event(events, id, row, F) ELSE events
<1>1. PICK map \in session_find_or_create(sessions, k, now), id \in EventIds :
        \/ /\ map[k].is_blocked
           /\ sessions' = map
           /\ UNCHANGED <<blocked, events, ids>>
        \/ /\ ~map[k].is_blocked
           /\ EventFor(map[k], id, F)
           /\ sessions' = [map EXCEPT ![k].event = id,
                                      ![k].is_blocked = BlockLands(m, F)]
           /\ IF BlockLands(m, F)
              THEN /\ blocked' = blocker_execute(blocked, m)
                   /\ events' = db_update_event(opened(map[k], id), id, "blocked",
                                                status, F)
              ELSE blocked' = blocked /\ events' = opened(map[k], id)
  BY Zenon DEF BlacklistHit
<1>2. UNCHANGED <<policy, config, protected, created, restores, now>>
  BY Zenon DEF BlacklistHit
<1>3. /\ k \in Keys /\ Rows(events) /\ Found(sessions, map[k], k)
      /\ protected \in SUBSET SavedRow /\ created \in SUBSET FileRow
      /\ map[k] \in SessionRecords(EventIds)
      /\ Table(map) /\ LookedUp(sessions, map, k)
  BY LookedUpNow
<1>4. status \in {"active", "blocked_ip", "blocked_user", "blocked_ransom", "resolved"}
  BY Zenon
<1>5. row \in EventRow /\ row.key = k
  BY <1>3, <1>4 DEF EventRow
<1>6. CASE map[k].is_blocked /\ sessions' = map /\ UNCHANGED <<blocked, events, ids>>
  <2> HIDE DEF k
  <2> DEFINE e == map[k].event
  <2>1. e \in EventIds /\ (e = NoEvent \/ (k \in DOMAIN sessions /\ e = sessions[k].event))
    BY <1>3 DEF Found, SessionRecords
  <2>2. Touched(sessions, sessions', k, e)
    BY <1>3, <1>6 DEF Touched
  <2>3. NextId(k, e, F)
    BY <1>6, <2>1, Zenon DEF NextId, ids
  <2>4. IndexStep(m, e)
    BY <1>2, <1>3, <1>6, SameRows, Zenon DEF IndexStep, k
  <2>5. ListStep(m)
    BY <1>2, <1>6, Zenon DEF ListStep
  <2> QED
    BY <1>2, <2>1, <2>2, <2>3, <2>4, <2>5 DEF MsgStep, k
<1>7. CASE /\ ~map[k].is_blocked
           /\ EventFor(map[k], id, F)
           /\ sessions' = [map EXCEPT ![k].event = id,
                                      ![k].is_blocked = BlockLands(m, F)]
           /\ IF BlockLands(m, F)
              THEN /\ blocked' = blocker_execute(blocked, m)
                   /\ events' = db_update_event(opened(map[k], id), id, "blocked",
                                                status, F)
              ELSE blocked' = blocked /\ events' = opened(map[k], id)
  <2> DEFINE y == [map[k] EXCEPT !.event = id]
             z == [y EXCEPT !.is_blocked = BlockLands(m, F)]
             rows == opened(map[k], id)
  <2>1. BlockLands(m, F) \in BOOLEAN
    BY Zenon DEF BlockLands
  <2>2. y \in SessionRecords(EventIds) /\ y.event = id
    BY <1>3, WithEvent
  <2>3. sessions' = [map EXCEPT ![k] = z]
    BY <1>3, <1>7 DEF Table, LookedUp
  <2> HIDE DEF y
  <2>4. z \in SessionRecords(EventIds) /\ z.event = id /\ z.is_blocked = BlockLands(m, F)
    BY <2>1, <2>2, WithFlag, Zenon
  <2> HIDE DEF z
  <2>5. /\ id # NoEvent
        /\ \/ map[k].event # NoEvent /\ UNCHANGED ids
              /\ k \in DOMAIN sessions /\ id = sessions[k].event
           \/ /\ map[k].event = NoEvent /\ make_event_id(id, F)
              /\ seq' = id[2] /\ anchor' = Day(now)
    BY <1>3, <1>7, EventForType, Zenon
  <2>6. /\ Rows(rows) /\ RowsKept(events, rows, k, id)
        /\ map[k].event = NoEvent /\ "event_row" \notin F => id \in DOMAIN rows
    <3>1. CASE map[k].event = NoEvent
      <4>1. rows = db_upsert_event(events, id, row, F)
        BY <3>1, Zenon
      <4> HIDE DEF row, rows, k
      <4> QED
        BY <1>3, <1>5, <2>5, <4>1, UpsertEvent
    <3>2. CASE map[k].event # NoEvent
      <4>1. rows = events
        BY <3>2, Zenon
      <4> QED
        BY <1>3, <3>2, <4>1, SameRows, Zenon
    <3> QED
      BY <3>1, <3>2
  <2> DEFINE new == db_update_event(rows, id, "blocked", status, F)
  <2>7. /\ Rows(new) /\ DOMAIN new = DOMAIN rows
        /\ \A e \in DOMAIN rows : new[e].key = rows[e].key
    <3> HIDE DEF rows, status
    <3> QED
      BY <1>4, <2>6, UpdateEvent
  <2>8. events' = rows \/ events' = new
    BY <1>7, Zenon
  <2>9. \/ blocked' = blocked
        \/ BlockLands(m, F) /\ blocked' = blocker_execute(blocked, m)
    BY <1>7, Zenon
  <2> HIDE DEF rows, new, opened, row, status
  <2>10. RowsKept(events, new, k, id)
    BY <2>6, <2>7 DEF RowsKept
  <2>11. /\ Rows(events') /\ RowsKept(events, events', k, id)
         /\ map[k].event = NoEvent /\ "event_row" \notin F => id \in DOMAIN events'
    BY <2>6, <2>7, <2>8, <2>10
  <2> HIDE DEF k
  <2>12. Touched(sessions, [map EXCEPT ![k] = z], k, id)
    BY <1>1, <1>3, <1>7, <2>4, TouchType
  <2>13. Touched(sessions, sessions', k, id)
    BY <2>3, <2>12, Zenon
  <2>14. sessions'[k].is_blocked = BlockLands(m, F)
    BY <1>3, <2>3, <2>4 DEF Table, LookedUp
  <2>15. NextId(k, id, F)
    BY <2>5, <2>11, Zenon DEF NextId
  <2>16. IndexStep(m, id)
    BY <1>2, <1>3, <2>11 DEF IndexStep, k
  <2>17. ListStep(m)
    BY <1>2, <2>9, <2>14, Zenon DEF ListStep, k
  <2> QED
    BY <1>2, <2>13, <2>15, <2>16, <2>17 DEF MsgStep, k
<1> QED
  BY <1>1, <1>6, <1>7, Zenon

\* Every other message: recorded, analysed and acted upon.
LEMMA AnalyseStep ==
  ASSUME TypeOK, NEW m \in Messages, NEW F, Analyse(m, F)
  PROVE  \E id \in EventIds : MsgStep(m, F, id)
<1> DEFINE k == Key(m)
           row == [key |-> k, action |-> "none", status |-> "active"]
           opened(s, id) == IF s.event # NoEvent THEN events
                            ELSE db_insert_event(events, id, row, F)
           analysed(s, id) == Analysed(m, [s EXCEPT !.event = id], policy.cfg, now)
           lands(a) == /\ a.risk_level = RISK_CRITICAL /\ ~a.is_blocked
                       /\ BlockLands(m, F)
           saved(id) == IF /\ "BACKED_UP" \in m.flags
                           /\ m.op \in WriteOps \cup {"DELETE"}
                        THEN db_insert_protected_file(protected, id, m, F)
                        ELSE protected
           made(e) == IF "NEW_FILE" \in m.flags
                      THEN db_insert_created_file(created, e, m, F) ELSE created
<1>1. PICK map \in session_find_or_create(sessions, k, now), id \in EventIds :
        /\ EventFor(map[k], id, F)
        /\ sessions' = [map EXCEPT ![k] =
                          [analysed(map[k], id) EXCEPT !.is_blocked =
                             analysed(map[k], id).is_blocked \/ lands(analysed(map[k], id))]]
        /\ protected' = saved(id)
        /\ created' = made(analysed(map[k], id).event)
        /\ IF lands(analysed(map[k], id))
           THEN Verdict(m, analysed(map[k], id).event, opened(map[k], id), F)
           ELSE events' = opened(map[k], id) /\ UNCHANGED <<policy, files, restores>>
  BY Zenon DEF Analyse
<1>2. now' = now
  BY Zenon DEF Analyse
<1>3. /\ k \in Keys /\ Rows(events) /\ Found(sessions, map[k], k)
      /\ protected \in SUBSET SavedRow /\ created \in SUBSET FileRow
      /\ map[k] \in SessionRecords(EventIds)
      /\ Table(map) /\ LookedUp(sessions, map, k) /\ now \in Nat
  BY LookedUpNow
<1> DEFINE s == map[k]
           y == [s EXCEPT !.event = id]
           a == Analysed(m, y, policy.cfg, now)
           b == a.is_blocked \/ lands(a)
           z == [a EXCEPT !.is_blocked = b]
           rows == opened(s, id)
<1>4. /\ sessions' = [map EXCEPT ![k] = z]
      /\ protected' = saved(id) /\ created' = made(a.event)
      /\ IF lands(a) THEN Verdict(m, a.event, rows, F)
         ELSE events' = rows /\ UNCHANGED <<policy, files, restores>>
  BY <1>1, Zenon
<1>5. y \in SessionRecords(EventIds) /\ y.event = id /\ y.is_blocked = s.is_blocked
  BY <1>3, WithEvent
<1>6. /\ id # NoEvent
      /\ \/ s.event # NoEvent /\ UNCHANGED ids
            /\ k \in DOMAIN sessions /\ id = sessions[k].event
         \/ /\ s.event = NoEvent /\ make_event_id(id, F)
            /\ seq' = id[2] /\ anchor' = Day(now)
  BY <1>1, <1>3, EventForType, Zenon
<1>7. row \in EventRow /\ row.key = k
  BY <1>3 DEF EventRow
<1>8. /\ Rows(rows) /\ RowsKept(events, rows, k, id)
      /\ s.event = NoEvent /\ "event_row" \notin F => id \in DOMAIN rows
  <2>1. CASE s.event = NoEvent
    <3>1. rows = db_insert_event(events, id, row, F)
      BY <2>1, Zenon
    <3> HIDE DEF row, rows, k, s
    <3> QED
      BY <1>3, <1>6, <1>7, <3>1, InsertEvent
  <2>2. CASE s.event # NoEvent
    <3>1. rows = events
      BY <2>2, Zenon
    <3> QED
      BY <1>3, <2>2, <3>1, SameRows, Zenon
  <2> QED
    BY <2>1, <2>2
<1> HIDE DEF y, rows, opened, row
<1>9. /\ a \in SessionRecords(EventIds)
      /\ a.is_blocked = y.is_blocked
      /\ a.event \in {id, NoEvent}
  <2>1. /\ m.dir \in Dirs \cup {NoDir}
        /\ policy.cfg.scoring \in Scoring /\ ValidScoring(policy.cfg.scoring)
    BY DaemonAssumption DEF DaemonAssumption, TypeOK, config_ok
  <2>2. NoEvent \in EventIds
    BY DEF EventIds
  <2> QED
    BY <1>3, <1>5, <2>1, <2>2, AnalysedType
<1> HIDE DEF a
<1>10. b \in BOOLEAN
  <2>1. a.is_blocked \in BOOLEAN
    BY <1>9, Zenon DEF SessionRecords
  <2> QED
    BY <2>1, Zenon
<1>11. z \in SessionRecords(EventIds) /\ z.event = a.event /\ z.is_blocked = b
  <2> HIDE DEF b
  <2> QED
    BY <1>9, <1>10, WithFlag, Zenon
<1>12. s.is_blocked => z.is_blocked
  BY <1>5, <1>9, <1>11, Zenon
<1> HIDE DEF z
<1>13. Touched(sessions, [map EXCEPT ![k] = z], k, id)
  <2> HIDE DEF k
  <2> QED
    BY <1>3, <1>9, <1>11, <1>12, TouchType, Zenon DEF s
<1>14. Touched(sessions, sessions', k, id)
  BY <1>4, <1>13, Zenon
<1>15. sessions'[k] = z
  BY <1>3, <1>4 DEF Table, LookedUp
<1>16. /\ protected' \in SUBSET SavedRow
       /\ \A r \in protected' : r \in protected \/ (r.event = id /\ r.key = Key(m))
  <2>1. /\ saved(id) \in SUBSET SavedRow
        /\ \A r \in saved(id) : r \in protected \/ (r.event = id /\ r.key = Key(m))
    BY <1>3, ProtectedRow
  <2> QED
    BY <1>4, <2>1
<1>17. /\ created' \in SUBSET FileRow
       /\ \A r \in created' : r \in created \/ (r.event \in {id, NoEvent} /\ r.key = Key(m))
  <2>1. a.event \in EventIds
    BY <1>9 DEF SessionRecords
  <2>2. /\ made(a.event) \in SUBSET FileRow
        /\ \A r \in made(a.event) : r \in created \/ (r.event = a.event /\ r.key = Key(m))
    BY <1>3, <2>1, CreatedRow
  <2> QED
    BY <1>4, <1>9, <2>2
<1>18. CASE ~lands(a)
  <2>1. events' = rows /\ UNCHANGED <<policy, config, blocked, restores>>
    BY <1>4, <1>18, Zenon DEF files
  <2>2. NextId(k, id, F)
    BY <1>6, <1>8, <2>1, Zenon DEF NextId
  <2>3. IndexStep(m, id)
    BY <1>8, <1>16, <1>17, <2>1 DEF IndexStep
  <2>4. ListStep(m)
    BY <2>1, Zenon DEF ListStep
  <2> QED
    BY <1>2, <1>14, <2>2, <2>3, <2>4 DEF MsgStep
<1>19. CASE lands(a)
  <2>1. Verdict(m, a.event, rows, F)
    BY <1>4, <1>19, Zenon
  <2>2. /\ policy' = [policy EXCEPT !.auto =
                        scorer_blacklist_auto_add(policy.manual, policy.auto, m.ip)]
        /\ config' = IF "persist" \in F THEN config
                     ELSE [config EXCEPT !.ips =
                              config_persist_blacklist_ip(config.ips, m.ip)]
        /\ blocked' = IF "sync" \in F THEN blocker_execute(blocked, m)
                      ELSE Synced(policy')
        /\ events' = db_update_event(rows, a.event, "blocked", "blocked_ransom", F)
        /\ restores' = restores \cup
               (IF policy.cfg.auto_restore /\ a.event # NoEvent /\ "fork" \notin F
                THEN {a.event} ELSE {})
    BY <2>1, Zenon DEF Verdict
  <2>3. /\ Rows(events') /\ DOMAIN events' = DOMAIN rows
        /\ \A e \in DOMAIN rows : events'[e].key = rows[e].key
        /\ a.event \in DOMAIN rows /\ "update_row" \notin F
              => events'[a.event].status = "blocked_ransom"
    BY <1>8, <2>2, UpdateEvent
  <2>4. RowsKept(events, events', k, id)
    BY <1>8, <2>3 DEF RowsKept
  <2>5. NextId(k, id, F)
    BY <1>6, <1>8, <2>3, Zenon DEF NextId
  <2>6. restores' \subseteq restores \cup ({id} \ {NoEvent})
    BY <1>9, <2>2
  <2>7. IndexStep(m, id)
    BY <1>16, <1>17, <2>3, <2>4, <2>6 DEF IndexStep
  <2>8. z.is_blocked
    BY <1>11, <1>19, Zenon
  <2>9. policy.cfg.auto_restore /\ a.event # NoEvent /\ "fork" \notin F
              => a.event \in restores'
    BY <2>2, Zenon
  <2>10. VerdictStep(m, F)
    BY <1>11, <1>15, <2>2, <2>3, <2>8, <2>9, Zenon DEF VerdictStep
  <2> QED
    BY <1>2, <1>14, <2>5, <2>7, <2>10 DEF MsgStep
<1> QED
  BY <1>18, <1>19

(***************************************************************************)
(* The lists: what is appended to and removed from blacklist.ips and the   *)
(* auto list.                                                              *)
(***************************************************************************)

\* A set of positions that has a member has a first one.
LEMMA FirstOf ==
  ASSUME NEW T \in SUBSET Nat, T # {}
  PROVE  Min(T) \in T
<1> DEFINE R == OpToRel(<, Nat)
<1>1. IsWellFoundedOn(R, Nat)
  BY NatLessThanWellFounded, Zenon
<1>2. \A x, y \in Nat : <<y, x>> \in R <=> y < x
  BY DEF OpToRel
<1> HIDE DEF R
<1>3. PICK x \in T : \A y \in T : ~(<<y, x>> \in R)
  BY <1>1, WFMin
<1>4. \A y \in T : ~(y < x)
  BY <1>2, <1>3, Zenon
<1>5. \A y \in T : x <= y
  BY <1>4
<1> QED
  BY <1>5 DEF Min

\* A list without its i-th entry.
LEMMA CutEntry ==
  ASSUME NEW S, NEW q \in Seq(S), NEW i \in 1 .. Len(q)
  PROVE  LET r == RemoveAt(q, i)
         IN  /\ r \in Seq(S) /\ Len(r) = Len(q) - 1
             /\ \A j \in 1 .. Len(r) : r[j] = IF j < i THEN q[j] ELSE q[j + 1]
<1> DEFINE a == SubSeq(q, 1, i - 1)
           b == SubSeq(q, i + 1, Len(q))
<1>1. Len(q) \in Nat /\ \A j \in 1 .. Len(q) : q[j] \in S
  BY LenProperties, ElementOfSeq
<1>2. /\ a \in Seq(S) /\ Len(a) = i - 1
      /\ \A j \in 1 .. i - 1 : a[j] = q[j]
  <2>1. \A j \in 1 .. i - 1 : q[j] \in S
    BY <1>1
  <2>2. 1 \in Int /\ i - 1 \in Int
    BY <1>1
  <2>3. a \in Seq(S) /\ Len(a) = (IF 1 <= i - 1 THEN i - 1 - 1 + 1 ELSE 0)
        /\ \A j \in 1 .. (i - 1 - 1 + 1) : a[j] = q[1 + j - 1]
    BY <2>1, <2>2, SubSeqProperties
  <2> HIDE DEF a
  <2> QED
    BY <1>1, <2>3
<1>3. /\ b \in Seq(S) /\ Len(b) = Len(q) - i
      /\ \A j \in 1 .. Len(q) - i : b[j] = q[i + j]
  <2>1. \A j \in i + 1 .. Len(q) : q[j] \in S
    BY <1>1
  <2>2. i + 1 \in Int /\ Len(q) \in Int
    BY <1>1
  <2>3. b \in Seq(S) /\ Len(b) = (IF i + 1 <= Len(q) THEN Len(q) - (i + 1) + 1 ELSE 0)
        /\ \A j \in 1 .. (Len(q) - (i + 1) + 1) : b[j] = q[(i + 1) + j - 1]
    BY <2>1, <2>2, SubSeqProperties
  <2> HIDE DEF b
  <2> QED
    BY <1>1, <2>3
<1> HIDE DEF a, b
<1>4. /\ a \o b \in Seq(S) /\ Len(a \o b) = Len(a) + Len(b)
      /\ \A j \in 1 .. Len(a) + Len(b) :
            (a \o b)[j] = IF j <= Len(a) THEN a[j] ELSE b[j - Len(a)]
  BY <1>2, <1>3, ConcatProperties
<1>5. RemoveAt(q, i) = a \o b
  BY DEF RemoveAt, a, b
<1>6. Len(a \o b) = Len(q) - 1
  BY <1>1, <1>2, <1>3, <1>4
<1>7. ASSUME NEW j \in 1 .. Len(q) - 1
      PROVE  (a \o b)[j] = IF j < i THEN q[j] ELSE q[j + 1]
  <2>1. (a \o b)[j] = IF j <= i - 1 THEN a[j] ELSE b[j - (i - 1)]
    BY <1>1, <1>2, <1>3, <1>4
  <2>2. CASE j <= i - 1
    BY <1>1, <1>2, <2>1, <2>2
  <2>3. CASE ~(j <= i - 1)
    <3>1. j - (i - 1) \in 1 .. Len(q) - i /\ i + (j - (i - 1)) = j + 1
      BY <1>1, <2>3
    <3>2. b[j - (i - 1)] = q[j + 1]
      BY <1>3, <3>1
    <3> QED
      BY <1>1, <2>1, <2>3, <3>2
  <2> QED
    BY <2>2, <2>3
<1> QED
  BY <1>4, <1>5, <1>6, <1>7

\* The positions of the daemon's verdicts in a list.
Autos(q) == {i \in DOMAIN q : q[i].auto}

\* Making room takes a verdict out of the list.
LEMMA MakeRoom ==
  ASSUME NEW q \in Seq(Entry), Autos(q) # {}
  PROVE  \E i \in Autos(q) : i \in 1 .. Len(q) /\ RemoveFirstMatch(q, IsAuto) = RemoveAt(q, i)
<1> DEFINE I == {i \in 1 .. Len(q) : IsAuto(q[i])}
<1>1. DOMAIN q = 1 .. Len(q) /\ Len(q) \in Nat
  BY LenProperties
<1>2. I = Autos(q)
  BY <1>1 DEF IsAuto, Autos
<1>3. I \in SUBSET Nat /\ I # {}
  BY <1>1, <1>2
<1>4. Min(I) \in I
  <2> HIDE DEF I
  <2> QED
    BY <1>3, FirstOf
<1>5. RemoveFirstMatch(q, IsAuto) = RemoveAt(q, Min(I))
  <2>1. \E i \in 1 .. Len(q) : IsAuto(q[i])
    BY <1>3
  <2> QED
    BY <1>3, <2>1, Zenon DEF RemoveFirstMatch, SelectInSeq
<1>6. Min(I) \in 1 .. Len(q)
  BY <1>4
<1> QED
  BY <1>2, <1>4, <1>5, <1>6

\* Taking an entry out removes one that is equal to it, or nothing.
LEMMA TakeOut ==
  ASSUME NEW q \in Seq(Entry), NEW e
  PROVE  \/ RemoveFirst(q, e) = q
         \/ \E i \in 1 .. Len(q) : q[i] = e /\ RemoveFirst(q, e) = RemoveAt(q, i)
<1>1. CASE ~ \E i \in 1 .. Len(q) : q[i] = e
  BY <1>1 DEF RemoveFirst
<1>2. CASE \E i \in 1 .. Len(q) : q[i] = e
  <2> DEFINE I == {i \in 1 .. Len(q) : q[i] = e}
  <2>1. I \in SUBSET Nat /\ I # {}
    BY <1>2, LenProperties
  <2>2. Min(I) \in I
    <3> HIDE DEF I
    <3> QED
      BY <2>1, FirstOf
  <2>3. RemoveFirst(q, e) = RemoveAt(q, Min(I))
    BY <1>2, <2>1, Zenon DEF RemoveFirst, SelectInSeq
  <2>4. Min(I) \in 1 .. Len(q) /\ q[Min(I)] = e
    BY <2>2
  <2> QED
    BY <2>3, <2>4
<1> QED
  BY <1>1, <1>2

\* The auto list keeps its type and its capacity.
LEMMA AutoAddType ==
  ASSUME NEW manual, NEW auto \in Seq(IPs), Len(auto) <= AUTO_MAX, NEW ip
  PROVE  LET new == scorer_blacklist_auto_add(manual, auto, ip)
         IN  new \in Seq(IPs) /\ Len(new) <= AUTO_MAX
<1>1. AUTO_MAX \in Nat /\ AUTO_MAX > 0
  BY BlacklistAssumption DEF BlacklistAssumption
<1>2. CASE ip \notin IPs \/ ip \in manual \/ ip \in ToSet(auto)
  BY <1>2 DEF scorer_blacklist_auto_add
<1>3. CASE ~(ip \notin IPs \/ ip \in manual \/ ip \in ToSet(auto))
  <2> DEFINE room == IF Len(auto) >= AUTO_MAX THEN Tail(auto) ELSE auto
  <2>1. room \in Seq(IPs) /\ Len(room) < AUTO_MAX
    <3>1. CASE Len(auto) >= AUTO_MAX
      <4>1. auto # << >>
        BY <1>1, <3>1
      <4> QED
        BY <1>1, <3>1, <4>1
    <3>2. CASE ~(Len(auto) >= AUTO_MAX)
      BY <1>1, <3>2, LenProperties
    <3> QED
      BY <3>1, <3>2
  <2> HIDE DEF room
  <2>2. Append(room, ip) \in Seq(IPs) /\ Len(Append(room, ip)) = Len(room) + 1
    BY <1>3, <2>1, AppendProperties
  <2>3. scorer_blacklist_auto_add(manual, auto, ip) = Append(room, ip)
    BY <1>3, Zenon DEF scorer_blacklist_auto_add, room
  <2> QED
    BY <1>1, <2>1, <2>2, <2>3, LenProperties
<1> QED
  BY <1>2, <1>3

\* A verdict that is new to policy.json goes to the end of the list, in the
\* place of an older one when there are AUTO_MAX of them.
LEMMA PersistCases ==
  ASSUME NEW q \in Seq(Entry), NEW ip
  PROVE  LET new == config_persist_blacklist_ip(q, ip)
         IN  \/ new = q /\ (ip \notin IPs \/ ip \in Listed(q))
             \/ /\ ip \in IPs /\ ip \notin Listed(q)
                /\ Cardinality(Autos(q)) < AUTO_MAX
                /\ new = Append(q, [ip |-> ip, auto |-> TRUE])
             \/ /\ ip \in IPs /\ ip \notin Listed(q)
                /\ ~(Cardinality(Autos(q)) < AUTO_MAX)
                /\ \E i \in Autos(q) :
                     /\ i \in 1 .. Len(q)
                     /\ new = Append(RemoveAt(q, i), [ip |-> ip, auto |-> TRUE])
<1>1. AUTO_MAX \in Nat /\ AUTO_MAX > 0
  BY BlacklistAssumption DEF BlacklistAssumption
<1>2. DOMAIN q = 1 .. Len(q) /\ Len(q) \in Nat
  BY LenProperties
<1>3. IsFiniteSet(Autos(q)) /\ Cardinality(Autos(q)) \in Nat
  <2>1. IsFiniteSet(1 .. Len(q))
    BY <1>2, FS_Interval
  <2>2. Autos(q) \subseteq 1 .. Len(q)
    BY <1>2 DEF Autos
  <2> QED
    BY <2>1, <2>2, FS_Subset, FS_CardinalityType
<1>4. CASE ip \notin IPs \/ ip \in Listed(q)
  BY <1>4, Zenon DEF config_persist_blacklist_ip
<1>5. CASE ip \in IPs /\ ip \notin Listed(q)
  <2>1. config_persist_blacklist_ip(q, ip)
          = Append(IF Cardinality(Autos(q)) >= AUTO_MAX
                   THEN RemoveFirstMatch(q, IsAuto) ELSE q,
                   [ip |-> ip, auto |-> TRUE])
    BY <1>5, Zenon DEF config_persist_blacklist_ip, Autos
  <2>2. CASE Cardinality(Autos(q)) >= AUTO_MAX
    <3>1. Autos(q) # {}
      BY <1>1, <1>3, <2>2, FS_EmptySet
    <3>2. PICK i \in Autos(q) : i \in 1 .. Len(q) /\ RemoveFirstMatch(q, IsAuto) = RemoveAt(q, i)
      BY <3>1, MakeRoom, Zenon
    <3>3. config_persist_blacklist_ip(q, ip)
            = Append(RemoveAt(q, i), [ip |-> ip, auto |-> TRUE])
      BY <2>1, <2>2, <3>2, Zenon
    <3>4. ~(Cardinality(Autos(q)) < AUTO_MAX)
      BY <1>1, <1>3, <2>2
    <3> QED
      BY <1>5, <3>2, <3>3, <3>4, Zenon
  <2>3. CASE ~(Cardinality(Autos(q)) >= AUTO_MAX)
    <3>1. Cardinality(Autos(q)) < AUTO_MAX
      BY <1>1, <1>3, <2>3
    <3>2. config_persist_blacklist_ip(q, ip) = Append(q, [ip |-> ip, auto |-> TRUE])
      BY <2>1, <2>3, Zenon
    <3> QED
      BY <1>5, <3>1, <3>2, Zenon
  <2> QED
    BY <2>2, <2>3
<1> QED
  BY <1>4, <1>5, Zenon

\* policy.json keeps its form when a verdict is persisted.
LEMMA PersistType ==
  ASSUME NEW q \in Seq(Entry), NEW ip
  PROVE  config_persist_blacklist_ip(q, ip) \in Seq(Entry)
<1> DEFINE new == config_persist_blacklist_ip(q, ip)
           e == [ip |-> ip, auto |-> TRUE]
<1>1. CASE new = q
  BY <1>1, Zenon
<1>2. CASE ip \in IPs /\ new = Append(q, e)
  <2>1. e \in Entry
    BY <1>2 DEF Entry
  <2> HIDE DEF e
  <2> QED
    BY <1>2, <2>1, AppendProperties
<1>3. CASE ip \in IPs /\ \E i \in Autos(q) : i \in 1 .. Len(q) /\ new = Append(RemoveAt(q, i), e)
  <2>1. e \in Entry
    BY <1>3 DEF Entry
  <2>2. PICK i \in Autos(q) : i \in 1 .. Len(q) /\ new = Append(RemoveAt(q, i), e)
    BY <1>3, Zenon
  <2>3. RemoveAt(q, i) \in Seq(Entry)
    BY <2>2, CutEntry
  <2> HIDE DEF e
  <2> QED
    BY <2>1, <2>2, <2>3, AppendProperties
<1> QED
  BY <1>1, <1>2, <1>3, PersistCases, Zenon

\* What the console saves is again a policy.json.
LEMMA EditedType ==
  ASSUME NEW c \in Config, NEW f \in Forms
  PROVE  Edited(c, f) \in Config
<1> DEFINE entry == [ip |-> f.arg, auto |-> FALSE]
<1>0. c.cfg \in Settings /\ c.ips \in Seq(Entry)
  BY DEF Config
<1>1. CASE f.op \in {"add_ip", "remove_ip"} /\ f.arg \in IPs \cup Nets
  <2>1. entry \in Entry
    BY <1>1 DEF Entry
  <2>2. Edited(c, f) \in {c, [c EXCEPT !.ips = Append(c.ips, entry)],
                          [c EXCEPT !.ips = RemoveFirst(c.ips, entry)]}
    <3>1. CASE f.op = "add_ip"
      BY <3>1, Zenon DEF Edited
    <3>2. CASE f.op = "remove_ip"
      BY <3>2, Zenon DEF Edited
    <3> QED
      BY <1>1, <3>1, <3>2
  <2> HIDE DEF entry
  <2>3. Append(c.ips, entry) \in Seq(Entry)
    BY <1>0, <2>1, AppendProperties
  <2>4. RemoveFirst(c.ips, entry) \in Seq(Entry)
    BY <1>0, TakeOut, CutEntry
  <2>5. \A q \in Seq(Entry) : [c EXCEPT !.ips = q] \in Config
    BY DEF Config
  <2> QED
    BY <2>2, <2>3, <2>4, <2>5
<1>2. CASE /\ f.op \in {"add_user", "remove_user"}
           /\ \A cfg \in Settings :
                 {[cfg EXCEPT !.bl_users = @ \cup {f.arg}],
                  [cfg EXCEPT !.bl_users = @ \ {f.arg}]} \subseteq Settings
  <2> DEFINE a == [c.cfg EXCEPT !.bl_users = @ \cup {f.arg}]
             b == [c.cfg EXCEPT !.bl_users = @ \ {f.arg}]
  <2>1. a \in Settings /\ b \in Settings
    BY <1>0, <1>2, Zenon
  <2>2. \/ Edited(c, f) = [c EXCEPT !.cfg = a]
        \/ Edited(c, f) = [c EXCEPT !.cfg = b]
    <3>1. CASE f.op = "add_user"
      BY <3>1 DEF Edited, Config
    <3>2. CASE f.op = "remove_user"
      BY <3>2 DEF Edited, Config
    <3> QED
      BY <1>2, <3>1, <3>2
  <2> HIDE DEF a, b
  <2>3. \A x \in Settings : [c EXCEPT !.cfg = x] \in Config
    BY DEF Config
  <2> QED
    BY <2>1, <2>2, <2>3
<1> QED
  BY <1>1, <1>2, DaemonAssumption, Zenon DEF DaemonAssumption

(***************************************************************************)
(* Type correctness.                                                       *)
(***************************************************************************)

\* The types of the policy in memory.
PolicyType(p) ==
    /\ p \in [cfg : Settings, manual : SUBSET (IPs \cup Nets), auto : Seq(IPs)]
    /\ config_ok(p.cfg) /\ Len(p.auto) <= AUTO_MAX

\* The console works on a policy.json it has loaded.
ConsoleType(c) ==
    \/ c = NoVisit \/ c.stage = "restart"
    \/ c \in [stage : {"edit"}, form : Forms, seen : Config]

\* TypeOK in parts.
LEMMA TypeParts ==
  TypeOK <=> /\ Table(sessions) /\ config \in Config /\ PolicyType(policy)
             /\ blocked \subseteq IPs /\ Rows(events)
             /\ protected \subseteq SavedRow /\ created \subseteq FileRow
             /\ restores \subseteq EventIds \ {NoEvent}
             /\ seq \in 0 .. MaxSeq /\ anchor \in 0 .. Day(MaxTime)
             /\ now \in 1 .. MaxTime /\ ConsoleType(console)
<1>1. ConsoleType(console) <=>
         \/ console = NoVisit \/ console.stage = "restart"
         \/ console \in [stage : {"edit"}, form : Forms, seen : Config]
  BY Zenon DEF ConsoleType
<1>2. PolicyType(policy) <=>
        /\ policy \in [cfg : Settings, manual : SUBSET (IPs \cup Nets), auto : Seq(IPs)]
        /\ config_ok(policy.cfg) /\ Len(policy.auto) <= AUTO_MAX
  BY Zenon DEF PolicyType
<1>3. Table(sessions) <=>
        /\ DOMAIN sessions \subseteq Keys /\ IsFiniteSet(DOMAIN sessions)
        /\ Cardinality(DOMAIN sessions) <= SESSION_BUCKETS
        /\ sessions \in [DOMAIN sessions -> SessionRecords(EventIds)]
  BY Zenon DEF Table
<1>4. Rows(events) <=> /\ DOMAIN events \subseteq EventIds \ {NoEvent}
                      /\ events \in [DOMAIN events -> EventRow]
  BY Zenon DEF Rows
<1> QED
  BY <1>1, <1>2, <1>3, <1>4, PTL DEF TypeOK

\* What config_load accepts becomes a policy.
LEMMA LoadType ==
  ASSUME NEW c \in Config, config_ok(c.cfg)
  PROVE  PolicyType(config_load(c))
<1>1. c.cfg \in Settings /\ c.ips \in Seq(Entry)
  BY DEF Config
<1>2. config_load_ips(c.ips) \in SUBSET (IPs \cup Nets)
  <2>1. \A i \in DOMAIN c.ips : c.ips[i] \in Entry
    BY <1>1, LenProperties, ElementOfSeq
  <2>2. \A e \in Entry : e.ip \in IPs \cup Nets
    BY DEF Entry
  <2> QED
    BY <2>1, <2>2 DEF config_load_ips
<1>3. << >> \in Seq(IPs) /\ Len(<< >>) <= AUTO_MAX
  BY BlacklistAssumption, EmptySeq DEF BlacklistAssumption
<1> HIDE DEF config_load_ips
<1> QED
  BY <1>1, <1>2, <1>3 DEF config_load, PolicyType

\* Nothing but addresses gets into the blocked file.
LEMMA DeniedType == /\ \A p : Synced(p) \subseteq IPs
                    /\ \A m : BlockIP(m) \subseteq IPs
  BY DEF Synced, blocker_sync_blacklist, BlockIP

\* A verdict keeps the types of policy, policy.json and blocked file.
LEMMA VerdictTypes ==
  ASSUME TypeOK, NEW m \in Messages, NEW F, VerdictStep(m, F)
  PROVE  PolicyType(policy') /\ config' \in Config /\ blocked' \subseteq IPs
<1> DEFINE auto == scorer_blacklist_auto_add(policy.manual, policy.auto, m.ip)
           ips == config_persist_blacklist_ip(config.ips, m.ip)
<1>1. PolicyType(policy) /\ config \in Config /\ blocked \subseteq IPs
  BY TypeParts
<1>2. /\ policy' = [policy EXCEPT !.auto = auto]
      /\ config' = IF "persist" \in F THEN config ELSE [config EXCEPT !.ips = ips]
      /\ blocked' = IF "sync" \in F THEN blocker_execute(blocked, m) ELSE Synced(policy')
  BY Zenon DEF VerdictStep
<1>3. auto \in Seq(IPs) /\ Len(auto) <= AUTO_MAX
  BY <1>1, AutoAddType DEF PolicyType
<1>4. ips \in Seq(Entry)
  BY <1>1, PersistType DEF Config
<1> HIDE DEF auto, ips
<1>5. PolicyType(policy')
  <2>1. /\ policy'.cfg = policy.cfg /\ policy'.auto = auto
        /\ policy' \in [cfg : Settings, manual : SUBSET (IPs \cup Nets), auto : Seq(IPs)]
    BY <1>1, <1>2, <1>3 DEF PolicyType
  <2> QED
    BY <1>1, <1>3, <2>1, Zenon DEF PolicyType
<1>6. config' \in Config
  BY <1>1, <1>2, <1>4 DEF Config
<1>7. blocked' \subseteq IPs
  BY <1>1, <1>2, DeniedType DEF blocker_execute
<1> QED
  BY <1>5, <1>6, <1>7

\* The ids of events are those of EventIds.
LEMMA NextIdTypes ==
  ASSUME TypeOK, NEW k, NEW id \in EventIds, NEW F, NextId(k, id, F)
  PROVE  seq' \in 0 .. MaxSeq /\ anchor' \in 0 .. Day(MaxTime)
<1>1. CASE UNCHANGED ids
  BY <1>1 DEF ids, TypeOK
<1>2. CASE make_event_id(id, F) /\ id # NoEvent /\ seq' = id[2] /\ anchor' = Day(now)
  <2>1. id[1] = Day(now)
    BY <1>2 DEF make_event_id
  <2>2. id \in (1 .. Day(MaxTime)) \X (1 .. MaxSeq)
    BY <1>2 DEF EventIds
  <2>3. Day(MaxTime) \in Nat /\ MaxSeq \in Nat
    BY DayType, DaemonAssumption DEF DaemonAssumption
  <2> QED
    BY <1>2, <2>1, <2>2, <2>3
<1> QED
  BY <1>1, <1>2 DEF NextId

\* Handling a message keeps the types.
LEMMA MsgTypes ==
  ASSUME TypeOK, NEW m \in Messages, NEW F, NEW id \in EventIds,
         MsgStep(m, F, id), UNCHANGED console
  PROVE  TypeOK'
<1>1. Table(sessions')
  BY DEF MsgStep, Touched
<1>2. seq' \in 0 .. MaxSeq /\ anchor' \in 0 .. Day(MaxTime)
  BY NextIdTypes DEF MsgStep
<1>3. /\ Rows(events') /\ protected' \subseteq SavedRow /\ created' \subseteq FileRow
      /\ restores' \subseteq EventIds \ {NoEvent}
  BY TypeParts DEF MsgStep, IndexStep
<1>4. PolicyType(policy') /\ config' \in Config /\ blocked' \subseteq IPs
  <2>1. CASE ListStep(m)
    BY <2>1, TypeParts, DeniedType DEF ListStep, blocker_execute
  <2>2. CASE VerdictStep(m, F)
    BY <2>2, VerdictTypes
  <2> QED
    BY <2>1, <2>2 DEF MsgStep
<1>5. now' \in 1 .. MaxTime /\ ConsoleType(console')
  BY TypeParts DEF MsgStep
<1> QED
  BY <1>1, <1>2, <1>3, <1>4, <1>5 DEF TypeOK, Table, PolicyType, Rows, ConsoleType

\* The steps of the daemon, the three handlers of messages taken together.
LEMMA StepCases ==
  ASSUME TypeOK, [Next]_vars
  PROVE  \/ UNCHANGED console /\ \E m \in Messages, F \in SUBSET MayFail, id \in EventIds :
                                    MsgStep(m, F, id)
         \/ UNCHANGED console /\ \E m \in Messages : GatedSubmit(m)
         \/ UNCHANGED console /\ \E F \in SUBSET MayFail : Reload(F)
         \/ console' \in {console, NoVisit} /\ \E F \in SUBSET MayFail : Restart(F)
         \/ UNCHANGED console /\ \E id \in restores : RestoreChild(id)
         \/ UNCHANGED console /\ EditConfig
         \/ UNCHANGED console /\ \E ip \in IPs : Unblock(ip)
         \/ UNCHANGED console /\ Tick
         \/ \E f \in Forms : ConsoleLoad(f)
         \/ ConsoleSave
         \/ UNCHANGED vars
<1>1. ASSUME NEW m \in Messages, NEW F \in SUBSET MayFail,
             VfsBlocked(m, F) \/ BlacklistHit(m, F) \/ Analyse(m, F)
      PROVE  \E id \in EventIds : MsgStep(m, F, id)
  BY <1>1, VfsBlockedStep, BlacklistHitStep, AnalyseStep, Zenon
<1>2. CASE DaemonNext /\ UNCHANGED console
  <2>1. \/ \E m \in Messages, F \in SUBSET MayFail :
              VfsBlocked(m, F) \/ BlacklistHit(m, F) \/ Analyse(m, F)
        \/ \E F \in SUBSET MayFail : Reload(F)
        \/ \E F \in SUBSET MayFail : Restart(F)
        \/ \E m \in Messages : GatedSubmit(m)
        \/ \E id \in restores : RestoreChild(id)
        \/ EditConfig
        \/ \E ip \in IPs : Unblock(ip)
        \/ Tick
    BY <1>2, Zenon DEF DaemonNext
  <2> QED
    BY <1>1, <1>2, <2>1, Zenon
<1>3. CASE \E F \in SUBSET MayFail : ConsoleRestart(F)
  BY <1>3, Zenon DEF ConsoleRestart
<1> QED
  BY <1>2, <1>3, Zenon DEF Next

\* An empty table.
LEMMA EmptyTable == Table(<< >>)
<1>1. DOMAIN << >> = {} /\ << >> \in [{} -> SessionRecords(EventIds)]
  OBVIOUS
<1>2. IsFiniteSet({}) /\ Cardinality({}) = 0
  BY FS_EmptySet
<1>3. 0 <= SESSION_BUCKETS
  BY SessionAssumption DEF SessionAssumption
<1> QED
  BY <1>1, <1>2, <1>3, Zenon DEF Table

\* The daemon starts with the types.
LEMMA InitTypes == Init => TypeOK
<1> SUFFICES ASSUME Init PROVE TypeOK
  OBVIOUS
<1>1. /\ sessions = << >> /\ config = FirstConfig /\ policy = config_load(config)
      /\ blocked = Synced(policy) /\ events = << >> /\ protected = {} /\ created = {}
      /\ restores = {} /\ seq = 0 /\ anchor = 0 /\ now = 1 /\ console = NoVisit
  BY Zenon DEF Init
<1>2. config \in Config /\ config_ok(config.cfg)
  BY <1>1, DaemonAssumption DEF DaemonAssumption
<1>3. PolicyType(policy)
  BY <1>1, <1>2, LoadType
<1>4. Table(sessions)
  BY <1>1, EmptyTable
<1>5. Rows(events)
  BY <1>1 DEF Rows
<1>6. blocked \subseteq IPs
  BY <1>1, DeniedType
<1>7. /\ seq \in 0 .. MaxSeq /\ anchor \in 0 .. Day(MaxTime) /\ now \in 1 .. MaxTime
  BY <1>1, DayType, DaemonAssumption DEF DaemonAssumption
<1>8. ConsoleType(console)
  BY <1>1, Zenon DEF ConsoleType
<1>9. protected \subseteq SavedRow /\ created \subseteq FileRow /\ restores \subseteq EventIds \ {NoEvent}
  BY <1>1
<1> QED
  BY <1>2, <1>3, <1>4, <1>5, <1>6, <1>7, <1>8, <1>9, TypeParts, Zenon

\* A restore keeps the types of the index.
LEMMA RestoreChildRows ==
  ASSUME TypeOK, NEW id \in restores, RestoreChild(id)
  PROVE  /\ Rows(events') /\ DOMAIN events' = DOMAIN events
         /\ \A e \in DOMAIN events : events'[e].key = events[e].key
         /\ protected' \subseteq SavedRow /\ created' = created
         /\ \A r \in protected' : \E q \in protected : r.event = q.event /\ r.key = q.key
         /\ restores' \subseteq restores
<1> DEFINE mine == {r \in protected : r.event = id}
<1>1. Rows(events) /\ protected \subseteq SavedRow
  BY TypeParts
<1>2. /\ restores' = restores \ {id}
      /\ protected' = (protected \ mine) \cup {[r EXCEPT !.status = "restored"] : r \in mine}
      /\ \/ events' = events
         \/ events' = db_update_event(events, id, "restored", "resolved", {})
      /\ created' = created
  BY Zenon DEF RestoreChild
<1>3. /\ Rows(events') /\ DOMAIN events' = DOMAIN events
      /\ \A e \in DOMAIN events : events'[e].key = events[e].key
  BY <1>1, <1>2, UpdateEvent
<1>4. ASSUME NEW r \in mine
      PROVE  /\ [r EXCEPT !.status = "restored"] \in SavedRow
             /\ [r EXCEPT !.status = "restored"].event = r.event
             /\ [r EXCEPT !.status = "restored"].key = r.key
  <2>1. r \in SavedRow
    BY <1>1
  <2> HIDE DEF mine
  <2> QED
    BY <2>1 DEF SavedRow
<1>5. \A r \in protected' :
        r \in SavedRow /\ \E q \in protected : r.event = q.event /\ r.key = q.key
  <2> TAKE r \in protected'
  <2>1. CASE r \in protected
    BY <1>1, <2>1
  <2>2. CASE r \notin protected
    <3>1. PICK q \in mine : r = [q EXCEPT !.status = "restored"]
      BY <1>2, <2>2, Zenon
    <3>2. q \in protected
      OBVIOUS
    <3> QED
      BY <1>4, <3>1, <3>2, Zenon
  <2> QED
    BY <2>1, <2>2
<1> QED
  BY <1>2, <1>3, <1>5, Zenon

\* Every step keeps the types.
LEMMA StepTypes ==
  ASSUME TypeOK, [Next]_vars
  PROVE  TypeOK'
<1>0. /\ Table(sessions) /\ config \in Config /\ PolicyType(policy)
      /\ blocked \subseteq IPs /\ Rows(events)
      /\ protected \subseteq SavedRow /\ created \subseteq FileRow
      /\ restores \subseteq EventIds \ {NoEvent}
      /\ seq \in 0 .. MaxSeq /\ anchor \in 0 .. Day(MaxTime)
      /\ now \in 1 .. MaxTime /\ ConsoleType(console)
  BY TypeParts, Zenon
<1> SUFFICES /\ Table(sessions') /\ config' \in Config /\ PolicyType(policy')
             /\ blocked' \subseteq IPs /\ Rows(events')
             /\ protected' \subseteq SavedRow /\ created' \subseteq FileRow
             /\ restores' \subseteq EventIds \ {NoEvent}
             /\ seq' \in 0 .. MaxSeq /\ anchor' \in 0 .. Day(MaxTime)
             /\ now' \in 1 .. MaxTime /\ ConsoleType(console')
  BY DEF TypeOK, Table, PolicyType, Rows, ConsoleType
<1>1. ASSUME NEW m \in Messages, NEW F \in SUBSET MayFail, NEW id \in EventIds,
             MsgStep(m, F, id), UNCHANGED console
      PROVE  TypeOK'
  BY <1>1, MsgTypes
<1>2. CASE UNCHANGED console /\ \E m \in Messages : GatedSubmit(m)
  <2>1. PICK m \in Messages : GatedSubmit(m)
    BY <1>2
  <2>2. /\ sessions' \in session_find_or_create(sessions, Key(m), now)
        /\ UNCHANGED <<policy, config, blocked, events, protected, created, restores,
                       seq, anchor, now>>
    BY <2>1, Zenon DEF GatedSubmit, files, index, ids
  <2>3. Key(m) \in Keys /\ now \in Nat
    BY <1>0 DEF Keys
  <2>4. Table(sessions')
    BY <1>0, <2>2, <2>3, LookUp
  <2> QED
    BY <1>0, <1>2, <2>2, <2>4
<1>3. CASE \/ UNCHANGED console /\ \E F \in SUBSET MayFail : Reload(F)
           \/ console' \in {console, NoVisit} /\ \E F \in SUBSET MayFail : Restart(F)
  <2>1. PICK F \in SUBSET MayFail : Reload(F) \/ Restart(F)
    BY <1>3
  <2>2. /\ config_ok(config.cfg) /\ policy' = config_load(config)
        /\ blocked' = blocked \/ blocked' = Synced(policy')
        /\ sessions' = sessions \/ sessions' = << >>
        /\ (seq' = seq /\ anchor' = anchor) \/ (seq' = 0 /\ anchor' = 0)
        /\ UNCHANGED <<config, events, protected, created, restores, now>>
    BY <2>1, Zenon DEF Reload, Restart, index, ids
  <2>3. PolicyType(policy')
    BY <1>0, <2>2, LoadType
  <2>4. Table(sessions')
    BY <1>0, <2>2, EmptyTable
  <2>5. blocked' \subseteq IPs
    BY <1>0, <2>2, DeniedType
  <2>6. seq' \in 0 .. MaxSeq /\ anchor' \in 0 .. Day(MaxTime)
    BY <1>0, <2>2, DayType, DaemonAssumption DEF DaemonAssumption
  <2>7. ConsoleType(console')
    BY <1>0, <1>3, Zenon DEF ConsoleType
  <2> QED
    BY <1>0, <2>2, <2>3, <2>4, <2>5, <2>6, <2>7, Zenon
<1>4. CASE UNCHANGED console /\ \E id \in restores : RestoreChild(id)
  <2>1. PICK id \in restores : RestoreChild(id)
    BY <1>4
  <2>2. UNCHANGED <<sessions, policy, config, blocked, seq, anchor, now>>
    BY <2>1, Zenon DEF RestoreChild, files, ids
  <2>3. /\ Rows(events') /\ protected' \subseteq SavedRow /\ created' = created
        /\ restores' \subseteq restores
    BY <2>1, RestoreChildRows
  <2> QED
    BY <1>0, <1>4, <2>2, <2>3
<1>5. CASE UNCHANGED console /\ EditConfig
  <2>1. /\ config' \in Edits
        /\ UNCHANGED <<sessions, policy, blocked, events, protected, created, restores,
                       seq, anchor, now>>
    BY <1>5, Zenon DEF EditConfig, index, ids
  <2>2. config' \in Config
    BY <2>1, DaemonAssumption DEF DaemonAssumption
  <2> QED
    BY <1>0, <1>5, <2>1, <2>2
<1>6. CASE UNCHANGED console /\ \E ip \in IPs : Unblock(ip)
  <2>1. /\ blocked' \subseteq blocked
        /\ UNCHANGED <<sessions, policy, config, events, protected, created, restores,
                       seq, anchor, now>>
    BY <1>6 DEF Unblock, index, ids
  <2> QED
    BY <1>0, <1>6, <2>1
<1>7. CASE UNCHANGED console /\ Tick
  <2>1. /\ now < MaxTime /\ now' = now + 1
        /\ UNCHANGED <<sessions, policy, config, blocked, events, protected, created,
                       restores, seq, anchor>>
    BY <1>7, Zenon DEF Tick, files, index, ids
  <2>2. now' \in 1 .. MaxTime
    BY <1>0, <2>1, DaemonAssumption DEF DaemonAssumption
  <2> QED
    BY <1>0, <1>7, <2>1, <2>2
<1>8. CASE \E f \in Forms : ConsoleLoad(f)
  <2>1. PICK f \in Forms : ConsoleLoad(f)
    BY <1>8
  <2>2. /\ console' = [stage |-> "edit", form |-> f, seen |-> config]
        /\ UNCHANGED <<sessions, policy, config, blocked, events, protected, created,
                       restores, seq, anchor, now>>
    BY <2>1, Zenon DEF ConsoleLoad, daemonVars
  <2>3. console' \in [stage : {"edit"}, form : Forms, seen : Config]
    BY <1>0, <2>2
  <2> QED
    BY <1>0, <2>2, <2>3 DEF ConsoleType
<1>9. CASE ConsoleSave
  <2> DEFINE edited == Edited(console.seen, console.form)
  <2>1. /\ console.stage = "edit"
        /\ \/ config' = config /\ console' = NoVisit
           \/ config' = edited /\ console' = [stage |-> "restart"]
        /\ UNCHANGED <<sessions, policy, blocked, events, protected, created, restores,
                       seq, anchor, now>>
    BY <1>9, Zenon DEF ConsoleSave, index, ids
  <2>2. console \in [stage : {"edit"}, form : Forms, seen : Config]
    BY <1>0, <2>1 DEF ConsoleType, NoVisit
  <2>3. edited \in Config
    BY <2>2, EditedType
  <2>4. ConsoleType(console')
    <3>1. [stage |-> "restart"].stage = "restart"
      OBVIOUS
    <3> QED
      BY <2>1, <3>1, Zenon DEF ConsoleType
  <2> HIDE DEF edited
  <2> QED
    BY <1>0, <2>1, <2>3, <2>4
<1>10. CASE UNCHANGED vars
  BY <1>0, <1>10 DEF vars, daemonVars
<1> QED
  <2>1. TypeOK' => /\ Table(sessions') /\ config' \in Config /\ PolicyType(policy')
             /\ blocked' \subseteq IPs /\ Rows(events')
             /\ protected' \subseteq SavedRow /\ created' \subseteq FileRow
             /\ restores' \subseteq EventIds \ {NoEvent}
             /\ seq' \in 0 .. MaxSeq /\ anchor' \in 0 .. Day(MaxTime)
             /\ now' \in 1 .. MaxTime /\ ConsoleType(console')
    BY DEF TypeOK, Table, PolicyType, Rows, ConsoleType
  <2> QED
    BY <1>1, <1>2, <1>3, <1>4, <1>5, <1>6, <1>7, <1>8, <1>9, <1>10, <2>1, StepCases, Zenon

\* The daemon's state keeps its types: the session table never goes over its
\* capacity and the runtime list never over AUTO_MAX, whatever fails, for
\* any messages, settings and edits of policy.json (process_msg, main).
THEOREM DaemonTypes == Spec => []TypeOK
  BY InitTypes, StepTypes, PTL DEF Spec

(***************************************************************************)
(* The blocked file.                                                       *)
(***************************************************************************)

\* What a step may do to the blocked file.
LEMMA DenialStep ==
  ASSUME TypeOK, [Next]_vars
  PROVE  \/ blocked \subseteq blocked'
         \/ blocked' = Synced(policy')
         \/ \E ip \in IPs : Unblock(ip)
<1>1. ASSUME NEW m \in Messages, NEW F, NEW id, MsgStep(m, F, id)
      PROVE  blocked \subseteq blocked' \/ blocked' = Synced(policy')
  BY <1>1 DEF MsgStep, ListStep, VerdictStep, blocker_execute
<1>2. ASSUME NEW F, Reload(F) \/ Restart(F)
      PROVE  blocked' = blocked \/ blocked' = Synced(policy')
  BY <1>2, Zenon DEF Reload, Restart
<1>3. ASSUME \/ \E m \in Messages : GatedSubmit(m)
             \/ \E id \in restores : RestoreChild(id)
             \/ EditConfig \/ Tick \/ (\E f \in Forms : ConsoleLoad(f)) \/ ConsoleSave
             \/ UNCHANGED vars
      PROVE  blocked' = blocked
  BY <1>3, Zenon DEF GatedSubmit, RestoreChild, EditConfig, Tick, ConsoleLoad, ConsoleSave,
                     files, vars, daemonVars
<1>4. blocked' = blocked => blocked \subseteq blocked'
  OBVIOUS
<1> QED
  BY <1>1, <1>2, <1>3, <1>4, StepCases, Zenon

\* An address that stays on the list in memory leaves the blocked file only by
\* an explicit unblock, for any lists, failures and edits: no rebuild and no
\* append of the file forgets one (blocker_sync_blacklist, blocker_execute).
THEOREM ListedAreDenied == Spec => ListedStayDenied
<1>1. ASSUME TypeOK, [Next]_vars, NEW ip \in Synced(policy) \cap Synced(policy'),
             ip \in blocked, ip \notin blocked'
      PROVE  Unblock(ip)
  <2>1. \E i \in IPs : Unblock(i)
    BY <1>1, DenialStep
  <2>2. PICK i \in IPs : Unblock(i)
    BY <2>1
  <2>3. ip = i
    BY <1>1, <2>2 DEF Unblock
  <2> QED
    BY <2>2, <2>3
<1>2. TypeOK /\ [Next]_vars =>
        [\A ip \in Synced(policy) \cap Synced(policy') :
            ip \in blocked /\ ip \notin blocked' => Unblock(ip)]_vars
  BY <1>1
<1> QED
  BY <1>2, DaemonTypes, PTL DEF Spec, ListedStayDenied

\* No session that is blocked is lost or set free.
BlockedStay(map, new) ==
    \A j \in DOMAIN map : map[j].is_blocked => j \in DOMAIN new /\ new[j].is_blocked

\* A look-up evicts no blocked session.
LEMMA LookUpKeepsBlocked ==
  ASSUME NEW map, NEW new, NEW k, LookedUp(map, new, k),
         k \in DOMAIN map /\ map[k].is_blocked => new[k].is_blocked
  PROVE  BlockedStay(map, new)
  BY DEF LookedUp, BlockedStay

\* The reasons an address may be denied for.
Reason(ip, p, map) == \/ ip \in p.manual \cup ToSet(p.auto)
                      \/ \E k \in DOMAIN map : k[2] = ip /\ map[k].is_blocked

\* A reason persists while the lists stay.
LEMMA ReasonStays ==
  ASSUME NEW ip, NEW p, NEW map, NEW new, Reason(ip, p, map), BlockedStay(map, new)
  PROVE  Reason(ip, p, new)
  BY Zenon DEF Reason, BlockedStay

\* What is rebuilt from the lists is on them.
LEMMA SyncedHasReason ==
  ASSUME NEW p, NEW map, NEW ip \in Synced(p)
  PROVE  Reason(ip, p, map)
  BY DEF Reason, Synced, blocker_sync_blacklist

\* The steps that keep the blocked file honest.
LEMMA StepDenied ==
  ASSUME "sync" \notin MayFail, TypeOK, NoInnocentDenied, [Next]_vars
  PROVE  NoInnocentDenied'
<1>0. \A ip \in blocked : Reason(ip, policy, sessions)
  BY Zenon DEF NoInnocentDenied, Reason
<1> SUFFICES \A ip \in blocked' : Reason(ip, policy', sessions')
  BY Zenon DEF NoInnocentDenied, Reason
<1>1. CASE blocked' = Synced(policy')
  BY <1>1, SyncedHasReason
<1>2. CASE policy' = policy /\ BlockedStay(sessions, sessions') /\ blocked' \subseteq blocked
  BY <1>0, <1>2, ReasonStays
<1>3. ASSUME NEW m \in Messages, NEW F \in SUBSET MayFail, NEW id, MsgStep(m, F, id)
      PROVE  \A ip \in blocked' : Reason(ip, policy', sessions')
  <2>1. Touched(sessions, sessions', Key(m), id)
    BY <1>3, Zenon DEF MsgStep
  <2>2. Key(m) \in DOMAIN sessions' /\ BlockedStay(sessions, sessions')
    BY <2>1, LookUpKeepsBlocked DEF Touched, LookedUp
  <2>3. CASE VerdictStep(m, F)
    <3>1. blocked' = Synced(policy')
      BY <2>3 DEF VerdictStep
    <3> QED
      BY <1>1, <3>1
  <2>4. CASE ListStep(m)
    <3>1. policy' = policy
      BY <2>4 DEF ListStep
    <3>2. ASSUME NEW ip \in blocked', ip \notin blocked
          PROVE  ip = m.ip /\ sessions'[Key(m)].is_blocked
      BY <2>4, <3>2 DEF ListStep, blocker_execute, BlockIP
    <3>3. ASSUME NEW ip \in blocked', ip \notin blocked
          PROVE  Reason(ip, policy', sessions')
      <4>1. Key(m)[2] = ip
        BY <3>2, <3>3 DEF Key
      <4> QED
        BY <2>2, <3>2, <3>3, <4>1, Zenon DEF Reason
    <3>4. ASSUME NEW ip \in blocked
          PROVE  Reason(ip, policy', sessions')
      BY <1>0, <2>2, <3>1, ReasonStays
    <3> QED
      BY <3>3, <3>4
  <2> QED
    BY <1>3, <2>3, <2>4 DEF MsgStep
<1>4. ASSUME NEW m \in Messages, GatedSubmit(m)
      PROVE  policy' = policy /\ BlockedStay(sessions, sessions') /\ blocked' \subseteq blocked
  <2>1. /\ sessions' \in session_find_or_create(sessions, Key(m), now)
        /\ UNCHANGED <<policy, blocked>>
    BY <1>4, Zenon DEF GatedSubmit, files
  <2>2. Table(sessions) /\ Key(m) \in Keys /\ now \in Nat
    BY TypeParts DEF Keys
  <2>3. /\ LookedUp(sessions, sessions', Key(m))
        /\ Found(sessions, sessions'[Key(m)], Key(m))
    BY <2>1, <2>2, LookUp
  <2>4. BlockedStay(sessions, sessions')
    BY <2>3, LookUpKeepsBlocked DEF Found
  <2> QED
    BY <2>1, <2>4
<1>5. ASSUME NEW F \in SUBSET MayFail, Reload(F) \/ Restart(F)
      PROVE  blocked' = Synced(policy')
  BY <1>5 DEF Reload, Restart
<1>6. ASSUME \/ \E id \in restores : RestoreChild(id)
             \/ EditConfig \/ Tick \/ (\E f \in Forms : ConsoleLoad(f)) \/ ConsoleSave
             \/ (\E ip \in IPs : Unblock(ip)) \/ UNCHANGED vars
      PROVE  policy' = policy /\ BlockedStay(sessions, sessions') /\ blocked' \subseteq blocked
  <2>1. policy' = policy /\ sessions' = sessions /\ blocked' \subseteq blocked
    BY <1>6, Zenon DEF RestoreChild, EditConfig, Tick, ConsoleLoad, ConsoleSave, Unblock,
                       files, vars, daemonVars
  <2> QED
    BY <2>1 DEF BlockedStay
<1> QED
  BY <1>1, <1>2, <1>3, <1>4, <1>5, <1>6, StepCases, Zenon

\* If the rebuild of the blocked file does not fail, nobody is denied without a
\* reason: an address in the file is on the list in memory, or is that of a
\* session the daemon has blocked and has not evicted (process_msg,
\* daemon_reload, session_find_or_create).
THEOREM NobodyWronglyDenied ==
  ASSUME "sync" \notin MayFail
  PROVE  Spec => []NoInnocentDenied
<1>1. Init => NoInnocentDenied
  <2> SUFFICES ASSUME Init PROVE NoInnocentDenied
    OBVIOUS
  <2>1. blocked = Synced(policy)
    BY Zenon DEF Init
  <2>2. \A ip \in blocked : Reason(ip, policy, sessions)
    BY <2>1, SyncedHasReason
  <2> QED
    BY <2>2, Zenon DEF NoInnocentDenied, Reason
<1>2. TypeOK /\ NoInnocentDenied /\ [Next]_vars => NoInnocentDenied'
  BY StepDenied
<1> QED
  BY <1>1, <1>2, DaemonTypes, PTL DEF Spec

(***************************************************************************)
(* The evidence: one session to an event id.                               *)
(***************************************************************************)

\* The ids of the day the counter stands for are not beyond the counter.
CounterIsAhead == \A e \in DOMAIN events : e[1] = anchor => e[2] <= seq

\* EvidenceOfOneSession is not inductive by itself: that the next id is free
\* follows from the counter, which make_event_id takes from the index.
EvidenceInv == EvidenceOfOneSession /\ CounterIsAhead

\* The next id is free.
LEMMA NextIdIsFree ==
  ASSUME TypeOK, CounterIsAhead, NEW id \in EventIds, NEW F, "seq_read" \notin F,
         make_event_id(id, F), id # NoEvent
  PROVE  /\ id \notin DOMAIN events /\ id[1] = Day(now) /\ id[2] \in Nat
         /\ \A e \in DOMAIN events : e[1] = Day(now) => e[2] <= id[2]
<1>1. PICK n \in 0 .. MaxSeq - 1 :
        /\ IF anchor = Day(now) THEN n = seq ELSE DailyMax(n, F)
        /\ id = <<Day(now), n + 1>>
  BY Zenon DEF make_event_id
<1>2. id[1] = Day(now) /\ id[2] = n + 1 /\ n \in Nat
  BY <1>1, DaemonAssumption DEF DaemonAssumption
<1>3. \A e \in DOMAIN events : e[1] = Day(now) => e[2] <= n
  <2>1. CASE anchor = Day(now)
    BY <1>1, <2>1 DEF CounterIsAhead
  <2>2. CASE anchor # Day(now)
    BY <1>1, <2>2 DEF DailyMax
  <2> QED
    BY <2>1, <2>2
<1>4. \A e \in DOMAIN events : e[2] \in Nat
  <2>1. DOMAIN events \subseteq (1 .. Day(MaxTime)) \X (1 .. MaxSeq)
    BY TypeParts DEF Rows, EventIds
  <2>2. MaxSeq \in Nat
    BY DaemonAssumption DEF DaemonAssumption
  <2> QED
    BY <2>1, <2>2
<1> QED
  BY <1>2, <1>3, <1>4

\* The rows of the index under the name of a session: Indexed with its
\* parameter.
RowOf(rows, id, k) == id # NoEvent => id \in DOMAIN rows /\ rows[id].key = k

\* The rows of a session's events survive what a message does to the index.
LEMMA RowsStay ==
  ASSUME NEW rows, NEW new, NEW k, NEW id, RowsKept(rows, new, k, id),
         RowOf(rows, id, k) \/ id \notin DOMAIN rows,
         NEW e, NEW j, RowOf(rows, e, j)
  PROVE  RowOf(new, e, j)
  BY DEF RowsKept, RowOf

\* A message keeps the evidence apart.
LEMMA MsgEvidence ==
  ASSUME TypeOK, EvidenceInv, NEW m \in Messages, NEW F, NEW id \in EventIds,
         "event_row" \notin F, "seq_read" \notin F, MsgStep(m, F, id)
  PROVE  EvidenceInv'
<1> DEFINE k == Key(m)
<1>1. /\ Touched(sessions, sessions', k, id) /\ NextId(k, id, F) /\ IndexStep(m, id)
  BY Zenon DEF MsgStep
<1>2. /\ \A j \in DOMAIN sessions : RowOf(events, sessions[j].event, j)
      /\ \A r \in protected \cup created : RowOf(events, r.event, r.key)
      /\ CounterIsAhead
  BY Zenon DEF EvidenceInv, EvidenceOfOneSession, Indexed, RowOf
<1>3. /\ Rows(events') /\ RowsKept(events, events', k, id)
      /\ NoEvent \notin DOMAIN events /\ NoEvent \notin DOMAIN events'
  BY <1>1, TypeParts DEF IndexStep, Rows
<1>4. /\ RowOf(events, id, k) \/ id \notin DOMAIN events
      /\ RowOf(events', id, k)
      /\ \A e \in DOMAIN events' : e[1] = anchor' => e[2] <= seq'
  <2>1. CASE /\ UNCHANGED ids
             /\ id = NoEvent \/ (k \in DOMAIN sessions /\ id = sessions[k].event)
    <3>1. RowOf(events, id, k)
      BY <1>2, <2>1, Zenon DEF RowOf
    <3>2. RowOf(events', id, k)
      BY <1>3, <3>1, RowsStay
    <3>3. DOMAIN events' = DOMAIN events
      BY <1>3, <3>1 DEF RowsKept, RowOf
    <3> QED
      BY <1>2, <2>1, <3>1, <3>2, <3>3 DEF CounterIsAhead, ids
  <2>2. CASE /\ make_event_id(id, F) /\ id # NoEvent
             /\ seq' = id[2] /\ anchor' = Day(now)
             /\ "event_row" \notin F => id \in DOMAIN events'
    <3>1. /\ id \notin DOMAIN events /\ id[1] = Day(now) /\ id[2] \in Nat
          /\ \A e \in DOMAIN events : e[1] = Day(now) => e[2] <= id[2]
      BY <1>2, <2>2, NextIdIsFree
    <3>2. RowOf(events', id, k)
      BY <1>3, <2>2, <3>1 DEF RowsKept, RowOf
    <3>3. DOMAIN events' \subseteq DOMAIN events \cup {id}
      BY <1>3 DEF RowsKept
    <3>4. \A e \in DOMAIN events' : e[1] = anchor' => e[2] <= seq'
      BY <2>2, <3>1, <3>3
    <3> QED
      BY <3>1, <3>2, <3>4
  <2> QED
    BY <1>1, <2>1, <2>2, Zenon DEF NextId
<1>5. \A e, j : RowOf(events, e, j) => RowOf(events', e, j)
  BY <1>3, <1>4, RowsStay
<1>6. RowOf(events', NoEvent, k)
  BY Zenon DEF RowOf
<1>7. ASSUME NEW j \in DOMAIN sessions'
      PROVE  RowOf(events', sessions'[j].event, j)
  <2>1. CASE j = k
    BY <1>1, <1>4, <1>6, <2>1 DEF Touched
  <2>2. CASE j # k
    <3>1. j \in DOMAIN sessions /\ sessions'[j] = sessions[j]
      BY <1>1, <2>2 DEF Touched, LookedUp
    <3> QED
      BY <1>2, <1>5, <3>1
  <2> QED
    BY <2>1, <2>2
<1>8. ASSUME NEW r \in protected' \cup created'
      PROVE  RowOf(events', r.event, r.key)
  <2>1. CASE r \in protected \cup created
    BY <1>2, <1>5, <2>1
  <2>2. CASE r.event \in {id, NoEvent} /\ r.key = k
    BY <1>4, <1>6, <2>2
  <2> QED
    BY <1>1, <2>1, <2>2 DEF IndexStep
<1>9. EvidenceOfOneSession'
  BY <1>7, <1>8, Zenon DEF EvidenceOfOneSession, Indexed, RowOf
<1> QED
  BY <1>4, <1>9 DEF EvidenceInv, CounterIsAhead

\* Every step keeps the evidence apart.
LEMMA StepEvidence ==
  ASSUME MayFail \cap {"event_row", "seq_read"} = {}, TypeOK, EvidenceInv, [Next]_vars
  PROVE  EvidenceInv'
<1>0. /\ \A j \in DOMAIN sessions : RowOf(events, sessions[j].event, j)
      /\ \A r \in protected \cup created : RowOf(events, r.event, r.key)
      /\ CounterIsAhead
  BY Zenon DEF EvidenceInv, EvidenceOfOneSession, Indexed, RowOf
<1>1. ASSUME NEW m \in Messages, NEW F \in SUBSET MayFail, NEW id \in EventIds,
             MsgStep(m, F, id)
      PROVE  EvidenceInv'
  <2>1. "event_row" \notin F /\ "seq_read" \notin F
    OBVIOUS
  <2> QED
    BY <1>1, <2>1, MsgEvidence
<1>2. ASSUME /\ \A j \in DOMAIN sessions' : RowOf(events', sessions'[j].event, j)
             /\ \A r \in protected' \cup created' : RowOf(events', r.event, r.key)
             /\ \A e \in DOMAIN events' : e[1] = anchor' => e[2] <= seq'
      PROVE  EvidenceInv'
  BY <1>2, Zenon DEF EvidenceInv, EvidenceOfOneSession, Indexed, RowOf, CounterIsAhead
<1>3. ASSUME NEW m \in Messages, GatedSubmit(m)
      PROVE  EvidenceInv'
  <2>1. /\ sessions' \in session_find_or_create(sessions, Key(m), now)
        /\ UNCHANGED <<events, protected, created, seq, anchor>>
    BY <1>3, Zenon DEF GatedSubmit, index, ids
  <2>2. Table(sessions) /\ Key(m) \in Keys /\ now \in Nat
    BY TypeParts DEF Keys
  <2>3. /\ LookedUp(sessions, sessions', Key(m))
        /\ Found(sessions, sessions'[Key(m)], Key(m))
    BY <2>1, <2>2, LookUp
  <2>4. ASSUME NEW j \in DOMAIN sessions'
        PROVE  RowOf(events', sessions'[j].event, j)
    <3>1. CASE j = Key(m)
      BY <1>0, <2>1, <2>3, <3>1, Zenon DEF Found, RowOf
    <3>2. CASE j # Key(m)
      BY <1>0, <2>1, <2>3, <3>2 DEF LookedUp
    <3> QED
      BY <3>1, <3>2
  <2> QED
    BY <1>0, <1>2, <2>1, <2>4 DEF CounterIsAhead
<1>4. ASSUME NEW F \in SUBSET MayFail, Restart(F)
      PROVE  EvidenceInv'
  <2>1. sessions' = << >> /\ anchor' = 0 /\ UNCHANGED <<events, protected, created>>
    BY <1>4, Zenon DEF Restart, index
  <2>2. DOMAIN events \subseteq (1 .. Day(MaxTime)) \X (1 .. MaxSeq)
    BY TypeParts DEF Rows, EventIds
  <2>3. \A e \in DOMAIN events' : e[1] # anchor'
    BY <2>1, <2>2
  <2>4. DOMAIN sessions' = {}
    BY <2>1
  <2> QED
    BY <1>0, <1>2, <2>1, <2>3, <2>4
<1>5. ASSUME NEW id \in restores, RestoreChild(id)
      PROVE  EvidenceInv'
  <2>1. UNCHANGED <<sessions, seq, anchor>>
    BY <1>5, Zenon DEF RestoreChild, ids
  <2>2. /\ DOMAIN events' = DOMAIN events
        /\ \A e \in DOMAIN events : events'[e].key = events[e].key
        /\ created' = created
        /\ \A r \in protected' : \E q \in protected : r.event = q.event /\ r.key = q.key
    BY <1>5, RestoreChildRows
  <2>3. \A e, j : RowOf(events, e, j) => RowOf(events', e, j)
    BY <2>2 DEF RowOf
  <2>4. \A r \in protected' \cup created' : RowOf(events', r.event, r.key)
    <3> TAKE r \in protected' \cup created'
    <3>1. PICK q \in protected \cup created : r.event = q.event /\ r.key = q.key
      BY <2>2
    <3>2. RowOf(events', q.event, q.key)
      BY <1>0, <2>3
    <3> QED
      BY <3>1, <3>2
  <2> QED
    BY <1>0, <1>2, <2>1, <2>2, <2>3, <2>4 DEF CounterIsAhead
<1>6. ASSUME \/ \E F \in SUBSET MayFail : Reload(F)
             \/ EditConfig \/ Tick \/ (\E f \in Forms : ConsoleLoad(f)) \/ ConsoleSave
             \/ (\E ip \in IPs : Unblock(ip)) \/ UNCHANGED vars
      PROVE  EvidenceInv'
  <2>1. UNCHANGED <<sessions, events, protected, created, seq, anchor>>
    BY <1>6, Zenon DEF Reload, EditConfig, Tick, ConsoleLoad, ConsoleSave, Unblock,
                       index, ids, vars, daemonVars
  <2> QED
    BY <1>0, <1>2, <2>1 DEF CounterIsAhead
<1> QED
  BY <1>1, <1>3, <1>4, <1>5, <1>6, StepCases, Zenon

\* EvidenceInv holds throughout.
LEMMA EvidenceAlways ==
  ASSUME MayFail \cap {"event_row", "seq_read"} = {}
  PROVE  Spec => []EvidenceInv
<1>1. Init => EvidenceInv
  <2>1. Init => sessions = << >> /\ events = << >> /\ protected = {} /\ created = {}
    BY Zenon DEF Init
  <2> QED
    BY <2>1 DEF EvidenceInv, EvidenceOfOneSession, CounterIsAhead
<1>2. TypeOK /\ EvidenceInv /\ [Next]_vars => EvidenceInv'
  BY StepEvidence
<1> QED
  BY <1>1, <1>2, DaemonTypes, PTL DEF Spec

\* An event id never stands for two sessions, as long as the index can be read
\* and the event row written: for any table size, clock, windows, evictions
\* and restarts, and whatever else fails (make_event_id, process_msg).
THEOREM EvidenceIsApart ==
  ASSUME MayFail \cap {"event_row", "seq_read"} = {}
  PROVE  Spec => []EvidenceOfOneSession
<1>1. Spec => []EvidenceInv
  BY EvidenceAlways
<1>2. EvidenceInv => EvidenceOfOneSession
  BY DEF EvidenceInv
<1> QED
  BY <1>1, <1>2, PTL

(***************************************************************************)
(* What is on the lists after entries come and go.                         *)
(***************************************************************************)

\* The addresses the daemon's verdicts in a list are on.
AutoIps(q) == {q[i].ip : i \in Autos(q)}

\* No address has two verdicts.
Twinless(q) == \A i, j \in Autos(q) : q[i].ip = q[j].ip => i = j

\* The positions of a list's verdicts.
LEMMA AutosType ==
  ASSUME NEW q \in Seq(Entry)
  PROVE  /\ DOMAIN q = 1 .. Len(q) /\ Len(q) \in Nat /\ Autos(q) \subseteq 1 .. Len(q)
         /\ \A i \in 1 .. Len(q) : q[i] \in Entry
         /\ IsFiniteSet(Autos(q)) /\ Cardinality(Autos(q)) \in Nat
<1>1. /\ DOMAIN q = 1 .. Len(q) /\ Len(q) \in Nat
      /\ \A i \in 1 .. Len(q) : q[i] \in Entry
  BY LenProperties, ElementOfSeq
<1>2. Autos(q) \subseteq 1 .. Len(q)
  BY <1>1 DEF Autos
<1>3. IsFiniteSet(1 .. Len(q))
  BY <1>1, FS_Interval
<1> QED
  BY <1>1, <1>2, <1>3, FS_Subset, FS_CardinalityType

\* An entry that is appended.
LEMMA Appended ==
  ASSUME NEW q \in Seq(Entry), NEW e \in Entry
  PROVE  LET r == Append(q, e)
         IN  /\ r \in Seq(Entry) /\ Len(r) = Len(q) + 1
             /\ Listed(r) = Listed(q) \cup {e.ip}
             /\ e.auto => /\ Autos(r) = Autos(q) \cup {Len(q) + 1}
                          /\ AutoIps(r) = AutoIps(q) \cup {e.ip}
                          /\ e.ip \notin Listed(q) /\ Twinless(q) => Twinless(r)
             /\ ~e.auto => /\ Autos(r) = Autos(q) /\ AutoIps(r) = AutoIps(q)
                           /\ Twinless(q) => Twinless(r)
<1> DEFINE r == Append(q, e)
           n == Len(q) + 1
<1>1. /\ DOMAIN q = 1 .. Len(q) /\ Len(q) \in Nat /\ Autos(q) \subseteq 1 .. Len(q)
  BY AutosType
<1>2. /\ r \in Seq(Entry) /\ Len(r) = n
      /\ \A i \in 1 .. Len(q) : r[i] = q[i]
      /\ r[n] = e
  BY AppendProperties
<1>3. DOMAIN r = 1 .. n
  BY <1>2, LenProperties
<1> HIDE DEF r
<1>4. Listed(r) = Listed(q) \cup {e.ip}
  <2>1. \A i \in 1 .. Len(q) : i \in 1 .. n /\ r[i] = q[i]
    BY <1>1, <1>2
  <2>2. \A i \in 1 .. n : i \in 1 .. Len(q) \/ i = n
    BY <1>1
  <2>3. n \in 1 .. n /\ r[n] = e
    BY <1>1, <1>2
  <2> HIDE DEF n
  <2> QED
    BY <1>1, <1>3, <2>1, <2>2, <2>3 DEF Listed
<1>5. Autos(r) = IF e.auto THEN Autos(q) \cup {n} ELSE Autos(q)
  BY <1>1, <1>2, <1>3 DEF Autos
<1>6. n \notin Autos(q) /\ \A i \in Autos(q) : r[i] = q[i]
  BY <1>1, <1>2
<1>7. \A i \in Autos(q) : q[i].ip \in Listed(q)
  BY DEF Autos, Listed
<1> HIDE DEF n
<1>8. CASE e.auto
  <2>1. Autos(r) = Autos(q) \cup {n}
    BY <1>5, <1>8
  <2>2. AutoIps(r) = AutoIps(q) \cup {e.ip}
    BY <1>2, <1>6, <2>1 DEF AutoIps
  <2>3. e.ip \notin Listed(q) /\ Twinless(q) => Twinless(r)
    BY <1>2, <1>6, <1>7, <2>1 DEF Twinless
  <2> QED
    BY <1>2, <1>4, <1>8, <2>1, <2>2, <2>3 DEF r, n
<1>9. CASE ~e.auto
  <2>1. Autos(r) = Autos(q)
    BY <1>5, <1>9
  <2>2. AutoIps(r) = AutoIps(q)
    BY <1>6, <2>1 DEF AutoIps
  <2>3. Twinless(q) => Twinless(r)
    BY <1>6, <2>1 DEF Twinless
  <2> QED
    BY <1>2, <1>4, <1>9, <2>1, <2>2, <2>3 DEF r, n
<1> QED
  BY <1>8, <1>9

\* An entry that is removed.
LEMMA Removed ==
  ASSUME NEW q \in Seq(Entry), NEW i \in 1 .. Len(q)
  PROVE  LET r == RemoveAt(q, i)
         IN  /\ r \in Seq(Entry) /\ Len(r) = Len(q) - 1
             /\ Listed(r) \subseteq Listed(q)
             /\ Twinless(q) => Twinless(r)
             /\ ~q[i].auto => AutoIps(q) \subseteq AutoIps(r)
             /\ Cardinality(Autos(q) \ {i}) <= Cardinality(Autos(r))
<1> DEFINE r == RemoveAt(q, i)
           old(j) == IF j < i THEN j ELSE j + 1
           new(j) == IF j < i THEN j ELSE j - 1
           f == [j \in Autos(q) \ {i} |-> new(j)]
<1>1. /\ DOMAIN q = 1 .. Len(q) /\ Len(q) \in Nat /\ Autos(q) \subseteq 1 .. Len(q)
  BY AutosType
<1>2. /\ r \in Seq(Entry) /\ Len(r) = Len(q) - 1
      /\ \A j \in 1 .. Len(r) : r[j] = IF j < i THEN q[j] ELSE q[j + 1]
  BY CutEntry
<1>3. /\ DOMAIN r = 1 .. Len(r) /\ Len(r) \in Nat /\ Autos(r) \subseteq 1 .. Len(r)
      /\ IsFiniteSet(Autos(r))
  BY <1>2, AutosType
<1> HIDE DEF r
<1>4. \A j \in 1 .. Len(r) : old(j) \in 1 .. Len(q) /\ r[j] = q[old(j)]
  BY <1>1, <1>2, <1>3
<1>5. \A j \in 1 .. Len(r), h \in 1 .. Len(r) : old(j) = old(h) => j = h
  BY <1>1, <1>3
<1>6. \A j \in (1 .. Len(q)) \ {i} : new(j) \in 1 .. Len(r) /\ r[new(j)] = q[j]
  <2> TAKE j \in (1 .. Len(q)) \ {i}
  <2>1. CASE j < i
    BY <1>1, <1>2, <2>1
  <2>2. CASE ~(j < i)
    <3>1. j > i /\ j - 1 \in 1 .. Len(r) /\ ~(j - 1 < i) /\ (j - 1) + 1 = j
      BY <1>1, <1>2, <2>2
    <3>2. r[j - 1] = q[j]
      BY <1>2, <3>1
    <3> QED
      BY <2>2, <3>1, <3>2
  <2> QED
    BY <2>1, <2>2
<1>7. \A j, h \in (1 .. Len(q)) \ {i} : new(j) = new(h) => j = h
  BY <1>1
<1> HIDE DEF old, new
<1>8. Listed(r) \subseteq Listed(q)
  BY <1>1, <1>3, <1>4 DEF Listed
<1>9. Twinless(q) => Twinless(r)
  <2>1. \A j \in Autos(r) : old(j) \in Autos(q) /\ r[j] = q[old(j)]
    BY <1>1, <1>3, <1>4 DEF Autos
  <2> QED
    BY <1>3, <1>5, <2>1 DEF Twinless
<1>10. \A j \in Autos(q) \ {i} : new(j) \in Autos(r) /\ r[new(j)] = q[j]
  BY <1>1, <1>3, <1>6 DEF Autos
<1>11. ~q[i].auto => AutoIps(q) \subseteq AutoIps(r)
  <2>1. ~q[i].auto => i \notin Autos(q)
    BY DEF Autos
  <2> QED
    BY <1>10, <2>1 DEF AutoIps
<1>12. f \in Injection(Autos(q) \ {i}, Autos(r))
  <2>1. f \in [Autos(q) \ {i} -> Autos(r)]
    BY <1>10
  <2>2. \A j, h \in Autos(q) \ {i} : f[j] = f[h] => j = h
    BY <1>1, <1>7
  <2> HIDE DEF f
  <2> QED
    BY <2>1, <2>2 DEF Injection, IsInjective
<1>13. Cardinality(Autos(q) \ {i}) <= Cardinality(Autos(r))
  BY <1>3, <1>12, FS_Injection
<1> QED
  BY <1>2, <1>8, <1>9, <1>11, <1>13 DEF r

\* A list within the limit is loaded as it is.
LEMMA LoadedWhole ==
  ASSUME NEW q \in Seq(Entry), Len(q) <= LIST_MAX
  PROVE  config_load_ips(q) = Listed(q)
<1>1. DOMAIN q = 1 .. Len(q) /\ Len(q) \in Nat
  BY LenProperties
<1>2. {j \in DOMAIN q : j <= LIST_MAX} = DOMAIN q
  BY <1>1, BlacklistAssumption DEF BlacklistAssumption
<1> QED
  BY <1>2, Zenon DEF config_load_ips, Listed

\* A verdict is in policy.json once it is persisted.
LEMMA PersistLists ==
  ASSUME NEW q \in Seq(Entry), NEW ip \in IPs
  PROVE  ip \in Listed(config_persist_blacklist_ip(q, ip))
<1> DEFINE e == [ip |-> ip, auto |-> TRUE]
<1>1. e \in Entry /\ e.ip = ip
  BY DEF Entry
<1> HIDE DEF e
<1>2. \A r \in Seq(Entry) : ip \in Listed(Append(r, e))
  BY <1>1, Appended
<1>3. \A i \in 1 .. Len(q) : RemoveAt(q, i) \in Seq(Entry)
  BY Removed
<1> QED
  BY <1>2, <1>3, PersistCases, Zenon DEF e

\* What the auto list takes is on it.
LEMMA AutoAdded ==
  ASSUME NEW manual, NEW auto \in Seq(IPs), NEW ip,
         Len(auto) <= AUTO_MAX, scorer_blacklist_auto_add(manual, auto, ip) # auto
  PROVE  ip \in IPs /\ ip \in ToSet(scorer_blacklist_auto_add(manual, auto, ip))
<1> DEFINE room == IF Len(auto) >= AUTO_MAX THEN Tail(auto) ELSE auto
<1>1. /\ ip \in IPs
      /\ scorer_blacklist_auto_add(manual, auto, ip) = Append(room, ip)
  BY Zenon DEF scorer_blacklist_auto_add
<1>2. AUTO_MAX \in Nat /\ AUTO_MAX > 0
  BY BlacklistAssumption DEF BlacklistAssumption
<1>3. room \in Seq(IPs)
  <2>1. CASE Len(auto) >= AUTO_MAX
    <3>1. auto # << >>
      BY <1>2, <2>1
    <3> QED
      BY <2>1, <3>1
  <2>2. CASE ~(Len(auto) >= AUTO_MAX)
    BY <2>2
  <2> QED
    BY <2>1, <2>2
<1> HIDE DEF room
<1> DEFINE r == Append(room, ip)
<1>4. r \in Seq(IPs) /\ Len(r) = Len(room) + 1 /\ r[Len(room) + 1] = ip /\ Len(room) \in Nat
  BY <1>1, <1>3, AppendProperties, LenProperties
<1>5. Len(room) + 1 \in DOMAIN r
  BY <1>4, LenProperties
<1> HIDE DEF r
<1>6. ip \in ToSet(r)
  BY <1>4, <1>5 DEF ToSet
<1> QED
  BY <1>1, <1>6 DEF r

(***************************************************************************)
(* A verdict is complete.                                                  *)
(***************************************************************************)

\* What VerdictIsComplete says of the session of k.
Complete(k) ==
    LET id == sessions'[k].event
    IN  /\ k[2] \in blocked'
        /\ Len(config'.ips) <= LIST_MAX =>
               k[2] \in blocker_sync_blacklist(config_load(config').manual, <<>>)
        /\ id # NoEvent => /\ events'[id].status = "blocked_ransom"
                           /\ policy.cfg.auto_restore => id \in restores'

\* A session is blocked by its score in the step that pronounces the verdict.
LEMMA VerdictOfOne ==
  ASSUME TypeOK, [Next]_vars, NEW k \in Keys, BlockedByScore(k)
  PROVE  \E m \in Messages, F \in SUBSET MayFail, id \in EventIds :
            MsgStep(m, F, id) /\ VerdictStep(m, F) /\ k = Key(m)
<1>0. /\ k \in DOMAIN sessions' /\ sessions'[k].is_blocked
      /\ k \in DOMAIN sessions => ~sessions[k].is_blocked
      /\ policy'.auto # policy.auto
  BY Zenon DEF BlockedByScore
<1>1. ASSUME NEW m \in Messages, NEW F \in SUBSET MayFail, NEW id \in EventIds,
             MsgStep(m, F, id)
      PROVE  VerdictStep(m, F) /\ k = Key(m)
  <2>1. VerdictStep(m, F)
    BY <1>0, <1>1, Zenon DEF MsgStep, ListStep
  <2>2. k = Key(m)
    BY <1>0, <1>1 DEF MsgStep, Touched, LookedUp
  <2> QED
    BY <2>1, <2>2
<1>2. ASSUME NEW F, Reload(F) PROVE FALSE
  BY <1>0, <1>2, Zenon DEF Reload
<1>3. ASSUME NEW F, Restart(F) PROVE FALSE
  <2>1. sessions' = << >>
    BY <1>3, Zenon DEF Restart
  <2> QED
    BY <1>0, <2>1
<1>4. ASSUME \/ \E m \in Messages : GatedSubmit(m)
             \/ \E id \in restores : RestoreChild(id)
             \/ EditConfig \/ Tick \/ (\E f \in Forms : ConsoleLoad(f)) \/ ConsoleSave
             \/ (\E ip \in IPs : Unblock(ip)) \/ UNCHANGED vars
      PROVE  FALSE
  <2>1. policy' = policy
    BY <1>4, Zenon DEF GatedSubmit, RestoreChild, EditConfig, Tick, ConsoleLoad,
                       ConsoleSave, Unblock, vars, daemonVars
  <2> QED
    BY <1>0, <2>1
<1> QED
  BY <1>1, <1>2, <1>3, <1>4, StepCases, Zenon

\* The verdict denies, is kept, marks the event and starts its restore.
LEMMA VerdictCompletes ==
  ASSUME MayFail \cap {"event_row", "seq_read", "update_row", "persist", "sync", "fork"} = {},
         TypeOK, EvidenceInv, [Next]_vars, NEW k \in Keys, BlockedByScore(k)
  PROVE  Complete(k)
<1>1. PICK m \in Messages, F \in SUBSET MayFail, id \in EventIds :
        MsgStep(m, F, id) /\ VerdictStep(m, F) /\ k = Key(m)
  BY VerdictOfOne
<1>2. /\ "event_row" \notin F /\ "seq_read" \notin F /\ "update_row" \notin F
      /\ "persist" \notin F /\ "sync" \notin F /\ "fork" \notin F
  OBVIOUS
<1> DEFINE e == sessions'[k].event
           auto == scorer_blacklist_auto_add(policy.manual, policy.auto, m.ip)
           ips == config_persist_blacklist_ip(config.ips, m.ip)
<1>3. /\ policy' = [policy EXCEPT !.auto = auto]
      /\ config' = [config EXCEPT !.ips = ips]
      /\ blocked' = Synced(policy')
      /\ e \in DOMAIN events' => events'[e].status = "blocked_ransom"
      /\ policy.cfg.auto_restore /\ e # NoEvent => e \in restores'
  BY <1>1, <1>2, Zenon DEF VerdictStep
<1>4. PolicyType(policy) /\ config \in Config
  BY TypeParts
<1>5. /\ policy.auto \in Seq(IPs) /\ Len(policy.auto) <= AUTO_MAX
      /\ config.ips \in Seq(Entry) /\ config'.ips = ips /\ config'.cfg = config.cfg
  BY <1>3, <1>4 DEF PolicyType, Config
<1>6. policy'.auto = auto /\ auto # policy.auto
  BY <1>3, <1>4 DEF PolicyType, BlockedByScore
<1>7. m.ip \in IPs /\ m.ip \in ToSet(auto) /\ k[2] = m.ip
  BY <1>1, <1>5, <1>6, AutoAdded DEF Key
<1>8. k[2] \in blocked'
  BY <1>3, <1>6, <1>7 DEF Synced, blocker_sync_blacklist
<1>9. ips \in Seq(Entry) /\ m.ip \in Listed(ips)
  BY <1>5, <1>7, PersistType, PersistLists
<1> HIDE DEF auto, ips
<1>10. Len(config'.ips) <= LIST_MAX =>
          k[2] \in blocker_sync_blacklist(config_load(config').manual, <<>>)
  <2> SUFFICES ASSUME Len(config'.ips) <= LIST_MAX
               PROVE  k[2] \in blocker_sync_blacklist(config_load(config').manual, <<>>)
    OBVIOUS
  <2>1. config_load_ips(config'.ips) = Listed(config'.ips)
    BY <1>5, <1>9, LoadedWhole
  <2>2. config_load(config').manual = config_load_ips(config'.ips)
    BY DEF config_load
  <2> QED
    BY <1>5, <1>7, <1>9, <2>1, <2>2 DEF blocker_sync_blacklist
<1>11. e # NoEvent => e \in DOMAIN events'
  <2>1. EvidenceInv'
    BY <1>1, <1>2, MsgEvidence
  <2>2. k \in DOMAIN sessions'
    BY DEF BlockedByScore
  <2> QED
    BY <2>1, <2>2, Zenon DEF EvidenceInv, EvidenceOfOneSession, Indexed
<1> QED
  BY <1>3, <1>8, <1>10, <1>11, Zenon DEF Complete

\* A verdict by score whose writes succeed is complete, for any settings, lists
\* and windows: the address is denied and found again after a restart, and
\* the event, if the session still has one, is marked and its restore started.
\* That the row of the event is there to be marked takes EvidenceInv
\* (process_msg, config_persist_blacklist_ip, restore_trigger_auto).
THEOREM VerdictsAreComplete ==
  ASSUME MayFail \cap {"event_row", "seq_read", "update_row", "persist", "sync", "fork"} = {}
  PROVE  Spec => VerdictIsComplete
<1>1. TypeOK /\ EvidenceInv /\ [Next]_vars =>
        [\A k \in Keys : BlockedByScore(k) =>
            LET id == sessions'[k].event
            IN  /\ k[2] \in blocked'
                /\ Len(config'.ips) <= LIST_MAX =>
                     k[2] \in blocker_sync_blacklist(
                                 config_load(config').manual, <<>>)
                /\ id # NoEvent => /\ events'[id].status = "blocked_ransom"
                                   /\ policy.cfg.auto_restore => id \in restores']_vars
  BY VerdictCompletes, Zenon DEF Complete
<1>2. MayFail \cap {"event_row", "seq_read"} = {}
  OBVIOUS
<1>3. Spec => []EvidenceInv
  BY <1>2, EvidenceAlways
<1> QED
  BY <1>1, <1>3, DaemonTypes, PTL DEF Spec, VerdictIsComplete

(***************************************************************************)
(* The verdicts in policy.json.                                            *)
(***************************************************************************)

\* No address has two verdicts, in policy.json or in what the console has
\* loaded: what makes AUTO_MAX verdicts AUTO_MAX addresses.
NoTwins == /\ Twinless(config.ips)
           /\ console.stage = "edit" => Twinless(console.seen.ips)

\* As many addresses as verdicts.
LEMMA AutoIpsCount ==
  ASSUME NEW q \in Seq(Entry), Twinless(q)
  PROVE  Cardinality(Autos(q)) <= Cardinality(AutoIps(q))
<1> DEFINE f == [i \in Autos(q) |-> q[i].ip]
<1>1. IsFiniteSet(Autos(q))
  BY AutosType
<1>2. f \in [Autos(q) -> AutoIps(q)] /\ \A x \in AutoIps(q) : \E i \in Autos(q) : f[i] = x
  BY DEF AutoIps
<1>3. \A i, j \in Autos(q) : f[i] = f[j] => i = j
  BY DEF Twinless
<1> HIDE DEF f
<1>4. f \in Surjection(Autos(q), AutoIps(q)) /\ f \in Injection(Autos(q), AutoIps(q))
  BY <1>2, <1>3 DEF Surjection, Injection, IsInjective
<1>5. IsFiniteSet(AutoIps(q))
  BY <1>1, <1>4, FS_Surjection
<1> QED
  BY <1>4, <1>5, FS_Injection

\* What persisting a verdict does to the others.
LEMMA PersistKeeps ==
  ASSUME NEW q \in Seq(Entry), Twinless(q), NEW ip
  PROVE  LET new == config_persist_blacklist_ip(q, ip)
         IN  /\ Twinless(new)
             /\ \/ AutoIps(q) \subseteq AutoIps(new)
                \/ /\ Cardinality(AutoIps(q)) >= AUTO_MAX
                   /\ AutoIps(new) \ AutoIps(q) # {}
<1> DEFINE new == config_persist_blacklist_ip(q, ip)
           e == [ip |-> ip, auto |-> TRUE]
<1>1. CASE new = q
  BY <1>1
<1>2. CASE /\ ip \in IPs /\ ip \notin Listed(q)
           /\ new = Append(q, e)
  <2>1. e \in Entry /\ e.auto /\ e.ip = ip
    BY <1>2 DEF Entry
  <2> HIDE DEF e, new
  <2>2. Twinless(new) /\ AutoIps(new) = AutoIps(q) \cup {ip}
    BY <1>2, <2>1, Appended
  <2> QED
    BY <2>2 DEF new
<1>3. CASE /\ ip \in IPs /\ ip \notin Listed(q)
           /\ ~(Cardinality(Autos(q)) < AUTO_MAX)
           /\ \E i \in Autos(q) : i \in 1 .. Len(q) /\ new = Append(RemoveAt(q, i), e)
  <2>1. e \in Entry /\ e.auto /\ e.ip = ip
    BY <1>3 DEF Entry
  <2>2. PICK i \in Autos(q) : i \in 1 .. Len(q) /\ new = Append(RemoveAt(q, i), e)
    BY <1>3, Zenon
  <2> DEFINE r == RemoveAt(q, i)
  <2> HIDE DEF e, new
  <2>3. r \in Seq(Entry) /\ Listed(r) \subseteq Listed(q) /\ Twinless(r)
    BY <2>2, Removed
  <2>4. ip \notin Listed(r)
    BY <1>3, <2>3
  <2>5. new = Append(r, e)
    BY <2>2
  <2> HIDE DEF r
  <2>6. Twinless(new) /\ ip \in AutoIps(new)
    BY <2>1, <2>3, <2>4, <2>5, Appended
  <2>7. ip \notin AutoIps(q)
    BY <1>3 DEF AutoIps, Autos, Listed
  <2>8. Cardinality(AutoIps(q)) >= AUTO_MAX
    <3>1. Cardinality(Autos(q)) \in Nat /\ AUTO_MAX \in Nat
      BY AutosType, BlacklistAssumption DEF BlacklistAssumption
    <3>2. Cardinality(AutoIps(q)) \in Nat
      <4> DEFINE f == [j \in Autos(q) |-> q[j].ip]
      <4>1. f \in Surjection(Autos(q), AutoIps(q))
        BY DEF Surjection, AutoIps
      <4> HIDE DEF f
      <4> QED
        BY <4>1, AutosType, FS_Surjection, FS_CardinalityType
    <3> QED
      BY <1>3, <3>1, <3>2, AutoIpsCount
  <2> QED
    BY <2>6, <2>7, <2>8 DEF new
<1> QED
  BY <1>1, <1>2, <1>3, PersistCases, Zenon

\* What the console changes leaves the verdicts.
LEMMA EditKeeps ==
  ASSUME NEW c \in Config, NEW f \in Forms
  PROVE  /\ AutoIps(c.ips) \subseteq AutoIps(Edited(c, f).ips)
         /\ Twinless(c.ips) => Twinless(Edited(c, f).ips)
<1> DEFINE entry == [ip |-> f.arg, auto |-> FALSE]
<1>0. c.ips \in Seq(Entry)
  BY DEF Config
<1>1. CASE f.op = "add_ip" /\ f.arg \in IPs \cup Nets
  <2>1. entry \in Entry /\ ~entry.auto
    BY <1>1 DEF Entry
  <2>2. Edited(c, f) = c \/ Edited(c, f) = [c EXCEPT !.ips = Append(c.ips, entry)]
    BY <1>1, Zenon DEF Edited
  <2> HIDE DEF entry
  <2>3. [c EXCEPT !.ips = Append(c.ips, entry)].ips = Append(c.ips, entry)
    BY DEF Config
  <2>4. /\ AutoIps(Append(c.ips, entry)) = AutoIps(c.ips)
        /\ Twinless(c.ips) => Twinless(Append(c.ips, entry))
    BY <1>0, <2>1, Appended
  <2> QED
    BY <2>2, <2>3, <2>4
<1>2. CASE f.op = "remove_ip"
  <2>1. ~entry.auto
    OBVIOUS
  <2>2. Edited(c, f) = [c EXCEPT !.ips = RemoveFirst(c.ips, entry)]
    BY <1>2, Zenon DEF Edited
  <2> HIDE DEF entry
  <2>3. Edited(c, f).ips = RemoveFirst(c.ips, entry)
    BY <2>2 DEF Config
  <2>4. CASE RemoveFirst(c.ips, entry) = c.ips
    BY <2>3, <2>4
  <2>5. CASE \E i \in 1 .. Len(c.ips) : c.ips[i] = entry /\ RemoveFirst(c.ips, entry) = RemoveAt(c.ips, i)
    <3>1. PICK i \in 1 .. Len(c.ips) : c.ips[i] = entry /\ RemoveFirst(c.ips, entry) = RemoveAt(c.ips, i)
      BY <2>5
    <3>2. ~c.ips[i].auto
      BY <2>1, <3>1
    <3>3. /\ AutoIps(c.ips) \subseteq AutoIps(RemoveAt(c.ips, i))
          /\ Twinless(c.ips) => Twinless(RemoveAt(c.ips, i))
      BY <1>0, <3>2, Removed
    <3> QED
      BY <2>3, <3>1, <3>3
  <2> QED
    BY <1>0, <2>4, <2>5, TakeOut
<1>3. CASE f.op \in {"add_user", "remove_user"}
  <2>1. Edited(c, f).ips = c.ips
    BY <1>3 DEF Edited, Config
  <2> QED
    BY <2>1
<1> QED
  BY <1>1, <1>2, <1>3, DaemonAssumption DEF DaemonAssumption

\* What a step may do to policy.json.
LEMMA ConfigStep ==
  ASSUME TypeOK, [Next]_vars
  PROVE  \/ config' = config
         \/ config' \in Edits
         \/ \E ip : config' = [config EXCEPT !.ips = config_persist_blacklist_ip(config.ips, ip)]
         \/ console.stage = "edit" /\ config' = Edited(console.seen, console.form)
<1>1. ASSUME NEW m \in Messages, NEW F, NEW id, MsgStep(m, F, id)
      PROVE  \/ config' = config
             \/ \E ip : config' = [config EXCEPT !.ips = config_persist_blacklist_ip(config.ips, ip)]
  BY <1>1, Zenon DEF MsgStep, ListStep, VerdictStep
<1>2. ASSUME \/ \E m \in Messages : GatedSubmit(m)
             \/ \E F \in SUBSET MayFail : Reload(F)
             \/ \E F \in SUBSET MayFail : Restart(F)
             \/ \E id \in restores : RestoreChild(id)
             \/ Tick \/ (\E f \in Forms : ConsoleLoad(f))
             \/ (\E ip \in IPs : Unblock(ip)) \/ UNCHANGED vars
      PROVE  config' = config
  BY <1>2, Zenon DEF GatedSubmit, Reload, Restart, RestoreChild, Tick, ConsoleLoad, Unblock,
                     files, vars, daemonVars
<1>3. ASSUME EditConfig PROVE config' \in Edits
  BY <1>3, Zenon DEF EditConfig
<1>4. ASSUME ConsoleSave
      PROVE  config' = config \/ (console.stage = "edit" /\ config' = Edited(console.seen, console.form))
  BY <1>4, Zenon DEF ConsoleSave
<1> QED
  BY <1>1, <1>2, <1>3, <1>4, StepCases, Zenon

\* What a step may do to the console's request.
LEMMA ConsoleStep ==
  ASSUME TypeOK, [Next]_vars
  PROVE  \/ console' = console
         \/ console'.stage # "edit"
         \/ console'.stage = "edit" /\ console'.seen = config
<1>1. NoVisit.stage # "edit" /\ [stage |-> "restart"].stage # "edit"
  BY DEF NoVisit
<1>2. ASSUME NEW f \in Forms, ConsoleLoad(f)
      PROVE  console'.stage = "edit" /\ console'.seen = config
  BY <1>2 DEF ConsoleLoad
<1>3. ASSUME ConsoleSave
      PROVE  console'.stage # "edit"
  BY <1>1, <1>3, Zenon DEF ConsoleSave
<1>4. ASSUME console' \in {console, NoVisit}
      PROVE  console' = console \/ console'.stage # "edit"
  BY <1>1, <1>4, Zenon
<1>5. UNCHANGED vars => console' = console
  BY Zenon DEF vars
<1> QED
  BY <1>2, <1>3, <1>4, <1>5, StepCases, Zenon

\* Every step keeps the verdicts without twins.
LEMMA StepTwins ==
  ASSUME \A c \in Edits : Twinless(c.ips),
         TypeOK, NoTwins, [Next]_vars
  PROVE  NoTwins'
<1>1. config \in Config /\ config.ips \in Seq(Entry)
  BY TypeParts DEF Config
<1>2. Twinless(config'.ips)
  <2>1. CASE config' = config
    BY <2>1 DEF NoTwins
  <2>2. CASE config' \in Edits
    BY <2>2
  <2>3. ASSUME NEW ip, config' = [config EXCEPT !.ips = config_persist_blacklist_ip(config.ips, ip)]
        PROVE  Twinless(config'.ips)
    <3> DEFINE new == config_persist_blacklist_ip(config.ips, ip)
    <3>1. Twinless(new)
      BY <1>1, PersistKeeps DEF NoTwins
    <3> HIDE DEF new
    <3>2. config'.ips = new
      BY <1>1, <2>3 DEF Config, new
    <3> QED
      BY <3>1, <3>2
  <2>4. CASE console.stage = "edit" /\ config' = Edited(console.seen, console.form)
    <3>1. console.form \in Forms /\ console.seen \in Config
      BY <2>4, TypeParts DEF ConsoleType, NoVisit
    <3> QED
      BY <2>4, <3>1, EditKeeps DEF NoTwins
  <2> QED
    BY <2>1, <2>2, <2>3, <2>4, ConfigStep
<1>3. console'.stage = "edit" => Twinless(console'.seen.ips)
  BY ConsoleStep DEF NoTwins
<1> QED
  BY <1>2, <1>3 DEF NoTwins

\* A verdict in policy.json goes only when it is replaced by a newer one at the
\* limit, when an administrator edits the file or asks for its removal, or by a
\* save of the console that had loaded the file before the verdict was there;
\* for any number of verdicts, limits and requests, where no address has two
\* verdicts to begin with (save_policy, config_persist_blacklist_ip).
THEOREM VerdictsKept ==
  ASSUME Twinless(FirstConfig.ips), \A c \in Edits : Twinless(c.ips)
  PROVE  Spec => VerdictsAreKept
<1>1. Init => NoTwins
  <2>1. Init => config = FirstConfig /\ console = NoVisit
    BY Zenon DEF Init
  <2>2. NoVisit.stage # "edit"
    BY DEF NoVisit
  <2> QED
    BY <2>1, <2>2, Zenon DEF NoTwins
<1>2. TypeOK /\ NoTwins /\ [Next]_vars => NoTwins'
  BY StepTwins
<1>3. ASSUME TypeOK, NoTwins, [Next]_vars, NEW ip \in Verdicts(config) \ Verdicts(config')
      PROVE  \/ config' \in Edits
             \/ Cardinality(Verdicts(config)) >= AUTO_MAX
                /\ Verdicts(config') \ Verdicts(config) # {}
             \/ console.stage = "edit" /\ ip \notin Verdicts(console.seen)
  <2>1. config \in Config /\ config.ips \in Seq(Entry)
    BY <1>3, TypeParts DEF Config
  <2>2. \A c : Verdicts(c) = AutoIps(c.ips)
    BY Zenon DEF Verdicts, AutoIps, Autos
  <2>3. CASE config' = config
    BY <1>3, <2>3
  <2>4. ASSUME NEW a, config' = [config EXCEPT !.ips = config_persist_blacklist_ip(config.ips, a)]
        PROVE  /\ Cardinality(Verdicts(config)) >= AUTO_MAX
               /\ Verdicts(config') \ Verdicts(config) # {}
    <3> DEFINE new == config_persist_blacklist_ip(config.ips, a)
    <3>1. \/ AutoIps(config.ips) \subseteq AutoIps(new)
          \/ /\ Cardinality(AutoIps(config.ips)) >= AUTO_MAX
             /\ AutoIps(new) \ AutoIps(config.ips) # {}
      BY <1>3, <2>1, PersistKeeps DEF NoTwins
    <3> HIDE DEF new
    <3>2. config'.ips = new
      BY <2>1, <2>4 DEF Config, new
    <3>3. Verdicts(config') = AutoIps(new) /\ Verdicts(config) = AutoIps(config.ips)
      BY <2>2, <3>2
    <3> QED
      BY <1>3, <3>1, <3>3
  <2>5. CASE console.stage = "edit" /\ config' = Edited(console.seen, console.form)
    <3>1. console.form \in Forms /\ console.seen \in Config
      BY <1>3, <2>5, TypeParts DEF ConsoleType, NoVisit
    <3>2. Verdicts(console.seen) \subseteq Verdicts(config')
      BY <2>2, <2>5, <3>1, EditKeeps
    <3> QED
      BY <1>3, <2>5, <3>2
  <2> QED
    BY <1>3, <2>3, <2>4, <2>5, ConfigStep, Zenon
<1>4. TypeOK /\ NoTwins /\ [Next]_vars =>
        [\A ip \in Verdicts(config) \ Verdicts(config') :
          \/ config' \in Edits
          \/ RemovalAsked(ip)
          \/ Cardinality(Verdicts(config)) >= AUTO_MAX
             /\ Verdicts(config') \ Verdicts(config) # {}
          \/ console.stage = "edit" /\ ip \notin Verdicts(console.seen)]_vars
  BY <1>3, Zenon
<1> QED
  BY <1>1, <1>2, <1>4, DaemonTypes, PTL DEF Spec, VerdictsAreKept

(***************************************************************************)
(* policy.json and memory in lockstep.                                     *)
(***************************************************************************)

\* The entries of a list that are no verdicts.
ManualCount(q) == Len(q) - Cardinality(Autos(q))

\* Only the daemon writes policy.json, persisting does not fail, and what the
\* administrator has listed leaves room for AUTO_MAX verdicts.
DaemonOnly == /\ Edits = {} /\ Forms = {} /\ "persist" \notin MayFail
              /\ ManualCount(FirstConfig.ips) + AUTO_MAX <= LIST_MAX

\* Below AUTO_MAX verdicts policy.json lists what memory lists, holds every
\* entry of the runtime list as a verdict, so that neither has evicted, and
\* fits in what config_load reads.
LockstepInv ==
    Cardinality(Autos(config.ips)) < AUTO_MAX =>
        /\ Listed(config.ips) = policy.manual \cup ToSet(policy.auto)
        /\ Len(policy.auto) <= Cardinality(Autos(config.ips))
        /\ ManualCount(config.ips) = ManualCount(FirstConfig.ips)

\* A list that has room for the verdicts is loaded as it is.
LEMMA LoadInLockstep ==
  ASSUME DaemonOnly, NEW c \in Config, Cardinality(Autos(c.ips)) < AUTO_MAX,
         ManualCount(c.ips) = ManualCount(FirstConfig.ips)
  PROVE  LET p == config_load(c)
         IN  /\ Listed(c.ips) = p.manual \cup ToSet(p.auto)
             /\ Len(p.auto) <= Cardinality(Autos(c.ips))
<1>1. c.ips \in Seq(Entry) /\ FirstConfig.ips \in Seq(Entry)
  BY DaemonAssumption DEF Config, DaemonAssumption
<1>2. /\ Len(c.ips) \in Nat /\ Cardinality(Autos(c.ips)) \in Nat
      /\ Len(FirstConfig.ips) \in Nat /\ Cardinality(Autos(FirstConfig.ips)) \in Nat
      /\ AUTO_MAX \in Nat /\ LIST_MAX \in Nat
  BY <1>1, AutosType, BlacklistAssumption DEF BlacklistAssumption
<1>3. Len(c.ips) <= LIST_MAX
  <2>1. \A a, b, d, h, x, y \in Nat : d - h + x <= y /\ b < x /\ a - b = d - h => a <= y
    OBVIOUS
  <2>2. ManualCount(FirstConfig.ips) + AUTO_MAX <= LIST_MAX
    BY DEF DaemonOnly
  <2> QED
    BY <1>2, <2>1, <2>2, Zenon DEF ManualCount
<1>4. config_load_ips(c.ips) = Listed(c.ips)
  BY <1>1, <1>3, LoadedWhole
<1>5. config_load(c).manual = Listed(c.ips) /\ config_load(c).auto = << >>
  BY <1>4 DEF config_load
<1>6. ToSet(<< >>) = {} /\ Len(<< >>) = 0
  BY DEF ToSet
<1> QED
  BY <1>2, <1>5, <1>6

\* The lists agree and neither has evicted.
InStep(q, manual, auto) ==
    Cardinality(Autos(q)) < AUTO_MAX => /\ Listed(q) = manual \cup ToSet(auto)
                                        /\ Len(auto) <= Cardinality(Autos(q))

\* A verdict is added to both lists or to none.
LEMMA AddInLockstep ==
  ASSUME NEW q \in Seq(Entry), NEW manual, NEW auto \in Seq(IPs), NEW ip,
         InStep(q, manual, auto),
         Cardinality(Autos(config_persist_blacklist_ip(q, ip))) < AUTO_MAX
  PROVE  LET r == config_persist_blacklist_ip(q, ip)
             a == scorer_blacklist_auto_add(manual, auto, ip)
         IN  /\ Cardinality(Autos(q)) < AUTO_MAX
             /\ Listed(r) = manual \cup ToSet(a)
             /\ Len(a) <= Cardinality(Autos(r))
             /\ ManualCount(r) = ManualCount(q)
<1> DEFINE r == config_persist_blacklist_ip(q, ip)
           a == scorer_blacklist_auto_add(manual, auto, ip)
           e == [ip |-> ip, auto |-> TRUE]
<1>4. Cardinality(Autos(q)) < AUTO_MAX => /\ Listed(q) = manual \cup ToSet(auto)
                                          /\ Len(auto) <= Cardinality(Autos(q))
  BY DEF InStep
<1>0. /\ Cardinality(Autos(q)) \in Nat /\ Len(q) \in Nat /\ Len(auto) \in Nat
      /\ AUTO_MAX \in Nat /\ AUTO_MAX > 0 /\ IsFiniteSet(Autos(q))
      /\ Autos(q) \subseteq 1 .. Len(q)
  BY AutosType, LenProperties, BlacklistAssumption DEF BlacklistAssumption
<1>1. CASE r = q /\ (ip \notin IPs \/ ip \in Listed(q))
  <2>1. ip \notin IPs \/ ip \in manual \/ ip \in ToSet(auto)
    BY <1>1, <1>4
  <2>2. a = auto
    BY <2>1, Zenon DEF scorer_blacklist_auto_add
  <2> HIDE DEF a, r
  <2> QED
    BY <1>1, <1>4, <2>2 DEF a, r
<1>2. CASE /\ ip \in IPs /\ ip \notin Listed(q)
           /\ Cardinality(Autos(q)) < AUTO_MAX /\ r = Append(q, e)
  <2>1. e \in Entry /\ e.auto /\ e.ip = ip
    BY <1>2 DEF Entry
  <2>2. ~(ip \notin IPs \/ ip \in manual \/ ip \in ToSet(auto))
    BY <1>2, <1>4
  <2>3. ~(Len(auto) >= AUTO_MAX)
    BY <1>0, <1>2, <1>4
  <2>4. a = Append(auto, ip)
    BY <2>2, <2>3, Zenon DEF scorer_blacklist_auto_add
  <2> HIDE DEF a, r, e
  <2>5. /\ Len(r) = Len(q) + 1 /\ Listed(r) = Listed(q) \cup {ip}
        /\ Autos(r) = Autos(q) \cup {Len(q) + 1}
    BY <1>2, <2>1, Appended
  <2>6. Cardinality(Autos(r)) = Cardinality(Autos(q)) + 1
    <3>1. Len(q) + 1 \notin Autos(q)
      BY <1>0
    <3>2. IsFiniteSet(Autos(q))
      BY <1>0
    <3>3. Cardinality(Autos(q) \cup {Len(q) + 1}) = Cardinality(Autos(q)) + 1
      BY <3>1, <3>2, FS_AddElement, Zenon
    <3> QED
      BY <2>5, <3>3, Zenon
  <2>7. /\ a \in Seq(IPs) /\ Len(a) = Len(auto) + 1
        /\ \A i \in 1 .. Len(auto) : a[i] = auto[i]
        /\ a[Len(auto) + 1] = ip
    BY <1>2, <2>4, AppendProperties
  <2>8. ToSet(a) = ToSet(auto) \cup {ip}
    <3>1. DOMAIN a = 1 .. Len(auto) + 1 /\ DOMAIN auto = 1 .. Len(auto)
      BY <2>7, LenProperties
    <3>2. /\ \A i \in 1 .. Len(auto) : i \in 1 .. Len(auto) + 1
          /\ \A i \in 1 .. Len(auto) + 1 : i \in 1 .. Len(auto) \/ i = Len(auto) + 1
          /\ Len(auto) + 1 \in 1 .. Len(auto) + 1
      BY <1>0
    <3> DEFINE n == Len(auto) + 1
    <3> HIDE DEF n
    <3>3. /\ DOMAIN a = 1 .. n /\ a[n] = ip /\ n \in 1 .. n
          /\ \A i \in DOMAIN auto : i \in 1 .. n /\ a[i] = auto[i]
          /\ \A i \in 1 .. n : i \in DOMAIN auto \/ i = n
      BY <2>7, <3>1, <3>2 DEF n
    <3> QED
      BY <3>3 DEF ToSet
  <2>9. Listed(r) = manual \cup ToSet(a)
    BY <1>2, <1>4, <2>5, <2>8
  <2>10. Len(a) <= Cardinality(Autos(r)) /\ ManualCount(r) = ManualCount(q)
    <3>1. \A x, y \in Nat : x <= y => x + 1 <= y + 1
      OBVIOUS
    <3>2. \A x, y \in Nat : (x + 1) - (y + 1) = x - y
      OBVIOUS
    <3>3. Len(auto) + 1 <= Cardinality(Autos(q)) + 1
      BY <1>0, <1>2, <1>4, <3>1, Zenon
    <3>4. Len(a) <= Cardinality(Autos(r))
      BY <2>6, <2>7, <3>3, Zenon
    <3>5. ManualCount(r) = (Len(q) + 1) - (Cardinality(Autos(q)) + 1)
      BY <2>5, <2>6, Zenon DEF ManualCount
    <3>6. ManualCount(r) = ManualCount(q)
      BY <1>0, <3>2, <3>5, Zenon DEF ManualCount
    <3> QED
      BY <3>4, <3>6
  <2> QED
    BY <1>2, <2>9, <2>10 DEF a, r
<1>3. CASE /\ ip \in IPs /\ ~(Cardinality(Autos(q)) < AUTO_MAX)
           /\ \E i \in Autos(q) : i \in 1 .. Len(q) /\ r = Append(RemoveAt(q, i), e)
  <2>1. e \in Entry /\ e.auto
    BY <1>3 DEF Entry
  <2>2. PICK i \in Autos(q) : i \in 1 .. Len(q) /\ r = Append(RemoveAt(q, i), e)
    BY <1>3, Zenon
  <2> DEFINE s == RemoveAt(q, i)
  <2> HIDE DEF e, r
  <2>3. s \in Seq(Entry) /\ Cardinality(Autos(q) \ {i}) <= Cardinality(Autos(s))
    BY <2>2, Removed
  <2>4. Cardinality(Autos(q) \ {i}) = Cardinality(Autos(q)) - 1
    BY <1>0, FS_RemoveElement
  <2>5. r = Append(s, e)
    BY <2>2
  <2> HIDE DEF s
  <2>6. Autos(r) = Autos(s) \cup {Len(s) + 1}
    BY <2>1, <2>3, <2>5, Appended
  <2>7. /\ IsFiniteSet(Autos(s)) /\ Cardinality(Autos(s)) \in Nat
        /\ Len(s) + 1 \notin Autos(s)
    BY <2>3, AutosType
  <2>8. Cardinality(Autos(r)) = Cardinality(Autos(s)) + 1
    BY <2>6, <2>7, FS_AddElement
  <2>9. Cardinality(Autos(r)) < AUTO_MAX
    BY DEF r
  <2>10. FALSE
    <3>1. \A x, y, z, n \in Nat : ~(x < n) /\ x - 1 <= y /\ z = y + 1 => ~(z < n)
      OBVIOUS
    <3>2. Cardinality(Autos(q)) - 1 <= Cardinality(Autos(s)) /\ Cardinality(Autos(r)) \in Nat
      BY <2>3, <2>4, <2>7, <2>8
    <3> QED
      BY <1>0, <1>3, <2>7, <2>8, <2>9, <3>1, <3>2, Zenon
  <2> QED
    BY <2>10
<1> QED
  BY <1>1, <1>2, <1>3, PersistCases, Zenon

\* Every step keeps the lists in lockstep.
LEMMA StepLockstep ==
  ASSUME DaemonOnly, TypeOK, LockstepInv, [Next]_vars
  PROVE  LockstepInv'
<1>0. PolicyType(policy) /\ config \in Config /\ config.ips \in Seq(Entry)
      /\ policy.auto \in Seq(IPs)
  BY TypeParts DEF PolicyType, Config
<1>1. CASE config' = config /\ policy' = policy
  BY <1>1 DEF LockstepInv
<1>2. CASE config' = config /\ policy' = config_load(config)
  <2> SUFFICES ASSUME Cardinality(Autos(config.ips)) < AUTO_MAX
               PROVE  /\ Listed(config.ips) = policy'.manual \cup ToSet(policy'.auto)
                      /\ Len(policy'.auto) <= Cardinality(Autos(config.ips))
                      /\ ManualCount(config.ips) = ManualCount(FirstConfig.ips)
    BY <1>2 DEF LockstepInv
  <2>1. ManualCount(config.ips) = ManualCount(FirstConfig.ips)
    BY DEF LockstepInv
  <2> QED
    BY <1>0, <1>2, <2>1, LoadInLockstep
<1>3. ASSUME NEW m \in Messages, NEW F \in SUBSET MayFail, VerdictStep(m, F)
      PROVE  LockstepInv'
  <2> DEFINE r == config_persist_blacklist_ip(config.ips, m.ip)
             a == scorer_blacklist_auto_add(policy.manual, policy.auto, m.ip)
  <2>1. "persist" \notin F
    BY DEF DaemonOnly
  <2>2. policy' = [policy EXCEPT !.auto = a] /\ config' = [config EXCEPT !.ips = r]
    BY <1>3, <2>1, Zenon DEF VerdictStep
  <2>3. policy'.auto = a /\ policy'.manual = policy.manual /\ config'.ips = r
    <3> HIDE DEF a, r
    <3> QED
      BY <1>0, <2>2 DEF PolicyType, Config
  <2>4. ASSUME Cardinality(Autos(r)) < AUTO_MAX
        PROVE  /\ Listed(r) = policy.manual \cup ToSet(a)
               /\ Len(a) <= Cardinality(Autos(r))
               /\ ManualCount(r) = ManualCount(FirstConfig.ips)
    <3>1. /\ Cardinality(Autos(config.ips)) < AUTO_MAX
          /\ Listed(r) = policy.manual \cup ToSet(a)
          /\ Len(a) <= Cardinality(Autos(r))
          /\ ManualCount(r) = ManualCount(config.ips)
      <4>1. InStep(config.ips, policy.manual, policy.auto)
        BY Zenon DEF LockstepInv, InStep
      <4> QED
        BY <1>0, <2>4, <4>1, AddInLockstep, Zenon
    <3> QED
      BY <3>1, Zenon DEF LockstepInv
  <2> HIDE DEF a, r
  <2> QED
    BY <2>3, <2>4 DEF LockstepInv
<1>4. ASSUME NEW m \in Messages, NEW F \in SUBSET MayFail, NEW id, MsgStep(m, F, id)
      PROVE  LockstepInv'
  BY <1>1, <1>3, <1>4, Zenon DEF MsgStep, ListStep
<1>5. ASSUME \/ \E F \in SUBSET MayFail : Reload(F)
             \/ \E F \in SUBSET MayFail : Restart(F)
      PROVE  LockstepInv'
  BY <1>2, <1>5, Zenon DEF Reload, Restart
<1>6. ASSUME \/ \E m \in Messages : GatedSubmit(m)
             \/ \E id \in restores : RestoreChild(id)
             \/ Tick \/ (\E f \in Forms : ConsoleLoad(f))
             \/ (\E ip \in IPs : Unblock(ip)) \/ UNCHANGED vars
      PROVE  LockstepInv'
  BY <1>1, <1>6, Zenon DEF GatedSubmit, RestoreChild, Tick, ConsoleLoad, Unblock,
                           files, vars, daemonVars
<1>7. ~EditConfig
  BY DEF EditConfig, DaemonOnly
<1>8. ~ConsoleSave
  BY TypeParts DEF ConsoleType, NoVisit, ConsoleSave, DaemonOnly
<1> QED
  BY <1>4, <1>5, <1>6, <1>7, <1>8, StepCases, Zenon

\* Where only the daemon writes policy.json and persisting does not fail,
\* policy.json lists what memory lists until AUTO_MAX verdicts are persisted:
\* for any limits and any list that leaves room for the verdicts, through
\* reloads and restarts (scorer_blacklist_auto_add,
\* config_persist_blacklist_ip, config_load).
THEOREM ListsInLockstep ==
  ASSUME DaemonOnly
  PROVE  Spec => []LockstepUntilFull
<1>1. Init => LockstepInv
  <2> SUFFICES ASSUME Init PROVE LockstepInv
    OBVIOUS
  <2>1. config = FirstConfig /\ policy = config_load(config) /\ FirstConfig \in Config
    BY DaemonAssumption, Zenon DEF Init, DaemonAssumption
  <2> QED
    BY <2>1, LoadInLockstep DEF LockstepInv
<1>2. TypeOK /\ LockstepInv /\ [Next]_vars => LockstepInv'
  BY StepLockstep
<1>3. LockstepInv => LockstepUntilFull
  BY Zenon DEF LockstepInv, LockstepUntilFull, Autos
<1> QED
  BY <1>1, <1>2, <1>3, DaemonTypes, PTL DEF Spec
=============================================================================
