------------------------- MODULE SessionLifeProofs --------------------------
(***************************************************************************)
(* Proofs about the life of a session (module SessionLife), for any        *)
(* messages, and any windows and scoring settings that config_load         *)
(* accepts.                                                                *)
(***************************************************************************)
EXTENDS SessionLife, FiniteSetTheorems, SequenceTheorems, TLAPS

Sessions == SessionRecords({NoEvent})

Names == CounterFields \cup {"dirs", "risk_score", "risk_level", "win_s", "win_l",
                             "is_blocked", "last_seen", "event"}

(***************************************************************************)
(* What the operators of Session and Analysis make of a session record.    *)
(***************************************************************************)

\* A session is a record of its fields.
LEMMA FieldsOf ==
  ASSUME NEW r \in Sessions
  PROVE  /\ DOMAIN r = Names /\ r = [f \in Names |-> r[f]]
         /\ \A f \in CounterFields : r[f] \in Nat
         /\ r.dirs \in SUBSET Dirs /\ r.risk_score \in Nat
         /\ r.risk_level \in RiskLevels
         /\ r.win_s \in Nat /\ r.win_l \in Nat /\ r.is_blocked \in BOOLEAN
         /\ r.last_seen \in Nat /\ r.event = NoEvent
  BY DEF Sessions, SessionRecords, Names, CounterFields

\* A record of typed fields is a session.
LEMMA Makes ==
  ASSUME NEW q, q = [f \in Names |-> q[f]],
         \A f \in CounterFields : q[f] \in Nat,
         q.dirs \in SUBSET Dirs, q.risk_score \in Nat, q.risk_level \in RiskLevels,
         q.win_s \in Nat, q.win_l \in Nat, q.is_blocked \in BOOLEAN,
         q.last_seen \in Nat, q.event = NoEvent
  PROVE  q \in Sessions
  BY DEF Sessions, SessionRecords, Names, CounterFields

\* The counters of q are those of r.
SameCounts(r, q) == \A f \in CounterFields : q[f] = r[f]

\* The directories and the risk of q are those of r.
SameLong(r, q) == q.dirs = r.dirs /\ q.risk_score = r.risk_score

\* The short window of q, which is r when a message at time t has been seen:
\* it goes on, or it starts now, with the counters at 0.
ShortSeen(r, q, t, w) ==
    \/ r.win_s # 0 /\ t - r.win_s < w /\ q.win_s = r.win_s /\ SameCounts(r, q)
    \/ r.win_s = 0 /\ q.win_s = t /\ SameCounts(r, q)
    \/ /\ r.win_s # 0 /\ t - r.win_s >= w /\ q.win_s = t
       /\ \A f \in CounterFields : q[f] = 0

\* The long window of q, likewise.
LongSeen(r, q, t, w) ==
    \/ r.win_l # 0 /\ t - r.win_l < w /\ q.win_l = r.win_l /\ SameLong(r, q)
    \/ r.win_l = 0 /\ q.win_l = t /\ SameLong(r, q)
    \/ /\ r.win_l # 0 /\ t - r.win_l >= w /\ q.win_l = t
       /\ q.dirs = {} /\ q.risk_score = 0

\* A short window that ends.
LEMMA ShortFields ==
  ASSUME NEW r \in Sessions, NEW t \in Nat
  PROVE  LET q == RollShort(r, t)
         IN  /\ q \in Sessions /\ SameLong(r, q)
             /\ \A f \in CounterFields : q[f] = 0
             /\ q.win_s = t /\ q.win_l = r.win_l /\ q.last_seen = r.last_seen
<1> DEFINE q == RollShort(r, t)
<1>1. q = [f \in Names |-> q[f]]
  BY FieldsOf, Zenon DEF RollShort
<1>2. /\ \A f \in CounterFields : q[f] = 0
      /\ q.dirs = r.dirs /\ q.risk_score = r.risk_score
      /\ q.risk_level = r.risk_level /\ q.win_s = t /\ q.win_l = r.win_l
      /\ q.is_blocked = r.is_blocked /\ q.last_seen = r.last_seen
      /\ q.event = r.event
  BY FieldsOf, Zenon DEF RollShort, CounterFields, Names
<1> HIDE DEF q
<1>3. q \in Sessions
  BY <1>1, <1>2, FieldsOf, Makes
<1> QED
  BY <1>2, <1>3, Zenon DEF SameLong, q

\* A long window that ends.
LEMMA LongFields ==
  ASSUME NEW r \in Sessions, NEW t \in Nat
  PROVE  LET q == RollLong(r, t)
         IN  /\ q \in Sessions /\ SameCounts(r, q)
             /\ q.dirs = {} /\ q.risk_score = 0
             /\ q.win_s = r.win_s /\ q.win_l = t /\ q.last_seen = r.last_seen
<1> DEFINE q == RollLong(r, t)
<1>1. q = [f \in Names |-> q[f]]
  BY FieldsOf, Zenon DEF RollLong
<1>2. /\ \A f \in CounterFields : q[f] = r[f]
      /\ q.dirs = {} /\ q.risk_score = 0
      /\ q.risk_level = RISK_NORMAL /\ q.win_s = r.win_s /\ q.win_l = t
      /\ q.is_blocked = r.is_blocked /\ q.last_seen = r.last_seen
      /\ q.event = NoEvent
  BY FieldsOf, Zenon DEF RollLong, CounterFields, Names
<1> HIDE DEF q
<1>3. RISK_NORMAL \in RiskLevels
  BY DEF RISK_NORMAL, RISK_CRITICAL, RiskLevels
<1>4. q \in Sessions
  BY <1>1, <1>2, <1>3, FieldsOf, Makes
<1> QED
  BY <1>2, <1>4, Zenon DEF SameCounts, q

\* Windows that have not started start.
LEMMA OpenFields ==
  ASSUME NEW r \in Sessions, NEW t \in Nat
  PROVE  LET q == OpenWindows(r, t)
         IN  /\ q \in Sessions /\ SameCounts(r, q) /\ SameLong(r, q)
             /\ q.win_s = (IF r.win_s = 0 THEN t ELSE r.win_s)
             /\ q.win_l = (IF r.win_l = 0 THEN t ELSE r.win_l)
             /\ q.last_seen = r.last_seen
<1> DEFINE q == OpenWindows(r, t)
<1>1. q = [f \in Names |-> q[f]]
  BY FieldsOf, Zenon DEF OpenWindows
<1>2. /\ \A f \in CounterFields : q[f] = r[f]
      /\ q.dirs = r.dirs /\ q.risk_score = r.risk_score
      /\ q.risk_level = r.risk_level
      /\ q.win_s = (IF r.win_s = 0 THEN t ELSE r.win_s)
      /\ q.win_l = (IF r.win_l = 0 THEN t ELSE r.win_l)
      /\ q.is_blocked = r.is_blocked /\ q.last_seen = r.last_seen
      /\ q.event = r.event
  BY FieldsOf, Zenon DEF OpenWindows, CounterFields, Names
<1> HIDE DEF q
<1>3. q \in Sessions
  BY <1>1, <1>2, FieldsOf, Makes
<1> QED
  BY <1>2, <1>3, Zenon DEF SameCounts, SameLong, q

\* session_check_window rolls each window exactly when it has lasted.
LEMMA WindowFields ==
  ASSUME NEW r \in Sessions, NEW t \in Nat \ {0}, r.win_s <= t, r.win_l <= t,
         NEW ws \in Nat \ {0}, NEW wl \in Nat \ {0}
  PROVE  LET q == session_check_window(r, t, ws, wl)
         IN  /\ q \in Sessions
             /\ ShortSeen(r, q, t, ws) /\ LongSeen(r, q, t, wl)
             /\ q.last_seen = r.last_seen
<1> DEFINE opened == OpenWindows(r, t)
           short == IF t - opened.win_s >= ws THEN RollShort(opened, t) ELSE opened
           q == IF t - short.win_l >= wl THEN RollLong(short, t) ELSE short
<1>1. session_check_window(r, t, ws, wl) = q
  BY Zenon DEF session_check_window
<1>2. /\ opened \in Sessions /\ SameCounts(r, opened) /\ SameLong(r, opened)
      /\ opened.win_s = (IF r.win_s = 0 THEN t ELSE r.win_s)
      /\ opened.win_l = (IF r.win_l = 0 THEN t ELSE r.win_l)
      /\ opened.last_seen = r.last_seen
  BY OpenFields
<1>0. r.win_s \in Nat /\ r.win_l \in Nat
  BY FieldsOf
<1> HIDE DEF opened
<1>3. LET p == RollShort(opened, t)
      IN  /\ p \in Sessions /\ SameLong(opened, p)
          /\ \A f \in CounterFields : p[f] = 0
          /\ p.win_s = t /\ p.win_l = opened.win_l /\ p.last_seen = opened.last_seen
  BY <1>2, ShortFields
<1>4. /\ short \in Sessions /\ SameLong(r, short)
      /\ ShortSeen(r, short, t, ws)
      /\ short.win_l = opened.win_l /\ short.last_seen = r.last_seen
  <2>1. CASE t - opened.win_s >= ws
    <3>1. r.win_s # 0 /\ t - r.win_s >= ws
      BY <2>1, <1>0, <1>2
    <3>2. short = RollShort(opened, t)
      BY <2>1
    <3> HIDE DEF short
    <3> QED
      BY <3>1, <3>2, <1>2, <1>3, Zenon DEF ShortSeen, SameLong
  <2>2. CASE ~(t - opened.win_s >= ws)
    <3>1. short = opened
      BY <2>2
    <3>2. r.win_s # 0 => t - r.win_s < ws
      BY <2>2, <1>0, <1>2
    <3> HIDE DEF short
    <3> QED
      BY <3>1, <3>2, <1>2, Zenon DEF ShortSeen
  <2> QED
    BY <2>1, <2>2
<1> HIDE DEF short
<1>5. LET p == RollLong(short, t)
      IN  /\ p \in Sessions /\ SameCounts(short, p)
          /\ p.dirs = {} /\ p.risk_score = 0
          /\ p.win_s = short.win_s /\ p.win_l = t /\ p.last_seen = short.last_seen
  BY <1>4, LongFields
<1>6. ASSUME NEW p, SameCounts(short, p), p.win_s = short.win_s
      PROVE  ShortSeen(r, p, t, ws)
  BY <1>4, <1>6, Zenon DEF ShortSeen, SameCounts
<1>7. /\ q \in Sessions /\ ShortSeen(r, q, t, ws) /\ LongSeen(r, q, t, wl)
      /\ q.last_seen = r.last_seen
  <2>1. CASE t - short.win_l >= wl
    <3>1. r.win_l # 0 /\ t - r.win_l >= wl
      BY <2>1, <1>0, <1>2, <1>4
    <3>2. q = RollLong(short, t)
      BY <2>1
    <3> HIDE DEF q
    <3>3. ShortSeen(r, q, t, ws)
      BY <3>2, <1>5, <1>6, Zenon
    <3> QED
      BY <3>1, <3>2, <3>3, <1>4, <1>5, Zenon DEF LongSeen
  <2>2. CASE ~(t - short.win_l >= wl)
    <3>1. q = short
      BY <2>2
    <3>2. r.win_l # 0 => t - r.win_l < wl
      BY <2>2, <1>0, <1>2, <1>4
    <3> HIDE DEF q
    <3> QED
      BY <3>1, <3>2, <1>2, <1>4, Zenon DEF LongSeen
  <2> QED
    BY <2>1, <2>2
<1> HIDE DEF q
<1> QED
  BY <1>1, <1>7

\* What session_update makes of the counters of q.
Counts(q, r, op, flags) ==
    /\ r.modified = IF Retracts(q, op, flags) THEN q.modified - 1
                    ELSE Bump(q.modified, op \in WriteOps /\ "RISKY" \in flags)
    /\ r.content_same = Bump(q.content_same, Retracts(q, op, flags))
    /\ r.rename       = Bump(q.rename, op = "RENAME")
    /\ r.delete       = Bump(q.delete, op = "DELETE")
    /\ r.ext_change   = Bump(q.ext_change, op = "RENAME" /\ "EXT_CHANGE" \in flags)
    /\ r.ransom_ext   = Bump(q.ransom_ext, (op \in WriteOps \/ op = "RENAME")
                                           /\ "RANSOM_EXT" \in flags)
    /\ r.high_entropy = Bump(q.high_entropy, "HIGH_ENTROPY" \in flags)
    /\ r.yara_match   = Bump(q.yara_match, "YARA_MATCH" \in flags)

\* Counting up keeps a counter a natural number within uint32_t.
LEMMA BumpType == ASSUME NEW n \in Nat, NEW hit
                  PROVE  /\ Bump(n, hit) \in Nat
                         /\ n <= UINT32_MAX => Bump(n, hit) <= UINT32_MAX
  BY UINT32Assumption DEF Bump

\* Counters stay in uint32_t when a message is counted.
LEMMA CountsType ==
  ASSUME NEW q \in Sessions, NEW r, NEW op, NEW flags, Counts(q, r, op, flags)
  PROVE  /\ \A f \in CounterFields : r[f] \in Nat
         /\ (\A f \in CounterFields : q[f] <= UINT32_MAX)
               => \A f \in CounterFields : r[f] <= UINT32_MAX
<1>1. \A f \in CounterFields : q[f] \in Nat
  BY FieldsOf
<1>2. ASSUME NEW f \in CounterFields \ {"modified"}
      PROVE  \E hit : r[f] = Bump(q[f], hit)
  BY <1>2, Zenon DEF Counts, CounterFields
<1>3. \/ \E hit : r.modified = Bump(q.modified, hit)
      \/ r.modified = q.modified - 1 /\ q.modified > 0
  BY Zenon DEF Counts, Retracts
<1>4. q.modified \in Nat
  BY <1>1 DEF CounterFields
<1>5. r.modified \in Nat /\ (q.modified <= UINT32_MAX => r.modified <= UINT32_MAX)
  BY <1>3, <1>4, BumpType, UINT32Assumption
<1>6. ASSUME NEW f \in CounterFields
      PROVE  r[f] \in Nat /\ (q[f] <= UINT32_MAX => r[f] <= UINT32_MAX)
  <2>1. CASE f = "modified"
    BY <2>1, <1>5
  <2>2. CASE f # "modified"
    BY <2>2, <1>1, <1>2, BumpType
  <2> QED
    BY <2>1, <2>2
<1> QED
  BY <1>6

\* The directories of a session are a finite set.
LEMMA DirsFinite == ASSUME NEW D \in SUBSET Dirs
                    PROVE  IsFiniteSet(D) /\ Cardinality(D) \in Nat
  BY SessionAssumption, FS_Subset, FS_CardinalityType DEF SessionAssumption

\* The set of directories stops growing at DIR_SET_MAX.
LEMMA AddDirType ==
  ASSUME NEW D \in SUBSET Dirs, NEW dir \in Dirs \cup {NoDir}
  PROVE  /\ AddDir(D, dir) \in SUBSET Dirs
         /\ Cardinality(D) <= Cardinality(AddDir(D, dir))
         /\ Cardinality(AddDir(D, dir)) \in Cardinality(D) .. Cardinality(D) + 1
         /\ Cardinality(D) <= DIR_SET_MAX => Cardinality(AddDir(D, dir)) <= DIR_SET_MAX
<1>1. AddDir(D, dir) \in SUBSET Dirs
  BY DEF AddDir
<1>2. IsFiniteSet(D) /\ Cardinality(D) \in Nat /\ DIR_SET_MAX \in Nat
  BY DirsFinite, SessionAssumption DEF SessionAssumption
<1>3. /\ Cardinality(D \cup {dir}) \in {Cardinality(D), Cardinality(D) + 1}
  BY <1>2, FS_AddElement
<1> QED
  BY <1>1, <1>2, <1>3 DEF AddDir

\* session_update counts, and leaves the rest alone.
LEMMA UpdateFields ==
  ASSUME NEW r \in Sessions, NEW op, NEW flags, NEW dir \in Dirs \cup {NoDir}
  PROVE  LET q == session_update(r, op, flags, dir)
         IN  /\ q \in Sessions /\ Counts(r, q, op, flags)
             /\ q.dirs = AddDir(r.dirs, dir) /\ q.risk_score = r.risk_score
             /\ q.win_s = r.win_s /\ q.win_l = r.win_l
             /\ q.last_seen = r.last_seen
<1> DEFINE q == session_update(r, op, flags, dir)
<1>1. q = [f \in Names |-> q[f]]
  BY FieldsOf, Zenon DEF session_update
<1>2. /\ q.dirs = AddDir(r.dirs, dir) /\ q.risk_score = r.risk_score
      /\ q.risk_level = r.risk_level /\ q.win_s = r.win_s /\ q.win_l = r.win_l
      /\ q.is_blocked = r.is_blocked /\ q.last_seen = r.last_seen
      /\ q.event = r.event
  BY FieldsOf, Zenon DEF session_update, Names
<1>3. Counts(r, q, op, flags)
  BY FieldsOf, Zenon DEF session_update, Counts, Names, CounterFields
<1> HIDE DEF q
<1>4. \A f \in CounterFields : q[f] \in Nat
  BY <1>3, CountsType
<1>5. q.dirs \in SUBSET Dirs
  BY <1>2, FieldsOf, AddDirType
<1>6. q \in Sessions
  BY <1>1, <1>2, <1>4, <1>5, FieldsOf, Makes
<1> QED
  BY <1>2, <1>3, <1>6, Zenon DEF q

(***************************************************************************)
(* The score.                                                              *)
(***************************************************************************)

\* What the scorer reads: natural numbers.
IsCounts(c) ==
    /\ c.modified \in Nat /\ c.rename \in Nat /\ c.delete \in Nat
    /\ c.dirs \in Nat /\ c.ext_change \in Nat /\ c.ransom_ext \in Nat
    /\ c.high_entropy \in Nat /\ c.yara_match \in Nat /\ c.content_same \in Nat

\* The parts of settings that config_load accepts.
LEMMA SettingsParts ==
  ASSUME NEW sc \in Scoring, ValidScoring(sc)
  PROVE  LET w == sc.weights
             t == sc.thresholds
         IN  /\ w.modified \in Nat /\ w.rename \in Nat /\ w.delete \in Nat
             /\ w.dirs \in Nat /\ w.ext_change \in Nat /\ w.ransom_ext \in Nat
             /\ w.high_entropy \in Nat /\ w.yara_match \in Nat
             /\ t.warn \in Nat /\ t.high \in Nat /\ t.critical \in Nat
             /\ 1 <= t.warn /\ t.warn < t.high /\ t.high < t.critical
             /\ t.critical <= 100
<1>1. \A k \in {"modified", "rename", "delete", "dirs", "ext_change",
                "ransom_ext", "high_entropy", "yara_match"} : sc.weights[k] \in Nat
  BY DEF Scoring, ValidScoring
<1>2. /\ sc.thresholds.warn \in Int /\ sc.thresholds.high \in Int
      /\ sc.thresholds.critical \in Int
  BY DEF Scoring
<1> QED
  BY <1>1, <1>2 DEF ValidScoring

\* The weighted sum is a natural number.
LEMMA SumType ==
  ASSUME NEW c, IsCounts(c), NEW sc \in Scoring, ValidScoring(sc)
  PROVE  WeightedSum(c, sc.weights) \in Nat
<1>1. \A n \in Nat, k \in Nat : n * k \in Nat
  OBVIOUS
<1>2. Once(c.high_entropy) \in Nat /\ Once(c.yara_match) \in Nat
  BY DEF Once
<1> DEFINE w == sc.weights
<1>3. /\ w.modified \in Nat /\ w.rename \in Nat /\ w.delete \in Nat
      /\ w.dirs \in Nat /\ w.ext_change \in Nat /\ w.ransom_ext \in Nat
      /\ w.high_entropy \in Nat /\ w.yara_match \in Nat
  BY SettingsParts
<1> HIDE DEF w
<1>4. /\ c.modified * w.modified \in Nat /\ c.rename * w.rename \in Nat
      /\ c.delete * w.delete \in Nat /\ c.dirs * w.dirs \in Nat
      /\ c.ext_change * w.ext_change \in Nat /\ c.ransom_ext * w.ransom_ext \in Nat
      /\ Once(c.high_entropy) * w.high_entropy \in Nat
      /\ Once(c.yara_match) * w.yara_match \in Nat
  BY <1>1, <1>2, <1>3 DEF IsCounts
<1>5. \A a1, a2, a3, a4, a5, a6, a7, a8 \in Nat :
        a1 + a2 + a3 + a4 + a5 + a6 + a7 + a8 \in Nat
  OBVIOUS
<1> QED
  BY <1>4, <1>5 DEF WeightedSum, w

\* A score is between 0 and 100, a level is a level.
LEMMA ScoreType ==
  ASSUME NEW c, IsCounts(c), NEW sc \in Scoring, ValidScoring(sc)
  PROVE  RiskScore(c, sc) \in 0 .. 100 /\ Level(c, sc) \in RiskLevels
<1> DEFINE t == sc.thresholds
           sum == WeightedSum(c, sc.weights)
           summed == ContentSameCap(c, t, sum)
<1>1. t.warn \in Nat /\ t.critical \in 1 .. 100
  BY SettingsParts
<1>2. sum \in Nat
  BY SumType
<1> HIDE DEF t, sum
<1>3. summed \in Int
  <2>1. CappedAt(sum, t.warn - 1) \in Int /\ 0 \in Int /\ sum \in Int
    BY <1>1, <1>2 DEF CappedAt
  <2> QED
    BY <2>1, Zenon DEF ContentSameCap
<1> HIDE DEF summed
<1>4. clamp100(summed) \in 0 .. 100
  BY <1>3 DEF clamp100
<1>5. DeleteOnlyCap(c, clamp100(summed)) \in 0 .. 100
  BY <1>4 DEF DeleteOnlyCap, CappedAt
<1>6. SingleDimCap(c, t, DeleteOnlyCap(c, clamp100(summed))) \in 0 .. 100
  BY <1>1, <1>5 DEF SingleDimCap, CappedAt
<1>7. RiskScore(c, sc) \in 0 .. 100
  BY <1>6 DEF RiskScore, summed, sum, t
<1>8. Level(c, sc) \in RiskLevels
  BY DEF Level, RiskLevel, RiskLevels, RISK_CRITICAL, RISK_HIGH,
         RISK_SUSPICIOUS, RISK_NORMAL
<1> QED
  BY <1>7, <1>8

\* d has counted at least what c has, and no more identical overwrites.
Grown(c, d) ==
    /\ c.modified <= d.modified /\ c.rename <= d.rename /\ c.delete <= d.delete
    /\ c.dirs <= d.dirs /\ c.ext_change <= d.ext_change
    /\ c.ransom_ext <= d.ransom_ext /\ c.high_entropy <= d.high_entropy
    /\ c.yara_match <= d.yara_match /\ c.content_same = d.content_same

\* The weighted sum grows with the counters.
LEMMA SumGrows ==
  ASSUME NEW c, IsCounts(c), NEW d, IsCounts(d), Grown(c, d),
         NEW sc \in Scoring, ValidScoring(sc)
  PROVE  WeightedSum(c, sc.weights) <= WeightedSum(d, sc.weights)
<1> DEFINE w == sc.weights
<1>1. \A a, b, k \in Nat : a <= b => /\ a * k \in Nat /\ b * k \in Nat
                                    /\ a * k <= b * k
  OBVIOUS
<1>2. /\ w.modified \in Nat /\ w.rename \in Nat /\ w.delete \in Nat
      /\ w.dirs \in Nat /\ w.ext_change \in Nat /\ w.ransom_ext \in Nat
      /\ w.high_entropy \in Nat /\ w.yara_match \in Nat
  BY SettingsParts
<1>3. /\ Once(c.high_entropy) \in Nat /\ Once(c.yara_match) \in Nat
      /\ Once(d.high_entropy) \in Nat /\ Once(d.yara_match) \in Nat
      /\ Once(c.high_entropy) <= Once(d.high_entropy)
      /\ Once(c.yara_match) <= Once(d.yara_match)
  BY DEF Once, IsCounts, Grown
<1> HIDE DEF w
<1> DEFINE Part(a, b, k) == /\ a * k \in Nat /\ b * k \in Nat /\ a * k <= b * k
<1>4. /\ Part(c.modified, d.modified, w.modified)
      /\ Part(c.rename, d.rename, w.rename)
      /\ Part(c.delete, d.delete, w.delete)
      /\ Part(c.dirs, d.dirs, w.dirs)
      /\ Part(c.ext_change, d.ext_change, w.ext_change)
      /\ Part(c.ransom_ext, d.ransom_ext, w.ransom_ext)
      /\ Part(Once(c.high_entropy), Once(d.high_entropy), w.high_entropy)
      /\ Part(Once(c.yara_match), Once(d.yara_match), w.yara_match)
  BY <1>1, <1>2, <1>3 DEF IsCounts, Grown
<1>5. \A a1, a2, a3, a4, a5, a6, a7, a8, b1, b2, b3, b4, b5, b6, b7, b8 \in Nat :
        (/\ a1 <= b1 /\ a2 <= b2 /\ a3 <= b3 /\ a4 <= b4
         /\ a5 <= b5 /\ a6 <= b6 /\ a7 <= b7 /\ a8 <= b8)
        => a1 + a2 + a3 + a4 + a5 + a6 + a7 + a8 <= b1 + b2 + b3 + b4 + b5 + b6 + b7 + b8
  OBVIOUS
<1> QED
  BY <1>4, <1>5 DEF WeightedSum, w

\* The content-same cap keeps the order of two sums: with more modifications
\* the share of identical overwrites is no larger.
LEMMA CapGrows ==
  ASSUME NEW c, IsCounts(c), NEW d, IsCounts(d), Grown(c, d),
         NEW sc \in Scoring, ValidScoring(sc),
         c.modified + c.content_same <= UINT32_MAX,
         d.modified + d.content_same <= UINT32_MAX,
         NEW x \in Nat, NEW y \in Nat, x <= y
  PROVE  /\ ContentSameCap(c, sc.thresholds, x) \in Nat
         /\ ContentSameCap(d, sc.thresholds, y) \in Nat
         /\ ContentSameCap(c, sc.thresholds, x) <= x
         /\ ContentSameCap(c, sc.thresholds, x) <= ContentSameCap(d, sc.thresholds, y)
<1> DEFINE t == sc.thresholds
           same == c.content_same
           cap == t.warn - 1
           p == PctSame(c)
           q == PctSame(d)
<1>1. cap \in Nat
  BY SettingsParts
<1>2. /\ same \in Nat /\ d.content_same = same /\ c.modified + same \in Nat
      /\ d.modified + same \in Nat /\ c.modified + same <= d.modified + same
  BY DEF IsCounts, Grown
<1>3. \A n \in Nat : n <= UINT32_MAX => U32(n) = n
  <2>1. UINT32_MAX + 1 \in Nat \ {0}
    BY UINT32Assumption
  <2>2. \A n, k \in Nat : n < k => n % k = n
    OBVIOUS
  <2> QED
    BY <2>1, <2>2, UINT32Assumption DEF U32
<1>4. U32(c.modified + same) = c.modified + same /\ U32(d.modified + same) = d.modified + same
  BY <1>2, <1>3
<1> HIDE DEF cap
<1>5. CASE same = 0
  BY <1>5, <1>2 DEF ContentSameCap
<1>6. CASE same # 0
  <2>1. c.modified + same > 0 /\ d.modified + same > 0
    BY <1>6, <1>2 DEF IsCounts
  <2>2. U32(same * 100) \in Nat
    <3>1. \A n, k \in Nat : k # 0 => n % k \in Nat
      OBVIOUS
    <3> QED
      BY <1>2, <3>1, UINT32Assumption DEF U32
  <2>3. p \in Nat /\ q \in Nat /\ q <= p
    <3> DEFINE n == U32(same * 100)
               a == c.modified + same
               b == d.modified + same
    <3>1. p = n \div a /\ q = n \div b
      BY <1>2, <1>4 DEF PctSame
    <3>2. n \in Nat /\ a \in Nat /\ b \in Nat /\ 0 < a /\ a <= b
      BY <1>2, <2>1, <2>2
    <3> HIDE DEF n, a, b, p, q
    <3>3. \A i, j, k \in Nat : 0 < j /\ j <= k => /\ i \div j \in Nat /\ i \div k \in Nat
                                                /\ i \div k <= i \div j
      OBVIOUS
    <3> QED
      BY <3>1, <3>2, <3>3
  <2>4. ContentSameCap(c, t, x) = IF p >= 80 THEN 0 ELSE IF p >= 50 THEN CappedAt(x, cap) ELSE x
    BY <1>4, <1>6, <2>1 DEF ContentSameCap, cap
  <2>5. ContentSameCap(d, t, y) = IF q >= 80 THEN 0 ELSE IF q >= 50 THEN CappedAt(y, cap) ELSE y
    BY <1>2, <1>4, <1>6, <2>1 DEF ContentSameCap, cap
  <2> HIDE DEF p, q
  <2> QED
    BY <1>1, <2>3, <2>4, <2>5 DEF CappedAt
<1> QED
  BY <1>5, <1>6

\* More activity, no lower level: the caps for deletions only and for a
\* single dimension do not lower what they did not already hold down.
LEMMA LevelGrows ==
  ASSUME NEW c, IsCounts(c), NEW d, IsCounts(d), Grown(c, d),
         NEW sc \in Scoring, ValidScoring(sc),
         c.modified + c.content_same <= UINT32_MAX,
         d.modified + d.content_same <= UINT32_MAX,
         sc.thresholds.high <= 60,
         sc.weights.high_entropy + sc.weights.yara_match < sc.thresholds.critical
  PROVE  Level(c, sc) <= Level(d, sc)
<1> DEFINE t == sc.thresholds
           sumc == WeightedSum(c, sc.weights)
           sumd == WeightedSum(d, sc.weights)
           capc == ContentSameCap(c, t, sumc)
           capd == ContentSameCap(d, t, sumd)
           x == clamp100(capc)
           y == clamp100(capd)
           xd == DeleteOnlyCap(c, x)
           yd == DeleteOnlyCap(d, y)
           xs == SingleDimCap(c, t, xd)
           ys == SingleDimCap(d, t, yd)
<1>1. /\ t.warn \in Nat /\ t.high \in Nat /\ t.critical \in Nat
      /\ 1 <= t.warn /\ t.warn < t.high /\ t.high < t.critical
      /\ t.critical <= 100 /\ t.high <= 60
      /\ sc.weights.high_entropy \in Nat /\ sc.weights.yara_match \in Nat
  BY SettingsParts
<1>2. sumc \in Nat /\ sumd \in Nat /\ sumc <= sumd
  BY SumType, SumGrows
<1>3. capc \in Nat /\ capd \in Nat /\ capc <= sumc /\ capc <= capd
  <2> HIDE DEF sumc, sumd
  <2> QED
    BY <1>2, CapGrows
<1>4. /\ DeleteOnly(c) <=> /\ c.delete > 0 /\ c.modified = 0 /\ c.rename = 0 /\ c.ext_change = 0
                         /\ c.ransom_ext = 0 /\ c.high_entropy = 0 /\ c.yara_match = 0
      /\ DeleteOnly(d) <=> /\ d.delete > 0 /\ d.modified = 0 /\ d.rename = 0 /\ d.ext_change = 0
                         /\ d.ransom_ext = 0 /\ d.high_entropy = 0 /\ d.yara_match = 0
  BY DEF DeleteOnly
<1>5. /\ Level(c, sc) = RiskLevel(xs, t) /\ Level(d, sc) = RiskLevel(ys, t)
  BY DEF Level, RiskScore
<1>6. ASSUME c.modified = 0, c.rename = 0, c.delete = 0, c.dirs = 0, c.ext_change = 0,
             c.ransom_ext = 0
      PROVE  sumc < t.critical /\ (c.high_entropy = 0 /\ c.yara_match = 0 => sumc = 0)
  <2> DEFINE w == sc.weights
  <2>1. /\ w.modified \in Nat /\ w.rename \in Nat /\ w.delete \in Nat
        /\ w.dirs \in Nat /\ w.ext_change \in Nat /\ w.ransom_ext \in Nat
        /\ w.high_entropy \in Nat /\ w.yara_match \in Nat
    BY SettingsParts
  <2>2. \A k \in Nat : 0 * k = 0 /\ 1 * k = k
    OBVIOUS
  <2>3. sumc = Once(c.high_entropy) * w.high_entropy + Once(c.yara_match) * w.yara_match
    <3>1. /\ Once(c.high_entropy) * w.high_entropy \in Nat
          /\ Once(c.yara_match) * w.yara_match \in Nat
      <4>1. Once(c.high_entropy) \in {0, 1} /\ Once(c.yara_match) \in {0, 1}
        BY DEF Once
      <4> HIDE DEF w
      <4> QED
        BY <2>1, <2>2, <4>1
    <3> QED
      BY <1>6, <2>1, <2>2, <3>1 DEF WeightedSum
  <2> HIDE DEF w, sumc
  <2>4. sumc <= w.high_entropy + w.yara_match
    BY <2>1, <2>2, <2>3 DEF Once
  <2>5. c.high_entropy = 0 /\ c.yara_match = 0 => sumc = 0
    BY <2>1, <2>2, <2>3 DEF Once
  <2> QED
    BY <1>1, <1>2, <2>1, <2>4, <2>5 DEF w
<1> HIDE DEF sumc, sumd, t
<1>7. x \in 0 .. 100 /\ y \in 0 .. 100 /\ x <= y /\ x <= sumc
  <2> HIDE DEF capc, capd
  <2> QED
    BY <1>2, <1>3 DEF clamp100
<1> HIDE DEF capc, capd, x, y
<1>8. /\ DeleteOnly(c) => xd = IF x > 60 THEN 60 ELSE x
      /\ ~DeleteOnly(c) => xd = x
      /\ DeleteOnly(d) => yd = IF y > 60 THEN 60 ELSE y
      /\ ~DeleteOnly(d) => yd = y
  BY DEF DeleteOnlyCap, CappedAt
<1>9. /\ xd \in 0 .. 100 /\ yd \in 0 .. 100 /\ xd <= x /\ yd <= y
  BY <1>7, <1>8
<1> HIDE DEF xd, yd
<1>10. /\ Dims(c) = 1 /\ c.ransom_ext = 0
              => xs = IF xd > t.critical - 1 THEN t.critical - 1 ELSE xd
       /\ ~(Dims(c) = 1 /\ c.ransom_ext = 0) => xs = xd
       /\ Dims(d) = 1 /\ d.ransom_ext = 0
              => ys = IF yd > t.critical - 1 THEN t.critical - 1 ELSE yd
       /\ ~(Dims(d) = 1 /\ d.ransom_ext = 0) => ys = yd
  BY DEF SingleDimCap, CappedAt
<1> HIDE DEF xs, ys
<1>11. xs \in 0 .. 100 /\ ys \in 0 .. 100 /\ xs <= xd /\ ys <= yd
  <2>1. xs = xd \/ (xs = t.critical - 1 /\ xd > t.critical - 1)
    BY <1>10
  <2>2. ys = yd \/ (ys = t.critical - 1 /\ yd > t.critical - 1)
    BY <1>10
  <2>3. ASSUME NEW a \in 0 .. 100, NEW k \in 0 .. 100, NEW b,
               b = a \/ (b = k /\ a > k)
        PROVE  b \in 0 .. 100 /\ b <= a
    BY <2>3
  <2>4. t.critical - 1 \in 0 .. 100
    <3>1. t.critical \in Nat /\ 1 <= t.critical /\ t.critical <= 100
      BY <1>1
    <3>2. \A k \in Nat : 1 <= k /\ k <= 100 => k - 1 \in 0 .. 100
      OBVIOUS
    <3> QED
      BY <3>1, <3>2, Zenon
  <2>5. xd \in 0 .. 100 /\ yd \in 0 .. 100
    BY <1>9
  <2>6. xs \in 0 .. 100 /\ xs <= xd
    BY <2>1, <2>3, <2>4, <2>5, Zenon
  <2>7. ys \in 0 .. 100 /\ ys <= yd
    BY <2>2, <2>3, <2>4, <2>5, Zenon
  <2> QED
    BY <2>6, <2>7
<1>12. xs <= ys \/ (xs < t.critical /\ ys >= t.high)
  <2>1. CASE DeleteOnly(d)
    <3>1. /\ c.modified = 0 /\ c.rename = 0 /\ c.ext_change = 0 /\ c.ransom_ext = 0
          /\ c.high_entropy = 0 /\ c.yara_match = 0
      BY <2>1, <1>4 DEF Grown, IsCounts
    <3>2. CASE c.delete > 0
      <4>1. DeleteOnly(c)
        BY <1>4, <3>1, <3>2
      <4>2. Dims(c) <= Dims(d) /\ Dims(c) \in 1 .. 2 /\ Dims(d) \in 1 .. 2
        BY <1>4, <2>1, <3>1, <3>2 DEF Dims, Once, Grown, IsCounts
      <4>3. xd <= yd
        BY <2>1, <4>1, <1>7, <1>8
      <4> QED
        BY <1>1, <1>9, <1>10, <1>11, <4>2, <4>3, <3>1, <2>1, <1>4
    <3>3. CASE c.delete = 0 /\ c.dirs = 0
      <4>1. sumc = 0
        BY <3>1, <3>3, <1>6
      <4> QED
        BY <4>1, <1>7, <1>9, <1>11
    <3>4. CASE c.delete = 0 /\ c.dirs > 0
      <4>1. Dims(c) = 1 /\ Dims(d) = 2
        BY <1>4, <2>1, <3>1, <3>4 DEF Dims, Once, Grown, IsCounts
      <4> QED
        BY <4>1, <2>1, <3>1, <1>1, <1>7, <1>8, <1>9, <1>10, <1>11
    <3> QED
      BY <3>2, <3>3, <3>4 DEF IsCounts
  <2>2. CASE ~DeleteOnly(d) /\ ~(Dims(d) = 1 /\ d.ransom_ext = 0)
    BY <2>2, <1>7, <1>8, <1>9, <1>10, <1>11
  <2>3. CASE ~DeleteOnly(d) /\ Dims(d) = 1 /\ d.ransom_ext = 0
    <3>1. c.ransom_ext = 0 /\ Dims(c) \in 0 .. 1
      BY <2>3 DEF Dims, Once, Grown, IsCounts
    <3>2. CASE Dims(c) = 1
      BY <2>3, <3>1, <3>2, <1>1, <1>7, <1>8, <1>9, <1>10, <1>11
    <3>3. CASE Dims(c) = 0
      <4>1. /\ c.modified = 0 /\ c.rename = 0 /\ c.delete = 0 /\ c.dirs = 0
            /\ c.ext_change = 0
        BY <3>3 DEF Dims, Once, IsCounts
      <4>2. sumc < t.critical
        BY <4>1, <3>1, <1>6
      <4> QED
        BY <2>3, <4>2, <1>1, <1>2, <1>7, <1>8, <1>9, <1>10, <1>11
    <3> QED
      BY <3>1, <3>2, <3>3
  <2> QED
    BY <2>1, <2>2, <2>3
<1>13. RiskLevel(xs, t) <= RiskLevel(ys, t)
  BY <1>1, <1>11, <1>12 DEF RiskLevel, RISK_CRITICAL, RISK_HIGH, RISK_SUSPICIOUS, RISK_NORMAL
<1> QED
  BY <1>5, <1>13

(***************************************************************************)
(* One message.                                                            *)
(***************************************************************************)

\* The session after the windows have seen m, and the flags of m.
Seen(m) == session_check_window(s, now, win_short(m, Cfg), win_long(m, Cfg))
FlagsOf(m) == analysis_flags(m, s, Cfg)

\* The entry of m in the history.
Entry(m) == [msg |-> m, time |-> now, flags |-> FlagsOf(m),
             retracts |-> Retracts(Seen(m), m.op, FlagsOf(m))]

\* The windows last at least a second, and are the same for all messages of
\* the session.
LEMMA WindowLengths ==
  /\ \A m \in Messages : /\ win_short(m, Cfg) \in Nat \ {0}
                         /\ win_long(m, Cfg) \in Nat \ {0}
  /\ \A m, n \in Messages : /\ win_short(m, Cfg) = win_short(n, Cfg)
                            /\ win_long(m, Cfg) = win_long(n, Cfg)
  BY LifeAssumption DEF LifeAssumption, win_short, win_long

\* What the scorer reads of a session is numbers.
LEMMA CountersType ==
  ASSUME NEW r \in Sessions
  PROVE  IsCounts(Counters(r))
  BY FieldsOf, DirsFinite DEF IsCounts, Counters, CounterFields

\* A message: the windows see it, it is counted, and it is scored or not.
LEMMA MessageFields ==
  ASSUME TypeOK, NEW m \in Messages, Message(m)
  PROVE  /\ Seen(m) \in Sessions
         /\ ShortSeen(s, Seen(m), now, win_short(m, Cfg))
         /\ LongSeen(s, Seen(m), now, win_long(m, Cfg))
         /\ s' \in Sessions /\ Counts(Seen(m), s', m.op, FlagsOf(m))
         /\ s'.dirs = AddDir(Seen(m).dirs, m.dir)
         /\ s'.win_s = Seen(m).win_s /\ s'.win_l = Seen(m).win_l
         /\ s'.risk_score \in {Seen(m).risk_score} \cup 0 .. 100
         /\ s'.last_seen = now
         /\ hist' = Append(hist, Entry(m))
<1> DEFINE q == Seen(m)
           flags == FlagsOf(m)
           counted == session_update(q, m.op, flags, m.dir)
           scored == scorer_calculate(counted, Cfg.scoring)
           a == IF defer_score(m.op, flags) THEN counted ELSE scored
<1>1. /\ s \in Sessions /\ now \in Nat \ {0} /\ s.win_s <= now /\ s.win_l <= now
  BY DEF TypeOK, Sessions
<1>2. /\ q \in Sessions
      /\ ShortSeen(s, q, now, win_short(m, Cfg))
      /\ LongSeen(s, q, now, win_long(m, Cfg))
      /\ q.last_seen = s.last_seen
  BY <1>1, WindowLengths, WindowFields DEF Seen
<1>3. s' = [a EXCEPT !.last_seen = now]
  BY Zenon DEF Message, Analysed, Counted, Seen, FlagsOf
<1>4. hist' = Append(hist, Entry(m))
  <2>1. Retracts(q, m.op, flags) = Retracts(q, m.op, m.flags)
    <3>1. "CONTENT_SAME" \in flags <=> "CONTENT_SAME" \in m.flags
      BY DEF FlagsOf, analysis_flags, ExtFlags, ContentFlags
    <3> HIDE DEF q, flags
    <3> QED
      BY <3>1, Zenon DEF Retracts
  <2> QED
    BY <2>1, Zenon DEF Message, Entry, Seen, FlagsOf
<1>5. m.dir \in Dirs \cup {NoDir} /\ Cfg.scoring \in Scoring /\ ValidScoring(Cfg.scoring)
  BY LifeAssumption DEF LifeAssumption
<1> HIDE DEF q, flags
<1>6. /\ counted \in Sessions /\ Counts(q, counted, m.op, flags)
      /\ counted.dirs = AddDir(q.dirs, m.dir) /\ counted.risk_score = q.risk_score
      /\ counted.win_s = q.win_s /\ counted.win_l = q.win_l
  BY <1>2, <1>5, UpdateFields
<1> HIDE DEF counted
<1>7. /\ scored = [f \in Names |-> scored[f]]
      /\ SameCounts(counted, scored) /\ scored.dirs = counted.dirs
      /\ scored.win_s = counted.win_s /\ scored.win_l = counted.win_l
      /\ scored.is_blocked = counted.is_blocked
      /\ scored.last_seen = counted.last_seen /\ scored.event = counted.event
      /\ scored.risk_score = RiskScore(Counters(counted), Cfg.scoring)
      /\ scored.risk_level = Level(Counters(counted), Cfg.scoring)
  BY <1>6, FieldsOf, Zenon DEF scorer_calculate, SameCounts, Names, CounterFields
<1>8. scored.risk_score \in 0 .. 100 /\ scored.risk_level \in RiskLevels
  BY <1>5, <1>6, <1>7, CountersType, ScoreType
<1> HIDE DEF scored
<1>9. scored \in Sessions
  BY <1>6, <1>7, <1>8, FieldsOf, Makes DEF SameCounts
<1>10. Counts(q, scored, m.op, flags)
  BY <1>6, <1>7, Zenon DEF Counts, SameCounts, CounterFields
<1>11. /\ a \in Sessions /\ Counts(q, a, m.op, flags)
       /\ a.dirs = AddDir(q.dirs, m.dir)
       /\ a.risk_score \in {q.risk_score} \cup 0 .. 100
       /\ a.win_s = q.win_s /\ a.win_l = q.win_l
  BY <1>6, <1>7, <1>8, <1>9, <1>10, Zenon
<1> HIDE DEF a
<1>12. /\ s' = [f \in Names |-> s'[f]]
       /\ SameCounts(a, s') /\ s'.dirs = a.dirs
       /\ s'.win_s = a.win_s /\ s'.win_l = a.win_l
       /\ s'.is_blocked = a.is_blocked
       /\ s'.last_seen = now /\ s'.event = a.event
       /\ s'.risk_score = a.risk_score /\ s'.risk_level = a.risk_level
  BY <1>3, <1>11, FieldsOf, Zenon DEF SameCounts, Names, CounterFields
<1>13. s' \in Sessions
  BY <1>1, <1>11, <1>12, FieldsOf, Makes DEF SameCounts
<1>14. Counts(q, s', m.op, flags)
  BY <1>11, <1>12, Zenon DEF Counts, SameCounts, CounterFields
<1> QED
  BY <1>2, <1>4, <1>11, <1>12, <1>13, <1>14, Zenon DEF q, flags

\* The entry of a message is an entry of the history.
LEMMA EntryType ==
  ASSUME TypeOK, NEW m \in Messages
  PROVE  Entry(m) \in [msg : Messages, time : 1 .. now,
                       flags : SUBSET Flags, retracts : BOOLEAN]
<1>1. FlagsOf(m) \in SUBSET Flags
  <2>1. m.flags \in SUBSET Flags
    BY LifeAssumption DEF LifeAssumption
  <2>2. ExtFlags(m, Cfg) \in SUBSET Flags
    BY DEF ExtFlags, Flags
  <2>3. ContentFlags(m, s, Cfg) \in SUBSET Flags
    BY DEF ContentFlags, Flags
  <2> QED
    BY <2>1, <2>2, <2>3 DEF FlagsOf, analysis_flags
<1>2. now \in 1 .. now
  BY DEF TypeOK
<1>3. Retracts(Seen(m), m.op, FlagsOf(m)) \in BOOLEAN
  BY DEF Retracts
<1> QED
  BY <1>1, <1>2, <1>3, Zenon DEF Entry

\* A step keeps the types.
LEMMA StepTypes == TypeOK /\ [Next]_vars => TypeOK'
<1> SUFFICES ASSUME TypeOK, [Next]_vars PROVE TypeOK'
  OBVIOUS
<1> DEFINE Row(t) == [msg : Messages, time : 1 .. t,
                      flags : SUBSET Flags, retracts : BOOLEAN]
<1>0. now \in Nat /\ now >= 1 /\ MaxTime \in Nat /\ hist \in Seq(Row(now))
  BY LifeAssumption DEF TypeOK, LifeAssumption
<1>1. CASE Tick
  <2>1. now' = now + 1 /\ now < MaxTime /\ s' = s /\ hist' = hist
    BY <1>1 DEF Tick
  <2>2. hist \in Seq(Row(now'))
    <3>1. Row(now) \subseteq Row(now')
      <4>1. 1 .. now \subseteq 1 .. now'
        BY <1>0, <2>1
      <4> QED
        BY <4>1
    <3> HIDE DEF Row
    <3> QED
      BY <1>0, <3>1
  <2>3. /\ s.win_s \in Nat /\ s.win_l \in Nat /\ s.last_seen \in Nat
    BY FieldsOf DEF TypeOK, Sessions
  <2> QED
    BY <1>0, <2>1, <2>2, <2>3 DEF TypeOK
<1>2. ASSUME NEW m \in Messages, Message(m) PROVE TypeOK'
  <2>1. /\ Seen(m) \in Sessions
        /\ ShortSeen(s, Seen(m), now, win_short(m, Cfg))
        /\ LongSeen(s, Seen(m), now, win_long(m, Cfg))
        /\ s' \in Sessions /\ Counts(Seen(m), s', m.op, FlagsOf(m))
        /\ s'.dirs = AddDir(Seen(m).dirs, m.dir)
        /\ s'.win_s = Seen(m).win_s /\ s'.win_l = Seen(m).win_l
        /\ s'.risk_score \in {Seen(m).risk_score} \cup 0 .. 100
        /\ s'.last_seen = now
        /\ hist' = Append(hist, Entry(m))
    BY <1>2, MessageFields
  <2>2. /\ now' = now /\ Len(hist) < MaxMsgs
    BY <1>2 DEF Message
  <2>3. hist' \in Seq(Row(now)) /\ Len(hist') <= MaxMsgs
    <3>1. Entry(m) \in Row(now)
      BY EntryType
    <3>2. Len(hist) \in Nat /\ MaxMsgs \in Nat
      BY <1>0, LifeAssumption DEF LifeAssumption
    <3> HIDE DEF Row
    <3>3. Append(hist, Entry(m)) \in Seq(Row(now)) /\ Len(Append(hist, Entry(m))) = Len(hist) + 1
      BY <1>0, <3>1
    <3> QED
      BY <2>1, <2>2, <3>2, <3>3
  <2>4. \A f \in CounterFields : s'[f] <= UINT32_MAX
    <3>1. \A f \in CounterFields : Seen(m)[f] <= UINT32_MAX
      <4>1. \A f \in CounterFields : s[f] <= UINT32_MAX
        BY DEF TypeOK
      <4>2. 0 <= UINT32_MAX
        BY UINT32Assumption
      <4>3. \/ \A f \in CounterFields : Seen(m)[f] = s[f]
            \/ \A f \in CounterFields : Seen(m)[f] = 0
        BY <2>1, Zenon DEF ShortSeen, SameCounts
      <4> QED
        BY <4>1, <4>2, <4>3
    <3> QED
      BY <2>1, <3>1, CountsType
  <2>5. Cardinality(s'.dirs) <= DIR_SET_MAX /\ s'.risk_score <= 100
    <3>1. Cardinality(Seen(m).dirs) <= DIR_SET_MAX /\ Seen(m).risk_score <= 100
      <4>1. /\ Cardinality(s.dirs) <= DIR_SET_MAX /\ s.risk_score <= 100
        BY DEF TypeOK
      <4>2. Cardinality({}) <= DIR_SET_MAX /\ 0 <= 100
        BY FS_EmptySet, SessionAssumption DEF SessionAssumption
      <4>3. \/ Seen(m).dirs = s.dirs /\ Seen(m).risk_score = s.risk_score
            \/ Seen(m).dirs = {} /\ Seen(m).risk_score = 0
        BY <2>1, Zenon DEF LongSeen, SameLong
      <4> QED
        BY <4>1, <4>2, <4>3
    <3>2. m.dir \in Dirs \cup {NoDir} /\ Seen(m).dirs \in SUBSET Dirs
      BY <2>1, FieldsOf, LifeAssumption DEF LifeAssumption
    <3>3. Cardinality(s'.dirs) <= DIR_SET_MAX
      BY <2>1, <3>1, <3>2, AddDirType, Zenon
    <3>4. s'.risk_score <= 100
      <4>1. \A n \in 0 .. 100 : n <= 100
        OBVIOUS
      <4>2. s'.risk_score = Seen(m).risk_score \/ s'.risk_score \in 0 .. 100
        BY <2>1, Zenon
      <4> QED
        BY <3>1, <4>1, <4>2, Zenon
    <3> QED
      BY <3>3, <3>4
  <2>6. s'.win_s <= now /\ s'.win_l <= now
    BY <1>0, <2>1 DEF TypeOK, ShortSeen, LongSeen
  <2> QED
    BY <1>0, <2>1, <2>2, <2>3, <2>4, <2>5, <2>6 DEF TypeOK, Sessions
<1>3. CASE UNCHANGED vars
  BY <1>3 DEF vars, TypeOK
<1> QED
  BY <1>1, <1>2, <1>3 DEF Next

\* The first state.
LEMMA InitTypes == Init => TypeOK
<1> SUFFICES ASSUME Init PROVE TypeOK
  OBVIOUS
<1>1. now = 1 /\ s = NewSession(1) /\ hist = << >>
  BY DEF Init
<1>2. NewSession(1) \in SessionRecords({NoEvent})
  BY DEF NewSession, SessionRecords, RiskLevels, RISK_NORMAL, RISK_CRITICAL
<1>3. /\ \A f \in CounterFields : NewSession(1)[f] = 0
      /\ NewSession(1).dirs = {} /\ NewSession(1).risk_score = 0
      /\ NewSession(1).win_s = 0 /\ NewSession(1).win_l = 0
      /\ NewSession(1).last_seen = 1
  BY DEF NewSession, CounterFields
<1>4. /\ Cardinality({}) = 0 /\ DIR_SET_MAX \in Nat /\ UINT32_MAX \in Nat
      /\ MaxTime \in Nat \ {0} /\ MaxMsgs \in Nat
  BY FS_EmptySet, SessionAssumption, UINT32Assumption, LifeAssumption
     DEF SessionAssumption, LifeAssumption
<1>5. \A S : << >> \in Seq(S) /\ Len(<< >>) = 0
  OBVIOUS
<1>6. s = NewSession(1) /\ s \in SessionRecords({NoEvent})
  BY <1>1, <1>2
<1>7. /\ \A f \in CounterFields : s[f] <= UINT32_MAX
      /\ Cardinality(s.dirs) <= DIR_SET_MAX /\ s.risk_score <= 100
      /\ s.win_s <= now /\ s.win_l <= now /\ s.last_seen \in 1 .. now
  <2>1. /\ \A f \in CounterFields : s[f] = 0
        /\ s.dirs = {} /\ s.risk_score = 0 /\ s.win_s = 0 /\ s.win_l = 0 /\ s.last_seen = 1
    BY <1>1, <1>3, Zenon
  <2>2. 0 <= UINT32_MAX /\ 0 <= DIR_SET_MAX /\ 0 <= 100 /\ 0 <= 1 /\ 1 \in 1 .. 1
    BY <1>4
  <2> QED
    BY <1>1, <1>4, <2>1, <2>2, Zenon
<1>8. now \in 1 .. MaxTime /\ Len(hist) <= MaxMsgs
  BY <1>1, <1>4, <1>5
<1>9. hist \in Seq([msg : Messages, time : 1 .. now,
                    flags : SUBSET Flags, retracts : BOOLEAN])
  BY <1>1, <1>5, Zenon
<1> QED
  BY <1>6, <1>7, <1>8, <1>9 DEF TypeOK

\* The session record keeps its shape, its counters fit in uint32_t and its
\* directories in DIR_SET_MAX, for any number of messages of any kind
\* (session_update, session_check_window, scorer_calculate).
THEOREM LifeTypes == Spec => []TypeOK
<1> QED
  BY InitTypes, StepTypes, PTL DEF Spec

(***************************************************************************)
(* The windows and what they hold.                                         *)
(***************************************************************************)

\* Right after a message both windows are younger than their length.
LEMMA FreshWindows ==
  ASSUME TypeOK, NEW m \in Messages, Message(m)
  PROVE  /\ now - s'.win_s < win_short(m, Cfg) /\ now - s'.win_l < win_long(m, Cfg)
         /\ s'.win_s \in 1 .. now /\ s'.win_l \in 1 .. now
<1>1. /\ ShortSeen(s, Seen(m), now, win_short(m, Cfg))
      /\ LongSeen(s, Seen(m), now, win_long(m, Cfg))
      /\ s'.win_s = Seen(m).win_s /\ s'.win_l = Seen(m).win_l
  BY MessageFields
<1>2. win_short(m, Cfg) \in Nat \ {0} /\ win_long(m, Cfg) \in Nat \ {0}
  BY WindowLengths
<1>3. /\ now \in Nat /\ now >= 1 /\ s.win_s \in Nat /\ s.win_l \in Nat
      /\ s.win_s <= now /\ s.win_l <= now
  <2>1. s \in Sessions /\ now \in 1 .. MaxTime /\ s.win_s <= now /\ s.win_l <= now
    BY Zenon DEF TypeOK, Sessions
  <2>2. s.win_s \in Nat /\ s.win_l \in Nat
    BY <2>1, FieldsOf
  <2> QED
    BY <2>1, <2>2
<1>4. \/ s'.win_s = s.win_s /\ s.win_s # 0 /\ now - s.win_s < win_short(m, Cfg)
      \/ s'.win_s = now
  BY <1>1, Zenon DEF ShortSeen
<1>5. \/ s'.win_l = s.win_l /\ s.win_l # 0 /\ now - s.win_l < win_long(m, Cfg)
      \/ s'.win_l = now
  BY <1>1, Zenon DEF LongSeen
<1>6. now - s'.win_s < win_short(m, Cfg) /\ s'.win_s \in 1 .. now
  BY <1>2, <1>3, <1>4
<1>7. now - s'.win_l < win_long(m, Cfg) /\ s'.win_l \in 1 .. now
  BY <1>2, <1>3, <1>5
<1> QED
  BY <1>6, <1>7

\* A message is scored only against activity of the last window_short
\* seconds, and its directories of the last window_long, whatever the
\* silence before it (session_check_window before session_update).
THEOREM ScoredFresh == Spec => ScoredOnFreshActivity
<1> DEFINE A == hist' # hist =>
                   LET m == hist'[Len(hist')].msg
                   IN  /\ now - s'.win_s < win_short(m, Cfg)
                       /\ now - s'.win_l < win_long(m, Cfg)
<1>1. ASSUME TypeOK, [Next]_vars PROVE [A]_vars
  <2>1. ASSUME NEW m \in Messages, Message(m) PROVE A
    <3>1. hist' = Append(hist, Entry(m))
      BY <1>1, <2>1, MessageFields
    <3>2. hist \in Seq([msg : Messages, time : 1 .. now,
                        flags : SUBSET Flags, retracts : BOOLEAN])
      BY <1>1 DEF TypeOK
    <3>3. hist'[Len(hist')] = Entry(m)
      BY <3>1, <3>2
    <3>4. Entry(m).msg = m
      BY DEF Entry
    <3> QED
      BY <1>1, <2>1, <3>3, <3>4, FreshWindows
  <2>2. CASE Tick
    BY <2>2 DEF Tick
  <2>3. CASE UNCHANGED vars
    BY <2>3 DEF vars
  <2> QED
    BY <1>1, <2>1, <2>2, <2>3 DEF Next
<1> QED
  BY <1>1, LifeTypes, PTL DEF Spec, ScoredOnFreshActivity

\* One more entry: B is A with or without n + 1.
LEMMA CountStep ==
  ASSUME NEW n \in Nat, NEW A \in SUBSET (1 .. n), NEW B \in SUBSET (1 .. n + 1),
         \A i \in 1 .. n : i \in B <=> i \in A
  PROVE  /\ Cardinality(A) \in 0 .. n
         /\ n + 1 \in B => Cardinality(B) = Cardinality(A) + 1
         /\ n + 1 \notin B => Cardinality(B) = Cardinality(A)
<1>1. IsFiniteSet(1 .. n) /\ Cardinality(1 .. n) = n
  BY FS_Interval
<1>2. IsFiniteSet(A) /\ Cardinality(A) \in Nat /\ Cardinality(A) <= n
  BY <1>1, FS_Subset, FS_CardinalityType
<1>5. 1 .. n + 1 = (1 .. n) \cup {n + 1} /\ n + 1 \notin 1 .. n
  OBVIOUS
<1>6. \A i \in B : i \in A \/ i = n + 1
  BY <1>5
<1>7. \A i \in A : i \in B /\ i # n + 1
  BY <1>5
<1>3. CASE n + 1 \in B
  <2>1. B = A \cup {n + 1} /\ n + 1 \notin A
    BY <1>3, <1>6, <1>7
  <2> QED
    BY <1>2, <1>3, <2>1, FS_AddElement
<1>4. CASE n + 1 \notin B
  <2>1. B = A
    BY <1>4, <1>6, <1>7
  <2> QED
    BY <1>2, <1>4, <2>1
<1> QED
  BY <1>3, <1>4

\* The entry e is of the kind that the counter f counts; modified and
\* content_same share theirs.
Is(f, e) ==
    /\ f = "rename" => e.msg.op = "RENAME"
    /\ f = "delete" => e.msg.op = "DELETE"
    /\ f = "ext_change" => e.msg.op = "RENAME" /\ "EXT_CHANGE" \in e.flags
    /\ f = "ransom_ext" => e.msg.op \in WriteOps \cup {"RENAME"} /\ "RANSOM_EXT" \in e.flags
    /\ f = "high_entropy" => "HIGH_ENTROPY" \in e.flags
    /\ f = "yara_match" => "YARA_MATCH" \in e.flags
    /\ f = "content_same" => e.retracts
    /\ f = "modified" => e.msg.op \in WriteOps /\ "RISKY" \in e.flags

\* The entries of a history h that f counts since t.
Hits(h, t, f) == {i \in DOMAIN h : h[i].time >= t /\ Is(f, h[i])}

\* The directories of h since t.
DirsOf(h, t) == {h[i].msg.dir : i \in {j \in DOMAIN h : h[j].time >= t}} \ {NoDir}

\* The counters of r count h, and its directories are those of h.
Tallies(h, r) ==
    /\ \A f \in CounterFields \ {"modified"} : r[f] = Cardinality(Hits(h, r.win_s, f))
    /\ r.modified + r.content_same = Cardinality(Hits(h, r.win_s, "modified"))

Visits(h, r) ==
    /\ r.dirs \subseteq DirsOf(h, r.win_l)
    /\ Cardinality(r.dirs) < DIR_SET_MAX => r.dirs = DirsOf(h, r.win_l)

\* This is what CountersCountTheWindow says.
LEMMA TalliesMean == CountersCountTheWindow <=> Tallies(hist, s) /\ Visits(hist, s)
<1> DEFINE S(f) == Cardinality(Hits(hist, s.win_s, f))
<1>1. Tallies(hist, s) <=>
        /\ s.rename = S("rename") /\ s.delete = S("delete")
        /\ s.ext_change = S("ext_change") /\ s.ransom_ext = S("ransom_ext")
        /\ s.high_entropy = S("high_entropy") /\ s.yara_match = S("yara_match")
        /\ s.content_same = S("content_same")
        /\ s.modified + s.content_same = S("modified")
  <2> HIDE DEF S
  <2>1. CounterFields \ {"modified"} = {"rename", "delete", "ext_change", "ransom_ext",
                                        "high_entropy", "yara_match", "content_same"}
    BY DEF CounterFields
  <2> QED
    BY <2>1, Zenon DEF Tallies, S
<1>2. /\ S("rename") = Cardinality({i \in DOMAIN hist : hist[i].time >= s.win_s /\ hist[i].msg.op = "RENAME"})
      /\ S("delete") = Cardinality({i \in DOMAIN hist : hist[i].time >= s.win_s /\ hist[i].msg.op = "DELETE"})
      /\ S("ext_change") = Cardinality({i \in DOMAIN hist : hist[i].time >= s.win_s
             /\ (hist[i].msg.op = "RENAME" /\ "EXT_CHANGE" \in hist[i].flags)})
      /\ S("ransom_ext") = Cardinality({i \in DOMAIN hist : hist[i].time >= s.win_s
             /\ (hist[i].msg.op \in WriteOps \cup {"RENAME"} /\ "RANSOM_EXT" \in hist[i].flags)})
      /\ S("high_entropy") = Cardinality({i \in DOMAIN hist : hist[i].time >= s.win_s
             /\ "HIGH_ENTROPY" \in hist[i].flags})
      /\ S("yara_match") = Cardinality({i \in DOMAIN hist : hist[i].time >= s.win_s
             /\ "YARA_MATCH" \in hist[i].flags})
      /\ S("content_same") = Cardinality({i \in DOMAIN hist : hist[i].time >= s.win_s
             /\ hist[i].retracts})
      /\ S("modified") = Cardinality({i \in DOMAIN hist : hist[i].time >= s.win_s
             /\ (hist[i].msg.op \in WriteOps /\ "RISKY" \in hist[i].flags)})
  BY DEF Hits, Is
<1>3. DirsOf(hist, s.win_l) = {hist[i].msg.dir : i \in {j \in DOMAIN hist : hist[j].time >= s.win_l /\ TRUE}} \ {NoDir}
  BY DEF DirsOf
<1> HIDE DEF S
<1> QED
  BY <1>1, <1>2, <1>3, Zenon DEF CountersCountTheWindow, Since, Visits

\* Every entry lies in the window that was open when it came, which the
\* window now open is or follows.
Paced ==
    /\ s.win_s = 0 => hist = << >>
    /\ s.win_l = 0 => hist = << >>
    /\ \A i \in DOMAIN hist :
         /\ hist[i].time - s.win_s < win_short(hist[i].msg, Cfg)
         /\ hist[i].time - s.win_l < win_long(hist[i].msg, Cfg)

\* The entries of the history.
LEMMA HistParts ==
  ASSUME TypeOK
  PROVE  /\ Len(hist) \in Nat /\ DOMAIN hist = 1 .. Len(hist)
         /\ now \in Nat /\ now >= 1
         /\ \A i \in DOMAIN hist : hist[i].msg \in Messages /\ hist[i].time \in 1 .. now
<1>1. hist \in Seq([msg : Messages, time : 1 .. now,
                    flags : SUBSET Flags, retracts : BOOLEAN])
  BY DEF TypeOK
<1>2. Len(hist) \in Nat /\ DOMAIN hist = 1 .. Len(hist)
  BY <1>1
<1>3. ASSUME NEW i \in DOMAIN hist
      PROVE  hist[i].msg \in Messages /\ hist[i].time \in 1 .. now
  <2> DEFINE R == [msg : Messages, time : 1 .. now,
                   flags : SUBSET Flags, retracts : BOOLEAN]
  <2>1. hist[i] \in R
    <3> HIDE DEF R
    <3>1. hist \in Seq(R)
      BY <1>1 DEF R
    <3> QED
      BY <1>2, <1>3, <3>1
  <2> QED
    BY <2>1
<1> QED
  BY <1>2, <1>3 DEF TypeOK

\* The history with one more entry.
LEMMA Longer ==
  ASSUME TypeOK, NEW m \in Messages, Message(m)
  PROVE  /\ DOMAIN hist' = 1 .. Len(hist) + 1
         /\ \A i \in 1 .. Len(hist) : hist'[i] = hist[i]
         /\ hist'[Len(hist) + 1] = Entry(m)
<1>1. hist' = Append(hist, Entry(m))
  BY MessageFields
<1>2. hist \in Seq([msg : Messages, time : 1 .. now,
                    flags : SUBSET Flags, retracts : BOOLEAN])
  BY DEF TypeOK
<1> QED
  BY <1>1, <1>2

\* A window that ends leaves all that came before it behind.
LEMMA OldEntries ==
  ASSUME TypeOK, Paced, NEW m \in Messages
  PROVE  /\ now - s.win_s >= win_short(m, Cfg) => \A i \in DOMAIN hist : ~(hist[i].time >= now)
         /\ now - s.win_l >= win_long(m, Cfg) => \A i \in DOMAIN hist : ~(hist[i].time >= now)
<1>1. s.win_s \in Nat /\ s.win_l \in Nat /\ now \in Nat
  <2>1. s \in Sessions
    BY DEF TypeOK, Sessions
  <2> QED
    BY <2>1, FieldsOf, HistParts
<1>2. ASSUME NEW i \in DOMAIN hist
      PROVE  /\ now - s.win_s >= win_short(m, Cfg) => ~(hist[i].time >= now)
             /\ now - s.win_l >= win_long(m, Cfg) => ~(hist[i].time >= now)
  <2>1. hist[i].msg \in Messages /\ hist[i].time \in Nat
    BY <1>2, HistParts
  <2>2. /\ win_short(hist[i].msg, Cfg) = win_short(m, Cfg)
        /\ win_long(hist[i].msg, Cfg) = win_long(m, Cfg)
        /\ win_short(m, Cfg) \in Nat /\ win_long(m, Cfg) \in Nat
    BY <2>1, WindowLengths
  <2>3. /\ hist[i].time - s.win_s < win_short(m, Cfg)
        /\ hist[i].time - s.win_l < win_long(m, Cfg)
    BY <2>2, <1>2, Zenon DEF Paced
  <2> QED
    BY <1>1, <2>1, <2>2, <2>3
<1> QED
  BY <1>2

\* A step keeps the pace.
LEMMA StepPaced ==
  ASSUME TypeOK, Paced, [Next]_vars
  PROVE  Paced'
<1>1. CASE Tick
  BY <1>1 DEF Tick, Paced
<1>2. CASE UNCHANGED vars
  BY <1>2 DEF vars, Paced
<1>3. ASSUME NEW m \in Messages, Message(m) PROVE Paced'
  <2>1. /\ now - s'.win_s < win_short(m, Cfg) /\ now - s'.win_l < win_long(m, Cfg)
        /\ s'.win_s \in 1 .. now /\ s'.win_l \in 1 .. now
    BY <1>3, FreshWindows
  <2>2. /\ DOMAIN hist' = 1 .. Len(hist) + 1
        /\ \A i \in 1 .. Len(hist) : hist'[i] = hist[i]
        /\ hist'[Len(hist) + 1] = Entry(m)
    BY <1>3, Longer
  <2>3. /\ Len(hist) \in Nat /\ DOMAIN hist = 1 .. Len(hist)
        /\ \A i \in DOMAIN hist : hist[i].msg \in Messages /\ hist[i].time \in 1 .. now
        /\ now \in Nat
    BY HistParts
  <2>4. ASSUME NEW i \in DOMAIN hist'
        PROVE  /\ hist'[i].time - s'.win_s < win_short(hist'[i].msg, Cfg)
               /\ hist'[i].time - s'.win_l < win_long(hist'[i].msg, Cfg)
    <3>1. hist'[i].msg \in Messages /\ hist'[i].time \in 1 .. now
      <4>1. CASE i \in 1 .. Len(hist)
        BY <4>1, <2>2, <2>3
      <4>2. CASE i = Len(hist) + 1
        BY <4>2, <2>2, <2>3, HistParts DEF Entry
      <4> QED
        BY <2>2, <2>3, <2>4, <4>1, <4>2
    <3>2. /\ win_short(hist'[i].msg, Cfg) = win_short(m, Cfg)
          /\ win_long(hist'[i].msg, Cfg) = win_long(m, Cfg)
          /\ win_short(m, Cfg) \in Nat /\ win_long(m, Cfg) \in Nat
      BY <3>1, WindowLengths
    <3>3. ASSUME NEW a \in 1 .. now, NEW w \in 1 .. now, NEW k \in Nat, now - w < k
          PROVE  a - w < k
      BY <2>3, <3>3
    <3> QED
      BY <2>1, <3>1, <3>2, <3>3, Zenon
  <2>5. s'.win_s # 0 /\ s'.win_l # 0
    BY <2>1, <2>3
  <2> QED
    BY <2>4, <2>5, Zenon DEF Paced
<1> QED
  BY <1>1, <1>2, <1>3 DEF Next

\* Counting a message up to the saturation of a counter.
LEMMA BumpStep ==
  ASSUME NEW n \in Nat, NEW hit, n < UINT32_MAX
  PROVE  (hit => Bump(n, hit) = n + 1) /\ (~hit => Bump(n, hit) = n)
  BY DEF Bump

\* What the windows leave of the counters counts the history.
LEMMA SeenTallies ==
  ASSUME TypeOK, Paced, NEW m \in Messages, Message(m), Tallies(hist, s)
  PROVE  Tallies(hist, Seen(m))
<1> DEFINE q == Seen(m)
<1>1. ShortSeen(s, q, now, win_short(m, Cfg))
  BY MessageFields
<1> SUFFICES Tallies(hist, q)
  OBVIOUS
<1> HIDE DEF q
<1>0. "content_same" \in CounterFields /\ "modified" \in CounterFields
  BY DEF CounterFields
<1>5. ASSUME SameCounts(s, q)
      PROVE  /\ \A f \in CounterFields \ {"modified"} : q[f] = s[f]
             /\ q.modified = s.modified /\ q.content_same = s.content_same
  BY <1>0, <1>5 DEF SameCounts
<1>2. CASE q.win_s = s.win_s /\ SameCounts(s, q)
  <2>1. /\ \A f \in CounterFields \ {"modified"} : q[f] = s[f]
        /\ q.modified = s.modified /\ q.content_same = s.content_same
    BY <1>2, <1>5
  <2> QED
    BY <1>2, <2>1, Zenon DEF Tallies
<1>3. CASE s.win_s = 0 /\ SameCounts(s, q)
  <2>1. hist = << >>
    BY <1>3, Zenon DEF Paced
  <2>2. DOMAIN hist = {}
    BY <2>1
  <2>3. \A t, f : Hits(hist, t, f) = {}
    BY <2>2, Zenon DEF Hits
  <2>4. /\ \A f \in CounterFields \ {"modified"} : q[f] = s[f]
        /\ q.modified = s.modified /\ q.content_same = s.content_same
    BY <1>3, <1>5
  <2> QED
    BY <2>3, <2>4, Zenon DEF Tallies
<1>4. CASE q.win_s = now /\ now - s.win_s >= win_short(m, Cfg) /\ \A f \in CounterFields : q[f] = 0
  <2>1. \A i \in DOMAIN hist : ~(hist[i].time >= now)
    BY <1>4, OldEntries
  <2>2. \A f : Hits(hist, now, f) = {}
    BY <2>1, Zenon DEF Hits
  <2>3. Cardinality({}) = 0 /\ 0 + 0 = 0
    BY FS_EmptySet
  <2>4. /\ \A f \in CounterFields \ {"modified"} : q[f] = 0
        /\ q.modified = 0 /\ q.content_same = 0
    BY <1>0, <1>4
  <2> QED
    BY <1>4, <2>2, <2>3, <2>4, Zenon DEF Tallies
<1> QED
  BY <1>1, <1>2, <1>3, <1>4, Zenon DEF ShortSeen

\* Counting m counts its entry.
LEMMA StepTallies ==
  ASSUME TypeOK, Paced, NEW m \in Messages, Message(m), Tallies(hist, s),
         MaxMsgs <= UINT32_MAX
  PROVE  Tallies(hist', s')
<1> DEFINE q == Seen(m)
           n == Len(hist)
           e == Entry(m)
           w == q.win_s
<1>1. Tallies(hist, q)
  BY SeenTallies
<1>2. /\ q \in Sessions /\ Counts(q, s', m.op, FlagsOf(m)) /\ s'.win_s = w
      /\ s' \in Sessions
  BY MessageFields
<1>3. /\ DOMAIN hist' = 1 .. n + 1
      /\ \A i \in 1 .. n : hist'[i] = hist[i]
      /\ hist'[n + 1] = e
  BY Longer
<1>4. /\ n \in Nat /\ DOMAIN hist = 1 .. n /\ now \in Nat /\ n < UINT32_MAX
  BY HistParts, UINT32Assumption, LifeAssumption DEF Message, LifeAssumption
<1>5. e.time >= w
  BY <1>2, FreshWindows, HistParts DEF Entry
<1> HIDE DEF e, w
<1>6. ASSUME NEW f
      PROVE  /\ Cardinality(Hits(hist, w, f)) \in 0 .. n
             /\ Is(f, e) => Cardinality(Hits(hist', w, f)) = Cardinality(Hits(hist, w, f)) + 1
             /\ ~Is(f, e) => Cardinality(Hits(hist', w, f)) = Cardinality(Hits(hist, w, f))
  <2> DEFINE A == Hits(hist, w, f)
             B == Hits(hist', w, f)
  <2>1. A \in SUBSET (1 .. n) /\ B \in SUBSET (1 .. n + 1)
    BY <1>3, <1>4, Zenon DEF Hits
  <2>2. \A i \in 1 .. n : i \in B <=> i \in A
    <3>1. \A i \in 1 .. n : i \in 1 .. n + 1
      BY <1>4
    <3> QED
      BY <1>3, <1>4, <3>1, Zenon DEF Hits
  <2>3. n + 1 \in B <=> Is(f, e)
    <3>1. n + 1 \in 1 .. n + 1
      BY <1>4
    <3> QED
      BY <1>3, <1>5, <3>1, Zenon DEF Hits
  <2> HIDE DEF A, B, n
  <2>4. /\ Cardinality(A) \in 0 .. n
        /\ n + 1 \in B => Cardinality(B) = Cardinality(A) + 1
        /\ n + 1 \notin B => Cardinality(B) = Cardinality(A)
    BY <1>4, <2>1, <2>2, CountStep
  <2> QED
    BY <2>3, <2>4, Zenon DEF A, B
<1>7. /\ e.msg = m /\ e.flags = FlagsOf(m)
      /\ e.retracts = Retracts(q, m.op, FlagsOf(m))
  BY DEF e, Entry
<1> HIDE DEF q, n
<1>11. /\ Is("rename", e) <=> e.msg.op = "RENAME"
       /\ Is("delete", e) <=> e.msg.op = "DELETE"
       /\ Is("ext_change", e) <=> e.msg.op = "RENAME" /\ "EXT_CHANGE" \in e.flags
       /\ Is("ransom_ext", e) <=> /\ e.msg.op \in WriteOps \/ e.msg.op = "RENAME"
                                  /\ "RANSOM_EXT" \in e.flags
       /\ Is("high_entropy", e) <=> "HIGH_ENTROPY" \in e.flags
       /\ Is("yara_match", e) <=> "YARA_MATCH" \in e.flags
       /\ Is("content_same", e) <=> e.retracts
       /\ Is("modified", e) <=> e.msg.op \in WriteOps /\ "RISKY" \in e.flags
  BY DEF Is
<1>12. /\ s'.rename = Bump(q.rename, Is("rename", e))
       /\ s'.delete = Bump(q.delete, Is("delete", e))
       /\ s'.ext_change = Bump(q.ext_change, Is("ext_change", e))
       /\ s'.ransom_ext = Bump(q.ransom_ext, Is("ransom_ext", e))
       /\ s'.high_entropy = Bump(q.high_entropy, Is("high_entropy", e))
       /\ s'.yara_match = Bump(q.yara_match, Is("yara_match", e))
       /\ s'.content_same = Bump(q.content_same, Is("content_same", e))
  BY <1>2, <1>7, <1>11, Zenon DEF Counts, Bump
<1>8. ASSUME NEW f \in CounterFields \ {"modified"}
      PROVE  s'[f] = Bump(q[f], Is(f, e))
  BY <1>8, <1>12, Zenon DEF CounterFields
<1>9. ASSUME NEW f \in CounterFields \ {"modified"}
      PROVE  s'[f] = Cardinality(Hits(hist', w, f))
  <2>1. q[f] = Cardinality(Hits(hist, w, f))
    BY <1>1, <1>9, Zenon DEF Tallies, w
  <2>2. q[f] \in 0 .. n
    BY <2>1, <1>6
  <2>3. q[f] \in Nat /\ q[f] < UINT32_MAX
    BY <2>2, <1>4, UINT32Assumption
  <2>4. s'[f] = Bump(q[f], Is(f, e))
    BY <1>8, <1>9
  <2>5. CASE Is(f, e)
    BY <2>1, <2>3, <2>4, <2>5, <1>6, BumpStep, Zenon
  <2>6. CASE ~Is(f, e)
    BY <2>1, <2>3, <2>4, <2>6, <1>6, BumpStep, Zenon
  <2> QED
    BY <2>5, <2>6
<1>10. s'.modified + s'.content_same = Cardinality(Hits(hist', w, "modified"))
  <2> DEFINE k == Cardinality(Hits(hist, w, "modified"))
  <2>1. q.modified + q.content_same = k
    BY <1>1, Zenon DEF Tallies, w
  <2>2. q.modified \in Nat /\ q.content_same \in Nat /\ s'.modified \in Nat
    BY <1>2, FieldsOf DEF CounterFields
  <2>3. k \in 0 .. n
    BY <1>6
  <2> HIDE DEF k
  <2>4. q.modified < UINT32_MAX /\ q.content_same < UINT32_MAX
    BY <1>4, <2>1, <2>2, <2>3, UINT32Assumption
  <2>5. CASE Retracts(q, m.op, FlagsOf(m))
    <3>1. /\ s'.modified = q.modified - 1
          /\ s'.content_same = Bump(q.content_same, TRUE) /\ q.modified > 0
      BY <1>2, <2>5 DEF Counts, Retracts
    <3>2. s'.content_same = q.content_same + 1
      BY <3>1, <2>2, <2>4, BumpStep
    <3>3. ~Is("modified", e)
      BY <1>7, <2>5 DEF Is, Retracts, WriteOps
    <3>4. Cardinality(Hits(hist', w, "modified")) = k
      BY <1>6, <3>3, Zenon DEF k
    <3>5. \A a, b \in Nat : (a - 1) + (b + 1) = a + b
      OBVIOUS
    <3>6. (q.modified - 1) + (q.content_same + 1) = q.modified + q.content_same
      BY <2>2, <3>5
    <3> QED
      BY <2>1, <3>1, <3>2, <3>4, <3>6, Zenon
  <2>6. CASE ~Retracts(q, m.op, FlagsOf(m))
    <3>1. /\ s'.modified = Bump(q.modified, m.op \in WriteOps /\ "RISKY" \in FlagsOf(m))
          /\ s'.content_same = Bump(q.content_same, Retracts(q, m.op, FlagsOf(m)))
      BY <1>2, <2>6, Zenon DEF Counts
    <3>2. s'.content_same = q.content_same
      BY <3>1, <2>2, <2>4, <2>6, BumpStep, Zenon
    <3>3. Is("modified", e) <=> m.op \in WriteOps /\ "RISKY" \in FlagsOf(m)
      BY <1>7, Zenon DEF Is
    <3>4. CASE Is("modified", e)
      <4>1. s'.modified = q.modified + 1
        BY <3>1, <3>3, <3>4, <2>2, <2>4, BumpStep, Zenon
      <4>2. Cardinality(Hits(hist', w, "modified")) = k + 1
        BY <1>6, <3>4, Zenon DEF k
      <4> QED
        BY <2>1, <2>2, <2>3, <3>2, <4>1, <4>2
    <3>5. CASE ~Is("modified", e)
      <4>1. s'.modified = q.modified
        BY <3>1, <3>3, <3>5, <2>2, <2>4, BumpStep, Zenon
      <4>2. Cardinality(Hits(hist', w, "modified")) = k
        BY <1>6, <3>5, Zenon DEF k
      <4> QED
        BY <2>1, <3>2, <4>1, <4>2
    <3> QED
      BY <3>4, <3>5
  <2> QED
    BY <2>5, <2>6
<1> QED
  BY <1>2, <1>9, <1>10, Zenon DEF Tallies

\* What the long window leaves of the directories are those of the history.
LEMMA SeenVisits ==
  ASSUME TypeOK, Paced, NEW m \in Messages, Message(m), Visits(hist, s)
  PROVE  Visits(hist, Seen(m))
<1> DEFINE q == Seen(m)
<1>1. LongSeen(s, q, now, win_long(m, Cfg))
  BY MessageFields
<1> SUFFICES Visits(hist, q)
  OBVIOUS
<1> HIDE DEF q
<1>2. CASE q.win_l = s.win_l /\ q.dirs = s.dirs
  BY <1>2, Zenon DEF Visits
<1>3. CASE s.win_l = 0 /\ q.dirs = s.dirs
  <2>1. hist = << >>
    BY <1>3, Zenon DEF Paced
  <2>2. DOMAIN hist = {}
    BY <2>1
  <2>3. \A t : DirsOf(hist, t) = {}
    BY <2>2, Zenon DEF DirsOf
  <2> QED
    BY <1>3, <2>3, Zenon DEF Visits
<1>4. CASE q.win_l = now /\ now - s.win_l >= win_long(m, Cfg) /\ q.dirs = {}
  <2>1. \A i \in DOMAIN hist : ~(hist[i].time >= now)
    BY <1>4, OldEntries
  <2>2. DirsOf(hist, now) = {}
    BY <2>1, Zenon DEF DirsOf
  <2> QED
    BY <1>4, <2>2, Zenon DEF Visits
<1> QED
  BY <1>1, <1>2, <1>3, <1>4, Zenon DEF LongSeen, SameLong

\* Adding the directory of m adds that of its entry.
LEMMA StepVisits ==
  ASSUME TypeOK, Paced, NEW m \in Messages, Message(m), Visits(hist, s)
  PROVE  Visits(hist', s')
<1> DEFINE q == Seen(m)
           n == Len(hist)
           e == Entry(m)
           w == q.win_l
           D == DirsOf(hist, w)
           new == {m.dir} \ {NoDir}
<1>1. Visits(hist, q)
  BY SeenVisits
<1>2. /\ q \in Sessions /\ s'.dirs = AddDir(q.dirs, m.dir) /\ s'.win_l = w
  BY MessageFields
<1>3. /\ DOMAIN hist' = 1 .. n + 1
      /\ \A i \in 1 .. n : hist'[i] = hist[i]
      /\ hist'[n + 1] = e
  BY Longer
<1>4. /\ n \in Nat /\ DOMAIN hist = 1 .. n
  BY HistParts
<1>5. e.time >= w /\ e.msg = m
  BY <1>2, FreshWindows, HistParts DEF Entry
<1> HIDE DEF e, w, n, q
<1>6. DirsOf(hist', w) = D \cup new
  <2>1. \A i \in DOMAIN hist' : i \in DOMAIN hist \/ i = n + 1
    BY <1>3, <1>4
  <2>2. \A i \in DOMAIN hist : i \in DOMAIN hist' /\ hist'[i] = hist[i]
    BY <1>3, <1>4
  <2>3. n + 1 \in DOMAIN hist'
    BY <1>3, <1>4
  <2>4. ASSUME NEW d \in DirsOf(hist', w) PROVE d \in D \cup new
    <3>1. PICK i \in DOMAIN hist' : hist'[i].time >= w /\ d = hist'[i].msg.dir /\ d # NoDir
      BY <2>4, Zenon DEF DirsOf
    <3>2. CASE i \in DOMAIN hist
      BY <2>2, <3>1, <3>2, Zenon DEF DirsOf
    <3>3. CASE i = n + 1
      BY <1>3, <1>5, <3>1, <3>3, Zenon
    <3> QED
      BY <2>1, <3>1, <3>2, <3>3, Zenon
  <2>5. ASSUME NEW d \in D PROVE d \in DirsOf(hist', w)
    <3>1. PICK i \in DOMAIN hist : hist[i].time >= w /\ d = hist[i].msg.dir /\ d # NoDir
      BY <2>5, Zenon DEF DirsOf
    <3> QED
      BY <2>2, <3>1, Zenon DEF DirsOf
  <2>6. ASSUME NEW d \in new PROVE d \in DirsOf(hist', w)
    <3>1. d = hist'[n + 1].msg.dir /\ hist'[n + 1].time >= w /\ d # NoDir
      BY <1>3, <1>5, <2>6, Zenon
    <3> QED
      BY <2>3, <3>1, Zenon DEF DirsOf
  <2> HIDE DEF D, new
  <2> QED
    BY <2>4, <2>5, <2>6, Zenon
<1>7. q.dirs \subseteq D /\ (Cardinality(q.dirs) < DIR_SET_MAX => q.dirs = D)
  BY <1>1, Zenon DEF Visits, w
<1>8. /\ q.dirs \in SUBSET Dirs /\ m.dir \in Dirs \cup {NoDir}
      /\ Cardinality(q.dirs) \in Nat /\ DIR_SET_MAX \in Nat
  BY <1>2, FieldsOf, DirsFinite, LifeAssumption, SessionAssumption
     DEF LifeAssumption, SessionAssumption
<1>9. /\ AddDir(q.dirs, m.dir) \subseteq D \cup new
  BY <1>7, Zenon DEF AddDir
<1>10. ASSUME Cardinality(AddDir(q.dirs, m.dir)) < DIR_SET_MAX
       PROVE  AddDir(q.dirs, m.dir) = D \cup new
  <2>1. Cardinality(AddDir(q.dirs, m.dir)) \in Cardinality(q.dirs) .. Cardinality(q.dirs) + 1
    BY <1>8, AddDirType
  <2>2. Cardinality(q.dirs) < DIR_SET_MAX /\ ~(Cardinality(q.dirs) >= DIR_SET_MAX)
    BY <1>8, <1>10, <2>1
  <2>3. q.dirs = D
    BY <1>7, <2>2
  <2>4. AddDir(D, m.dir) = IF m.dir = NoDir THEN D ELSE D \cup {m.dir}
    BY <2>2, <2>3, Zenon DEF AddDir
  <2> HIDE DEF D
  <2> QED
    BY <2>3, <2>4
<1> QED
  BY <1>2, <1>6, <1>9, <1>10, Zenon DEF Visits

\* The counters and the directories, step by step.
LEMMA StepCounters ==
  ASSUME TypeOK, Paced, CountersCountTheWindow, [Next]_vars, MaxMsgs <= UINT32_MAX
  PROVE  CountersCountTheWindow'
<1>1. Tallies(hist, s) /\ Visits(hist, s)
  BY TalliesMean
<1>2. CASE hist' = hist /\ s' = s
  BY <1>2 DEF CountersCountTheWindow, Since
<1>3. ASSUME NEW m \in Messages, Message(m) PROVE CountersCountTheWindow'
  <2>1. Tallies(hist', s') /\ Visits(hist', s')
    BY <1>1, <1>3, StepTallies, StepVisits
  <2>2. (CountersCountTheWindow <=> Tallies(hist, s) /\ Visits(hist, s))'
    BY TalliesMean, PTL
  <2> QED
    BY <2>1, <2>2, Zenon
<1> QED
  BY <1>2, <1>3 DEF Next, Tick, vars

\* Before the first message.
LEMMA InitCounters == Init => Paced /\ CountersCountTheWindow
<1> SUFFICES ASSUME Init PROVE Paced /\ CountersCountTheWindow
  OBVIOUS
<1>1. hist = << >> /\ s = NewSession(1)
  BY DEF Init
<1>2. DOMAIN hist = {}
  BY <1>1
<1>3. \A t, f : Hits(hist, t, f) = {} /\ DirsOf(hist, t) = {}
  BY <1>2, Zenon DEF Hits, DirsOf
<1>4. /\ \A f \in CounterFields : s[f] = 0
      /\ s.modified = 0 /\ s.content_same = 0 /\ s.dirs = {}
  BY <1>1 DEF NewSession, CounterFields
<1>5. Cardinality({}) = 0 /\ 0 + 0 = 0
  BY FS_EmptySet
<1>6. Tallies(hist, s) /\ Visits(hist, s)
  BY <1>3, <1>4, <1>5, Zenon DEF Tallies, Visits
<1>7. Paced
  BY <1>1, <1>2, Zenon DEF Paced
<1> QED
  BY <1>6, <1>7, TalliesMean

\* The invariant of a session's life.
LEMMA LifeAlways ==
  ASSUME MaxMsgs <= UINT32_MAX
  PROVE  Spec => [](TypeOK /\ Paced /\ CountersCountTheWindow)
<1>1. TypeOK /\ Paced /\ CountersCountTheWindow /\ [Next]_vars
        => (TypeOK /\ Paced /\ CountersCountTheWindow)'
  BY StepTypes, StepPaced, StepCounters
<1> QED
  BY <1>1, InitTypes, InitCounters, PTL DEF Spec

\* The counters count exactly the messages of the short window, and dirs
\* holds the directories of the long one, for any windows and any messages,
\* as long as there are no more of them than a uint32_t counts
\* (session_check_window, session_update).
THEOREM CountersAreRight ==
  ASSUME MaxMsgs <= UINT32_MAX
  PROVE  Spec => []CountersCountTheWindow
<1> QED
  BY LifeAlways, PTL

\* A message inside the window adds to the counters.
LEMMA MessageGrows ==
  ASSUME TypeOK, Paced, CountersCountTheWindow, MaxMsgs <= UINT32_MAX,
         NEW m \in Messages, Message(m), SameWindow
  PROVE  /\ Grown(Counters(s), Counters(s'))
         /\ s.modified + s.content_same <= UINT32_MAX
         /\ s'.modified + s'.content_same <= UINT32_MAX
<1> DEFINE q == Seen(m)
           n == Len(hist)
<1>1. /\ q \in Sessions /\ ShortSeen(s, q, now, win_short(m, Cfg))
      /\ LongSeen(s, q, now, win_long(m, Cfg))
      /\ s' \in Sessions /\ Counts(q, s', m.op, FlagsOf(m))
      /\ s'.dirs = AddDir(q.dirs, m.dir)
      /\ s'.win_s = q.win_s /\ s'.win_l = q.win_l
  BY MessageFields
<1>2. s \in Sessions
  BY DEF TypeOK, Sessions
<1>3. /\ n \in Nat /\ now \in Nat /\ now >= 1 /\ n < MaxMsgs
      /\ MaxMsgs \in Nat /\ UINT32_MAX \in Nat /\ n < UINT32_MAX
  BY HistParts, UINT32Assumption, LifeAssumption DEF Message, LifeAssumption
<1>4. /\ win_short(m, Cfg) \in Nat \ {0} /\ win_long(m, Cfg) \in Nat \ {0}
      /\ s.win_s \in Nat /\ s.win_l \in Nat
  BY <1>2, WindowLengths, FieldsOf
<1> HIDE DEF q, n
<1>5. SameCounts(s, q)
  <2>1. q.win_s = s.win_s
    BY <1>1 DEF SameWindow
  <2>2. ~(s.win_s # 0 /\ now - s.win_s >= win_short(m, Cfg) /\ q.win_s = now)
    BY <1>3, <1>4, <2>1
  <2> QED
    BY <1>1, <2>2, Zenon DEF ShortSeen
<1>6. q.dirs = s.dirs
  <2>1. q.win_l = s.win_l
    BY <1>1 DEF SameWindow
  <2>2. ~(s.win_l # 0 /\ now - s.win_l >= win_long(m, Cfg) /\ q.win_l = now)
    BY <1>3, <1>4, <2>1
  <2> QED
    BY <1>1, <2>2, Zenon DEF LongSeen, SameLong
<1>7. /\ q.modified = s.modified /\ q.content_same = s.content_same
      /\ q.rename = s.rename /\ q.delete = s.delete /\ q.ext_change = s.ext_change
      /\ q.ransom_ext = s.ransom_ext /\ q.high_entropy = s.high_entropy
      /\ q.yara_match = s.yara_match
  BY <1>5 DEF SameCounts, CounterFields
<1>8. /\ s.modified \in Nat /\ s.content_same \in Nat
      /\ s.rename \in Nat /\ s.delete \in Nat /\ s.ext_change \in Nat
      /\ s.ransom_ext \in Nat /\ s.high_entropy \in Nat
      /\ s.yara_match \in Nat
  BY <1>2, FieldsOf DEF CounterFields
<1>9. s.modified + s.content_same <= n
  <2>1. s.modified + s.content_same = Cardinality(Hits(hist, s.win_s, "modified"))
    BY TalliesMean DEF Tallies
  <2>2. Hits(hist, s.win_s, "modified") \in SUBSET (1 .. n)
    BY HistParts, Zenon DEF Hits, n
  <2>3. Cardinality(Hits(hist, s.win_s, "modified")) <= n
    <3>1. IsFiniteSet(1 .. n) /\ Cardinality(1 .. n) = n
      BY <1>3, FS_Interval
    <3> QED
      BY <2>2, <3>1, FS_Subset
  <2> QED
    BY <2>1, <2>3
<1>10. \A k \in Nat : \A hit : k <= Bump(k, hit) /\ Bump(k, hit) <= k + 1 /\ Bump(k, hit) \in Nat
  BY DEF Bump
<1>11. ~Retracts(q, m.op, FlagsOf(m))
  <2>1. SUFFICES ASSUME Retracts(q, m.op, FlagsOf(m)) PROVE FALSE
    OBVIOUS
  <2>2. s'.content_same = Bump(s.content_same, Retracts(q, m.op, FlagsOf(m)))
    BY <1>1, <1>7, Zenon DEF Counts
  <2>3. s.content_same < UINT32_MAX
    BY <1>3, <1>8, <1>9
  <2>4. s'.content_same = s.content_same + 1
    BY <1>8, <2>1, <2>2, <2>3, BumpStep, Zenon
  <2> QED
    BY <1>8, <2>4 DEF SameWindow
<1>12. s.modified <= s'.modified /\ s'.modified <= s.modified + 1 /\ s'.modified \in Nat
  <2>1. s'.modified = Bump(s.modified, m.op \in WriteOps /\ "RISKY" \in FlagsOf(m))
    BY <1>1, <1>7, <1>11, Zenon DEF Counts
  <2> QED
    BY <1>8, <1>10, <2>1
<1>13. /\ s.rename <= s'.rename /\ s.delete <= s'.delete /\ s.ext_change <= s'.ext_change
       /\ s.ransom_ext <= s'.ransom_ext /\ s.high_entropy <= s'.high_entropy
       /\ s.yara_match <= s'.yara_match
  <2>1. /\ \E hit : s'.rename = Bump(s.rename, hit)
        /\ \E hit : s'.delete = Bump(s.delete, hit)
        /\ \E hit : s'.ext_change = Bump(s.ext_change, hit)
        /\ \E hit : s'.ransom_ext = Bump(s.ransom_ext, hit)
        /\ \E hit : s'.high_entropy = Bump(s.high_entropy, hit)
        /\ \E hit : s'.yara_match = Bump(s.yara_match, hit)
    BY <1>1, <1>7, Zenon DEF Counts
  <2> QED
    BY <1>8, <1>10, <2>1
<1>14. Cardinality(s.dirs) <= Cardinality(s'.dirs)
  <2>1. s.dirs \in SUBSET Dirs /\ m.dir \in Dirs \cup {NoDir}
    BY <1>2, FieldsOf, LifeAssumption DEF LifeAssumption
  <2> QED
    BY <1>1, <1>6, <2>1, AddDirType, Zenon
<1>15. s'.content_same = s.content_same
  BY DEF SameWindow
<1>16. Grown(Counters(s), Counters(s'))
  BY <1>12, <1>13, <1>14, <1>15 DEF Grown, Counters
<1> QED
  BY <1>3, <1>8, <1>9, <1>12, <1>15, <1>16

\* Inside a window more activity never makes a session look safer, under
\* settings that leave the caps of scorer_calculate their meaning: sessions
\* that only delete (capped at 60) may be HIGH, and content signals alone do
\* not make a session critical.  The defaults of config_load are such
\* settings; config_load accepts others.
THEOREM ActivityNeverSafer ==
  ASSUME MaxMsgs <= UINT32_MAX,
         Cfg.scoring.thresholds.high <= 60,
         Cfg.scoring.weights.high_entropy + Cfg.scoring.weights.yara_match
            < Cfg.scoring.thresholds.critical
  PROVE  Spec => MoreActivityNeverSafer
<1> DEFINE A == SameWindow => Level(Counters(s'), Cfg.scoring) >= Level(Counters(s), Cfg.scoring)
           I == TypeOK /\ Paced /\ CountersCountTheWindow
<1>1. ASSUME I, [Next]_vars PROVE [A]_vars
  <2>0. s \in Sessions /\ Cfg.scoring \in Scoring /\ ValidScoring(Cfg.scoring)
    BY <1>1, LifeAssumption DEF TypeOK, Sessions, LifeAssumption
  <2>1. Level(Counters(s), Cfg.scoring) \in Int
    BY <2>0, CountersType, ScoreType DEF RiskLevels, RISK_NORMAL, RISK_CRITICAL
  <2>2. ASSUME NEW m \in Messages, Message(m), SameWindow
        PROVE  Level(Counters(s'), Cfg.scoring) >= Level(Counters(s), Cfg.scoring)
    <3>1. /\ Grown(Counters(s), Counters(s'))
          /\ s.modified + s.content_same <= UINT32_MAX
          /\ s'.modified + s'.content_same <= UINT32_MAX
      BY <1>1, <2>2, MessageGrows
    <3>2. s' \in Sessions
      BY <1>1, <2>2, MessageFields
    <3>3. IsCounts(Counters(s)) /\ IsCounts(Counters(s'))
      BY <2>0, <3>2, CountersType
    <3>4. /\ Counters(s).modified + Counters(s).content_same <= UINT32_MAX
          /\ Counters(s').modified + Counters(s').content_same <= UINT32_MAX
      BY <3>1 DEF Counters
    <3>5. Level(Counters(s), Cfg.scoring) <= Level(Counters(s'), Cfg.scoring)
      BY <2>0, <3>1, <3>3, <3>4, LevelGrows
    <3>6. Level(Counters(s'), Cfg.scoring) \in Int
      BY <2>0, <3>3, ScoreType DEF RiskLevels, RISK_NORMAL, RISK_CRITICAL
    <3> QED
      BY <2>1, <3>5, <3>6
  <2>3. CASE s' = s
    BY <2>1, <2>3
  <2> QED
    BY <1>1, <2>2, <2>3 DEF Next, Tick, vars
<1> QED
  BY <1>1, LifeAlways, PTL DEF Spec, MoreActivityNeverSafer
=============================================================================
