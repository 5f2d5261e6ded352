------------------------------- MODULE Scorer -------------------------------
(***************************************************************************)
(* The risk score of a session (gfrguardd_scorer.c, scorer_calculate): a   *)
(* weighted sum of the session's counters, then the caps that keep false   *)
(* positives down, then the risk level.  Everything here is a pure         *)
(* operator on a record c of counters and the scoring part sc of the       *)
(* policy.                                                                 *)
(***************************************************************************)
EXTENDS Integers, FiniteSets

CONSTANT UINT32_MAX    \* largest value of a uint32_t counter

ASSUME UINT32Assumption == UINT32_MAX \in Nat \ {0}

\* enum risk_level
RISK_NORMAL     == 0
RISK_SUSPICIOUS == 1
RISK_HIGH       == 2
RISK_CRITICAL   == 3
RiskLevels      == RISK_NORMAL .. RISK_CRITICAL

\* Arithmetic on uint32_t operands.
U32(n) == n % (UINT32_MAX + 1)

clamp100(v) == IF v < 0 THEN 0 ELSE IF v > 100 THEN 100 ELSE v

CappedAt(v, cap) == IF v > cap THEN cap ELSE v

Once(n) == IF n > 0 THEN 1 ELSE 0

\* Content signals count once per session, behaviour counts every time.
WeightedSum(c, w) ==
      c.modified   * w.modified
    + c.rename     * w.rename
    + c.delete     * w.delete
    + c.dirs       * w.dirs
    + c.ext_change * w.ext_change
    + c.ransom_ext * w.ransom_ext
    + Once(c.high_entropy) * w.high_entropy
    + Once(c.yara_match)   * w.yara_match

\* Overwrites with identical content: 80% of them void the score, 50% keep
\* it below the warning threshold.
PctSame(c) ==
    U32(c.content_same * 100) \div U32(c.modified + c.content_same)

ContentSameCap(c, t, score) ==
    IF c.content_same = 0 \/ U32(c.modified + c.content_same) = 0 THEN score
    ELSE IF PctSame(c) >= 80 THEN 0
    ELSE IF PctSame(c) >= 50 THEN CappedAt(score, t.warn - 1)
    ELSE score

\* Mutant: any deletion makes a session "delete only".
DeleteOnly_Loose(c) == c.delete > 0

DeleteOnly(c) ==
    /\ c.delete > 0
    /\ \A n \in {c.modified, c.rename, c.ext_change, c.ransom_ext,
                 c.high_entropy, c.yara_match} : n = 0

DeleteOnlyCap(c, score) == IF DeleteOnly(c) THEN CappedAt(score, 60) ELSE score

\* The behavioural dimensions a session has used.
Dims(c) == Once(c.modified) + Once(c.rename) + Once(c.delete)
           + Once(c.dirs) + Once(c.ext_change)

SingleDimCap(c, t, score) ==
    IF Dims(c) = 1 /\ c.ransom_ext = 0
    THEN CappedAt(score, t.critical - 1)
    ELSE score

\* scorer_calculate: s->risk_score
RiskScore(c, sc) ==
    LET t      == sc.thresholds
        summed == ContentSameCap(c, t, WeightedSum(c, sc.weights))
    IN  SingleDimCap(c, t, DeleteOnlyCap(c, clamp100(summed)))

\* scorer_calculate: s->risk_level
RiskLevel(score, t) ==
    IF      score >= t.critical THEN RISK_CRITICAL
    ELSE IF score >= t.high     THEN RISK_HIGH
    ELSE IF score >= t.warn     THEN RISK_SUSPICIOUS
    ELSE RISK_NORMAL

Level(c, sc) == RiskLevel(RiskScore(c, sc), sc.thresholds)

\* The scoring part of policy.json: numbers.
Scoring == [weights : [{"modified", "rename", "delete", "dirs", "ext_change",
                        "ransom_ext", "high_entropy", "yara_match"} -> Int],
            thresholds : [warn : Int, high : Int, critical : Int]]

\* What config_load accepts (H13): ordered thresholds within 1..100 and no
\* negative weight.
ValidScoring(sc) ==
    /\ 1 <= sc.thresholds.warn
    /\ sc.thresholds.warn < sc.thresholds.high
    /\ sc.thresholds.high < sc.thresholds.critical
    /\ sc.thresholds.critical <= 100
    /\ \A k \in DOMAIN sc.weights : sc.weights[k] >= 0
=============================================================================
