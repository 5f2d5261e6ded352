---------------------------- MODULE SessionLife -----------------------------
(***************************************************************************)
(* The life of one session under a stream of messages: the part of         *)
(* process_msg that windows, counts and scores it (module Analysis), with  *)
(* the messages so far kept as history, so that the counters can be        *)
(* compared with what they are meant to count.                             *)
(***************************************************************************)
EXTENDS Analysis, Sequences

CONSTANTS Messages,     \* the messages the session may send
          Cfg,          \* the settings in force
          MaxMsgs,      \* bound on the messages of a behaviour
          MaxTime       \* bound on the clock, in seconds from 1

ASSUME LifeAssumption ==
    /\ MaxMsgs \in Nat /\ MaxTime \in Nat \ {0}
    /\ Cfg.scoring \in Scoring /\ ValidScoring(Cfg.scoring)
    /\ {Cfg.windows.short, Cfg.windows.long,
        Cfg.windows.cloud_short, Cfg.windows.cloud_long} \subseteq Nat \ {0}
    /\ \A m \in Messages : m.dir \in Dirs \cup {NoDir} /\ m.flags \subseteq Flags
       \* A task of the cloud channel has a session key of its own.
    /\ \A m, n \in Messages : m.src = "CLOUD_SYNC" <=> n.src = "CLOUD_SYNC"

VARIABLES s,      \* the session
          now,    \* the clock: time(NULL)
          hist    \* the messages processed, with their time and flags

vars == <<s, now, hist>>

Init == /\ now = 1
        /\ s = NewSession(now)
        /\ hist = <<>>

\* One message of the session reaches the main thread.
Message(m) ==
    /\ Len(hist) < MaxMsgs
    /\ s' = [Analysed(m, s, Cfg, now) EXCEPT !.last_seen = now]
    /\ hist' = Append(hist, [msg   |-> m,
                             time  |-> now,
                             flags |-> analysis_flags(m, s, Cfg),
                             retracts |->
                                 Retracts(session_check_window(s, now,
                                            win_short(m, Cfg), win_long(m, Cfg)),
                                          m.op, m.flags)])
    /\ UNCHANGED now

Tick == /\ now < MaxTime
        /\ now' = now + 1
        /\ UNCHANGED <<s, hist>>

Next == Tick \/ \E m \in Messages : Message(m)

Spec == Init /\ [][Next]_vars
-----------------------------------------------------------------------------
CounterFields == {"modified", "rename", "delete", "ext_change", "ransom_ext",
                  "high_entropy", "yara_match", "content_same"}

(* The shape of a session record, its counters within uint32_t and its     *)
(* directory set within DIR_SET_MAX (struct session_state).                *)
TypeOK ==
    /\ now \in 1 .. MaxTime
    /\ s \in SessionRecords({NoEvent})
    /\ \A f \in CounterFields : s[f] <= UINT32_MAX
    /\ Cardinality(s.dirs) <= DIR_SET_MAX
    /\ s.risk_score <= 100
    /\ s.win_s <= now /\ s.win_l <= now /\ s.last_seen \in 1 .. now
    /\ hist \in Seq([msg : Messages, time : 1 .. now,
                     flags : SUBSET Flags, retracts : BOOLEAN])
    /\ Len(hist) <= MaxMsgs

\* The messages seen since time t, as indices of hist, that satisfy P.
Since(t, P(_)) == {i \in DOMAIN hist : hist[i].time >= t /\ P(hist[i])}

(* The counters count exactly the messages of the current short window and *)
(* dirs holds exactly the directories of the current long one: a window    *)
(* that rolls in the middle of a burst neither loses a message nor counts  *)
(* one twice (session_check_window before session_update).                 *)
CountersCountTheWindow ==
    LET Writes(h)   == h.msg.op \in WriteOps
        InShort(P(_)) == Cardinality(Since(s.win_s, P))
        Seen        == {hist[i].msg.dir : i \in Since(s.win_l, LAMBDA h : TRUE)}
    IN  /\ s.rename = InShort(LAMBDA h : h.msg.op = "RENAME")
        /\ s.delete = InShort(LAMBDA h : h.msg.op = "DELETE")
        /\ s.ext_change = InShort(LAMBDA h : /\ h.msg.op = "RENAME"
                                             /\ "EXT_CHANGE" \in h.flags)
        /\ s.ransom_ext = InShort(LAMBDA h : /\ h.msg.op \in WriteOps \cup {"RENAME"}
                                             /\ "RANSOM_EXT" \in h.flags)
        /\ s.high_entropy = InShort(LAMBDA h : "HIGH_ENTROPY" \in h.flags)
        /\ s.yara_match = InShort(LAMBDA h : "YARA_MATCH" \in h.flags)
        /\ s.content_same = InShort(LAMBDA h : h.retracts)
        /\ s.modified + s.content_same =
               InShort(LAMBDA h : Writes(h) /\ "RISKY" \in h.flags)
        /\ s.dirs \subseteq Seen \ {NoDir}
        /\ Cardinality(s.dirs) < DIR_SET_MAX => s.dirs = Seen \ {NoDir}

\* Neither window rolled and nothing was retracted in this step.
SameWindow == /\ s'.win_s = s.win_s /\ s'.win_l = s.win_l
              /\ s'.content_same = s.content_same

(* Inside a window more activity never makes a session look safer: no      *)
(* combination of the caps in scorer_calculate turns an additional         *)
(* operation into a lower level.                                           *)
MoreActivityNeverSafer ==
    [][SameWindow => Level(Counters(s'), Cfg.scoring)
                         >= Level(Counters(s), Cfg.scoring)]_vars

(* A message is scored only against activity of the last window_short      *)
(* seconds, and its directories and event of the last window_long: both    *)
(* windows are younger than their length right after it, whatever the      *)
(* silence before it.                                                      *)
ScoredOnFreshActivity ==
    [][hist' # hist =>
           LET m == hist'[Len(hist')].msg
           IN  /\ now - s'.win_s < win_short(m, Cfg)
               /\ now - s'.win_l < win_long(m, Cfg)]_vars
=============================================================================
