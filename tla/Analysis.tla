------------------------------ MODULE Analysis ------------------------------
(***************************************************************************)
(* What process_msg (gfrguardd_main.c) does to a session between looking   *)
(* it up and acting on its risk level: content analysis, windows, counters *)
(* and the score.  Pure operators on                                       *)
(*                                                                         *)
(*  - a message m: src, user, ip, op, flags, file, dir, the extension ext  *)
(*    of the file and new_ext of the new name ("" for none), and content,  *)
(*    the flags a scan of the file would raise now;                        *)
(*  - a session s (module Session);                                        *)
(*  - the settings cfg: ransom_exts, entropy_enabled, yara_enabled,        *)
(*    windows and scoring.                                                 *)
(*                                                                         *)
(* Every message names a file: all senders fill in file_path.              *)
(***************************************************************************)
EXTENDS Session

\* source_type; LEGACY is 0, a VFS module from before the field existed.
Sources == {"SMB", "CLOUD_SYNC", "FTP", "HOST", "LEGACY"}

NoExt == ""

ExtFlags(m, cfg) ==
    LET changed == m.op = "RENAME" /\ m.ext # m.new_ext
        ransom  == \/ changed /\ m.new_ext \in cfg.ransom_exts
                   \/ "NEW_FILE" \in m.flags /\ m.ext \in cfg.ransom_exts
    IN  (IF changed THEN {"EXT_CHANGE"} ELSE {})
        \cup (IF ransom THEN {"RANSOM_EXT"} ELSE {})

\* A session that already hit is not scanned again.
EntropyRuns(m, s, cfg) ==
    /\ cfg.entropy_enabled
    /\ s.high_entropy = 0
    /\ "BACKED_UP" \in m.flags /\ m.op \in WriteOps

YaraRuns(m, s, cfg) ==
    /\ cfg.yara_enabled
    /\ m.op = "CLOSE"
    /\ s.yara_match = 0

ContentFlags(m, s, cfg) ==
    m.content \cap ((IF EntropyRuns(m, s, cfg) THEN {"HIGH_ENTROPY"} ELSE {})
                    \cup (IF YaraRuns(m, s, cfg) THEN {"YARA_MATCH"} ELSE {}))

analysis_flags(m, s, cfg) ==
    m.flags \cup ExtFlags(m, cfg) \cup ContentFlags(m, s, cfg)

\* The cloud channel has windows of its own.
win_short(m, cfg) == IF m.src = "CLOUD_SYNC" THEN cfg.windows.cloud_short
                                             ELSE cfg.windows.short
win_long(m, cfg)  == IF m.src = "CLOUD_SYNC" THEN cfg.windows.cloud_long
                                             ELSE cfg.windows.long

\* Plain opens and writes wait for their CLOSE before they are scored.
defer_score(op, flags) ==
    /\ op \in WriteOps
    /\ flags \cap {"RANSOM_EXT", "HIGH_ENTROPY", "YARA_MATCH"} = {}

\* The windows see the message before it is counted, but after the scans.
Counted(m, s, cfg, now) ==
    session_update(
        session_check_window(s, now, win_short(m, cfg), win_long(m, cfg)),
        m.op, analysis_flags(m, s, cfg), m.dir)

Analysed(m, s, cfg, now) ==
    LET counted == Counted(m, s, cfg, now)
    IN  IF defer_score(m.op, analysis_flags(m, s, cfg)) THEN counted
        ELSE scorer_calculate(counted, cfg.scoring)
=============================================================================
