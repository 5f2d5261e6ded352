--------------------------- MODULE MCSessionLife ----------------------------
(***************************************************************************)
(* SessionLife for TLC: eight kinds of message over three directories,     *)
(* windows of 2 and 3 seconds so that they roll apart, and weights under   *)
(* which two or three operations decide.                                   *)
(***************************************************************************)
EXTENDS SessionLife

Msg(op, flags, dir, ext, new_ext, content) ==
    [src |-> "SMB", user |-> "u", ip |-> "ip1", op |-> op, flags |-> flags,
     file |-> "f", dir |-> dir, ext |-> ext, new_ext |-> new_ext,
     content |-> content]

MCMessages ==
    {Msg("OPEN", {"RISKY", "BACKED_UP"}, "d1", ".doc", NoExt, {"HIGH_ENTROPY"}),
     Msg("WRITE", {"RISKY"}, "d2", ".doc", NoExt, {}),
     Msg("OPEN", {"NEW_FILE"}, "d1", ".locked", NoExt, {}),
     Msg("RENAME", {}, "d1", ".doc", ".locked", {}),
     Msg("RENAME", {}, NoDir, ".doc", ".doc", {}),
     Msg("DELETE", {"BACKED_UP"}, NoDir, ".doc", NoExt, {}),
     Msg("CLOSE", {"CONTENT_SAME"}, "d1", ".doc", NoExt, {}),
     Msg("CLOSE", {}, "d3", ".doc", NoExt, {"YARA_MATCH"})}

MCScoring ==
    [weights |-> [modified |-> 30, rename |-> 30, delete |-> 35, dirs |-> 10,
                  ext_change |-> 20, ransom_ext |-> 20, high_entropy |-> 8,
                  yara_match |-> 40],
     thresholds |-> [warn |-> 30, high |-> 50, critical |-> 80]]

MCCfg ==
    [ransom_exts |-> {".locked"}, entropy_enabled |-> TRUE,
     yara_enabled |-> TRUE, scoring |-> MCScoring,
     windows |-> [short |-> 2, long |-> 3, cloud_short |-> 4, cloud_long |-> 5]]
=============================================================================
