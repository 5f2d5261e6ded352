------------------------------ MODULE MCDaemon ------------------------------
(***************************************************************************)
(* Daemon for TLC.  Each run picks the messages, the settings and the      *)
(* failures that its question is about; clock and windows are scaled down  *)
(* (2 and 3 ticks for the 10 and 30 seconds, so that they roll apart), and *)
(* two operations of a kind decide instead of a dozen.                     *)
(***************************************************************************)
EXTENDS Daemon

Msg(src, user, ip, op, flags, file, ext, new_ext) ==
    [src |-> src, user |-> user, ip |-> ip, op |-> op, flags |-> flags,
     file |-> file, dir |-> "d1", ext |-> ext, new_ext |-> new_ext,
     content |-> {}]

\* A backed up open, a created file, and a rename to a ransomware extension.
Write(src, user, ip)  == Msg(src, user, ip, "OPEN", {"RISKY", "BACKED_UP"},
                             "f1", ".doc", NoExt)
Create(src, user, ip) == Msg(src, user, ip, "OPEN", {"NEW_FILE"},
                             "f2", ".doc", NoExt)
Encrypt(src, user, ip) == Msg(src, user, ip, "RENAME", {},
                              "f1", ".doc", ".locked")

Default ==
    [enabled |-> TRUE, sources |-> Sources \ {"LEGACY"}, all_exts |-> TRUE,
     exts |-> {}, exceptions |-> {}, wl_users |-> {}, wl_ips |-> {},
     bl_users |-> {}, ransom_exts |-> {".locked"}, entropy_enabled |-> TRUE,
     yara_enabled |-> TRUE, auto_restore |-> TRUE,
     windows |-> [short |-> 2, long |-> 3, cloud_short |-> 4, cloud_long |-> 5],
     scoring |->
        [weights |-> [modified |-> 20, rename |-> 20, delete |-> 20, dirs |-> 10,
                      ext_change |-> 10, ransom_ext |-> 20, high_entropy |-> 8,
                      yara_match |-> 40],
         thresholds |-> [warn |-> 30, high |-> 60, critical |-> 80]]]

\* One operation decides.
Strict     == [Default EXCEPT !.scoring.thresholds = [warn |-> 30, high |-> 50, critical |-> 60]]
Jumpy      == [Strict EXCEPT !.scoring.weights.ransom_ext = 50,
                             !.windows.short = 1, !.windows.long = 2]
NoFtp      == [Strict EXCEPT !.bl_users = {"u2"}, !.sources = @ \ {"FTP"}]

Plain(cfg)        == [cfg |-> cfg, ips |-> <<>>]
WithIps(cfg, ips) == [cfg |-> cfg, ips |-> ips]
Manual(e)         == [ip |-> e, auto |-> FALSE]

NoCover == {}
NetCover == {<<"net", "ip2">>}

\* Evidence: two attackers and a bystander without an address over two
\* slots, through windows, days and restarts.
Drop(src, user, ip) == [Create(src, user, ip) EXCEPT !.ext = ".locked"]
EvidenceMessages == {Drop("SMB", "u1", "ip1"), Drop("FTP", "u2", "ip2"),
                     Write("HOST", "u3", "pid")}
EvidenceFirst    == Plain(Jumpy)

\* Lists: a listed user, a listed address and a switched-off channel come by
\* an edit of policy.json; the console adds a network and removes an address.
ListMessages == {Encrypt("SMB", "u1", "ip1"), Encrypt("SMB", "u2", "ip1"),
                 Encrypt("FTP", "u2", "ip2")}
ListSettings == {Strict, NoFtp}
ListFirst    == Plain(Strict)
ListEdits    == {WithIps(NoFtp, <<Manual("ip1")>>)}
ListForms    == {[op |-> "add_ip", arg |-> "net"], [op |-> "remove_ip", arg |-> "ip1"]}

JumpyOnly   == {Jumpy}
=============================================================================
