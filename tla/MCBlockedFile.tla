--------------------------- MODULE MCBlockedFile ----------------------------
(***************************************************************************)
(* BlockedFile for TLC: the daemon, a gfrguard-recover, one console        *)
(* request and one smbd worker over three addresses.                       *)
(***************************************************************************)
EXTENDS BlockedFile

Ask(op, arg) == [op |-> op, arg |-> arg]

MCRequests ==
    [p \in Procs |->
        CASE p = "daemon"  -> {Ask("execute", "ip1"), Ask("start", <<"ip2", "ip3">>)}
          [] p = "recover" -> {Ask("unblock", "ip2")}
          [] p = "console" -> {Ask("remove", "ip2")}]
=============================================================================
