----------------------------- MODULE MCFanotify -----------------------------
(***************************************************************************)
(* Fanotify for TLC: one monitored path and a directory below it, with a   *)
(* file in each.  On the first file the clients' session and the daemon's  *)
(* share a bucket of the gate.                                             *)
(***************************************************************************)
EXTENDS Fanotify, TLC

Tree     == "top" :> {"top"} @@ "sub" :> {"top", "sub"}
Places   == "f" :> "top" @@ "g" :> "sub"
OneRoot  == "c" :> "top"
Ftp      == "c" :> "ftp"
Cloud    == "c" :> "cloud"
Identity == [p \in Clients \cup {Main} |-> IF p = Main THEN "daemon" ELSE "client"]
Buckets  == [k \in Keys |-> IF k[2] = "f" THEN 1 ELSE IF k[1] = "client" THEN 2 ELSE 3]
Windows  == "c" :> 1

Plain     == [chans |-> {"c"}, listed |-> {}]
AnyPolicy == {Plain, [Plain EXCEPT !.chans = {}], [Plain EXCEPT !.listed = {"client"}]}
=============================================================================
