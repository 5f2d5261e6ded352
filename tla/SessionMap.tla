----------------------------- MODULE SessionMap -----------------------------
(***************************************************************************)
(* What the session table promises its callers (gfrguardd_session.h): a    *)
(* bounded map from session keys to sessions in which a lookup finds or    *)
(* creates, a full map gives up its least recently seen session that is    *)
(* not blocked, and a lookup fails only when every session is blocked.     *)
(* Module Daemon uses the table in this form; SessionTable implements it.  *)
(***************************************************************************)
EXTENDS Session

CONSTANTS Keys,       \* session keys
          MaxTime     \* bound on the clock

VARIABLES map, now

mapVars == <<map, now>>

MapInit == map = <<>> /\ now = 1

\* session_find_or_create, whoever calls it; the caller may go on to block
\* the session it was given.
MapLookup(k, block) ==
    /\ \E m \in session_find_or_create(map, k, now) :
          map' = [m EXCEPT ![k].is_blocked = @ \/ block]
    /\ UNCHANGED now

MapTick == /\ now < MaxTime
           /\ now' = now + 1
           /\ UNCHANGED map

\* session_cleanup and the zeroed table of the next start
MapClear == map' = <<>> /\ UNCHANGED now

MapNext == \/ \E k \in Keys, block \in BOOLEAN : MapLookup(k, block)
           \/ MapTick
           \/ MapClear

MapSpec == MapInit /\ [][MapNext]_mapVars
=============================================================================
