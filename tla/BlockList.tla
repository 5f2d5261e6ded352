----------------------------- MODULE BlockList ------------------------------
(***************************************************************************)
(* What the blocked file promises the programs that share it: a set of     *)
(* addresses on which each request takes effect at once and once, or not   *)
(* at all, also when its process is killed or a call fails.                *)
(*                                                                         *)
(* The promise binds the programs that take the lock.  While one that does *)
(* not is writing (unlocked), anything may happen to the set and to the    *)
(* answers.  Module BlockedFile implements this.                           *)
(***************************************************************************)
EXTENDS Sequences

CONSTANTS IPs,        \* addresses
          Writers,    \* processes that take the lock
          Requests,   \* the requests each of them may make
          Idle

VARIABLES lines,      \* the addresses listed
          ops,        \* writer -> its request and the answer, or Idle
          unlocked    \* a writer without the lock is, or was, in the way

listVars == <<lines, ops, unlocked>>

\* blocker_execute adds, blocker_unblock removes, blocker_sync_blacklist
\* replaces; a daemon that starts does the latter.
Effect(r, S) ==
    CASE r.op = "execute" -> S \cup {r.arg}
      [] r.op = "unblock" -> S \ {r.arg}
      [] r.op \in {"sync", "start"} -> {r.arg[i] : i \in DOMAIN r.arg}

\* blocker_unblock says whether there was such a line.
Answer(r, S) == IF r.op = "unblock" /\ r.arg \notin S THEN "absent" ELSE "ok"

Answers == {"pending", "ok", "absent", "err"}

Op(r, rc) == [req |-> r, rc |-> rc]

OpStates(p) == {Idle} \cup {Op(r, rc) : r \in Requests[p], rc \in Answers}

Pending(p) == ops[p] # Idle /\ ops[p].rc = "pending"

ListInit == /\ lines = {}
            /\ ops = [p \in Writers |-> Idle]
            /\ unlocked = FALSE

Invoke(p, r) == /\ ops[p] = Idle
                /\ ops' = [ops EXCEPT ![p] = Op(r, "pending")]
                /\ UNCHANGED lines

\* The request takes effect.
Apply(p) == /\ Pending(p)
            /\ lines' = Effect(ops[p].req, lines)
            /\ ops' = [ops EXCEPT ![p].rc = Answer(ops[p].req, lines)]

\* The request fails and leaves no trace.
Fail(p) == /\ Pending(p)
           /\ ops' = [ops EXCEPT ![p].rc = "err"]
           /\ UNCHANGED lines

\* The caller gets its answer; or its process is killed, whether the
\* request has taken effect or not.
Finish(p) == /\ ops[p] # Idle
             /\ ops' = [ops EXCEPT ![p] = Idle]
             /\ UNCHANGED lines

\* A writer without the lock comes or goes.
Trespass == UNCHANGED <<lines, ops>>

\* It is there: nothing is promised.
Interfered == /\ unlocked
              /\ lines' \in SUBSET IPs
              /\ \A p \in Writers : ops'[p] \in OpStates(p)

ListNext ==
    /\ unlocked' \in BOOLEAN
    /\ \/ \E p \in Writers :
             \/ \E r \in Requests[p] : Invoke(p, r)
             \/ Apply(p) \/ Fail(p) \/ Finish(p)
       \/ Trespass
       \/ Interfered

ListSpec == ListInit /\ [][ListNext]_listVars
=============================================================================
