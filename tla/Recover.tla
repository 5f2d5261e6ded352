------------------------------- MODULE Recover ------------------------------
(***************************************************************************)
(* gfrguard-recover restore --event (gfrguard_recover.c): the files an     *)
(* event created go to the quarantine, the files it changed come back from *)
(* the store.  The daemon starts it after a verdict and an administrator   *)
(* may start it as well, so several may run at once; the web server kills  *)
(* one that takes too long (web/app.py, restore_event), and the daemon's   *)
(* transactions may make its own fail.                                     *)
(*                                                                         *)
(* What clients do meanwhile is taken in one step each: module Vfs has its *)
(* details.  A file's content is Orig, what it was before any event, Bad,  *)
(* or the torn file a copy by process p has begun.                         *)
(***************************************************************************)
EXTENDS Integers

CONSTANTS Files,      \* paths
          Old,        \* the files that existed before
          Events,     \* event ids
          Procs,      \* restore processes
          MayFail     \* "copy", "status", "quarantine", "crash"

ASSUME RecoverAssumption ==
    /\ Old \subseteq Files
    /\ MayFail \subseteq {"copy", "status", "quarantine", "crash"}

VARIABLES file,       \* path -> content or None
          backup,     \* the store: path -> content or None
          quarantine, \* pairs of a path and a content
          protected,  \* table protected_files: pairs of an event and a path
          status,     \* restore_status of the rows of protected
          created,    \* table created_files: pairs of an event and a path
          resolved,   \* events whose status is resolved
          active,     \* events whose session is not blocked yet
          proc        \* process -> what it is doing

vars == <<file, backup, quarantine, protected, status, created, resolved,
          active, proc>>

Orig == <<"orig">>
Bad  == <<"bad">>
None == <<"none">>
Torn(p) == <<"torn", p>>

Contents == {Orig, Bad} \cup {Torn(p) : p \in Procs}

Statuses == {"pending", "restored", "failed"}

Stages == {"idle", "delete", "rows", "move", "open", "torn", "copied", "unlink"}

\* A process: the files still to do, the one it restores and what it copies.
\* found: ctx.total or dc.deleted is not 0
Work == [event : Events \cup {"none"}, stage : Stages, todo : SUBSET Files,
         path : Files \cup {"none"}, content : Contents \cup {None},
         found : BOOLEAN]

Idle == [event |-> "none", stage |-> "idle", todo |-> {}, path |-> "none",
         content |-> None, found |-> FALSE]

Init == /\ file = [n \in Files |-> IF n \in Old THEN Orig ELSE None]
        /\ backup = [n \in Files |-> None]
        /\ quarantine = {}
        /\ protected = {} /\ status = <<>> /\ created = {}
        /\ resolved = {}
        /\ active = Events
        /\ proc = [p \in Procs |-> Idle]
-----------------------------------------------------------------------------
(* Clients and the daemon. *)

index == <<protected, status, created, resolved>>

\* Mutant: the status column has no default.
Protect_Unset(e, n) ==
    /\ protected' = protected \cup {<<e, n>>}
    /\ UNCHANGED status

\* INSERT OR IGNORE under UNIQUE(event_id, original_path)
Protect(e, n) ==
    /\ protected' = protected \cup {<<e, n>>}
    /\ status' = [r \in protected \cup {<<e, n>>} |->
                     IF r \in protected THEN status[r] ELSE "pending"]

\* A client overwrites or deletes a file (content c): first copy wins.
Damage(e, n, c) ==
    /\ e \in active /\ file[n] # None
    /\ backup' = [backup EXCEPT ![n] = IF @ = None THEN file[n] ELSE @]
    /\ file' = [file EXCEPT ![n] = c]
    /\ Protect(e, n)
    /\ UNCHANGED <<quarantine, created, resolved, active, proc>>

\* A client creates a file.
Create(e, n) ==
    /\ e \in active /\ file[n] = None
    /\ file' = [file EXCEPT ![n] = Bad]
    /\ created' = created \cup {<<e, n>>}
    /\ UNCHANGED <<backup, quarantine, protected, status, resolved, active, proc>>

\* The session of the event is blocked.
Block(e) == /\ e \in active
            /\ active' = active \ {e}
            /\ UNCHANGED <<file, backup, quarantine, index, proc>>
-----------------------------------------------------------------------------
(* One restore, step by step. *)

At(p, stage) == proc[p].stage = stage

Goto(p, stage) == proc' = [proc EXCEPT ![p].stage = stage]

\* The daemon and the administrator restore an event whose session has been
\* blocked (main.c 651-681; architecture_v2.md:527: the block comes first).
cmd_restore(p, e) ==
    /\ At(p, "idle") /\ e \notin active
    /\ proc' = [proc EXCEPT ![p] =
                   [Idle EXCEPT !.event = e, !.stage = "delete",
                                !.todo = {c[2] : c \in {d \in created : d[1] = e}}]]
    /\ UNCHANGED <<file, backup, quarantine, index, active>>

\* A created file is moved away, is gone already, or stays.
delete_created_one(p, n) ==
    /\ At(p, "delete") /\ n \in proc[p].todo
    /\ \/ /\ \/ file[n] = None /\ UNCHANGED <<file, quarantine>>
             \/ /\ file[n] # None
                /\ file' = [file EXCEPT ![n] = None]
                /\ quarantine' = quarantine \cup {<<n, file[n]>>}
          /\ proc' = [proc EXCEPT ![p].todo = @ \ {n}, ![p].found = TRUE]
       \/ /\ file[n] # None /\ "quarantine" \in MayFail
          /\ proc' = [proc EXCEPT ![p].todo = @ \ {n}]
          /\ UNCHANGED <<file, quarantine>>
    /\ UNCHANGED <<backup, index, active>>

\* db_query_by_event collects all rows before the first is restored.
db_query_by_event(p) ==
    LET mine == {r \in protected : r[1] = proc[p].event}
    IN  /\ At(p, "delete") /\ proc[p].todo = {}
        /\ proc' = [proc EXCEPT ![p].stage = "rows",
                       ![p].found = @ \/ mine # {},
                       ![p].todo = {r[2] : r \in {q \in mine :
                                                     status[q] = "pending"}}]
        /\ UNCHANGED <<file, backup, quarantine, index, active>>

\* db_update_restore_status, whose failure goes unnoticed
Set(p, n, st) ==
    /\ \/ status' = [status EXCEPT ![<<proc[p].event, n>>] = st]
       \/ "status" \in MayFail /\ UNCHANGED status
    /\ UNCHANGED <<protected, created, resolved, active>>

\* Mutant: the backup is removed as soon as it has been looked up.
restore_one_Early(p, n) ==
    /\ At(p, "rows") /\ n \in proc[p].todo
    /\ \/ /\ backup[n] = None
          /\ Set(p, n, "failed")
          /\ proc' = [proc EXCEPT ![p].todo = @ \ {n}]
          /\ UNCHANGED backup
       \/ /\ backup[n] # None
          /\ proc' = [proc EXCEPT ![p].todo = @ \ {n}, ![p].path = n,
                                  ![p].content = backup[n], ![p].stage = "torn"]
          /\ backup' = [backup EXCEPT ![n] = None]
          /\ UNCHANGED <<index, active>>
    /\ UNCHANGED <<file, quarantine>>

\* restore_one, first part: is there a backup?
restore_one(p, n) ==
    /\ At(p, "rows") /\ n \in proc[p].todo
    /\ \/ /\ backup[n] = None
          /\ Set(p, n, "failed")
          /\ proc' = [proc EXCEPT ![p].todo = @ \ {n}]
       \/ /\ backup[n] # None
          /\ proc' = [proc EXCEPT ![p].todo = @ \ {n}, ![p].path = n,
                                  ![p].stage = "move"]
          /\ UNCHANGED <<index, active>>
    /\ UNCHANGED <<file, backup, quarantine>>

\* The current file is moved to the quarantine, if there is one.
Quarantine(p) ==
    LET n == proc[p].path
    IN  /\ At(p, "move")
        /\ \/ /\ file[n] # None
              /\ file' = [file EXCEPT ![n] = None]
              /\ quarantine' = quarantine \cup {<<n, file[n]>>}
           \/ /\ file[n] = None \/ "quarantine" \in MayFail
              /\ UNCHANGED <<file, quarantine>>
        /\ Goto(p, "open")
        /\ UNCHANGED <<backup, index, active>>

\* copy_file: the backup is opened before the file is created or emptied.
CopyOpen(p) ==
    LET n == proc[p].path
    IN  /\ At(p, "open")
        /\ \/ /\ backup[n] = None \/ "copy" \in MayFail
              /\ Set(p, n, "failed") /\ Goto(p, "rows") /\ UNCHANGED file
           \/ /\ backup[n] # None
              /\ file' = [file EXCEPT ![n] = Torn(p)]
              /\ proc' = [proc EXCEPT ![p].stage = "torn",
                                      ![p].content = backup[n]]
              /\ UNCHANGED <<index, active>>
        /\ UNCHANGED <<backup, quarantine>>

\* Mutant: the result of copy_file is not looked at.
CopyWrite_Unchecked(p) ==
    LET n == proc[p].path
        c == proc[p].content
    IN  /\ At(p, "torn")
        /\ \/ /\ IF file[n] = Torn(p)
                 THEN file' = [file EXCEPT ![n] = c] /\ UNCHANGED quarantine
                 ELSE /\ quarantine' = {IF q = <<n, Torn(p)>> THEN <<n, c>> ELSE q
                                           : q \in quarantine}
                      /\ UNCHANGED file
              /\ Goto(p, "copied") /\ UNCHANGED <<index, active>>
           \/ /\ "copy" \in MayFail
              /\ Goto(p, "copied") /\ UNCHANGED <<index, active>>
              /\ UNCHANGED <<file, quarantine>>
        /\ UNCHANGED backup

\* copy_file: the content arrives in the file that was opened, which another
\* process may have moved to the quarantine meanwhile.
CopyWrite(p) ==
    LET n == proc[p].path
        c == proc[p].content
    IN  /\ At(p, "torn")
        /\ \/ /\ IF file[n] = Torn(p)
                 THEN file' = [file EXCEPT ![n] = c] /\ UNCHANGED quarantine
                 ELSE /\ quarantine' = {IF q = <<n, Torn(p)>> THEN <<n, c>> ELSE q
                                           : q \in quarantine}
                      /\ UNCHANGED file
              /\ Goto(p, "copied") /\ UNCHANGED <<index, active>>
           \/ /\ "copy" \in MayFail
              /\ Set(p, n, "failed") /\ Goto(p, "rows")
              /\ UNCHANGED <<file, quarantine>>
        /\ UNCHANGED backup

MarkRestored(p) ==
    /\ At(p, "copied")
    /\ Set(p, proc[p].path, "restored")
    /\ Goto(p, "unlink")
    /\ UNCHANGED <<file, backup, quarantine>>

UnlinkBackup(p) ==
    /\ At(p, "unlink")
    /\ backup' = [backup EXCEPT ![proc[p].path] = None]
    /\ Goto(p, "rows")
    /\ UNCHANGED <<file, quarantine, index, active>>

\* The event is resolved, failed rows or not.
Finish(p) ==
    LET e == proc[p].event
    IN  /\ At(p, "rows") /\ proc[p].todo = {}
        /\ resolved' = IF proc[p].found THEN resolved \cup {e} ELSE resolved
        /\ proc' = [proc EXCEPT ![p] = Idle]
        /\ UNCHANGED <<file, backup, quarantine, protected, status, created, active>>

\* The process is killed.
Crash(p) == /\ "crash" \in MayFail /\ ~At(p, "idle")
            /\ proc' = [proc EXCEPT ![p] = Idle]
            /\ UNCHANGED <<file, backup, quarantine, index, active>>

Next == \/ \E e \in Events :
              \/ Block(e)
              \/ \E n \in Files : \/ Damage(e, n, Bad) \/ Damage(e, n, None)
                                  \/ Create(e, n)
        \/ \E p \in Procs :
              \/ \E e \in Events : cmd_restore(p, e)
              \/ \E n \in Files : delete_created_one(p, n) \/ restore_one(p, n)
              \/ db_query_by_event(p) \/ Quarantine(p) \/ CopyOpen(p)
              \/ CopyWrite(p) \/ MarkRestored(p) \/ UnlinkBackup(p)
              \/ Finish(p) \/ Crash(p)

Spec == Init /\ [][Next]_vars
-----------------------------------------------------------------------------
(* The shape of the state: a row has a status, and one of Statuses; a      *)
(* process that is not idle has an event, a file when it restores one, and *)
(* a content when it copies.                                               *)
TypeOK ==
    /\ file \in [Files -> Contents \cup {None}]
    /\ backup \in [Files -> Contents \cup {None}]
    /\ quarantine \subseteq Files \X Contents
    /\ protected \subseteq Events \X Files /\ created \subseteq Events \X Files
    /\ status \in [protected -> Statuses]
    /\ resolved \subseteq Events /\ active \subseteq Events
    /\ proc \in [Procs -> Work]
    /\ \A p \in Procs :
          /\ ~At(p, "idle") => proc[p].event \in Events
          /\ proc[p].stage \in {"move", "open", "torn", "copied", "unlink"}
                => proc[p].path \in Files
          /\ At(p, "torn") => proc[p].content \in Contents

(* No original is ever destroyed by bringing it back: also when a restore  *)
(* is killed, fails or is repeated, it is in the share, in the store, in   *)
(* the quarantine, or in the hands of a copy that goes on (restore_one:    *)
(* copy first, remove the backup last).                                    *)
NothingLost ==
    \A n \in Old :
        \/ Orig \in {file[n], backup[n]}
        \/ <<n, Orig>> \in quarantine
        \/ \E p \in Procs : /\ At(p, "torn") /\ proc[p].path = n
                             /\ proc[p].content = Orig

\* Nothing goes on, and every restore has ended with its rows restored.
AllRestored ==
    /\ active = {} /\ resolved = Events
    /\ \A p \in Procs : At(p, "idle")
    /\ \A r \in protected : status[r] = "restored"

(* What the rows say is true: once every event is resolved and every row   *)
(* says restored, however often restores were killed, failed or repeated,  *)
(* each file of the event has its original again, unless the event has     *)
(* also created a file of that name, which a second restore moves away.    *)
ChangedAreBack ==
    AllRestored => \A n \in Old :
                      file[n] = Orig \/ \E e \in Events : <<e, n>> \in created
=============================================================================
