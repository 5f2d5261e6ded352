-------------------------------- MODULE Vfs ---------------------------------
(***************************************************************************)
(* The Samba module (vfs_gfrguard.c) in several smbd workers at once: each *)
(* destructive callback copies the file to the store first (do_backup),    *)
(* then lets the operation through and reports it to the daemon.           *)
(*                                                                         *)
(* A callback is several steps, as other workers and the daemon run        *)
(* between its system calls: its checks, the steps of do_backup, and the   *)
(* operation itself with the event that follows it.  File contents are     *)
(* abstract: the original content of inode i is i, everything a client     *)
(* writes is Other.  A worker holds one handle at a time, and none while   *)
(* it renames or unlinks.                                                  *)
(***************************************************************************)
EXTENDS Integers, FiniteSets

CONSTANTS Workers,     \* smbd processes, one per client address
          Names,       \* paths of the share
          Inodes,      \* inodes
          FirstDir,    \* the directory at the start: name -> inode or NoFile
          OpenModes,   \* open flags clients use, among OpenFlags
          Callbacks,   \* callbacks clients use besides openat and close
          STRICT,      \* mode = strict
          MayFail,     \* callbacks whose backup may fail, and "crash"
          NoFile, NoBackup, Partial, Other, NoHandle, NoCall, NoEvent

\* PROC: a reopen of /proc/self/fd/N, whose path openat cannot know.  LOST:
\* the path stays unknown afterwards.
OpenFlags == {"WR", "CREAT", "TRUNC", "APPEND", "PROC", "LOST"}

Contents == Inodes \cup {Other}

\* An open file.  done, failed and path: backup_done, backup_failed,
\* relative_path # "".  compare: backup_path # "".  reported: event_sent.
Handles == [name : Names, ino : Inodes, tracked : BOOLEAN, done : BOOLEAN,
            failed : BOOLEAN, path : BOOLEAN, compare : BOOLEAN,
            append : BOOLEAN, reported : BOOLEAN]

\* A callback under way.  src is the file do_backup has open, rc what it
\* returned.
Calls == [op : {"openat", "pwrite", "ftruncate", "renameat", "unlinkat"},
          name : Names, how : SUBSET OpenFlags, exists : BOOLEAN,
          stage : {"lookup", "create", "copy", "next"},
          src : Inodes \cup {NoFile}, rc : {"none", "ok", "err"}]

ASSUME VfsAssumption ==
    /\ FirstDir \in [Names -> Inodes \cup {NoFile}]
    /\ \A n1, n2 \in Names : FirstDir[n1] = FirstDir[n2] /\ n1 # n2
                                => FirstDir[n1] = NoFile
    /\ NoFile \notin Inodes /\ {NoBackup, Partial, Other} \cap Inodes = {}
    /\ NoBackup # Partial /\ Other \notin {NoBackup, Partial}
    /\ NoHandle \notin Handles /\ NoCall \notin Calls
    /\ OpenModes \subseteq SUBSET OpenFlags
    /\ Callbacks \subseteq {"pwrite", "ftruncate", "renameat", "unlinkat"}
    /\ STRICT \in BOOLEAN
    /\ MayFail \subseteq {"openat", "pwrite", "ftruncate", "unlinkat", "crash"}

VARIABLES dir,      \* the directory: name -> inode or NoFile
          data,     \* inode -> content
          backup,   \* the store: name -> content, Partial or NoBackup
          fsp,      \* worker -> its open file with its rguard_file_state
          call,     \* worker -> the callback it is in
          blocked,  \* the workers whose address is in the blocked file
          sent      \* the event sent last, or NoEvent

vars == <<dir, data, backup, fsp, call, blocked, sent>>

Originals == {FirstDir[n] : n \in Names} \ {NoFile}

Init == /\ dir = FirstDir
        /\ data = [i \in Inodes |-> IF i \in Originals THEN i ELSE Other]
        /\ backup = [n \in Names |-> NoBackup]
        /\ fsp = [w \in Workers |-> NoHandle]
        /\ call = [w \in Workers |-> NoCall]
        /\ blocked = {}
        /\ sent = NoEvent

Handle(n, ino, tracked, done, failed, path, compare, append) ==
    [name |-> n, ino |-> ino, tracked |-> tracked, done |-> done,
     failed |-> failed, path |-> path, compare |-> compare,
     append |-> append, reported |-> FALSE]

Call(op, n, how, exists, stage) ==
    [op |-> op, name |-> n, how |-> how, exists |-> exists,
     stage |-> stage, src |-> NoFile, rc |-> "none"]

\* send_event; the flags of the outcome rc of a backup
Event(w, op, n, flags) == [worker |-> w, op |-> op, name |-> n, flags |-> flags]

Outcome(rc) == CASE rc = "ok"   -> {"RISKY", "BACKED_UP"}
                 [] rc = "err"  -> {"RISKY", "BACKUP_FAILED"}
                 [] rc = "none" -> {}

Idle(w) == call[w] = NoCall

\* The callback goes on at the given stage: "lookup" if it backs up first.
Enter(w, c) == call' = [call EXCEPT ![w] = c]

Leave(w) == call' = [call EXCEPT ![w] = NoCall]
-----------------------------------------------------------------------------
(* The first part of each callback: the blocked check and the decision to  *)
(* back up.                                                                *)

\* is_blocked: EACCES, and a VFS_BLOCKED notification.
Denied(w) ==
    /\ Idle(w) /\ w \in blocked
    /\ sent' = Event(w, "VFS_BLOCKED", "", {})
    /\ UNCHANGED <<dir, data, backup, fsp, call, blocked>>

openat(w, n, how) ==
    LET exists == dir[n] # NoFile
        risky  == /\ "PROC" \notin how /\ exists
                  /\ "APPEND" \notin how \/ {"CREAT", "TRUNC"} \subseteq how
    IN  /\ Idle(w) /\ fsp[w] = NoHandle /\ w \notin blocked
        /\ Enter(w, Call("openat", n, how, exists,
                         IF risky THEN "lookup" ELSE "next"))
        /\ UNCHANGED <<dir, data, backup, fsp, blocked, sent>>

\* Mutant: the first write does not catch up on the backup.
DeferredStage_Never(h) == "next"

\* pwrite and ftruncate of a tracked file: what gf_deferred_backup decides.
DeferredStage(h) ==
    IF h.done \/ h.failed \/ ~h.path THEN "next" ELSE "lookup"

\* An untracked handle is not checked against the blocked file.
pwrite(w) ==
    LET h == fsp[w]
    IN  /\ Idle(w) /\ h # NoHandle
        /\ h.tracked => w \notin blocked
        /\ Enter(w, Call("pwrite", h.name, {}, TRUE,
                         IF h.tracked THEN DeferredStage(h) ELSE "next"))
        /\ UNCHANGED <<dir, data, backup, fsp, blocked, sent>>

\* An untracked file is backed up as well: truncation gets around O_APPEND.
ftruncate(w) ==
    LET h      == fsp[w]
        exists == dir[h.name] # NoFile
    IN  /\ Idle(w) /\ h # NoHandle /\ w \notin blocked
        /\ Enter(w, Call("ftruncate", h.name, {}, exists,
                         IF h.tracked THEN DeferredStage(h)
                         ELSE IF exists THEN "lookup" ELSE "next"))
        /\ UNCHANGED <<dir, data, backup, fsp, blocked, sent>>

\* A rename is not backed up, whatever it replaces.
renameat(w, src) ==
    /\ Idle(w) /\ fsp[w] = NoHandle /\ w \notin blocked
    /\ Enter(w, Call("renameat", src, {}, TRUE, "next"))
    /\ UNCHANGED <<dir, data, backup, fsp, blocked, sent>>

unlinkat(w, n) ==
    LET exists == dir[n] # NoFile
    IN  /\ Idle(w) /\ fsp[w] = NoHandle /\ w \notin blocked
        /\ Enter(w, Call("unlinkat", n, {}, exists,
                         IF exists THEN "lookup" ELSE "next"))
        /\ UNCHANGED <<dir, data, backup, fsp, blocked, sent>>
-----------------------------------------------------------------------------
(* do_backup, one system call at a time.                                   *)

\* It returns rc to its caller.
Return(w, rc) ==
    call' = [call EXCEPT ![w].stage = "next", ![w].rc = rc, ![w].src = NoFile]

\* Mutant: an existing backup is replaced.
lookup_Replaces(w) ==
    LET n == call[w].name
    IN  /\ call[w].stage = "lookup"
        /\ IF dir[n] = NoFile THEN Return(w, "err") /\ UNCHANGED backup
           ELSE /\ backup' = [backup EXCEPT ![n] = NoBackup]
                /\ call' = [call EXCEPT ![w].stage = "create"]
        /\ UNCHANGED <<dir, data, fsp, blocked, sent>>

\* stat of the file, then of the backup: first copy wins.
lookup(w) ==
    LET n == call[w].name
    IN  /\ call[w].stage = "lookup"
        /\ \/ dir[n] = NoFile /\ Return(w, "err")
           \/ dir[n] # NoFile /\ backup[n] # NoBackup /\ Return(w, "ok")
           \/ /\ dir[n] # NoFile /\ backup[n] = NoBackup
              /\ call' = [call EXCEPT ![w].stage = "create"]
        /\ UNCHANGED <<dir, data, backup, fsp, blocked, sent>>

\* Mutant: a backup that appeared meanwhile is truncated (no O_EXCL).
create_Truncates(w) ==
    LET n == call[w].name
    IN  /\ call[w].stage = "create"
        /\ \/ /\ dir[n] = NoFile /\ Return(w, "err") /\ UNCHANGED backup
           \/ /\ dir[n] # NoFile
              /\ backup' = [backup EXCEPT ![n] = Partial]
              /\ call' = [call EXCEPT ![w].stage = "copy", ![w].src = dir[n]]
        /\ UNCHANGED <<dir, data, fsp, blocked, sent>>

\* Open the file and create the backup with O_EXCL; a backup that appeared
\* meanwhile counts as done.
create(w) ==
    LET n == call[w].name
    IN  /\ call[w].stage = "create"
        /\ \/ /\ dir[n] = NoFile \/ call[w].op \in MayFail
              /\ Return(w, "err") /\ UNCHANGED backup
           \/ /\ dir[n] # NoFile /\ backup[n] # NoBackup
              /\ Return(w, "ok") /\ UNCHANGED backup
           \/ /\ dir[n] # NoFile /\ backup[n] = NoBackup
              /\ backup' = [backup EXCEPT ![n] = Partial]
              /\ call' = [call EXCEPT ![w].stage = "copy", ![w].src = dir[n]]
        /\ UNCHANGED <<dir, data, fsp, blocked, sent>>

\* Mutant: a failed copy is taken for done.
copy_Unchecked(w) ==
    /\ call[w].stage = "copy"
    /\ \/ backup' = [backup EXCEPT ![call[w].name] = data[call[w].src]]
       \/ call[w].op \in MayFail /\ UNCHANGED backup
    /\ Return(w, "ok")
    /\ UNCHANGED <<dir, data, fsp, blocked, sent>>

\* rguard_copy_fd; a failed copy is removed again.
copy(w) ==
    LET n == call[w].name
    IN  /\ call[w].stage = "copy"
        /\ \/ /\ backup' = [backup EXCEPT ![n] = data[call[w].src]]
              /\ Return(w, "ok")
           \/ /\ call[w].op \in MayFail
              /\ backup' = [backup EXCEPT ![n] = NoBackup]
              /\ Return(w, "err")
        /\ UNCHANGED <<dir, data, fsp, blocked, sent>>
-----------------------------------------------------------------------------
(* The second part of each callback: the strict mode's refusal, or the     *)
(* operation, the state kept with the file, and the event.                 *)

At(w, op) == call[w] # NoCall /\ call[w].op = op /\ call[w].stage = "next"

Refused(w) == STRICT /\ call[w].rc = "err"

\* ENOSPC or EACCES.  A handle whose backup failed is marked so, and an
\* untracked one is tracked from now on.
Refuse(w) ==
    LET c == call[w]
    IN  /\ c # NoCall /\ c.stage = "next" /\ Refused(w)
        /\ sent' = Event(w, c.op, c.name, Outcome("err"))
        /\ fsp' = IF c.op \in {"pwrite", "ftruncate"}
                  THEN [fsp EXCEPT ![w].tracked = TRUE, ![w].failed = TRUE]
                  ELSE fsp
        /\ Leave(w)
        /\ UNCHANGED <<dir, data, backup, blocked>>

\* Inodes no name and no open file refers to.
FreeInodes ==
    Inodes \ ({dir[n] : n \in Names}
              \cup {fsp[w].ino : w \in {v \in Workers : fsp[v] # NoHandle}}
              \cup {call[w].src : w \in {v \in Workers : call[v] # NoCall}})

\* SMB_VFS_NEXT_OPENAT: the file is opened, or created, or there is none.
OpenedInode(n, how, i) ==
    \/ dir[n] # NoFile /\ i = dir[n]
    \/ dir[n] = NoFile /\ "CREAT" \in how /\ i \in FreeInodes
    \/ dir[n] = NoFile /\ "CREAT" \notin how /\ i = NoFile

openat_done(w) ==
    LET c      == call[w]
        risky  == c.rc # "none"
        fresh  == ~risky /\ ~c.exists /\ "CREAT" \in c.how
        proc   == "PROC" \in c.how
        flags  == IF risky THEN Outcome(c.rc)
                  ELSE IF fresh /\ ~proc THEN {"NEW_FILE"} ELSE {}
    IN  /\ At(w, "openat") /\ ~Refused(w)
        /\ \E i \in Inodes \cup {NoFile} :
            /\ OpenedInode(c.name, c.how, i)
            /\ dir' = IF i = NoFile THEN dir ELSE [dir EXCEPT ![c.name] = i]
            /\ data' = IF i # NoFile /\ ("TRUNC" \in c.how \/ dir[c.name] = NoFile)
                       THEN [data EXCEPT ![i] = Other] ELSE data
            /\ fsp' = IF i = NoFile THEN fsp
                      ELSE [fsp EXCEPT ![w] =
                        Handle(c.name, i, risky \/ fresh \/ proc,
                               c.rc = "ok" \/ (fresh /\ ~proc),
                               c.rc = "err", "LOST" \notin c.how,
                               c.rc = "ok", "APPEND" \in c.how)]
            /\ sent' = IF flags = {} \/ (~risky /\ i = NoFile) THEN sent
                       ELSE Event(w, "openat", c.name, flags)
        /\ Leave(w)
        /\ UNCHANGED <<backup, blocked>>

\* The handle after a pwrite or ftruncate whose backup ended with rc.
Marked(h, rc) ==
    [h EXCEPT !.tracked = @ \/ rc # "none", !.done = @ \/ rc = "ok",
              !.failed = @ \/ rc = "err",
              !.compare = @ \/ (~h.tracked /\ rc = "ok")]

\* A first pwrite without a backup at openat is reported, once per handle.
pwrite_done(w) ==
    LET c == call[w]
        h == fsp[w]
        reports == /\ h.tracked /\ ~h.done /\ ~h.reported
                   /\ c.rc # "none" \/ h.failed
        flags == IF c.rc = "none" THEN {"RISKY"} ELSE Outcome(c.rc)
    IN  /\ At(w, "pwrite") /\ ~Refused(w)
        /\ data' = IF h.append THEN data ELSE [data EXCEPT ![h.ino] = Other]
        /\ fsp' = [fsp EXCEPT ![w] =
                      [Marked(h, c.rc) EXCEPT !.reported = @ \/ reports]]
        /\ sent' = IF reports
                   THEN Event(w, "pwrite", c.name, flags) ELSE sent
        /\ Leave(w)
        /\ UNCHANGED <<dir, backup, blocked>>

\* Every ftruncate is reported but those of a file backed up before, and of
\* an untracked file that is gone.
ftruncate_done(w) ==
    LET c == call[w]
        h == fsp[w]
        reports == ~h.done /\ (h.tracked \/ c.exists)
        flags == IF c.rc = "none" THEN {"RISKY"} ELSE Outcome(c.rc)
    IN  /\ At(w, "ftruncate") /\ ~Refused(w)
        /\ data' = [data EXCEPT ![h.ino] = Other]
        /\ fsp' = [fsp EXCEPT ![w] = Marked(h, c.rc)]
        /\ sent' = IF reports
                   THEN Event(w, "ftruncate", c.name, flags)
                   ELSE sent
        /\ Leave(w)
        /\ UNCHANGED <<dir, backup, blocked>>

\* Mutant: the old name stays.
renameat_done_Links(w, dst) ==
    LET src == call[w].name
    IN  /\ At(w, "renameat") /\ dst # src
        /\ dir' = [dir EXCEPT ![dst] = dir[src]]
        /\ sent' = Event(w, "renameat", src, {})
        /\ Leave(w)
        /\ UNCHANGED <<data, backup, fsp, blocked>>

renameat_done(w, dst) ==
    LET src == call[w].name
    IN  /\ At(w, "renameat") /\ dst # src
        /\ dir' = IF dir[src] = NoFile THEN dir
                  ELSE [dir EXCEPT ![dst] = dir[src], ![src] = NoFile]
        /\ sent' = Event(w, "renameat", src, {})
        /\ Leave(w)
        /\ UNCHANGED <<data, backup, fsp, blocked>>

unlinkat_done(w) ==
    LET c == call[w]
    IN  /\ At(w, "unlinkat") /\ ~Refused(w)
        /\ dir' = [dir EXCEPT ![c.name] = NoFile]
        /\ sent' = Event(w, "unlinkat", c.name, Outcome(c.rc))
        /\ Leave(w)
        /\ UNCHANGED <<data, backup, fsp, blocked>>

\* gf_close: a tracked file is reported, and whether it is as it was.
close(w) ==
    LET h    == fsp[w]
        same == /\ h.done /\ h.compare /\ dir[h.name] # NoFile
                /\ data[dir[h.name]] = backup[h.name]
    IN  /\ Idle(w) /\ h # NoHandle
        /\ sent' = IF h.tracked
                   THEN Event(w, "close", h.name,
                                         IF same THEN {"CONTENT_SAME"} ELSE {})
                   ELSE sent
        /\ fsp' = [fsp EXCEPT ![w] = NoHandle]
        /\ UNCHANGED <<dir, data, backup, call, blocked>>
-----------------------------------------------------------------------------
\* The daemon adds or removes the address of a client.
Block(w)   == /\ blocked' = blocked \cup {w}
              /\ UNCHANGED <<dir, data, backup, fsp, call, sent>>
Unblock(w) == /\ w \in blocked /\ blocked' = blocked \ {w}
              /\ UNCHANGED <<dir, data, backup, fsp, call, sent>>

\* A worker dies in the middle of a callback, and serves a new client.
Crash(w) == /\ "crash" \in MayFail /\ ~Idle(w)
            /\ Leave(w)
            /\ fsp' = [fsp EXCEPT ![w] = NoHandle]
            /\ UNCHANGED <<dir, data, backup, blocked, sent>>

Uses(op) == op \in Callbacks

Next == \E w \in Workers :
          \/ Denied(w)
          \/ \E n \in Names, how \in OpenModes : openat(w, n, how)
          \/ openat_done(w)
          \/ Uses("pwrite") /\ (pwrite(w) \/ pwrite_done(w))
          \/ Uses("ftruncate") /\ (ftruncate(w) \/ ftruncate_done(w))
          \/ Uses("renameat") /\ \E n \in Names : renameat(w, n) \/ renameat_done(w, n)
          \/ Uses("unlinkat") /\ (unlinkat_done(w) \/ \E n \in Names : unlinkat(w, n))
          \/ close(w)
          \/ call[w] # NoCall /\ (lookup(w) \/ create(w) \/ copy(w))
          \/ Refuse(w)
          \/ Block(w) \/ Unblock(w) \/ Crash(w)

Spec == Init /\ [][Next]_vars
-----------------------------------------------------------------------------
(* The shape of the state: a name never refers to an inode of another, a   *)
(* write or truncation is of an open file, a copy has its source open, and *)
(* do_backup answers when it returns.                                      *)
TypeOK ==
    /\ dir \in [Names -> Inodes \cup {NoFile}]
    /\ \A n1, n2 \in Names : dir[n1] = dir[n2] /\ n1 # n2 => dir[n1] = NoFile
    /\ data \in [Inodes -> Contents]
    /\ backup \in [Names -> Contents \cup {NoBackup, Partial}]
    /\ fsp \in [Workers -> Handles \cup {NoHandle}]
    /\ call \in [Workers -> Calls \cup {NoCall}]
    /\ \A w \in Workers : call[w] # NoCall =>
          /\ call[w].op \in {"pwrite", "ftruncate"} => fsp[w] # NoHandle
          /\ call[w].stage = "copy" => call[w].src \in Inodes
          /\ call[w].stage # "next" => call[w].rc = "none"
    /\ blocked \subseteq Workers

\* No file of the share has the original content i any more.
Lost(i) == \A n \in Names : dir[n] = NoFile \/ data[dir[n]] # i

(* What strict mode is for: a file that existed before is still in the     *)
(* share, or its content is in the store, whichever callbacks fail or are  *)
(* repeated on the way (do_backup before every SMB_VFS_NEXT call).         *)
OriginalsSurvive ==
    STRICT => \A i \in Originals : Lost(i) => \E n \in Names : backup[n] = i

(* An event flagged BACKED_UP is true: the daemon records a file as        *)
(* protected only when the store holds a complete copy of it.              *)
BackedUpIsTrue ==
    sent # NoEvent /\ "BACKED_UP" \in sent.flags
        => backup[sent.name] \in Contents

(* Whatever workers do and die of at the same time, a backup under way is  *)
(* filled by one worker only (the O_EXCL of do_backup) and is there until  *)
(* it is complete or its copy has failed: nobody mixes two copies or       *)
(* writes to a backup that is gone.                                        *)
OneCopier ==
    \A w \in Workers : call[w] # NoCall /\ call[w].stage = "copy" =>
        /\ backup[call[w].name] = Partial
        /\ \A v \in Workers \ {w} : call[v] # NoCall /\ call[v].stage = "copy"
                                      => call[v].name # call[w].name

(* First copy wins (do_backup): whatever workers do at the same time, a    *)
(* complete backup is never replaced, truncated or removed.                *)
FirstCopyWins ==
    [][\A n \in Names : backup[n] \in Contents => backup'[n] = backup[n]]_vars
=============================================================================
