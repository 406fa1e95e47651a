---------------------------- MODULE Persistence ----------------------------
(***************************************************************************)
(* Snapshots: SAVE, BGSAVE, DEBUG RELOAD, SHUTDOWN SAVE and the load at    *)
(* start-up (src/server/persistence.cpp), over the file writer of          *)
(* src/persist/rdb.cpp.                                                    *)
(*                                                                         *)
(* The server and the child it forks are processes with a memory each; a   *)
(* snapshot is written by one of them, entry by entry, to a temporary file *)
(* that carries its pid, and renamed into place.  The processes interleave *)
(* with each other and may be killed between any two steps.  A killed      *)
(* server leaves its child running.  The temporary file that a killed      *)
(* process leaves is truncated by the next process of that pid and read by *)
(* nobody; it is left out.                                                 *)
(*                                                                         *)
(* A command that changes the keyspace stores or removes a key and marks   *)
(* one change; a dead key is as good as gone, so expiry needs no step.     *)
(* last_bgsave_ok_ and last_save_time_ are only reported.                  *)
(* The bytes of a file are abstracted to the entries it holds and whether  *)
(* it ends with its checksum.                                              *)
(***************************************************************************)
EXTENDS Integers, Sequences, FiniteSets

CONSTANTS Keys, Pids, NoPid,
          Volatile,    \* the keys that commands give deadlines
          MaxWrites,   \* bound on the commands that change the keyspace
          MaxTime      \* bound on the clock

ASSUME PersistenceAssumption ==
  /\ NoPid \notin Pids
  /\ Volatile \subseteq Keys
  /\ MaxWrites \in Nat
  /\ MaxTime \in Nat

VARIABLES now,       \* the wall clock
          server,    \* the pid of the server, NoPid while it is down
          mem,       \* the keyspace in the memory of each process
          writer,    \* the FileWriter a process is using
          exited,    \* how a child ended, until it is waited for
          tmp,       \* path.tmp-<pid>
          file,      \* the snapshot at rdbPath()
          book,      \* dirty_, bgsave_pid_ and dirty_at_fork_
          doing      \* what the server's thread is in the middle of

(***************************************************************************)
(* History: past[v] is the keyspace that write number v left and the       *)
(* number of writes that led to it; overlapped whether a process ever      *)
(* began to save or to load while another one was writing or had yet to be *)
(* waited for.                                                             *)
(***************************************************************************)
VARIABLES past, overlapped

disk == <<tmp, file>>
history == <<past, overlapped>>
vars == <<now, server, mem, writer, exited, disk, book, doing, history>>

(***************************************************************************)
(* A key holds the number of the write that stored it and a deadline, -1   *)
(* for none.                                                               *)
(***************************************************************************)
Gone == [val |-> 0, at |-> -1]
Empty == [k \in Keys |-> Gone]

IsDead(c, t) == c.at # -1 /\ c.at <= t
Living(keys, t) == [k \in Keys |-> IF IsDead(keys[k], t) THEN Gone ELSE keys[k]]

NoMem == [keys |-> Empty, ver |-> 0]
NoFile == [keys |-> Empty, ver |-> 0, whole |-> FALSE, is |-> "none"]
File(keys, ver, whole) == [keys |-> keys, ver |-> ver, whole |-> whole, is |-> "file"]

NoWriter == [left |-> {}, asof |-> 0, failed |-> FALSE, is |-> "none"]
Running == {p \in Pids : writer[p].is = "open"}

FreshBook == [dirty |-> 0, child |-> NoPid, dirtyAtFork |-> 0]

(* What write number v left, and how many writes led to it.                 *)
KeysAt(v) == IF v = 0 THEN Empty ELSE past[v].keys
WritesAt(v) == IF v = 0 THEN 0 ELSE past[v].n

Up == server # NoPid
IsIdle == Up /\ doing = "idle"

(* The kernel's choice of a pid no process has; which one is immaterial.    *)
FreePids == {p \in Pids : p # server /\ writer[p].is = "none" /\ exited[p] = "no"}

NewPid == CHOOSE p \in FreePids : TRUE

Init ==
  /\ now = 0
  /\ server = NoPid
  /\ mem = [p \in Pids |-> NoMem]
  /\ writer = [p \in Pids |-> NoWriter]
  /\ exited = [p \in Pids |-> "no"]
  /\ tmp = [p \in Pids |-> NoFile]
  /\ file = NoFile
  /\ book = FreshBook
  /\ doing = "idle"
  /\ past = <<>>
  /\ overlapped = FALSE

(***************************************************************************)
(* The keyspace.                                                           *)
(***************************************************************************)

(* One command's change: markDirty counts it.                               *)
Change(keys) ==
  /\ IsIdle
  /\ Len(past) < MaxWrites
  /\ past' = Append(past, [keys |-> keys, n |-> WritesAt(mem[server].ver) + 1])
  /\ mem' = [mem EXCEPT ![server] = [keys |-> keys, ver |-> Len(past) + 1]]
  /\ book' = [book EXCEPT !.dirty = @ + 1]
  /\ UNCHANGED <<now, server, writer, exited, disk, doing, overlapped>>

Store(k, at) ==
  Change([mem[server].keys EXCEPT ![k] = [val |-> Len(past) + 1, at |-> at]])

Delete(k) ==
  /\ IsIdle
  /\ Living(mem[server].keys, now)[k] # Gone
  /\ Change([mem[server].keys EXCEPT ![k] = Gone])

(***************************************************************************)
(* FileWriter and writeRdbFile, for the process p.                         *)
(***************************************************************************)

(* create, with the header.                                                 *)
Open(p, image) ==
  /\ tmp' = [tmp EXCEPT ![p] = File(Empty, image.ver, FALSE)]
  /\ writer' = [writer EXCEPT ![p] = [left |-> Keys, asof |-> now,
                                      failed |-> FALSE, is |-> "open"]]

(* BGSAVE if it were a thread: it would read what the server writes.        *)
WriteEntryUnforked(p, ok) ==
  LET k == CHOOSE k \in writer[p].left : TRUE
      c == IF Up THEN mem[server].keys[k] ELSE mem[p].keys[k] IN
  /\ writer[p].is = "open"
  /\ writer[p].left # {}
  /\ writer' = [writer EXCEPT ![p] = [left |-> IF ok THEN @.left \ {k} ELSE {},
                                      asof |-> @.asof, failed |-> ~ok, is |-> "open"]]
  /\ tmp' = IF c = Gone \/ IsDead(c, writer[p].asof) \/ ~ok
            THEN tmp
            ELSE [tmp EXCEPT ![p].keys[k] = c]
  /\ UNCHANGED <<now, server, mem, exited, file, book, doing, history>>

(* The next key in the table's order.  One past its deadline is left out of *)
(* the snapshot.  After a write that fails the rest are dropped.            *)
WriteEntry(p, ok) ==
  LET k == CHOOSE k \in writer[p].left : TRUE
      c == mem[p].keys[k] IN
  /\ writer[p].is = "open"
  /\ writer[p].left # {}
  /\ writer' = [writer EXCEPT ![p] = [left |-> IF ok THEN @.left \ {k} ELSE {},
                                      asof |-> @.asof, failed |-> ~ok, is |-> "open"]]
  /\ tmp' = IF c = Gone \/ IsDead(c, writer[p].asof) \/ ~ok
            THEN tmp
            ELSE [tmp EXCEPT ![p].keys[k] = c]
  /\ UNCHANGED <<now, server, mem, exited, file, book, doing, history>>

(* finish: the last bytes, fsync, rename; on any failure the file is        *)
(* removed.  ok says whether the calls succeeded.                           *)
Finished(p, ok) == ok /\ ~writer[p].failed

Finish(p, ok) ==
  /\ writer[p].is = "open"
  /\ writer[p].left = {}
  /\ writer' = [writer EXCEPT ![p] = NoWriter]
  /\ file' = IF Finished(p, ok)
             THEN File(tmp[p].keys, tmp[p].ver, TRUE)
             ELSE file
  /\ tmp' = [tmp EXCEPT ![p] = NoFile]

(***************************************************************************)
(* Saving in the foreground: SAVE, which a running child refuses, and      *)
(* DEBUG RELOAD and SHUTDOWN SAVE, which do not look.                      *)
(***************************************************************************)
Saving == {"save", "reload", "shutdown"}

BeginSave(what) ==
  /\ IsIdle
  /\ what \in Saving
  /\ what = "save" => book.child = NoPid
  /\ Open(server, mem[server])
  /\ doing' = what
  /\ overlapped' = (overlapped \/ Running # {} \/ book.child # NoPid)
  /\ UNCHANGED <<now, server, mem, exited, file, book, past>>

(* saveRdb's end, reloadRdb's flush, and stop.                              *)
EndSave(ok) ==
  /\ Up
  /\ doing \in Saving
  /\ Finish(server, ok)
  /\ LET done == Finished(server, ok) IN
     /\ doing' = IF done /\ doing = "reload" THEN "load" ELSE "idle"
     /\ server' = IF done /\ doing = "shutdown" THEN NoPid ELSE server
     /\ book' = CASE ~done -> book
                  [] done /\ doing = "shutdown" -> FreshBook
                  [] OTHER -> [book EXCEPT !.dirty = 0]
     /\ mem' = CASE done /\ doing = "reload" -> [mem EXCEPT ![server].keys = Empty]
                 [] done /\ doing = "shutdown" -> [mem EXCEPT ![server] = NoMem]
                 [] OTHER -> mem
     /\ exited' = IF done /\ doing = "shutdown"
                  THEN [p \in Pids |-> "no"]
                  ELSE exited
  /\ UNCHANGED <<now, history>>

(* A load that forgets the deadlines.                                      *)
LoadedBlindly == [keys |-> [k \in Keys |-> [file.keys[k] EXCEPT !.at = -1]],
                  ver |-> file.ver]

(* restoreLoadedKey drops what is dead by now.                              *)
Loaded == [keys |-> Living(file.keys, now), ver |-> file.ver]

EndReload ==
  /\ Up
  /\ doing = "load"
  /\ mem' = [mem EXCEPT ![server] = Loaded]
  /\ doing' = "idle"
  /\ UNCHANGED <<now, server, writer, exited, disk, book, history>>

(***************************************************************************)
(* BGSAVE.                                                                 *)
(***************************************************************************)

(* The fork copies the memory; the child opens its file at once.            *)
startBackgroundSave ==
  /\ IsIdle
  /\ book.child = NoPid
  /\ FreePids # {}
  /\ mem' = [mem EXCEPT ![NewPid] = mem[server]]
  /\ book' = [book EXCEPT !.child = NewPid, !.dirtyAtFork = book.dirty]
  /\ Open(NewPid, mem[server])
  /\ overlapped' = (overlapped \/ Running # {})
  /\ UNCHANGED <<now, server, exited, file, doing, past>>

(* _exit: the status waits for the parent, if the parent is still there.    *)
Exits(p, status) ==
  /\ mem' = [mem EXCEPT ![p] = NoMem]
  /\ exited' = IF book.child = p THEN [exited EXCEPT ![p] = status] ELSE exited

ChildEnds(p, ok) ==
  /\ p # server
  /\ Finish(p, ok)
  /\ Exits(p, IF Finished(p, ok) THEN "ok" ELSE "failed")
  /\ UNCHANGED <<now, server, book, doing, history>>

(* The child cannot create its file, or is killed.                          *)
ChildDies(p) ==
  /\ p # server
  /\ writer[p].is = "open"
  /\ writer' = [writer EXCEPT ![p] = NoWriter]
  /\ tmp' = [tmp EXCEPT ![p] = NoFile]
  /\ Exits(p, "failed")
  /\ UNCHANGED <<now, server, file, book, doing, history>>

(* A reap that clears the counter, as saveRdb does.                         *)
reapClearingDirty ==
  /\ IsIdle
  /\ book.child # NoPid
  /\ exited[book.child] # "no"
  /\ exited' = [exited EXCEPT ![book.child] = "no"]
  /\ book' = [book EXCEPT !.child = NoPid, !.dirty = 0]
  /\ UNCHANGED <<now, server, mem, writer, disk, doing, history>>

(* A reap that looks only at children that succeeded.                       *)
reapOnlySuccess ==
  /\ IsIdle
  /\ book.child # NoPid
  /\ exited[book.child] = "ok"
  /\ exited' = [exited EXCEPT ![book.child] = "no"]
  /\ book' = [book EXCEPT !.child = NoPid,
                          !.dirty = IF @ >= book.dirtyAtFork
                                    THEN @ - book.dirtyAtFork ELSE 0]
  /\ UNCHANGED <<now, server, mem, writer, disk, doing, history>>

reapBackgroundSave ==
  /\ IsIdle
  /\ book.child # NoPid
  /\ exited[book.child] # "no"
  /\ exited' = [exited EXCEPT ![book.child] = "no"]
  /\ LET ok == exited[book.child] = "ok" IN
     book' = [book EXCEPT
                !.child = NoPid,
                !.dirty = IF ~ok THEN @
                          ELSE IF @ >= book.dirtyAtFork
                               THEN @ - book.dirtyAtFork ELSE 0]
  /\ UNCHANGED <<now, server, mem, writer, disk, doing, history>>

(***************************************************************************)
(* Start and end of the server.                                            *)
(***************************************************************************)

(* A file that does not parse is a reason to refuse to start.               *)
loadRdbAtStartup ==
  /\ ~Up
  /\ file.is = "none" \/ file.whole
  /\ FreePids # {}
  /\ server' = NewPid
  /\ mem' = [mem EXCEPT ![NewPid] = Loaded]
  /\ book' = FreshBook
  /\ doing' = "idle"
  /\ overlapped' = (overlapped \/ Running # {})
  /\ UNCHANGED <<now, writer, exited, disk, past>>

(* A kill, a crash, or SHUTDOWN without SAVE.                               *)
Crash ==
  /\ Up
  /\ server' = NoPid
  /\ mem' = [mem EXCEPT ![server] = NoMem]
  /\ writer' = [writer EXCEPT ![server] = NoWriter]
  /\ exited' = [p \in Pids |-> "no"]
  /\ tmp' = [tmp EXCEPT ![server] = NoFile]
  /\ book' = FreshBook
  /\ doing' = "idle"
  /\ UNCHANGED <<now, file, history>>

Tick ==
  /\ now < MaxTime
  /\ now' = now + 1
  /\ UNCHANGED <<server, mem, writer, exited, disk, book, doing, history>>

Command ==
  \/ \E k \in Keys : Store(k, -1)
  \/ \E k \in Volatile, at \in now + 1 .. MaxTime : Store(k, at)
  \/ \E k \in Keys : Delete(k)
  \/ \E what \in Saving : BeginSave(what)
  \/ startBackgroundSave

(* What the server's thread does without being asked.                       *)
ServerStep ==
  \/ Up /\ \E ok \in BOOLEAN : WriteEntry(server, ok)
  \/ \E ok \in BOOLEAN : EndSave(ok)
  \/ EndReload

ChildStep(p) ==
  \/ p # server /\ \E ok \in BOOLEAN : WriteEntry(p, ok)
  \/ \E ok \in BOOLEAN : ChildEnds(p, ok)

Next ==
  \/ Command
  \/ ServerStep
  \/ reapBackgroundSave
  \/ \E p \in Pids : ChildStep(p) \/ ChildDies(p)
  \/ loadRdbAtStartup
  \/ Crash
  \/ Tick

Spec == Init /\ [][Next]_vars

(***************************************************************************)
(* A process that can run does.  The cron's turn comes again and again as  *)
(* long as the server runs, between commands: it need not be enabled all   *)
(* the time.  Nothing says that clients stop sending commands.             *)
(***************************************************************************)
Fairness ==
  /\ WF_vars(ServerStep)
  /\ SF_vars(reapBackgroundSave)
  /\ \A p \in Pids : WF_vars(ChildStep(p))

FairSpec == Spec /\ Fairness

(***************************************************************************)
(* Properties.                                                             *)
(***************************************************************************)

(* The snapshot on disk is whole and is the keyspace of one moment: for one *)
(* of the writes, every key that was there after it and is still alive, as  *)
(* it was then, and no other.  Neither commands served while the child      *)
(* writes, nor a failed or killed save, nor a leftover of an earlier        *)
(* process show in it (rdb.h, FileWriter; server.h, startBackgroundSave).   *)
SnapshotIsPointInTime ==
  file.is = "file" =>
    /\ file.whole
    /\ Living(file.keys, now) = Living(KeysAt(file.ver), now)

DirtyIsExact == book.dirty = WritesAt(mem[server].ver) - WritesAt(file.ver)

(* rdb_changes_since_last_save counts exactly the writes that a restart     *)
(* would lose (persistence.cpp, reapBackgroundSave), as long as no two      *)
(* snapshots overlapped.                                                    *)
DirtyCountsUnsaved ==
  ~overlapped /\ IsIdle /\ book.child = NoPid => DirtyIsExact

(* The same each time a child that succeeded is collected, whatever else    *)
(* was saved meanwhile, which is what the comment in reapBackgroundSave     *)
(* says: "Only the writes the child could not have seen are still unsaved." *)
OnlyUnseenWritesAreUnsaved ==
  [][reapBackgroundSave /\ exited[book.child] = "ok" => DirtyIsExact']_vars

(* DEBUG RELOAD leaves the keyspace as it was, deadlines included           *)
(* (server_commands.cpp, RELOAD), when no child is writing meanwhile.       *)
ReloadFaithful ==
  LET v == mem[server].ver IN
  Living(mem'[server].keys, now) = Living(KeysAt(v), now)

ReloadAloneIsIdentity ==
  [][EndReload /\ ~overlapped => ReloadFaithful]_vars

(* A background save does not stay in progress for ever, and with it the    *)
(* refusal of SAVE and BGSAVE: the child ends and is collected, or the      *)
(* server goes down.                                                        *)
BackgroundSaveEnds ==
  book.child # NoPid ~> book.child = NoPid

=============================================================================
