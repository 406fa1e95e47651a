-------------------------- MODULE PersistenceProofs --------------------------
(***************************************************************************)
(* What the snapshots keep, for any number of processes, keys and writes,  *)
(* wherever a process is killed and whichever call fails.                  *)
(***************************************************************************)
EXTENDS Persistence, TLAPS

(* The time that a leaf may take.                                           *)
USE SMTT(40), ZenonT(40), Z3T(40)

Cells == [val : Nat, at : Int]
Keyspaces == [Keys -> Cells]
Files == [keys : Keyspaces, ver : Nat, whole : BOOLEAN, is : {"none", "file"}]
Writers == [left : SUBSET Keys, asof : Nat, failed : BOOLEAN, is : {"none", "open"}]
Writes == [keys : Keyspaces, n : Nat]
Images == [keys : Keyspaces, ver : Nat]

TypeOK ==
  /\ now \in Nat
  /\ server \in Pids \cup {NoPid}
  /\ mem \in [Pids -> Images]
  /\ writer \in [Pids -> Writers]
  /\ exited \in [Pids -> {"no", "ok", "failed"}]
  /\ tmp \in [Pids -> Files]
  /\ file \in Files
  /\ book \in [dirty : Int, child : Pids \cup {NoPid}, dirtyAtFork : Int]
  /\ doing \in {"idle", "load"} \cup Saving
  /\ past \in Seq(Writes)
  /\ overlapped \in BOOLEAN

(* What has passed has passed later.                                        *)
LEMMA Later == ASSUME NEW a \in Nat, NEW t \in Nat, a <= t PROVE a <= t + 1
OBVIOUS

(* A number less itself.                                                    *)
LEMMA NoDifference == ASSUME NEW a \in Int PROVE a - a = 0
OBVIOUS

(***************************************************************************)
(* Contents.                                                               *)
(***************************************************************************)

(* What a key is at time t, and keyspaces that are the same from t on.      *)
Live(c, t) == IF IsDead(c, t) THEN Gone ELSE c
Agree(f, g, t) == \A k \in Keys : Live(f[k], t) = Live(g[k], t)

(* The constants of the model have their types.                             *)
LEMMA ConstantsTyped ==
  /\ Gone \in Cells /\ Empty \in Keyspaces /\ NoMem \in Images
  /\ NoFile \in Files /\ NoWriter \in Writers
  /\ FreshBook \in [dirty : Int, child : Pids \cup {NoPid}, dirtyAtFork : Int]
BY DEF Gone, Empty, NoMem, NoFile, NoWriter, FreshBook, Cells, Keyspaces, Images, Files, Writers

(* The projections and constructions of the records.                        *)
LEMMA FileTyped ==
  ASSUME NEW f \in Keyspaces, NEW v \in Nat, NEW w \in BOOLEAN
  PROVE  /\ File(f, v, w) \in Files
         /\ File(f, v, w).keys = f /\ File(f, v, w).ver = v
         /\ File(f, v, w).whole = w /\ File(f, v, w).is = "file"
BY DEF File, Files

(* Living drops the dead and keeps the rest.                                *)
LEMMA LivingTyped ==
  ASSUME NEW f \in Keyspaces, NEW t
  PROVE  Living(f, t) \in Keyspaces
BY ConstantsTyped DEF Living, Keyspaces

(* The dead stay dead.                                                      *)
LEMMA LiveLater ==
  ASSUME NEW c \in Cells, NEW d \in Cells, NEW t \in Nat, NEW u \in Nat, t <= u,
         Live(c, t) = Live(d, t)
  PROVE  Live(c, u) = Live(d, u)
BY DEF Live, IsDead, Gone, Cells

(* Keyspaces that agree go on to do so.                                     *)
LEMMA AgreeLater ==
  ASSUME NEW f \in Keyspaces, NEW g \in Keyspaces, NEW t \in Nat, NEW u \in Nat, t <= u,
         Agree(f, g, t)
  PROVE  Agree(f, g, u)
<1>1. \A k \in Keys : f[k] \in Cells /\ g[k] \in Cells
  BY DEF Keyspaces
<1> QED
  BY <1>1, LiveLater, ZenonT(40) DEF Agree

(* A load that drops the dead leaves what agrees with the file.             *)
LEMMA LivingAgrees ==
  ASSUME NEW f \in Keyspaces, NEW t \in Nat
  PROVE  Agree(Living(f, t), f, t)
<1>1. ASSUME NEW k \in Keys PROVE Live(Living(f, t)[k], t) = Live(f[k], t)
  <2>1. Living(f, t)[k] = Live(f[k], t)
    BY DEF Living, Live
  <2>2. Live(Live(f[k], t), t) = Live(f[k], t)
    BY DEF Live, IsDead, Gone
  <2> QED
    BY <2>1, <2>2
<1> QED
  BY <1>1 DEF Agree

(* Agreement is what the properties say with Living.                        *)
LEMMA AgreeIsLiving ==
  ASSUME NEW f, NEW g, NEW t, Agree(f, g, t)
  PROVE  Living(f, t) = Living(g, t)
<1>1. Living(f, t) = [k \in Keys |-> Live(f[k], t)] /\ Living(g, t) = [k \in Keys |-> Live(g[k], t)]
  BY DEF Living, Live
<1> QED
  BY <1>1 DEF Agree

(***************************************************************************)
(* Types.                                                                  *)
(***************************************************************************)

(* The kernel's choice is a free pid.                                       *)
LEMMA NewPidFree ==
  ASSUME FreePids # {}
  PROVE  /\ NewPid \in Pids /\ NewPid # server
         /\ writer[NewPid].is = "none" /\ exited[NewPid] = "no"
<1>1. NewPid \in FreePids
  BY ZenonT(40) DEF NewPid
<1> QED
  BY <1>1 DEF FreePids

(* The write that number v names.                                           *)
LEMMA PastTyped ==
  ASSUME TypeOK, NEW v \in Nat, v <= Len(past)
  PROVE  KeysAt(v) \in Keyspaces /\ WritesAt(v) \in Nat
<1>1. CASE v = 0
  BY <1>1, ConstantsTyped DEF KeysAt, WritesAt
<1>2. CASE v # 0
  <2>1. past[v] \in Writes
    <3>1. past \in Seq(Writes) /\ v \in 1 .. Len(past)
      BY <1>2 DEF TypeOK
    <3> QED
      BY <3>1
  <2> QED
    BY <1>2, <2>1 DEF KeysAt, WritesAt, Writes
<1> QED
  BY <1>1, <1>2

(* One more write leaves the earlier ones as they were.                     *)
LEMMA PastGrows ==
  ASSUME TypeOK, NEW r \in Writes, past' = Append(past, r)
  PROVE  /\ past' \in Seq(Writes)
         /\ Len(past') = Len(past) + 1
         /\ \A v \in Nat : v = Len(past) + 1 => KeysAt(v)' = r.keys /\ WritesAt(v)' = r.n
         /\ \A v \in Nat : v <= Len(past) => KeysAt(v)' = KeysAt(v) /\ WritesAt(v)' = WritesAt(v)
<1>1. past \in Seq(Writes) /\ Len(past) \in Nat
  BY DEF TypeOK
<1>2. past' \in Seq(Writes) /\ Len(past') = Len(past) + 1
      /\ past'[Len(past) + 1] = r
      /\ \A i \in 1 .. Len(past) : past'[i] = past[i]
  BY <1>1
<1>3. ASSUME NEW v \in Nat, v = Len(past) + 1
      PROVE  KeysAt(v)' = r.keys /\ WritesAt(v)' = r.n
  BY <1>1, <1>2, <1>3 DEF KeysAt, WritesAt
<1>4. ASSUME NEW v \in Nat, v <= Len(past)
      PROVE  KeysAt(v)' = KeysAt(v) /\ WritesAt(v)' = WritesAt(v)
  <2>1. v = 0 \/ past'[v] = past[v]
    BY <1>1, <1>2, <1>4
  <2> QED
    BY <2>1, ZenonT(40) DEF KeysAt, WritesAt
<1> QED
  BY <1>2, <1>3, <1>4

(* Each step of the file writer keeps the types.                            *)
LEMMA OpenTyped ==
  ASSUME TypeOK, NEW p \in Pids, NEW image \in Images, Open(p, image)
  PROVE  /\ tmp' \in [Pids -> Files] /\ writer' \in [Pids -> Writers]
         /\ tmp' = [tmp EXCEPT ![p] = File(Empty, image.ver, FALSE)]
         /\ \A q \in Pids : q # p => tmp'[q] = tmp[q] /\ writer'[q] = writer[q]
         /\ tmp'[p].keys = Empty /\ tmp'[p].ver = image.ver
         /\ writer'[p].left = Keys /\ writer'[p].asof = now
         /\ writer'[p].failed = FALSE /\ writer'[p].is = "open"
<1> DEFINE f == File(Empty, image.ver, FALSE)
           w == [left |-> Keys, asof |-> now, failed |-> FALSE, is |-> "open"]
<1>1. image.ver \in Nat
  BY DEF Images
<1>2. f \in Files /\ f.keys = Empty /\ f.ver = image.ver
  BY <1>1, ConstantsTyped DEF File, Files
<1>3. w \in Writers /\ w.left = Keys /\ w.asof = now /\ w.failed = FALSE /\ w.is = "open"
  BY DEF TypeOK, Writers
<1>4. tmp' = [tmp EXCEPT ![p] = f] /\ writer' = [writer EXCEPT ![p] = w]
  BY DEF Open
<1> HIDE DEF f, w
<1>5. tmp'[p] = f /\ writer'[p] = w
  BY <1>4 DEF TypeOK
<1>6. \A q \in Pids : q # p => tmp'[q] = tmp[q] /\ writer'[q] = writer[q]
  BY <1>4 DEF TypeOK
<1>7. tmp' \in [Pids -> Files] /\ writer' \in [Pids -> Writers]
  BY <1>2, <1>3, <1>4 DEF TypeOK
<1> QED
  BY <1>2, <1>3, <1>4, <1>5, <1>6, <1>7, ZenonT(40) DEF f

(* WriteEntry moves one key from what is left to the file, or fails.        *)
LEMMA WriteEntryTyped ==
  ASSUME TypeOK, NEW p \in Pids, NEW ok \in BOOLEAN, WriteEntry(p, ok)
  PROVE  TypeOK'
<1> DEFINE k == CHOOSE k \in writer[p].left : TRUE
           c == mem[p].keys[k]
<1>1. writer[p] \in Writers /\ writer[p].left # {} /\ tmp[p] \in Files
  BY DEF TypeOK, WriteEntry
<1>2. k \in Keys
  BY <1>1 DEF Writers
<1>3. c \in Cells
  BY <1>2 DEF TypeOK, Images, Keyspaces
<1>4. writer' \in [Pids -> Writers]
  <2> DEFINE w == [left |-> IF ok THEN writer[p].left \ {k} ELSE {},
                   asof |-> writer[p].asof, failed |-> ~ok, is |-> "open"]
  <2>1. writer' = [writer EXCEPT ![p] = w]
    BY DEF WriteEntry
  <2>2. w \in Writers
    BY <1>1 DEF Writers
  <2> HIDE DEF w
  <2> QED
    BY <2>1, <2>2 DEF TypeOK
<1>5. tmp' \in [Pids -> Files]
  <2>1. tmp' = tmp \/ tmp' = [tmp EXCEPT ![p].keys[k] = c]
    BY DEF WriteEntry
  <2> HIDE DEF k, c
  <2>2. tmp[p].keys \in Keyspaces /\ [tmp[p].keys EXCEPT ![k] = c] \in Keyspaces
    BY <1>1, <1>2, <1>3 DEF Files, Keyspaces
  <2>3. [tmp[p] EXCEPT !.keys = [@ EXCEPT ![k] = c]] \in Files
    BY <1>1, <2>2 DEF Files
  <2> QED
    BY <2>1, <2>3, ZenonT(40) DEF TypeOK
<1> QED
  BY <1>4, <1>5 DEF TypeOK, WriteEntry, history

(* Finish closes the writer and puts the file into place, or leaves it.     *)
LEMMA FinishTyped ==
  ASSUME TypeOK, NEW p \in Pids, NEW ok \in BOOLEAN, Finish(p, ok)
  PROVE  /\ writer' \in [Pids -> Writers] /\ tmp' \in [Pids -> Files] /\ file' \in Files
         /\ writer'[p].is = "none" /\ writer[p].is = "open" /\ writer[p].left = {}
         /\ \A q \in Pids : q # p => tmp'[q] = tmp[q] /\ writer'[q] = writer[q]
         /\ ~Finished(p, ok) => file' = file
         /\ Finished(p, ok) => /\ file'.keys = tmp[p].keys /\ file'.ver = tmp[p].ver
                               /\ file'.whole = TRUE
<1>1. writer' = [writer EXCEPT ![p] = NoWriter] /\ tmp' = [tmp EXCEPT ![p] = NoFile]
  BY DEF Finish
<1>2. NoWriter \in Writers /\ NoFile \in Files /\ NoWriter.is = "none"
  BY ConstantsTyped DEF NoWriter
<1>3. writer' \in [Pids -> Writers] /\ tmp' \in [Pids -> Files]
  BY <1>1, <1>2 DEF TypeOK
<1>4. writer'[p].is = "none" /\ \A q \in Pids : q # p => tmp'[q] = tmp[q] /\ writer'[q] = writer[q]
  BY <1>1, <1>2 DEF TypeOK
<1> DEFINE f == File(tmp[p].keys, tmp[p].ver, TRUE)
<1>5. f \in Files /\ f.keys = tmp[p].keys /\ f.ver = tmp[p].ver /\ f.whole = TRUE
  BY DEF TypeOK, Files, File
<1>6. file' = IF Finished(p, ok) THEN f ELSE file
  BY DEF Finish
<1> HIDE DEF f
<1>7. file' \in Files
  BY <1>5, <1>6 DEF TypeOK
<1>8. writer[p].is = "open" /\ writer[p].left = {}
  BY DEF Finish
<1> QED
  BY <1>3, <1>4, <1>5, <1>6, <1>7, <1>8

(* What a load puts into memory.                                            *)
LEMMA LoadedTyped ==
  ASSUME TypeOK
  PROVE  Loaded \in Images /\ Loaded.keys = Living(file.keys, now) /\ Loaded.ver = file.ver
BY LivingTyped DEF TypeOK, Loaded, Images, Files

(* A change of the server's keyspace.                                       *)
LEMMA ChangeTyped ==
  ASSUME TypeOK, NEW keys \in Keyspaces, Change(keys), mem[server].ver <= Len(past)
  PROVE  /\ TypeOK' /\ server \in Pids
         /\ mem'[server].keys = keys /\ mem'[server].ver = Len(past) + 1
         /\ \A q \in Pids : q # server => mem'[q] = mem[q]
         /\ \E r \in Writes : /\ past' = Append(past, r) /\ r.keys = keys
                              /\ r.n = WritesAt(mem[server].ver) + 1
         /\ book'.dirty = book.dirty + 1 /\ book'.child = book.child
         /\ book'.dirtyAtFork = book.dirtyAtFork
<1>1. server \in Pids /\ mem[server] \in Images /\ mem[server].ver \in Nat
  BY DEF Change, IsIdle, Up, TypeOK, Images
<1>2. WritesAt(mem[server].ver) \in Nat
  BY <1>1, PastTyped
<1> DEFINE r == [keys |-> keys, n |-> WritesAt(mem[server].ver) + 1]
           m == [keys |-> keys, ver |-> Len(past) + 1]
<1>3. r \in Writes /\ r.keys = keys /\ r.n = WritesAt(mem[server].ver) + 1
  BY <1>2 DEF Writes
<1>4. m \in Images /\ m.keys = keys /\ m.ver = Len(past) + 1
  BY DEF TypeOK, Images
<1>5. past' = Append(past, r) /\ mem' = [mem EXCEPT ![server] = m]
      /\ book' = [book EXCEPT !.dirty = @ + 1]
  BY DEF Change
<1> HIDE DEF r, m
<1>6. past' \in Seq(Writes)
  BY <1>3, <1>5, PastGrows
<1>7. mem' \in [Pids -> Images] /\ mem'[server] = m /\ \A q \in Pids : q # server => mem'[q] = mem[q]
  BY <1>1, <1>4, <1>5 DEF TypeOK
<1>8. /\ book' \in [dirty : Int, child : Pids \cup {NoPid}, dirtyAtFork : Int]
      /\ book'.dirty = book.dirty + 1 /\ book'.child = book.child
      /\ book'.dirtyAtFork = book.dirtyAtFork
  BY <1>5 DEF TypeOK
<1>9. TypeOK'
  BY <1>6, <1>7, <1>8 DEF TypeOK, Change, disk
<1> QED
  BY <1>1, <1>3, <1>4, <1>5, <1>7, <1>8, <1>9

(* The beginning of a save in the foreground.                               *)
LEMMA BeginSaveTyped ==
  ASSUME TypeOK, NEW what \in Saving, BeginSave(what)
  PROVE  TypeOK' /\ server \in Pids /\ mem[server] \in Images /\ Open(server, mem[server])
<1>1. server \in Pids /\ mem[server] \in Images /\ Open(server, mem[server])
  BY DEF BeginSave, IsIdle, Up, TypeOK
<1>2. tmp' \in [Pids -> Files] /\ writer' \in [Pids -> Writers]
  BY <1>1, OpenTyped, ZenonT(40)
<1>3. doing' = what /\ overlapped' \in BOOLEAN
  BY DEF BeginSave, TypeOK
<1> QED
  BY <1>1, <1>2, <1>3 DEF TypeOK, BeginSave

(* Its end: the server goes on, loads what it saved, or is down.            *)
LEMMA EndSaveTyped ==
  ASSUME TypeOK, NEW ok \in BOOLEAN, EndSave(ok)
  PROVE  /\ TypeOK' /\ server \in Pids /\ Finish(server, ok) /\ now' = now /\ past' = past
         /\ overlapped' = overlapped /\ doing \in Saving
         /\ \A q \in Pids : q # server => mem'[q] = mem[q]
         /\ \/ /\ ~Finished(server, ok) /\ doing' = "idle"
               /\ UNCHANGED <<server, book, mem, exited>>
            \/ /\ Finished(server, ok) /\ doing = "save" /\ doing' = "idle"
               /\ book'.dirty = 0 /\ book'.child = book.child /\ book'.dirtyAtFork = book.dirtyAtFork
               /\ UNCHANGED <<server, mem, exited>>
            \/ /\ Finished(server, ok) /\ doing = "reload" /\ doing' = "load"
               /\ book'.dirty = 0 /\ book'.child = book.child /\ book'.dirtyAtFork = book.dirtyAtFork
               /\ mem'[server].ver = mem[server].ver
               /\ UNCHANGED <<server, exited>>
            \/ /\ Finished(server, ok) /\ doing = "shutdown" /\ doing' = "idle"
               /\ server' = NoPid /\ book' = FreshBook /\ mem'[server] = NoMem
               /\ exited' = [p \in Pids |-> "no"]
<1>1. server \in Pids /\ Finish(server, ok) /\ doing \in Saving
  BY DEF EndSave, Up, TypeOK
<1>2. writer' \in [Pids -> Writers] /\ tmp' \in [Pids -> Files] /\ file' \in Files
  BY <1>1, FinishTyped, ZenonT(40)
<1>3. now' = now /\ past' = past /\ overlapped' = overlapped
  BY DEF EndSave, history
<1> DEFINE Books == [dirty : Int, child : Pids \cup {NoPid}, dirtyAtFork : Int]
           cleared == [book EXCEPT !.dirty = 0]
<1>4. cleared \in Books /\ cleared.dirty = 0 /\ cleared.child = book.child
      /\ cleared.dirtyAtFork = book.dirtyAtFork
  BY DEF TypeOK
<1> DEFINE emptied == [mem EXCEPT ![server].keys = Empty]
           dropped == [mem EXCEPT ![server] = NoMem]
<1>5. emptied \in [Pids -> Images] /\ emptied[server].ver = mem[server].ver
      /\ \A q \in Pids : q # server => emptied[q] = mem[q]
  BY <1>1, ConstantsTyped, ZenonT(40) DEF TypeOK, Images
<1>6. dropped \in [Pids -> Images] /\ dropped[server] = NoMem
      /\ \A q \in Pids : q # server => dropped[q] = mem[q]
  BY <1>1, ConstantsTyped DEF TypeOK
<1> DEFINE none == [p \in Pids |-> "no"]
<1>7. none \in [Pids -> {"no", "ok", "failed"}]
  OBVIOUS
<1> HIDE DEF cleared, emptied, dropped, none
<1>8. CASE ~Finished(server, ok)
  <2>1. doing' = "idle" /\ server' = server /\ book' = book /\ mem' = mem /\ exited' = exited
    BY <1>1, <1>8 DEF EndSave
  <2> QED
    BY <1>1, <1>2, <1>3, <1>8, <2>1 DEF TypeOK
<1>9. CASE Finished(server, ok) /\ doing = "save"
  <2>1. doing' = "idle" /\ server' = server /\ book' = cleared /\ mem' = mem /\ exited' = exited
    BY <1>1, <1>9 DEF EndSave, cleared
  <2> QED
    BY <1>1, <1>2, <1>3, <1>4, <1>9, <2>1 DEF TypeOK
<1>10. CASE Finished(server, ok) /\ doing = "reload"
  <2>1. doing' = "load" /\ server' = server /\ book' = cleared /\ mem' = emptied /\ exited' = exited
    BY <1>1, <1>10 DEF EndSave, cleared, emptied
  <2> QED
    BY <1>1, <1>2, <1>3, <1>4, <1>5, <1>10, <2>1 DEF TypeOK
<1>11. CASE Finished(server, ok) /\ doing = "shutdown"
  <2>1. /\ doing' = "idle" /\ server' = NoPid /\ book' = FreshBook /\ mem' = dropped
        /\ exited' = none
    BY <1>1, <1>11 DEF EndSave, dropped, none
  <2> QED
    BY <1>1, <1>2, <1>3, <1>6, <1>7, <1>11, <2>1, ConstantsTyped DEF TypeOK, none
<1> QED
  BY <1>1, <1>8, <1>9, <1>10, <1>11 DEF Saving

(* The end of a reload.                                                     *)
LEMMA EndReloadTyped ==
  ASSUME TypeOK, EndReload
  PROVE  /\ TypeOK' /\ server \in Pids /\ doing = "load" /\ doing' = "idle"
         /\ mem'[server] = Loaded
         /\ \A q \in Pids : q # server => mem'[q] = mem[q]
         /\ UNCHANGED <<now, server, writer, exited, tmp, file, book, past, overlapped>>
<1>1. server \in Pids /\ mem' = [mem EXCEPT ![server] = Loaded] /\ doing = "load" /\ doing' = "idle"
      /\ UNCHANGED <<now, server, writer, exited, tmp, file, book, past, overlapped>>
  BY DEF EndReload, Up, TypeOK, disk, history
<1>2. mem' \in [Pids -> Images] /\ mem'[server] = Loaded
      /\ \A q \in Pids : q # server => mem'[q] = mem[q]
  BY <1>1, LoadedTyped DEF TypeOK
<1> QED
  BY <1>1, <1>2 DEF TypeOK

(* The fork.                                                                *)
LEMMA StartTyped ==
  ASSUME TypeOK, startBackgroundSave
  PROVE  /\ TypeOK' /\ server \in Pids /\ IsIdle /\ book.child = NoPid /\ FreePids # {}
         /\ mem[server] \in Images /\ Open(NewPid, mem[server])
         /\ mem'[NewPid] = mem[server] /\ \A q \in Pids : q # NewPid => mem'[q] = mem[q]
         /\ book'.dirty = book.dirty /\ book'.child = NewPid /\ book'.dirtyAtFork = book.dirty
         /\ overlapped' = (overlapped \/ Running # {})
         /\ UNCHANGED <<now, server, exited, file, doing, past>>
<1>1. /\ server \in Pids /\ IsIdle /\ book.child = NoPid /\ FreePids # {}
      /\ mem[server] \in Images /\ Open(NewPid, mem[server])
      /\ UNCHANGED <<now, server, exited, file, doing, past>>
  BY DEF startBackgroundSave, IsIdle, Up, TypeOK
<1>2. NewPid \in Pids
  BY <1>1, NewPidFree
<1>3. tmp' \in [Pids -> Files] /\ writer' \in [Pids -> Writers]
  BY <1>1, <1>2, OpenTyped, ZenonT(40)
<1>4. /\ mem' \in [Pids -> Images] /\ mem'[NewPid] = mem[server]
      /\ \A q \in Pids : q # NewPid => mem'[q] = mem[q]
  BY <1>1, <1>2 DEF TypeOK, startBackgroundSave
<1>5. /\ book' \in [dirty : Int, child : Pids \cup {NoPid}, dirtyAtFork : Int]
      /\ book'.dirty = book.dirty /\ book'.child = NewPid /\ book'.dirtyAtFork = book.dirty
  BY <1>2, ZenonT(40) DEF TypeOK, startBackgroundSave
<1>6. overlapped' = (overlapped \/ Running # {}) /\ overlapped' \in BOOLEAN
  BY DEF startBackgroundSave, TypeOK
<1> QED
  BY <1>1, <1>3, <1>4, <1>5, <1>6 DEF TypeOK

(* How a child leaves its memory and its status.                            *)
LEMMA ExitsTyped ==
  ASSUME TypeOK, NEW p \in Pids, NEW status \in {"ok", "failed"}, Exits(p, status)
  PROVE  /\ mem' \in [Pids -> Images] /\ mem'[p] = NoMem
         /\ \A q \in Pids : q # p => mem'[q] = mem[q]
         /\ exited' \in [Pids -> {"no", "ok", "failed"}]
         /\ \A q \in Pids : q # p => exited'[q] = exited[q]
         /\ exited'[p] = IF book.child = p THEN status ELSE exited[p]
<1>1. mem' = [mem EXCEPT ![p] = NoMem]
      /\ exited' = IF book.child = p THEN [exited EXCEPT ![p] = status] ELSE exited
  BY DEF Exits
<1>2. mem' \in [Pids -> Images] /\ mem'[p] = NoMem /\ \A q \in Pids : q # p => mem'[q] = mem[q]
  BY <1>1, ConstantsTyped DEF TypeOK
<1>3. /\ exited' \in [Pids -> {"no", "ok", "failed"}]
      /\ \A q \in Pids : q # p => exited'[q] = exited[q]
      /\ exited'[p] = IF book.child = p THEN status ELSE exited[p]
  BY <1>1 DEF TypeOK
<1> QED
  BY <1>2, <1>3

(* A child that finishes, and one that does not.                            *)
LEMMA ChildEndsTyped ==
  ASSUME TypeOK, NEW p \in Pids, NEW ok \in BOOLEAN, ChildEnds(p, ok)
  PROVE  /\ TypeOK' /\ p # server /\ Finish(p, ok)
         /\ Exits(p, IF Finished(p, ok) THEN "ok" ELSE "failed")
         /\ UNCHANGED <<now, server, book, doing, past, overlapped>>
<1>1. /\ p # server /\ Finish(p, ok) /\ Exits(p, IF Finished(p, ok) THEN "ok" ELSE "failed")
      /\ UNCHANGED <<now, server, book, doing, past, overlapped>>
  BY DEF ChildEnds, history
<1>2. writer' \in [Pids -> Writers] /\ tmp' \in [Pids -> Files] /\ file' \in Files
  BY <1>1, FinishTyped, ZenonT(40)
<1>3. mem' \in [Pids -> Images] /\ exited' \in [Pids -> {"no", "ok", "failed"}]
  BY <1>1, ExitsTyped
<1> QED
  BY <1>1, <1>2, <1>3 DEF TypeOK

(* A child that is killed or fails: its file is closed, its status kept.    *)
LEMMA ChildDiesTyped ==
  ASSUME TypeOK, NEW p \in Pids, ChildDies(p)
  PROVE  /\ TypeOK' /\ p # server /\ Exits(p, "failed") /\ writer[p].is = "open"
         /\ writer'[p].is = "none"
         /\ \A q \in Pids : q # p => tmp'[q] = tmp[q] /\ writer'[q] = writer[q]
         /\ UNCHANGED <<now, server, file, book, doing, past, overlapped>>
<1>1. /\ p # server /\ Exits(p, "failed") /\ writer[p].is = "open"
      /\ UNCHANGED <<now, server, file, book, doing, past, overlapped>>
      /\ writer' = [writer EXCEPT ![p] = NoWriter] /\ tmp' = [tmp EXCEPT ![p] = NoFile]
  BY DEF ChildDies, history
<1>2. NoWriter \in Writers /\ NoFile \in Files /\ NoWriter.is = "none"
  BY ConstantsTyped DEF NoWriter
<1>3. /\ writer' \in [Pids -> Writers] /\ tmp' \in [Pids -> Files]
      /\ writer'[p].is = "none"
      /\ \A q \in Pids : q # p => tmp'[q] = tmp[q] /\ writer'[q] = writer[q]
  BY <1>1, <1>2 DEF TypeOK
<1>4. mem' \in [Pids -> Images] /\ exited' \in [Pids -> {"no", "ok", "failed"}]
  BY <1>1, ExitsTyped
<1> QED
  BY <1>1, <1>3, <1>4 DEF TypeOK

(* The server collects its child.                                           *)
LEMMA ReapTyped ==
  ASSUME TypeOK, reapBackgroundSave
  PROVE  /\ TypeOK' /\ IsIdle /\ book.child \in Pids /\ exited[book.child] # "no"
         /\ exited'[book.child] = "no"
         /\ \A q \in Pids : q # book.child => exited'[q] = exited[q]
         /\ book'.child = NoPid
         /\ book'.dirty = IF exited[book.child] # "ok" THEN book.dirty
                          ELSE IF book.dirty >= book.dirtyAtFork
                               THEN book.dirty - book.dirtyAtFork ELSE 0
         /\ UNCHANGED <<now, server, mem, writer, tmp, file, doing, past, overlapped>>
<1>1. /\ IsIdle /\ book.child \in Pids /\ exited[book.child] # "no"
      /\ exited' = [exited EXCEPT ![book.child] = "no"]
      /\ UNCHANGED <<now, server, mem, writer, tmp, file, doing, past, overlapped>>
  BY DEF reapBackgroundSave, TypeOK, disk, history
<1>2. /\ exited' \in [Pids -> {"no", "ok", "failed"}] /\ exited'[book.child] = "no"
      /\ \A q \in Pids : q # book.child => exited'[q] = exited[q]
  BY <1>1 DEF TypeOK
<1>3. /\ book' \in [dirty : Int, child : Pids \cup {NoPid}, dirtyAtFork : Int]
      /\ book'.child = NoPid
      /\ book'.dirty = IF exited[book.child] # "ok" THEN book.dirty
                       ELSE IF book.dirty >= book.dirtyAtFork
                            THEN book.dirty - book.dirtyAtFork ELSE 0
  <2> DEFINE d == IF exited[book.child] # "ok" THEN book.dirty
                  ELSE IF book.dirty >= book.dirtyAtFork
                       THEN book.dirty - book.dirtyAtFork ELSE 0
  <2>1. book' = [book EXCEPT !.child = NoPid, !.dirty = d]
    BY DEF reapBackgroundSave
  <2>2. d \in Int
    BY DEF TypeOK
  <2> HIDE DEF d
  <2>3. /\ book' \in [dirty : Int, child : Pids \cup {NoPid}, dirtyAtFork : Int]
        /\ book'.child = NoPid /\ book'.dirty = d
    BY <2>1, <2>2, ZenonT(40) DEF TypeOK
  <2> QED
    BY <2>3 DEF d
<1> QED
  BY <1>1, <1>2, <1>3 DEF TypeOK

(* The server starts, and is killed.                                        *)
LEMMA LoadTyped ==
  ASSUME TypeOK, loadRdbAtStartup
  PROVE  /\ TypeOK' /\ ~Up /\ FreePids # {} /\ server' = NewPid /\ book' = FreshBook
         /\ doing' = "idle"
         /\ mem'[NewPid] = Loaded /\ \A q \in Pids : q # NewPid => mem'[q] = mem[q]
         /\ overlapped' = (overlapped \/ Running # {})
         /\ UNCHANGED <<now, writer, exited, tmp, file, past>>
<1>1. /\ ~Up /\ FreePids # {} /\ server' = NewPid /\ book' = FreshBook /\ doing' = "idle"
      /\ mem' = [mem EXCEPT ![NewPid] = Loaded]
      /\ overlapped' = (overlapped \/ Running # {})
      /\ UNCHANGED <<now, writer, exited, tmp, file, past>>
  BY DEF loadRdbAtStartup, disk
<1>2. NewPid \in Pids
  BY <1>1, NewPidFree
<1>3. /\ mem' \in [Pids -> Images] /\ mem'[NewPid] = Loaded
      /\ \A q \in Pids : q # NewPid => mem'[q] = mem[q]
  BY <1>1, <1>2, LoadedTyped DEF TypeOK
<1>4. overlapped' \in BOOLEAN
  BY <1>1 DEF TypeOK
<1> QED
  BY <1>1, <1>2, <1>3, <1>4, ConstantsTyped DEF TypeOK

(* A crash takes every process of the server with it.                       *)
LEMMA CrashTyped ==
  ASSUME TypeOK, Crash
  PROVE  /\ TypeOK' /\ server \in Pids /\ server' = NoPid /\ book' = FreshBook /\ doing' = "idle"
         /\ mem'[server] = NoMem /\ \A q \in Pids : q # server => mem'[q] = mem[q]
         /\ writer'[server].is = "none"
         /\ \A q \in Pids : q # server => tmp'[q] = tmp[q] /\ writer'[q] = writer[q]
         /\ exited' = [p \in Pids |-> "no"]
         /\ UNCHANGED <<now, file, past, overlapped>>
<1>1. /\ server \in Pids /\ server' = NoPid /\ book' = FreshBook /\ doing' = "idle"
      /\ mem' = [mem EXCEPT ![server] = NoMem]
      /\ writer' = [writer EXCEPT ![server] = NoWriter] /\ tmp' = [tmp EXCEPT ![server] = NoFile]
      /\ exited' = [p \in Pids |-> "no"]
      /\ UNCHANGED <<now, file, past, overlapped>>
  BY DEF Crash, Up, TypeOK, history
<1>2. NoWriter \in Writers /\ NoFile \in Files /\ NoWriter.is = "none" /\ NoMem \in Images
  BY ConstantsTyped DEF NoWriter
<1>3. /\ writer' \in [Pids -> Writers] /\ tmp' \in [Pids -> Files] /\ mem' \in [Pids -> Images]
      /\ writer'[server].is = "none" /\ mem'[server] = NoMem
      /\ \A q \in Pids : q # server => tmp'[q] = tmp[q] /\ writer'[q] = writer[q] /\ mem'[q] = mem[q]
  BY <1>1, <1>2 DEF TypeOK
<1>4. exited' \in [Pids -> {"no", "ok", "failed"}]
  BY <1>1
<1> QED
  BY <1>1, <1>3, <1>4, ConstantsTyped DEF TypeOK

(***************************************************************************)
(* The snapshot is a point in time.                                        *)
(***************************************************************************)

(* The memory of p is what one of the writes left, but for what has died    *)
(* since, except between the two halves of a reload.                        *)
MemOK(p) ==
  /\ mem[p].ver <= Len(past)
  /\ (p = server /\ doing = "load") \/ Agree(mem[p].keys, KeysAt(mem[p].ver), now)

(* So is the file.                                                          *)
FileOK ==
  /\ file.ver <= Len(past)
  /\ Agree(file.keys, KeysAt(file.ver), now)
  /\ file.is = "file" => file.whole

(* What is not left to write is written, as long as no write failed.        *)
Wrote(f, w, m, t) ==
  \A k \in Keys : IF k \in w.left THEN f.keys[k] = Gone
                  ELSE w.failed \/ Live(f.keys[k], t) = Live(m.keys[k], t)

WriterOK(p) ==
  writer[p].is = "open" =>
    /\ tmp[p].ver = mem[p].ver
    /\ writer[p].asof <= now
    /\ writer[p].failed => writer[p].left = {}
    /\ Wrote(tmp[p], writer[p], mem[p], now)
    /\ p = server => doing \in Saving

SafeInv == TypeOK /\ FileOK /\ \A p \in Pids : MemOK(p) /\ WriterOK(p)

(* SafeInv holds before the first start.                                    *)
LEMMA SafeInit == Init => SafeInv
<1> SUFFICES ASSUME Init PROVE SafeInv
  OBVIOUS
<1>1. TypeOK
  <2>1. past \in Seq(Writes) /\ now \in Nat /\ exited \in [Pids -> {"no", "ok", "failed"}]
    BY DEF Init
  <2>3. overlapped \in BOOLEAN /\ doing \in {"idle", "load"} \cup Saving
    BY ZenonT(40) DEF Init
  <2>2. /\ mem \in [Pids -> Images] /\ writer \in [Pids -> Writers] /\ tmp \in [Pids -> Files]
        /\ file \in Files /\ server \in Pids \cup {NoPid}
        /\ book \in [dirty : Int, child : Pids \cup {NoPid}, dirtyAtFork : Int]
    BY ConstantsTyped DEF Init
  <2> QED
    BY <2>1, <2>2, <2>3 DEF TypeOK
<1>2. KeysAt(0) = Empty /\ NoMem.ver = 0 /\ NoMem.keys = Empty /\ NoWriter.is = "none"
      /\ NoFile.ver = 0 /\ NoFile.keys = Empty /\ NoFile.is = "none"
  BY DEF KeysAt, NoMem, NoFile, NoWriter
<1>3. Agree(Empty, Empty, now)
  BY DEF Agree
<1> QED
  BY <1>1, <1>2, <1>3 DEF Init, SafeInv, MemOK, FileOK, WriterOK

(* A process that a step leaves alone, and the file that it leaves alone.   *)
LEMMA ProcessKept ==
  ASSUME SafeInv, NEW q \in Pids, UNCHANGED <<now, past>>,
         mem'[q] = mem[q], writer'[q] = writer[q], tmp'[q] = tmp[q],
         (q = server \/ q = server') => server' = server /\ doing' = doing
  PROVE  MemOK(q)' /\ WriterOK(q)'
<1>1. KeysAt(mem[q].ver)' = KeysAt(mem[q].ver)
  BY DEF KeysAt
<1>2. MemOK(q) /\ WriterOK(q)
  BY DEF SafeInv
<1>3. MemOK(q)'
  BY <1>1, <1>2 DEF MemOK
<1>4. WriterOK(q)'
  BY <1>2 DEF WriterOK
<1> QED
  BY <1>3, <1>4

(* The file stays what it is of when the file and the writes stay.          *)
LEMMA FileKept ==
  ASSUME SafeInv, UNCHANGED <<now, past, file>>
  PROVE  FileOK'
BY DEF SafeInv, FileOK, KeysAt

(* A process with nothing in memory and no writer.                          *)
LEMMA ProcessGone ==
  ASSUME TypeOK', NEW q \in Pids, mem'[q] = NoMem, writer'[q].is = "none"
  PROVE  MemOK(q)' /\ WriterOK(q)'
<1>1. KeysAt(NoMem.ver)' = Empty /\ NoMem.ver = 0 /\ NoMem.keys = Empty
  BY DEF KeysAt, NoMem
<1>2. Len(past') \in Nat
  BY DEF TypeOK
<1>3. Agree(Empty, Empty, now')
  BY DEF Agree
<1>4. MemOK(q)'
  BY <1>1, <1>2, <1>3 DEF MemOK
<1>5. WriterOK(q)'
  BY DEF WriterOK
<1> QED
  BY <1>4, <1>5

(* A write of a command is the next write of the history.                   *)
LEMMA ChangeSafe ==
  ASSUME SafeInv, NEW keys \in Keyspaces, Change(keys)
  PROVE  SafeInv'
<1>1. TypeOK /\ FileOK /\ server \in Pids /\ Up /\ doing = "idle" /\ mem[server].ver <= Len(past)
  BY DEF SafeInv, Change, IsIdle, Up, MemOK, TypeOK
<1>2. /\ TypeOK' /\ mem'[server].keys = keys /\ mem'[server].ver = Len(past) + 1
      /\ \A q \in Pids : q # server => mem'[q] = mem[q]
  BY <1>1, ChangeTyped
<1>3. PICK r \in Writes : past' = Append(past, r) /\ r.keys = keys
  BY <1>1, ChangeTyped
<1>4. /\ Len(past') = Len(past) + 1 /\ Len(past) \in Nat
      /\ \A v \in Nat : v = Len(past) + 1 => KeysAt(v)' = keys
      /\ \A v \in Nat : v <= Len(past) => KeysAt(v)' = KeysAt(v)
  BY <1>1, <1>3, PastGrows DEF TypeOK
<1>5. UNCHANGED <<now, server, writer, tmp, file, doing>>
  BY DEF Change, disk
<1>6. file.ver \in Nat /\ \A q \in Pids : mem[q].ver \in Nat
  BY <1>1 DEF TypeOK, Files, Images
<1>7. FileOK'
  BY <1>1, <1>4, <1>5, <1>6 DEF FileOK
<1>8. ASSUME NEW q \in Pids PROVE MemOK(q)' /\ WriterOK(q)'
  <2>1. CASE q = server
    <3>1. MemOK(q)'
      BY <1>2, <1>4, <2>1 DEF MemOK, Agree
    <3>2. WriterOK(q)'
      BY <1>1, <1>5, <2>1 DEF SafeInv, WriterOK, Saving
    <3> QED
      BY <3>1, <3>2
  <2>2. CASE q # server
    <3>1. MemOK(q) /\ WriterOK(q) /\ mem'[q] = mem[q]
      BY <1>2, <2>2 DEF SafeInv
    <3>2. MemOK(q)'
      BY <1>4, <1>5, <1>6, <2>2, <3>1 DEF MemOK
    <3>3. WriterOK(q)'
      BY <1>5, <2>2, <3>1 DEF WriterOK
    <3> QED
      BY <3>2, <3>3
  <2> QED
    BY <2>1, <2>2
<1> QED
  BY <1>2, <1>7, <1>8 DEF SafeInv

(* An entry that is written is of the process's own memory.                 *)
LEMMA WriteEntrySafe ==
  ASSUME SafeInv, NEW p \in Pids, NEW ok \in BOOLEAN, WriteEntry(p, ok)
  PROVE  SafeInv'
<1> DEFINE k == CHOOSE k \in writer[p].left : TRUE
           c == mem[p].keys[k]
<1>1. TypeOK /\ FileOK /\ writer[p].is = "open" /\ writer[p].left # {}
  BY DEF SafeInv, WriteEntry
<1>2. TypeOK' /\ FileOK'
      /\ UNCHANGED <<now, server, mem, exited, file, book, doing, past, overlapped>>
  BY <1>1, WriteEntryTyped, FileKept, ZenonT(40) DEF WriteEntry, history
<1>3. /\ writer' = [writer EXCEPT ![p] = [left |-> IF ok THEN writer[p].left \ {k} ELSE {},
                                          asof |-> writer[p].asof, failed |-> ~ok, is |-> "open"]]
      /\ tmp' = IF c = Gone \/ IsDead(c, writer[p].asof) \/ ~ok
                THEN tmp ELSE [tmp EXCEPT ![p].keys[k] = c]
  BY DEF WriteEntry
<1>4. k \in writer[p].left /\ k \in Keys /\ c \in Cells
  BY <1>1 DEF TypeOK, Writers, Images, Keyspaces
<1> HIDE DEF k, c
<1>5. \A q \in Pids : q # p => writer'[q] = writer[q] /\ tmp'[q] = tmp[q]
  BY <1>1, <1>3 DEF TypeOK
<1>6. WriterOK(p)'
  <2>1. /\ writer'[p].left = IF ok THEN writer[p].left \ {k} ELSE {}
        /\ writer'[p].asof = writer[p].asof /\ writer'[p].failed = ~ok
    BY <1>1, <1>3 DEF TypeOK
  <2>2. /\ tmp'[p].ver = tmp[p].ver
        /\ \A j \in Keys : j # k => tmp'[p].keys[j] = tmp[p].keys[j]
        /\ tmp'[p].keys[k] = IF c = Gone \/ IsDead(c, writer[p].asof) \/ ~ok
                             THEN tmp[p].keys[k] ELSE c
    BY <1>1, <1>3, <1>4, ZenonT(40) DEF TypeOK, Files, Keyspaces
  <2>3. WriterOK(p) /\ tmp[p].keys[k] = Gone /\ ~writer[p].failed
    BY <1>1, <1>4 DEF SafeInv, WriterOK, Wrote
  <2>4. ASSUME NEW j \in Keys
        PROVE  IF j \in writer'[p].left THEN tmp'[p].keys[j] = Gone
               ELSE writer'[p].failed \/ Live(tmp'[p].keys[j], now) = Live(mem[p].keys[j], now)
    <3>1. CASE ~ok
      BY <2>1, <3>1, ZenonT(40)
    <3>2. CASE ok /\ j = k
      <4>1. Live(tmp'[p].keys[k], now) = Live(c, now)
        <5>1. writer[p].asof <= now /\ writer[p].asof \in Nat /\ now \in Nat
          BY <1>1, <2>3 DEF WriterOK, TypeOK, Writers
        <5> QED
          BY <1>4, <2>2, <2>3, <3>2, <5>1 DEF Live, IsDead, Cells, Gone
      <4> QED
        BY <2>1, <3>2, <4>1 DEF c
    <3>3. CASE ok /\ j # k
      BY <1>1, <2>1, <2>2, <2>3, <3>3, ZenonT(40) DEF WriterOK, Wrote
    <3> QED
      BY <3>1, <3>2, <3>3
  <2>5. Wrote(tmp'[p], writer'[p], mem[p], now)
    BY <2>4 DEF Wrote
  <2>6. writer'[p].failed => writer'[p].left = {}
    BY <2>1, ZenonT(40)
  <2> QED
    BY <1>1, <1>2, <2>1, <2>2, <2>3, <2>5, <2>6 DEF WriterOK
<1>7. MemOK(p)'
  BY <1>2 DEF SafeInv, MemOK, KeysAt
<1>8. ASSUME NEW q \in Pids, q # p PROVE MemOK(q)' /\ WriterOK(q)'
  BY <1>2, <1>5, <1>8, ProcessKept
<1> QED
  BY <1>2, <1>6, <1>7, <1>8 DEF SafeInv

(* A file just opened has nothing in it and everything left to write.       *)
LEMMA OpenSafe ==
  ASSUME TypeOK, NEW p \in Pids, NEW image \in Images, Open(p, image), mem'[p] = image,
         now' = now, p = server' => doing' \in Saving
  PROVE  WriterOK(p)'
<1>1. /\ tmp'[p].keys = Empty /\ tmp'[p].ver = image.ver
      /\ writer'[p].left = Keys /\ writer'[p].asof = now /\ writer'[p].failed = FALSE
  BY OpenTyped, ZenonT(40)
<1>2. Wrote(tmp'[p], writer'[p], mem'[p], now')
  BY <1>1 DEF Wrote, Empty
<1>3. now \in Nat
  BY DEF TypeOK
<1> QED
  BY <1>1, <1>2, <1>3 DEF WriterOK

(* A save in the foreground opens a file of the server's memory.            *)
LEMMA BeginSaveSafe ==
  ASSUME SafeInv, NEW what \in Saving, BeginSave(what)
  PROVE  SafeInv'
<1>1. /\ TypeOK /\ TypeOK' /\ server \in Pids /\ mem[server] \in Images
      /\ Open(server, mem[server]) /\ doing = "idle" /\ doing' = what
      /\ UNCHANGED <<now, server, mem, file, past>>
  BY BeginSaveTyped DEF SafeInv, BeginSave, IsIdle
<1>2. FileOK'
  BY <1>1, FileKept
<1>3. WriterOK(server)'
  <2>1. server' = server /\ mem'[server] = mem[server]
    BY <1>1
  <2> QED
    BY <1>1, <2>1, OpenSafe
<1>4. MemOK(server)'
  BY <1>1, ZenonT(40) DEF SafeInv, MemOK, KeysAt
<1>5. ASSUME NEW q \in Pids, q # server PROVE MemOK(q)' /\ WriterOK(q)'
  <2>1. tmp'[q] = tmp[q] /\ writer'[q] = writer[q]
    BY <1>1, <1>5, OpenTyped, ZenonT(40)
  <2> QED
    BY <1>1, <1>5, <2>1, ProcessKept
<1> QED
  BY <1>1, <1>2, <1>3, <1>4, <1>5 DEF SafeInv

(* What a finished writer puts into place is its process's memory.          *)
LEMMA FinishSafe ==
  ASSUME SafeInv, NEW p \in Pids, NEW ok \in BOOLEAN, Finish(p, ok), UNCHANGED <<now, past>>
  PROVE  FileOK' /\ (Finished(p, ok) => file'.ver = mem[p].ver)
<1>1. TypeOK /\ WriterOK(p) /\ MemOK(p)
  BY DEF SafeInv
<1>2. CASE ~Finished(p, ok)
  <2>1. file' = file
    BY <1>1, <1>2, FinishTyped, ZenonT(40)
  <2> QED
    BY <1>2, <2>1, FileKept
<1>3. CASE Finished(p, ok)
  <2>1. /\ file'.keys = tmp[p].keys /\ file'.ver = tmp[p].ver /\ file'.whole = TRUE
        /\ writer[p].is = "open" /\ writer[p].left = {} /\ ~writer[p].failed
    BY <1>1, <1>3, FinishTyped, ZenonT(40) DEF Finished
  <2>2. tmp[p].ver = mem[p].ver /\ Wrote(tmp[p], writer[p], mem[p], now) /\ (p = server => doing \in Saving)
    BY <1>1, <2>1 DEF WriterOK
  <2>3. Agree(tmp[p].keys, mem[p].keys, now)
    BY <2>1, <2>2 DEF Agree, Wrote
  <2>4. mem[p].ver <= Len(past) /\ Agree(mem[p].keys, KeysAt(mem[p].ver), now)
    BY <1>1, <2>2 DEF MemOK, Saving
  <2>5. Agree(tmp[p].keys, KeysAt(mem[p].ver), now)
    BY <2>3, <2>4 DEF Agree
  <2>6. KeysAt(file.ver)' = KeysAt(mem[p].ver)
    BY <2>1, <2>2 DEF KeysAt
  <2> QED
    BY <2>1, <2>2, <2>4, <2>5, <2>6 DEF FileOK
<1> QED
  BY <1>2, <1>3

(* It ends in a file of that memory, or in the old file.                    *)
LEMMA EndSaveSafe ==
  ASSUME SafeInv, NEW ok \in BOOLEAN, EndSave(ok)
  PROVE  SafeInv'
<1>1. /\ TypeOK /\ TypeOK' /\ server \in Pids /\ Finish(server, ok) /\ UNCHANGED <<now, past>>
      /\ doing \in Saving /\ \A q \in Pids : q # server => mem'[q] = mem[q]
  BY EndSaveTyped DEF SafeInv
<1>2. FileOK'
  BY <1>1, FinishSafe
<1>3. /\ writer'[server].is = "none"
      /\ \A q \in Pids : q # server => tmp'[q] = tmp[q] /\ writer'[q] = writer[q]
  BY <1>1, FinishTyped, ZenonT(40)
<1>4. (server' = server /\ server' \in Pids) \/ server' = NoPid
  BY <1>1, EndSaveTyped
<1>5. ASSUME NEW q \in Pids, q # server PROVE MemOK(q)' /\ WriterOK(q)'
  <2>1. q # server'
    BY <1>4, <1>5, PersistenceAssumption, ZenonT(40)
  <2> QED
    BY <1>1, <1>3, <1>5, <2>1, ProcessKept
<1>6. MemOK(server) /\ (mem[server].ver <= Len(past) /\ Agree(mem[server].keys, KeysAt(mem[server].ver), now))
  BY <1>1 DEF SafeInv, MemOK, Saving
<1>7. ASSUME NEW q \in Pids, q = server PROVE MemOK(q)' /\ WriterOK(q)'
  <2>1. CASE UNCHANGED mem
    <3>1. MemOK(q)'
      BY <1>1, <1>6, <1>7, <2>1 DEF MemOK, KeysAt
    <3> QED
      BY <1>3, <1>7, <3>1 DEF WriterOK
  <2>2. CASE mem'[server].ver = mem[server].ver /\ server' = server /\ doing' = "load"
    <3>1. MemOK(q)'
      BY <1>1, <1>6, <1>7, <2>2 DEF MemOK
    <3> QED
      BY <1>3, <1>7, <3>1 DEF WriterOK
  <2>3. CASE mem'[server] = NoMem
    BY <1>1, <1>3, <1>7, <2>3, ProcessGone
  <2> QED
    BY <1>1, <2>1, <2>2, <2>3, EndSaveTyped
<1> QED
  BY <1>1, <1>2, <1>5, <1>7 DEF SafeInv

(* What a load puts into memory agrees with the write the file is of.       *)
LEMMA LoadedSafe ==
  ASSUME SafeInv
  PROVE  /\ Loaded.ver = file.ver /\ file.ver <= Len(past) /\ file.ver \in Nat
         /\ Agree(Loaded.keys, KeysAt(file.ver), now)
<1>1. TypeOK /\ FileOK /\ file.keys \in Keyspaces /\ file.ver \in Nat /\ now \in Nat
  BY DEF SafeInv, TypeOK, Files
<1>2. Loaded.ver = file.ver /\ Loaded.keys = Living(file.keys, now)
  BY <1>1, LoadedTyped
<1>3. Agree(Loaded.keys, file.keys, now)
  BY <1>1, <1>2, LivingAgrees
<1> QED
  BY <1>1, <1>2, <1>3 DEF FileOK, Agree

(* A reload leaves a memory that is of the file's write.                    *)
LEMMA EndReloadSafe ==
  ASSUME SafeInv, EndReload
  PROVE  SafeInv'
<1>1. /\ TypeOK' /\ server \in Pids /\ doing = "load" /\ mem'[server] = Loaded
      /\ \A q \in Pids : q # server => mem'[q] = mem[q]
      /\ UNCHANGED <<now, server, writer, tmp, file, past>>
  BY EndReloadTyped DEF SafeInv
<1>2. FileOK'
  BY <1>1, FileKept
<1>3. MemOK(server)'
  BY <1>1, LoadedSafe DEF MemOK, KeysAt
<1>4. WriterOK(server)'
  BY <1>1 DEF SafeInv, WriterOK, Saving
<1>5. ASSUME NEW q \in Pids, q # server PROVE MemOK(q)' /\ WriterOK(q)'
  BY <1>1, <1>5, ProcessKept
<1> QED
  BY <1>1, <1>2, <1>3, <1>4, <1>5 DEF SafeInv

(* The fork copies the memory and opens a file of the copy.                 *)
LEMMA StartSafe ==
  ASSUME SafeInv, startBackgroundSave
  PROVE  SafeInv'
<1>1. /\ TypeOK /\ TypeOK' /\ server \in Pids /\ IsIdle /\ FreePids # {}
      /\ mem[server] \in Images /\ Open(NewPid, mem[server])
      /\ mem'[NewPid] = mem[server] /\ (\A q \in Pids : q # NewPid => mem'[q] = mem[q])
      /\ UNCHANGED <<now, server, file, doing, past>>
  BY StartTyped DEF SafeInv
<1>2. NewPid \in Pids /\ NewPid # server
  BY <1>1, NewPidFree
<1> DEFINE child == NewPid
<1>3. child \in Pids /\ child # server /\ Open(child, mem[server]) /\ mem'[child] = mem[server]
      /\ \A q \in Pids : q # child => mem'[q] = mem[q]
  BY <1>1, <1>2
<1> SUFFICES ASSUME NEW c \in Pids, c # server, Open(c, mem[server]), mem'[c] = mem[server],
                    \A q \in Pids : q # c => mem'[q] = mem[q]
             PROVE  SafeInv'
  BY <1>3
<1>4. FileOK'
  BY <1>1, FileKept
<1>5. WriterOK(c)'
  BY <1>1, OpenSafe, ZenonT(40)
<1>6. MemOK(c)'
  BY <1>1, ZenonT(40) DEF SafeInv, MemOK, KeysAt, IsIdle
<1>7. ASSUME NEW q \in Pids, q # c PROVE MemOK(q)' /\ WriterOK(q)'
  <2>1. tmp'[q] = tmp[q] /\ writer'[q] = writer[q]
    BY <1>1, <1>7, OpenTyped, ZenonT(40)
  <2> QED
    BY <1>1, <1>7, <2>1, ProcessKept
<1> QED
  BY <1>1, <1>4, <1>5, <1>6, <1>7 DEF SafeInv

(* The child puts a file of its copy into place.                            *)
LEMMA ChildEndsSafe ==
  ASSUME SafeInv, NEW p \in Pids, NEW ok \in BOOLEAN, ChildEnds(p, ok)
  PROVE  SafeInv'
<1> DEFINE status == IF Finished(p, ok) THEN "ok" ELSE "failed"
<1>1. /\ TypeOK /\ TypeOK' /\ p # server /\ Finish(p, ok) /\ Exits(p, status)
      /\ UNCHANGED <<now, server, doing, past>>
  BY ChildEndsTyped DEF SafeInv
<1>2. status \in {"ok", "failed"}
  OBVIOUS
<1> HIDE DEF status
<1>3. mem'[p] = NoMem /\ \A q \in Pids : q # p => mem'[q] = mem[q]
  BY <1>1, <1>2, ExitsTyped
<1>4. /\ writer'[p].is = "none"
      /\ \A q \in Pids : q # p => tmp'[q] = tmp[q] /\ writer'[q] = writer[q]
  BY <1>1, FinishTyped, ZenonT(40)
<1>5. FileOK'
  BY <1>1, FinishSafe, ZenonT(40)
<1>6. MemOK(p)' /\ WriterOK(p)'
  BY <1>1, <1>3, <1>4, ProcessGone
<1>7. ASSUME NEW q \in Pids, q # p PROVE MemOK(q)' /\ WriterOK(q)'
  BY <1>1, <1>3, <1>4, <1>7, ProcessKept
<1> QED
  BY <1>1, <1>5, <1>6, <1>7 DEF SafeInv

(* A child that dies leaves the file alone.                                 *)
LEMMA ChildDiesSafe ==
  ASSUME SafeInv, NEW p \in Pids, ChildDies(p)
  PROVE  SafeInv'
<1>1. /\ TypeOK /\ TypeOK' /\ p # server /\ Exits(p, "failed") /\ writer'[p].is = "none"
      /\ \A q \in Pids : q # p => tmp'[q] = tmp[q] /\ writer'[q] = writer[q]
      /\ UNCHANGED <<now, server, file, doing, past>>
  BY ChildDiesTyped, ZenonT(40) DEF SafeInv
<1>2. mem'[p] = NoMem /\ \A q \in Pids : q # p => mem'[q] = mem[q]
  BY <1>1, ExitsTyped
<1>3. FileOK'
  BY <1>1, FileKept
<1>4. MemOK(p)' /\ WriterOK(p)'
  BY <1>1, <1>2, ProcessGone
<1>5. ASSUME NEW q \in Pids, q # p PROVE MemOK(q)' /\ WriterOK(q)'
  BY <1>1, <1>2, <1>5, ProcessKept
<1> QED
  BY <1>1, <1>3, <1>4, <1>5, ZenonT(40) DEF SafeInv

(* Collecting a child changes the books only.                               *)
LEMMA ReapSafe ==
  ASSUME SafeInv, reapBackgroundSave
  PROVE  SafeInv'
<1>1. TypeOK' /\ UNCHANGED <<now, server, mem, writer, tmp, file, doing, past>>
  BY ReapTyped DEF SafeInv
<1> QED
  BY <1>1, FileKept, ProcessKept DEF SafeInv

(* A server that starts has a memory that is of the file's write.           *)
LEMMA LoadSafe ==
  ASSUME SafeInv, loadRdbAtStartup
  PROVE  SafeInv'
<1>1. /\ TypeOK /\ TypeOK' /\ ~Up /\ FreePids # {} /\ doing' = "idle"
      /\ server' = NewPid /\ mem'[NewPid] = Loaded
      /\ (\A q \in Pids : q # NewPid => mem'[q] = mem[q])
      /\ UNCHANGED <<now, writer, tmp, file, past>>
  BY LoadTyped DEF SafeInv
<1>2. NewPid \in Pids /\ writer[NewPid].is = "none"
  BY <1>1, NewPidFree
<1> SUFFICES ASSUME NEW c \in Pids, c = server', writer[c].is = "none", mem'[c] = Loaded,
                    \A q \in Pids : q # c => mem'[q] = mem[q]
             PROVE  SafeInv'
  BY <1>1, <1>2
<1>3. FileOK'
  BY <1>1, FileKept
<1>4. WriterOK(c)'
  BY <1>1 DEF WriterOK
<1>5. MemOK(c)'
  BY <1>1, LoadedSafe DEF MemOK, KeysAt
<1>6. ASSUME NEW q \in Pids, q # c PROVE MemOK(q)' /\ WriterOK(q)'
  <2>1. q # server
    BY <1>1, PersistenceAssumption, ZenonT(40) DEF Up
  <2> QED
    BY <1>1, <1>6, <2>1, ProcessKept
<1> QED
  BY <1>1, <1>3, <1>4, <1>5, <1>6 DEF SafeInv

(* A crash leaves the file, which is of a write.                            *)
LEMMA CrashSafe ==
  ASSUME SafeInv, Crash
  PROVE  SafeInv'
<1>1. /\ TypeOK' /\ server \in Pids /\ server' = NoPid
      /\ mem'[server] = NoMem /\ (\A q \in Pids : q # server => mem'[q] = mem[q])
      /\ writer'[server].is = "none"
      /\ (\A q \in Pids : q # server => tmp'[q] = tmp[q] /\ writer'[q] = writer[q])
      /\ UNCHANGED <<now, file, past>>
  BY CrashTyped DEF SafeInv
<1>2. FileOK'
  BY <1>1, FileKept
<1>3. ASSUME NEW q \in Pids, q = server PROVE MemOK(q)' /\ WriterOK(q)'
  BY <1>1, <1>3, ProcessGone
<1>4. ASSUME NEW q \in Pids, q # server PROVE MemOK(q)' /\ WriterOK(q)'
  <2>1. q # server'
    BY <1>1, PersistenceAssumption
  <2> QED
    BY <1>1, <1>4, <2>1, ProcessKept
<1> QED
  BY <1>1, <1>2, <1>3, <1>4 DEF SafeInv

(* What agrees now agrees later.                                            *)
LEMMA TickSafe ==
  ASSUME SafeInv, Tick
  PROVE  SafeInv'
<1>1. /\ TypeOK /\ now' = now + 1 /\ now \in Nat
      /\ UNCHANGED <<server, mem, writer, exited, tmp, file, book, doing, past, overlapped>>
  BY DEF SafeInv, TypeOK, Tick, disk, history
<1>2. TypeOK'
  BY <1>1 DEF TypeOK
<1>3. now' \in Nat /\ now <= now'
  BY <1>1
<1>4. \A v : KeysAt(v)' = KeysAt(v)
  BY <1>1 DEF KeysAt
<1>5. FileOK'
  <2>1. FileOK /\ file.ver \in Nat /\ file.keys \in Keyspaces
    BY <1>1 DEF SafeInv, TypeOK, Files
  <2>2. KeysAt(file.ver) \in Keyspaces
    BY <1>1, <2>1, PastTyped DEF FileOK
  <2>3. Agree(file.keys, KeysAt(file.ver), now')
    BY <1>1, <1>3, <2>1, <2>2, AgreeLater DEF FileOK
  <2> QED
    BY <1>1, <2>1, <2>3 DEF FileOK, KeysAt
<1>6. ASSUME NEW q \in Pids PROVE MemOK(q)' /\ WriterOK(q)'
  <2>1. MemOK(q) /\ WriterOK(q) /\ mem[q].ver \in Nat /\ mem[q].keys \in Keyspaces
        /\ tmp[q].keys \in Keyspaces /\ writer[q].asof \in Nat
    BY <1>1, ZenonT(40) DEF SafeInv, TypeOK, Images, Files, Writers
  <2>2. KeysAt(mem[q].ver) \in Keyspaces
    BY <1>1, <2>1, PastTyped DEF MemOK
  <2>3. Agree(mem[q].keys, KeysAt(mem[q].ver), now) => Agree(mem[q].keys, KeysAt(mem[q].ver), now')
    BY <1>1, <1>3, <2>1, <2>2, AgreeLater, ZenonT(40)
  <2>4. MemOK(q)'
    BY <1>1, <2>1, <2>3 DEF MemOK, KeysAt
  <2>5. ASSUME Wrote(tmp[q], writer[q], mem[q], now)
        PROVE  Wrote(tmp[q], writer[q], mem[q], now')
    <3>1. \A k \in Keys : tmp[q].keys[k] \in Cells /\ mem[q].keys[k] \in Cells
      BY <2>1 DEF Keyspaces
    <3>2. \A k \in Keys : Live(tmp[q].keys[k], now) = Live(mem[q].keys[k], now)
                          => Live(tmp[q].keys[k], now') = Live(mem[q].keys[k], now')
      BY <1>1, <1>3, <3>1, LiveLater
    <3> QED
      BY <2>5, <3>2, ZenonT(40) DEF Wrote
  <2>6. WriterOK(q)'
    <3>1. writer[q].asof <= now => writer[q].asof <= now'
      BY <1>1, <2>1, Later, ZenonT(40)
    <3>2. UNCHANGED <<server, mem, writer, exited, tmp, file, book, doing, past, overlapped>>
      BY <1>1, ZenonT(40)
    <3> QED
      BY <2>1, <2>5, <3>1, <3>2 DEF WriterOK
  <2> QED
    BY <2>4, <2>6
<1> QED
  BY <1>2, <1>5, <1>6 DEF SafeInv

(* What commands write are keyspaces.                                       *)
LEMMA StoreIsChange ==
  ASSUME TypeOK, NEW k \in Keys, NEW at \in Int, Store(k, at)
  PROVE  \E keys \in Keyspaces : Change(keys)
<1> DEFINE c == [val |-> Len(past) + 1, at |-> at]
           keys == [mem[server].keys EXCEPT ![k] = c]
<1>1. Change(keys)
  BY DEF Store
<1>2. c \in Cells /\ mem[server].keys \in Keyspaces
  BY <1>1 DEF Change, IsIdle, Up, TypeOK, Cells, Images
<1> HIDE DEF c
<1>3. keys \in Keyspaces
  BY <1>2 DEF Keyspaces
<1> QED
  BY <1>1, <1>3

(* The same for a key that is deleted.                                      *)
LEMMA DeleteIsChange ==
  ASSUME TypeOK, NEW k \in Keys, Delete(k)
  PROVE  \E keys \in Keyspaces : Change(keys)
<1> DEFINE keys == [mem[server].keys EXCEPT ![k] = Gone]
<1>1. Change(keys)
  BY DEF Delete
<1>2. mem[server].keys \in Keyspaces
  BY <1>1 DEF Change, IsIdle, Up, TypeOK, Images
<1>3. keys \in Keyspaces
  BY <1>2, ConstantsTyped DEF Keyspaces
<1> QED
  BY <1>1, <1>3

(* A command is a change of the keyspace or begins to save.                 *)
LEMMA CommandKinds ==
  ASSUME TypeOK, Command
  PROVE  \/ \E keys \in Keyspaces : Change(keys)
         \/ \E what \in Saving : BeginSave(what)
         \/ startBackgroundSave
<1>1. ASSUME NEW k \in Keys, Store(k, -1) PROVE \E keys \in Keyspaces : Change(keys)
  <2>1. -1 \in Int
    OBVIOUS
  <2> QED
    BY <1>1, <2>1, StoreIsChange
<1>2. ASSUME NEW k \in Volatile, NEW at \in now + 1 .. MaxTime, Store(k, at)
      PROVE  \E keys \in Keyspaces : Change(keys)
  <2>1. k \in Keys /\ at \in Int
    BY PersistenceAssumption DEF TypeOK
  <2> QED
    BY <1>2, <2>1, StoreIsChange
<1>3. ASSUME NEW k \in Keys, Delete(k) PROVE \E keys \in Keyspaces : Change(keys)
  BY <1>3, DeleteIsChange
<1> QED
  BY <1>1, <1>2, <1>3, ZenonT(40) DEF Command

(* Every step keeps SafeInv.                                                *)
LEMMA SafeStep == SafeInv /\ [Next]_vars => SafeInv'
<1> SUFFICES ASSUME SafeInv, [Next]_vars PROVE SafeInv'
  OBVIOUS
<1>1. TypeOK
  BY DEF SafeInv
<1>2. CASE Command
  BY <1>1, <1>2, CommandKinds, ChangeSafe, BeginSaveSafe, StartSafe, ZenonT(40)
<1>3. CASE ServerStep
  <2>1. ASSUME Up, NEW ok \in BOOLEAN, WriteEntry(server, ok) PROVE SafeInv'
    <3>1. server \in Pids
      BY <1>1, <2>1 DEF TypeOK, Up
    <3> QED
      BY <2>1, <3>1, WriteEntrySafe
  <2> QED
    BY <1>3, <2>1, EndSaveSafe, EndReloadSafe, ZenonT(40) DEF ServerStep
<1>4. ASSUME NEW p \in Pids, ChildStep(p) \/ ChildDies(p) PROVE SafeInv'
  BY <1>4, WriteEntrySafe, ChildEndsSafe, ChildDiesSafe DEF ChildStep
<1>5. CASE UNCHANGED vars
  <2>1. UNCHANGED <<now, server, mem, writer, exited, tmp, file, book, doing, past, overlapped>>
    BY <1>5 DEF vars, disk, history
  <2>2. TypeOK'
    BY <1>1, <2>1 DEF TypeOK
  <2> QED
    BY <2>1, <2>2, FileKept, ProcessKept DEF SafeInv
<1> QED
  BY <1>2, <1>3, <1>4, <1>5, ReapSafe, LoadSafe, CrashSafe, TickSafe, ZenonT(40) DEF Next

(* Whichever process wrote it, and whatever was killed or failed meanwhile, *)
(* the file at rdbPath() is whole and is the keyspace that one of the       *)
(* writes left, but for the keys that have died since (writeRdbFile, the    *)
(* fork of startBackgroundSave, FileWriter's rename).                       *)
THEOREM SnapshotsArePointsInTime == Spec => []SnapshotIsPointInTime
<1>1. SafeInv => SnapshotIsPointInTime
  BY AgreeIsLiving DEF SafeInv, FileOK, SnapshotIsPointInTime
<1> QED
  BY <1>1, SafeInit, SafeStep, PTL DEF Spec

(***************************************************************************)
(* The counter of unsaved writes.                                          *)
(***************************************************************************)

(* What the child has not seen.                                             *)
Unseen == book.dirty - book.dirtyAtFork

(* While no two snapshots overlap: only the server and its child write, the *)
(* server does not save beside its child, and the counter is exact, as it   *)
(* stands or, once the child has put its file into place, less what it was  *)
(* at the fork.                                                             *)
Alone ==
  /\ \A p \in Pids : writer[p].is = "open" => p = server \/ p = book.child
  /\ doing # "idle" => book.child = NoPid
  /\ doing = "load" => file.ver = mem[server].ver
  /\ book.child # NoPid => book.dirty >= book.dirtyAtFork
  /\ IF book.child # NoPid /\ exited[book.child] = "ok"
     THEN Unseen = WritesAt(mem[server].ver) - WritesAt(file.ver)
     ELSE DirtyIsExact
  /\ book.child # NoPid /\ exited[book.child] = "no" =>
       Unseen = WritesAt(mem[server].ver) - WritesAt(mem[book.child].ver)

(* A status waits only for the server, and a child is alive or has one.     *)
ChildOK ==
  /\ \A p \in Pids : exited[p] # "no" => p = book.child
  /\ book.child # NoPid =>
       /\ Up /\ book.child # server
       /\ exited[book.child] = "no" <=> writer[book.child].is = "open"

IInv == SafeInv /\ ChildOK /\ (~overlapped /\ Up => Alone)

(* There is nothing to count before the first start.                        *)
LEMMA CountInit == Init => ChildOK /\ ~Up
BY DEF Init, ChildOK, Up, FreshBook

(* The numbers that the counter is about.                                   *)
LEMMA CountsTyped ==
  ASSUME SafeInv
  PROVE  /\ WritesAt(file.ver) \in Nat /\ \A p \in Pids : WritesAt(mem[p].ver) \in Nat
         /\ book.dirty \in Int /\ book.dirtyAtFork \in Int /\ book.child \in Pids \cup {NoPid}
<1>1. TypeOK /\ FileOK /\ file.ver \in Nat /\ \A p \in Pids : mem[p].ver \in Nat /\ mem[p].ver <= Len(past)
  BY ZenonT(40) DEF SafeInv, TypeOK, Files, Images, MemOK
<1>2. WritesAt(file.ver) \in Nat /\ \A p \in Pids : WritesAt(mem[p].ver) \in Nat
  BY <1>1, PastTyped DEF FileOK
<1> QED
  BY <1>1, <1>2 DEF TypeOK

(* A write adds to the counter what it adds to the history.                 *)
LEMMA ChangeCounts ==
  ASSUME IInv, NEW keys \in Keyspaces, Change(keys)
  PROVE  ChildOK' /\ (~overlapped' /\ Up' => Alone')
<1>1. /\ SafeInv /\ TypeOK /\ server \in Pids /\ Up /\ doing = "idle" /\ mem[server].ver <= Len(past)
      /\ \A q \in Pids : mem[q].ver <= Len(past)
  BY ZenonT(40) DEF IInv, SafeInv, Change, IsIdle, Up, MemOK, TypeOK
<1>2. /\ mem'[server].ver = Len(past) + 1 /\ \A q \in Pids : q # server => mem'[q] = mem[q]
  BY <1>1, ChangeTyped
<1>3. /\ book'.dirty = book.dirty + 1 /\ book'.child = book.child
      /\ book'.dirtyAtFork = book.dirtyAtFork
  BY <1>1, ChangeTyped
<1>4. PICK r \in Writes : past' = Append(past, r) /\ r.n = WritesAt(mem[server].ver) + 1
  BY <1>1, ChangeTyped
<1>5. UNCHANGED <<now, server, writer, exited, file, doing, overlapped>>
  BY DEF Change, disk
<1>6. /\ Len(past) \in Nat /\ file.ver \in Nat /\ file.ver <= Len(past)
      /\ \A q \in Pids : mem[q].ver \in Nat
  BY <1>1 DEF SafeInv, TypeOK, FileOK, Images, Files
<1>7. /\ \A v \in Nat : v = Len(past) + 1 => WritesAt(v)' = WritesAt(mem[server].ver) + 1
      /\ \A v \in Nat : v <= Len(past) => WritesAt(v)' = WritesAt(v)
  BY <1>1, <1>4, PastGrows
<1>8. /\ WritesAt(mem[server].ver)' = WritesAt(mem[server].ver) + 1
      /\ WritesAt(file.ver)' = WritesAt(file.ver)
      /\ \A q \in Pids : q # server => WritesAt(mem[q].ver)' = WritesAt(mem[q].ver)
  <2>2. \A v \in Nat : v = mem'[server].ver => WritesAt(v)' = WritesAt(mem[server].ver) + 1
    BY <1>2, <1>6, <1>7
  <2>3. mem'[server'].ver \in Nat
    BY <1>2, <1>5, <1>6
  <2>4. WritesAt(mem[server].ver)' = WritesAt(mem[server].ver) + 1
    BY <1>5, <2>2, <2>3 DEF WritesAt
  <2>5. WritesAt(file.ver)' = WritesAt(file.ver)
    BY <1>5, <1>6, <1>7 DEF WritesAt
  <2>6. ASSUME NEW q \in Pids, q # server PROVE WritesAt(mem[q].ver)' = WritesAt(mem[q].ver)
    BY <1>1, <1>2, <1>6, <1>7, <2>6 DEF WritesAt
  <2> QED
    BY <2>4, <2>5, <2>6
<1>9. ChildOK /\ ChildOK'
  BY <1>3, <1>5 DEF IInv, ChildOK, Up
<1>10. ASSUME ~overlapped' /\ Up' PROVE Alone'
  <2>1. Alone
    BY <1>1, <1>5, <1>10 DEF IInv
  <2>2. /\ WritesAt(file.ver) \in Nat /\ \A p \in Pids : WritesAt(mem[p].ver) \in Nat
        /\ book.dirty \in Int /\ book.dirtyAtFork \in Int /\ book.child \in Pids \cup {NoPid}
    BY <1>1, CountsTyped, ZenonT(40)
  <2>3. \A p \in Pids : writer'[p].is = "open" => p = server' \/ p = book'.child
    BY <1>3, <1>5, <2>1 DEF Alone
  <2>4. book'.child # NoPid => book'.dirty >= book'.dirtyAtFork
    BY <1>3, <2>1, <2>2 DEF Alone
  <2>5. IF book'.child # NoPid /\ exited'[book'.child] = "ok"
        THEN Unseen' = WritesAt(mem[server].ver)' - WritesAt(file.ver)'
        ELSE DirtyIsExact'
    <3>1. WritesAt(mem[server].ver) \in Nat /\ WritesAt(file.ver) \in Nat /\ book.dirty \in Int
          /\ book.dirtyAtFork \in Int
      BY <1>1, <2>2, ZenonT(40)
    <3>2. Unseen = WritesAt(mem[server].ver) - WritesAt(file.ver)
          => Unseen' = WritesAt(mem[server].ver)' - WritesAt(file.ver)'
      BY <1>3, <1>8, <3>1 DEF Unseen
    <3>3. DirtyIsExact => DirtyIsExact'
      BY <1>3, <1>8, <3>1 DEF DirtyIsExact
    <3>4. UNCHANGED <<exited, book.child>>
      BY <1>3, <1>5
    <3> QED
      BY <2>1, <3>2, <3>3, <3>4, ZenonT(40) DEF Alone
  <2>6. book'.child # NoPid /\ exited'[book'.child] = "no" =>
          Unseen' = WritesAt(mem[server].ver)' - WritesAt(mem[book.child].ver)'
    <3>1. book.child # NoPid => book.child \in Pids /\ book.child # server
      BY <1>9, <2>2 DEF ChildOK
    <3>2. book.child # NoPid => WritesAt(mem[book.child].ver)' = WritesAt(mem[book.child].ver)
      <4> SUFFICES ASSUME book.child # NoPid
                   PROVE  WritesAt(mem[book.child].ver)' = WritesAt(mem[book.child].ver)
        OBVIOUS
      <4>1. mem'[book'.child] = mem[book.child] /\ mem[book.child].ver \in Nat
            /\ mem[book.child].ver <= Len(past)
        BY <1>1, <1>2, <1>3, <1>6, <3>1, ZenonT(40)
      <4> QED
        BY <1>7, <4>1 DEF WritesAt
    <3> SUFFICES ASSUME book'.child # NoPid, exited'[book'.child] = "no"
                 PROVE  Unseen' = WritesAt(mem[server].ver)' - WritesAt(mem[book.child].ver)'
      BY ZenonT(40)
    <3>3. Unseen = WritesAt(mem[server].ver) - WritesAt(mem[book.child].ver)
      BY <1>3, <1>5, <2>1, ZenonT(40) DEF Alone
    <3>4. WritesAt(mem[book.child].ver) \in Nat /\ WritesAt(mem[server].ver) \in Nat
      BY <1>1, <1>3, <2>2, <3>1
    <3>5. Unseen' = Unseen + 1
      BY <1>3, <2>2 DEF Unseen
    <3>6. /\ WritesAt(mem[server].ver)' = WritesAt(mem[server].ver) + 1
          /\ WritesAt(mem[book.child].ver)' = WritesAt(mem[book.child].ver)
      BY <1>3, <1>8, <3>2
    <3> QED
      BY <3>3, <3>4, <3>5, <3>6
  <2>7. doing' = "idle"
    BY <1>1, <1>5
  <2> QED
    BY <2>3, <2>4, <2>5, <2>6, <2>7 DEF Alone
<1> QED
  BY <1>9, <1>10

(* A step that neither ends a child nor touches the file, what was written, *)
(* or the books, and opens no writer.                                       *)
LEMMA CountsKept ==
  ASSUME IInv, UNCHANGED <<server, past, exited, file, book, overlapped>>,
         doing' # "idle" => doing # "idle",
         doing' = "load" => doing = "load",
         \A p \in Pids : mem'[p].ver = mem[p].ver,
         \A p \in Pids : writer'[p].is = writer[p].is \/ (p = server /\ writer'[p].is = "none")
  PROVE  ChildOK' /\ (~overlapped' /\ Up' => Alone')
<1>1. SafeInv /\ ChildOK /\ book.child \in Pids \cup {NoPid}
  BY CountsTyped DEF IInv
<1>2. \A v : WritesAt(v)' = WritesAt(v)
  BY DEF WritesAt
<1>3. ChildOK'
  BY <1>1, ZenonT(40) DEF ChildOK, Up
<1>4. ASSUME ~overlapped' /\ Up' PROVE Alone'
  <2>1. Alone /\ server \in Pids /\ server' = server /\ mem'[server].ver = mem[server].ver
    BY <1>1, <1>4, ZenonT(40) DEF IInv, Up, SafeInv, TypeOK
  <2>2. WritesAt(mem[server].ver)' = WritesAt(mem[server].ver) /\ WritesAt(file.ver)' = WritesAt(file.ver)
    BY <2>1 DEF WritesAt
  <2>3. book.child # NoPid => WritesAt(mem[book.child].ver)' = WritesAt(mem[book.child].ver)
    BY <1>1, ZenonT(40) DEF WritesAt
  <2>4. Unseen' = Unseen /\ (DirtyIsExact' <=> DirtyIsExact)
    BY <2>2 DEF Unseen, DirtyIsExact
  <2> QED
    BY <1>1, <2>1, <2>2, <2>3, <2>4, ZenonT(40) DEF Alone
<1> QED
  BY <1>3, <1>4

(* A save that begins counts nothing.                                       *)
LEMMA BeginSaveCounts ==
  ASSUME IInv, NEW what \in Saving, BeginSave(what)
  PROVE  ChildOK' /\ (~overlapped' /\ Up' => Alone')
<1>1. /\ SafeInv /\ TypeOK /\ server \in Pids /\ mem[server] \in Images
      /\ Open(server, mem[server]) /\ doing' = what /\ doing = "idle"
      /\ overlapped' = (overlapped \/ Running # {} \/ book.child # NoPid)
      /\ UNCHANGED <<now, server, mem, exited, file, book, past>>
  BY BeginSaveTyped DEF IInv, SafeInv, BeginSave, IsIdle
<1>2. writer'[server].is = "open" /\ \A q \in Pids : q # server => writer'[q] = writer[q]
  BY <1>1, OpenTyped, ZenonT(40)
<1>3. ChildOK'
  <2>1. book.child \in Pids \cup {NoPid}
    BY <1>1, CountsTyped, ZenonT(40)
  <2> QED
    BY <1>1, <1>2, <2>1 DEF IInv, ChildOK, Up
<1>4. ASSUME ~overlapped' /\ Up' PROVE Alone'
  <2>1. ~overlapped /\ book.child = NoPid /\ Up
    BY <1>1, <1>4, ZenonT(40) DEF Up
  <2>2. Alone
    BY <2>1 DEF IInv
  <2>3. doing' # "load"
    BY <1>1, ZenonT(40) DEF Saving
  <2>4. DirtyIsExact'
    BY <1>1, <2>1, <2>2, ZenonT(40) DEF Alone, DirtyIsExact, WritesAt
  <2> QED
    BY <1>1, <1>2, <2>1, <2>2, <2>3, <2>4, ZenonT(40) DEF Alone
<1> QED
  BY <1>3, <1>4

(* A save that succeeds sets the counter to zero and the file to now.       *)
LEMMA EndSaveCounts ==
  ASSUME IInv, NEW ok \in BOOLEAN, EndSave(ok)
  PROVE  ChildOK' /\ (~overlapped' /\ Up' => Alone')
<1>1. /\ SafeInv /\ TypeOK /\ server \in Pids /\ Finish(server, ok) /\ UNCHANGED <<now, past>>
      /\ doing \in Saving /\ overlapped' = overlapped
      /\ \A q \in Pids : q # server => mem'[q] = mem[q]
  BY EndSaveTyped DEF IInv, SafeInv
<1>2. /\ writer'[server].is = "none"
      /\ \A q \in Pids : q # server => writer'[q] = writer[q]
  BY <1>1, FinishTyped, ZenonT(40)
<1>3. CASE ~Finished(server, ok) /\ doing' = "idle" /\ UNCHANGED <<server, book, mem, exited>>
  <2>1. file' = file
    BY <1>1, <1>3, FinishTyped, ZenonT(40)
  <2> QED
    BY <1>1, <1>2, <1>3, <2>1, CountsKept
<1>4. CASE /\ Finished(server, ok) /\ doing' \in {"idle", "load"}
           /\ book'.dirty = 0 /\ book'.child = book.child /\ book'.dirtyAtFork = book.dirtyAtFork
           /\ mem'[server].ver = mem[server].ver /\ UNCHANGED <<server, exited>>
  <2>1. file'.ver = mem[server].ver
    BY <1>1, <1>4, FinishSafe, ZenonT(40)
  <2>2. ChildOK'
    <3>1. book.child \in Pids \cup {NoPid}
      BY <1>1, CountsTyped, ZenonT(40)
    <3> QED
      BY <1>1, <1>2, <1>4, <3>1 DEF IInv, ChildOK, Up
  <2>3. ASSUME ~overlapped' /\ Up' PROVE Alone'
    <3>1. Alone /\ book'.child = NoPid
      BY <1>1, <1>4, <2>3, ZenonT(40) DEF IInv, Up, Alone, Saving
    <3>2. DirtyIsExact'
      <4>1. WritesAt(mem[server].ver)' = WritesAt(mem[server].ver)
            /\ WritesAt(file.ver)' = WritesAt(mem[server].ver)
        BY <1>1, <1>4, <2>1 DEF WritesAt
      <4>2. WritesAt(mem[server].ver) \in Nat
        BY <1>1, CountsTyped
      <4>3. book'.dirty = 0
        BY <1>4, ZenonT(40)
      <4> QED
        BY <4>1, <4>2, <4>3 DEF DirtyIsExact
    <3> QED
      BY <1>1, <1>2, <1>4, <2>1, <3>1, <3>2, ZenonT(40) DEF Alone
  <2> QED
    BY <2>2, <2>3
<1>5. CASE server' = NoPid /\ book' = FreshBook /\ exited' = [p \in Pids |-> "no"]
  BY <1>5 DEF ChildOK, Up, FreshBook
<1>6. doing = "save" /\ UNCHANGED mem => mem'[server].ver = mem[server].ver
  OBVIOUS
<1> QED
  BY <1>1, <1>3, <1>4, <1>5, <1>6, EndSaveTyped, ZenonT(40)

(* A reload goes back to the write that the file is of.                     *)
LEMMA EndReloadCounts ==
  ASSUME IInv, EndReload
  PROVE  ChildOK' /\ (~overlapped' /\ Up' => Alone')
<1>1. /\ SafeInv /\ TypeOK /\ server \in Pids /\ doing = "load" /\ doing' = "idle"
      /\ mem'[server] = Loaded /\ (\A q \in Pids : q # server => mem'[q] = mem[q])
      /\ UNCHANGED <<now, server, writer, exited, tmp, file, book, past, overlapped>>
  BY EndReloadTyped, ZenonT(40) DEF IInv, SafeInv
<1>2. ChildOK'
  BY <1>1, ZenonT(40) DEF IInv, ChildOK, Up
<1>3. ASSUME ~overlapped' /\ Up' PROVE Alone'
  <2>1. Alone /\ book.child = NoPid /\ file.ver = mem[server].ver
    BY <1>1, <1>3, ZenonT(40) DEF IInv, Up, Alone
  <2>2. mem'[server].ver = mem[server].ver
    BY <1>1, <2>1, LoadedSafe, ZenonT(40)
  <2>3. DirtyIsExact'
    BY <1>1, <2>1, <2>2 DEF Alone, DirtyIsExact, WritesAt
  <2> QED
    BY <1>1, <2>1, <2>3, ZenonT(40) DEF Alone
<1> QED
  BY <1>2, <1>3, ZenonT(40)

(* The fork remembers the counter.                                          *)
LEMMA StartCounts ==
  ASSUME IInv, startBackgroundSave
  PROVE  ChildOK' /\ (~overlapped' /\ Up' => Alone')
<1>1. /\ SafeInv /\ TypeOK /\ server \in Pids /\ IsIdle /\ book.child = NoPid /\ FreePids # {}
      /\ mem[server] \in Images
      /\ book'.dirty = book.dirty /\ book'.dirtyAtFork = book.dirty
      /\ overlapped' = (overlapped \/ Running # {})
      /\ UNCHANGED <<now, server, exited, file, doing, past>>
  BY StartTyped, ZenonT(40) DEF IInv, SafeInv
<1>2. NewPid \in Pids /\ NewPid # server /\ exited[NewPid] = "no"
  BY <1>1, NewPidFree, ZenonT(40)
<1>3. Open(NewPid, mem[server]) /\ book'.child = NewPid /\ mem'[NewPid] = mem[server]
      /\ \A q \in Pids : q # NewPid => mem'[q] = mem[q]
  BY <1>1, StartTyped
<1> SUFFICES ASSUME NEW c \in Pids, c # server, exited[c] = "no", Open(c, mem[server]),
                    book'.child = c, mem'[c] = mem[server],
                    \A q \in Pids : q # c => mem'[q] = mem[q]
             PROVE  ChildOK' /\ (~overlapped' /\ Up' => Alone')
  BY <1>2, <1>3
<1>4. writer'[c].is = "open" /\ \A q \in Pids : q # c => writer'[q] = writer[q]
  BY <1>1, OpenTyped, ZenonT(40)
<1>5. NoPid \notin Pids
  BY PersistenceAssumption
<1>6. ChildOK'
  <2>1. \A p \in Pids : exited[p] = "no"
    BY <1>1, <1>5 DEF IInv, ChildOK
  <2> QED
    BY <1>1, <1>4, <1>5, <2>1, ZenonT(40) DEF ChildOK, Up, IsIdle
<1>7. ASSUME ~overlapped' /\ Up' PROVE Alone'
  <2>1. ~overlapped /\ Running = {} /\ Up /\ doing = "idle"
    BY <1>1, <1>7, ZenonT(40) DEF IsIdle
  <2>2. Alone /\ DirtyIsExact
    BY <1>1, <2>1, ZenonT(40) DEF IInv, Alone
  <2>3. \A p \in Pids : writer'[p].is = "open" => p = c
    BY <1>4, <2>1, ZenonT(40) DEF Running
  <2>4. WritesAt(mem[server].ver)' = WritesAt(mem[server].ver) /\ WritesAt(file.ver)' = WritesAt(file.ver)
        /\ WritesAt(mem[book.child].ver)' = WritesAt(mem[server].ver)
    BY <1>1, ZenonT(40) DEF WritesAt
  <2>5. /\ WritesAt(mem[server].ver) \in Nat /\ book.dirty \in Int
    BY <1>1, CountsTyped, ZenonT(40)
  <2>6. Unseen' = WritesAt(mem[server].ver)' - WritesAt(mem[book.child].ver)'
    <3>1. book'.dirty = book.dirty /\ book'.dirtyAtFork = book.dirty
      BY <1>1, ZenonT(40)
    <3>2. Unseen' = 0
      BY <2>5, <3>1, NoDifference, ZenonT(40) DEF Unseen
    <3>3. WritesAt(mem[server].ver) - WritesAt(mem[server].ver) = 0
      <4>1. WritesAt(mem[server].ver) \in Int
        BY <2>5
      <4> QED
        BY <4>1, NoDifference
    <3> QED
      BY <2>4, <3>2, <3>3, ZenonT(40)
  <2>7. DirtyIsExact'
    <3>1. book'.dirty = book.dirty
      BY <1>1
    <3> QED
      BY <2>2, <2>4, <3>1 DEF DirtyIsExact
  <2>8. book'.dirty >= book'.dirtyAtFork
    <3>1. book'.dirty = book.dirty /\ book'.dirtyAtFork = book.dirty
      BY <1>1
    <3> QED
      BY <2>5, <3>1
  <2> QED
    BY <1>1, <2>1, <2>3, <2>6, <2>7, <2>8, ZenonT(40) DEF Alone
<1> QED
  BY <1>6, <1>7

(* A child ends: its status waits if it has a parent, and its file is in    *)
(* place if the status is good.                                             *)
LEMMA ChildExitCounts ==
  ASSUME IInv, NEW p \in Pids, p # server, NEW status \in {"ok", "failed"}, Exits(p, status),
         writer[p].is = "open", writer'[p].is = "none",
         \A q \in Pids : q # p => writer'[q] = writer[q],
         status = "ok" => file'.ver = mem[p].ver,
         status = "failed" => file' = file,
         UNCHANGED <<server, book, doing, past, overlapped>>
  PROVE  ChildOK' /\ (~overlapped' /\ Up' => Alone')
<1>1. SafeInv /\ TypeOK /\ ChildOK /\ book.child \in Pids \cup {NoPid}
  BY CountsTyped, ZenonT(40) DEF IInv, SafeInv
<1>2. /\ \A q \in Pids : q # p => mem'[q] = mem[q] /\ exited'[q] = exited[q]
      /\ exited'[p] = IF book.child = p THEN status ELSE exited[p]
  BY <1>1, ExitsTyped
<1>3. ChildOK'
  BY <1>1, <1>2, ZenonT(40) DEF ChildOK, Up
<1>4. ASSUME ~overlapped' /\ Up' PROVE Alone'
  <2>1. Alone /\ server \in Pids
    BY <1>1, <1>4, ZenonT(40) DEF IInv, Up, TypeOK
  <2>2. book.child = p /\ p # NoPid /\ exited[p] = "no" /\ exited'[p] = status
    <3>1. book.child = p /\ p # NoPid
      BY <2>1, PersistenceAssumption, ZenonT(40) DEF Alone
    <3> QED
      BY <1>1, <1>2, <3>1 DEF ChildOK
  <2>3. /\ doing' = "idle" /\ DirtyIsExact /\ book.dirty >= book.dirtyAtFork
        /\ Unseen = WritesAt(mem[server].ver) - WritesAt(mem[p].ver)
    BY <1>1, <2>1, <2>2, PersistenceAssumption DEF Alone
  <2>4. Unseen' = Unseen /\ WritesAt(mem[server].ver)' = WritesAt(mem[server].ver)
    BY <1>2, <2>1, ZenonT(40) DEF Unseen, WritesAt
  <2>5. CASE status = "ok"
    <3>1. WritesAt(file.ver)' = WritesAt(mem[p].ver)
      BY <2>5 DEF WritesAt
    <3>2. Unseen' = WritesAt(mem[server].ver)' - WritesAt(file.ver)'
      BY <2>3, <2>4, <3>1
    <3>3. \A q \in Pids : writer'[q].is = "open" => q = server' \/ q = book'.child
      BY <2>1, <2>2 DEF Alone
    <3> QED
      BY <2>2, <2>3, <2>5, <3>2, <3>3, ZenonT(40) DEF Alone
  <2>6. CASE status = "failed"
    <3>1. DirtyIsExact'
      BY <2>3, <2>4, <2>6, ZenonT(40) DEF DirtyIsExact, WritesAt
    <3> QED
      BY <1>1, <1>2, <2>1, <2>2, <2>3, <2>6, <3>1, ZenonT(40) DEF Alone
  <2> QED
    BY <2>5, <2>6, ZenonT(40)
<1> QED
  BY <1>3, <1>4

(* A child that ends is such a child.                                       *)
LEMMA ChildEndsCounts ==
  ASSUME IInv, NEW p \in Pids, NEW ok \in BOOLEAN, ChildEnds(p, ok)
  PROVE  ChildOK' /\ (~overlapped' /\ Up' => Alone')
<1> DEFINE status == IF Finished(p, ok) THEN "ok" ELSE "failed"
<1>1. /\ SafeInv /\ TypeOK /\ p # server /\ Finish(p, ok) /\ Exits(p, status)
      /\ UNCHANGED <<now, server, book, doing, past, overlapped>>
  BY ChildEndsTyped DEF IInv, SafeInv
<1>2. status \in {"ok", "failed"}
  OBVIOUS
<1>3. /\ writer[p].is = "open" /\ writer'[p].is = "none"
      /\ \A q \in Pids : q # p => writer'[q] = writer[q]
      /\ ~Finished(p, ok) => file' = file
  BY <1>1, FinishTyped, ZenonT(40)
<1>4. Finished(p, ok) => file'.ver = mem[p].ver
  BY <1>1, FinishSafe
<1>5. (status = "ok" => file'.ver = mem[p].ver) /\ (status = "failed" => file' = file)
  BY <1>3, <1>4, ZenonT(40)
<1> HIDE DEF status
<1> QED
  BY <1>1, <1>2, <1>3, <1>5, ChildExitCounts, ZenonT(40)

(* So is a child that dies.                                                 *)
LEMMA ChildDiesCounts ==
  ASSUME IInv, NEW p \in Pids, ChildDies(p)
  PROVE  ChildOK' /\ (~overlapped' /\ Up' => Alone')
<1>1. /\ p # server /\ Exits(p, "failed") /\ writer[p].is = "open" /\ writer'[p].is = "none"
      /\ \A q \in Pids : q # p => writer'[q] = writer[q]
      /\ UNCHANGED <<server, file, book, doing, past, overlapped>>
  BY ChildDiesTyped DEF IInv, SafeInv
<1> QED
  BY <1>1, ChildExitCounts, ZenonT(40)

(* The counter gives up what it was at the fork if the child succeeded.     *)
LEMMA ReapCounts ==
  ASSUME IInv, reapBackgroundSave
  PROVE  ChildOK' /\ (~overlapped' /\ Up' => Alone')
<1>1. /\ SafeInv /\ TypeOK /\ ChildOK /\ IsIdle /\ book.child \in Pids /\ exited[book.child] # "no"
      /\ exited'[book.child] = "no"
      /\ \A q \in Pids : q # book.child => exited'[q] = exited[q]
      /\ book'.child = NoPid
      /\ UNCHANGED <<now, server, mem, writer, tmp, file, doing, past, overlapped>>
  BY ReapTyped, ZenonT(40) DEF IInv, SafeInv
<1>2. book'.dirty = IF exited[book.child] # "ok" THEN book.dirty
                    ELSE IF book.dirty >= book.dirtyAtFork
                         THEN book.dirty - book.dirtyAtFork ELSE 0
  BY <1>1, ReapTyped, ZenonT(40)
<1>3. book.child # NoPid
  BY <1>1, PersistenceAssumption, ZenonT(40)
<1>4. ChildOK'
  BY <1>1, ZenonT(40) DEF ChildOK
<1>5. ASSUME ~overlapped' /\ Up' PROVE Alone'
  <2>1. Alone /\ doing' = "idle"
    BY <1>1, <1>5, ZenonT(40) DEF IInv, Up, IsIdle
  <2>2. WritesAt(mem[server].ver)' = WritesAt(mem[server].ver) /\ WritesAt(file.ver)' = WritesAt(file.ver)
    BY <1>1, ZenonT(40) DEF WritesAt
  <2>3. DirtyIsExact'
    BY <1>2, <1>3, <2>1, <2>2, ZenonT(40) DEF Alone, DirtyIsExact, Unseen
  <2>4. \A q \in Pids : writer'[q].is = "open" => q = server'
    BY <1>1, <1>3, <2>1, ZenonT(40) DEF Alone, ChildOK
  <2> QED
    BY <1>1, <2>1, <2>3, <2>4, ZenonT(40) DEF Alone
<1> QED
  BY <1>4, <1>5

(* A server that starts counts from zero at the file's write.               *)
LEMMA LoadCounts ==
  ASSUME IInv, loadRdbAtStartup
  PROVE  ChildOK' /\ (~overlapped' /\ Up' => Alone')
<1>1. /\ SafeInv /\ TypeOK /\ ~Up /\ FreePids # {} /\ server' = NewPid /\ book' = FreshBook
      /\ doing' = "idle" /\ mem'[NewPid] = Loaded
      /\ overlapped' = (overlapped \/ Running # {})
      /\ UNCHANGED <<now, writer, exited, tmp, file, past>>
  BY LoadTyped DEF IInv, SafeInv
<1>2. NewPid \in Pids
  BY <1>1, NewPidFree
<1>3. book'.child = NoPid /\ book'.dirty = 0
  BY <1>1 DEF FreshBook
<1>4. book.child = NoPid
  BY <1>1, ZenonT(40) DEF IInv, ChildOK
<1>5. ChildOK'
  BY <1>1, <1>3, <1>4, ZenonT(40) DEF IInv, ChildOK
<1>6. ASSUME ~overlapped' /\ Up' PROVE Alone'
  <2>1. Running = {}
    BY <1>1, <1>6, ZenonT(40)
  <2>2. mem'[server'].ver = file.ver
    BY <1>1, LoadedSafe
  <2>3. WritesAt(mem[server].ver)' = WritesAt(file.ver) /\ WritesAt(file.ver)' = WritesAt(file.ver)
    BY <1>1, <2>2 DEF WritesAt
  <2>4. DirtyIsExact'
    BY <1>1, <1>3, <2>3, CountsTyped DEF DirtyIsExact
  <2>5. \A q \in Pids : writer'[q].is # "open"
    BY <1>1, <2>1 DEF Running
  <2> QED
    BY <1>1, <1>3, <2>4, <2>5 DEF Alone
<1> QED
  BY <1>5, <1>6

(* A crash leaves no server whose counter could be wrong.                   *)
LEMMA CrashCounts ==
  ASSUME IInv, Crash
  PROVE  ChildOK' /\ (~overlapped' /\ Up' => Alone')
<1>1. server' = NoPid /\ book' = FreshBook /\ exited' = [p \in Pids |-> "no"]
  BY CrashTyped DEF IInv, SafeInv
<1> QED
  BY <1>1 DEF ChildOK, Up, FreshBook

(* An entry that is written is counted nowhere.                             *)
LEMMA WriteEntryCounts ==
  ASSUME IInv, NEW p \in Pids, NEW ok \in BOOLEAN, WriteEntry(p, ok)
  PROVE  ChildOK' /\ (~overlapped' /\ Up' => Alone')
<1>1. UNCHANGED <<server, past, exited, file, book, overlapped, doing, mem>>
  BY DEF WriteEntry, history
<1>2. \A q \in Pids : writer'[q].is = writer[q].is
  BY DEF WriteEntry, IInv, SafeInv, TypeOK
<1> QED
  BY <1>1, <1>2, CountsKept

(* Every step keeps IInv.                                                   *)
LEMMA CountStep == IInv /\ [Next]_vars => IInv'
<1> SUFFICES ASSUME IInv, [Next]_vars PROVE IInv'
  OBVIOUS
<1> DEFINE Goal == ChildOK' /\ (~overlapped' /\ Up' => Alone')
<1>1. SafeInv /\ TypeOK /\ SafeInv'
  BY SafeStep DEF IInv, SafeInv
<1> HIDE DEF Goal
<1>2. ASSUME Command PROVE Goal
  BY <1>1, <1>2, CommandKinds, ChangeCounts, BeginSaveCounts, StartCounts, ZenonT(40) DEF Goal
<1>3. ASSUME ServerStep PROVE Goal
  <2>1. ASSUME Up, NEW ok \in BOOLEAN, WriteEntry(server, ok) PROVE Goal
    <3>1. server \in Pids
      BY <1>1, <2>1 DEF TypeOK, Up
    <3> QED
      BY <2>1, <3>1, WriteEntryCounts, ZenonT(40) DEF Goal
  <2>2. ASSUME NEW ok \in BOOLEAN, EndSave(ok) PROVE Goal
    BY <2>2, EndSaveCounts, ZenonT(40) DEF Goal
  <2>3. ASSUME EndReload PROVE Goal
    BY <2>3, EndReloadCounts, ZenonT(40) DEF Goal
  <2> QED
    BY <1>3, <2>1, <2>2, <2>3, ZenonT(40) DEF ServerStep
<1>4. ASSUME NEW p \in Pids, ChildStep(p) \/ ChildDies(p) PROVE Goal
  BY <1>4, WriteEntryCounts, ChildEndsCounts, ChildDiesCounts DEF ChildStep, Goal
<1>5. ASSUME Tick \/ UNCHANGED vars PROVE Goal
  <2>1. UNCHANGED <<server, mem, writer, exited, file, book, doing, past, overlapped>>
    BY <1>5 DEF Tick, vars, disk, history
  <2> QED
    BY <2>1, CountsKept DEF Goal
<1>6. Goal
  BY <1>2, <1>3, <1>4, <1>5, ReapCounts, LoadCounts, CrashCounts, ZenonT(40) DEF Next, Goal
<1> QED
  BY <1>1, <1>6 DEF IInv, Goal

(* IInv is an invariant.                                                    *)
LEMMA IInvHolds == Spec => []IInv
<1>1. Init => IInv
  BY SafeInit, CountInit DEF IInv
<1> QED
  BY <1>1, CountStep, PTL DEF Spec

(* As long as no two snapshots overlapped, dirty_ is the number of writes   *)
(* that a restart would lose, through saves that fail, children that are    *)
(* killed and restarts (saveRdb's reset, reapBackgroundSave's subtraction). *)
THEOREM DirtyCounterIsExact == Spec => []DirtyCountsUnsaved
<1>1. IInv => DirtyCountsUnsaved
  BY DEF IInv, DirtyCountsUnsaved, Alone, IsIdle
<1> QED
  BY <1>1, IInvHolds, PTL

(* DEBUG RELOAD gives back the keyspace that it saved, deadlines included,  *)
(* unless another process replaced the file between its two halves.         *)
THEOREM ReloadIsIdentity == Spec => ReloadAloneIsIdentity
<1>1. ASSUME IInv, EndReload, ~overlapped PROVE ReloadFaithful
  <2>1. /\ SafeInv /\ TypeOK /\ server \in Pids /\ doing = "load" /\ mem'[server] = Loaded
    BY <1>1, EndReloadTyped DEF IInv, SafeInv
  <2>2. Up /\ NoPid \notin Pids
    BY <1>1, PersistenceAssumption, ZenonT(40) DEF EndReload
  <2>3. file.ver = mem[server].ver
    BY <1>1, <2>1, <2>2, ZenonT(40) DEF IInv, Alone
  <2>4. Agree(mem'[server].keys, KeysAt(mem[server].ver), now)
    BY <2>1, <2>3, LoadedSafe
  <2> QED
    BY <2>4, AgreeIsLiving, ZenonT(40) DEF ReloadFaithful
<1>2. IInv => [EndReload /\ ~overlapped => ReloadFaithful]_vars
  BY <1>1
<1> QED
  BY <1>2, IInvHolds, PTL DEF ReloadAloneIsIdentity

=============================================================================
