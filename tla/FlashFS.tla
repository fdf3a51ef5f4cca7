------------------------------ MODULE FlashFS ------------------------------
(***************************************************************************)
(* The flash file system of SapphireOS: files (sapphireos/fs.c and         *)
(* flash_fs.c) on the pages and blocks of FlashPages, and the garbage      *)
(* collector's thread (ffs_gc.c).                                          *)
(*                                                                         *)
(* A call of the file system is one action: it runs to its end on the      *)
(* machine of FlashPages, or to an assertion, which restarts the system,   *)
(* or power is lost after any of its writes.  The collector waits between  *)
(* two blocks, so each block is an action.                                 *)
(***************************************************************************)
EXTENDS FlashPages

CONSTANTS
  Names,       \* names of files
  GcName,      \* "gc_data", the collector's file of erase counts
  Counts,      \* what the page of erase counts holds
  Values,      \* what a page of a file of data holds
  Absent,      \* what there is of a file that does not exist
  MetaPages,   \* FFS_FILE_PAGE_DATA_0: pages before the data
  MaxData,     \* bound on the pages of data of a file
  MaxWrite,    \* bound on the pages of one write
  Threshold,   \* FFS_DIRTY_THRESHOLD
  MaxLosses,   \* bound on the losses of power
  Safe         \* the gaps between writes in which power is not lost

ASSUME FilesAssumption ==
  /\ Contents = Names \cup Values \cup {Counts} /\ Names \cap Values = {}
  /\ Counts \notin Names /\ GcName \in Names
  /\ Junk \notin Contents
  /\ MetaPages \in Nat \ {0} /\ MaxData \in Nat /\ MaxWrite \in Nat /\ Threshold \in Nat \ {0}
  /\ MaxLosses \in Nat /\ Safe \subseteq {"replace", "page"}

VARIABLES
  flash,     \* the blocks of the file system
  ram,       \* lists, files and caches
  gc,        \* where the collector's thread is; Off until the mount
  losses,    \* how often power was lost
  doubtful,  \* names of files in which a write was cut short
  shown,     \* what reads return, or will when the flash is next mounted
  call       \* the call of the last step that was to change a file

vars == <<flash, ram, gc, losses, doubtful, shown, call>>

Promise == INSTANCE FileStore WITH
             store <- shown, Lost <- Junk, Values <- Values \cup {Counts}

Creating(n)            == [op |-> "create", name |-> n, ok |-> FALSE]
Deleting(n)            == [op |-> "delete", name |-> n, ok |-> FALSE]
Writing(n, from, k, v) ==
  [op |-> "write", name |-> n, from |-> from, size |-> k, value |-> v, ok |-> FALSE]

Off    == "off"
NoFile == -1

RamOf(s) == [free |-> s.free, dirty |-> s.dirty, list |-> s.list, size |-> s.size, ic |-> s.ic]

NoRam == RamOf(NoTables(<<>>))

Machine == [fl |-> flash, log |-> <<>>, halt |-> FALSE, ret |-> "ok", data |-> Junk,
            free |-> ram.free, dirty |-> ram.dirty, list |-> ram.list,
            size |-> ram.size, ic |-> ram.ic]

Up == gc # Off

-----------------------------------------------------------------------------
(* Files by name.  A file that has no data pages' room yet, because power  *)
(* was lost while it was created, has a number and no name.                *)
PageSeen(s, f, p) ==
  LET r == ReadPage(s, f, p) IN IF r.ret = "ok" THEN r.data ELSE Junk

Exists(s, f) == s.size[f] >= MetaPages

FileNamed(s, n) ==
  LET fs == {f \in Files : Exists(s, f) /\ PageSeen(s, f, 0) = n}
  IN  IF fs = {} THEN NoFile ELSE Min(fs)

(* What reads return.                                                      *)
Seen(s) ==
  [n \in Names |->
     LET f == FileNamed(s, n) IN
     IF f = NoFile THEN Absent
     ELSE [i \in 1 .. s.size[f] - MetaPages |-> PageSeen(s, f, MetaPages + i - 1)]]

Restart == gc' = Off /\ ram' = NoRam /\ shown' = Seen(Mounted(flash'))

(* ffs_i8_create_file: a number, a block, the pages of meta data; a file   *)
(* whose meta data cannot be written is deleted.                           *)
KeptIfNamed(s, f) ==
  IF s.halt \/ s.ret = "ok" THEN s ELSE Returns(DeleteFile(s, f), "error")

Put(s, w) == IF s.halt \/ s.ret # "ok" THEN s ELSE WritePage(s, w.file, w.page, w.data)

WriteMetaData(s, f, n) ==
  LET work == [p \in 1 .. MetaPages |-> [file |-> f, page |-> p - 1, data |-> n]] IN
  IF s.ret # "ok" THEN s ELSE KeptIfNamed(ForEach(Put, [s EXCEPT !.size[f] = 0], work), f)

NewFile(s) ==
  LET ids == {f \in Files : s.size[f] < 0} IN IF ids = {} THEN NoFile ELSE Min(ids)

CreateFile(s, n) ==
  LET f == NewFile(s) IN
  IF f = NoFile THEN Returns(s, "no_files") ELSE WriteMetaData(AllocBlock(s, f), f, n)

(* fs_i16_write_id: what is written is limited to the space of the free    *)
(* blocks, and nothing else is asked of them; pages are written until one  *)
(* fails.                                                                  *)
WriteFile(s, f, from, k, v) ==
  LET room == Len(s.free) * DataPages
      work == [i \in 1 .. Min({k, room}) |-> [file |-> f, page |-> MetaPages + from + i - 1, data |-> v]]
  IN  [ForEach(Put, Returns(s, "ok"), work) EXCEPT !.ret = IF room < k /\ @ = "ok" THEN "short" ELSE @]

-----------------------------------------------------------------------------
(* The end of a call that ran on s.                                        *)
Ends(s, after) ==
  /\ flash' = s.fl /\ UNCHANGED losses
  /\ IF s.halt THEN Restart ELSE ram' = RamOf(s) /\ gc' = after /\ shown' = Seen(s)

(* Power is lost in a call; in a page of file n, perhaps.                  *)
CutShort(s, n) ==
  /\ losses < MaxLosses
  /\ \E i \in 1 .. Len(s.log) - 1 :
       /\ s.log[i].gap \notin Safe
       /\ flash' = s.log[i].flash
       /\ doubtful' = IF s.log[i].gap = "page" THEN doubtful \cup {n} ELSE doubtful
  /\ losses' = losses + 1 /\ Restart

(* A call c that ran on s and writes to a file.                            *)
Call(s, c, after) ==
  \/ /\ call' = [c EXCEPT !.ok = s.ret = "ok" /\ ~s.halt]
     /\ doubtful' = IF s.halt THEN doubtful \cup {c.name} ELSE doubtful
     /\ Ends(s, after)
  \/ call' = c /\ CutShort(s, c.name)

(* A call that writes to no file.                                          *)
Quiet == call' = Promise!Nothing

Moves(s, after) ==
  /\ Quiet
  /\ \/ Ends(s, after) /\ UNCHANGED doubtful
     \/ CutShort(s, GcName)

Create(n) ==
  /\ Up /\ FileNamed(Machine, n) = NoFile
  /\ Call(CreateFile(Machine, n), Creating(n), gc)

Write(n) ==
  /\ Up
  /\ LET f == FileNamed(Machine, n) IN
     /\ f # NoFile
     /\ \E from \in 0 .. Min({Machine.size[f] - MetaPages, MaxData - 1}), k \in 1 .. MaxWrite, v \in Values :
          /\ from + k <= MaxData
          /\ Call(WriteFile(Machine, f, from, k, v), Writing(n, from, k, v), gc)

Read(n) ==
  /\ Up
  /\ LET f == FileNamed(Machine, n) IN
     /\ f # NoFile
     /\ \E p \in 0 .. Machine.size[f] - 1 : ram' = RamOf(ReadPage(Machine, f, p))
  /\ Quiet /\ UNCHANGED <<flash, gc, losses, doubtful, shown>>

Deletes(s, n) ==
  \/ call' = [Deleting(n) EXCEPT !.ok = ~s.halt] /\ doubtful' = doubtful \ {n} /\ Ends(s, gc)
  \/ call' = Deleting(n) /\ CutShort(s, n)

Delete(n) ==
  /\ Up /\ FileNamed(Machine, n) # NoFile
  /\ Deletes(DeleteFile(Machine, FileNamed(Machine, n)), n)

(* The collector's thread opens its file, or creates it with a count of    *)
(* zero for each block, written one by one, and ends if it cannot.  The    *)
(* counts are taken to have room in one page.                              *)
Zero(s, g) == IF s.halt THEN s ELSE WriteFile(s, g, 0, 1, Counts)

Zeros(s, g) == ForEach(Zero, s, [b \in 1 .. NBlocks |-> g])

Opened(s, g, c) ==
  IF s.halt \/ s.ret # "ok" THEN Call(s, c, "ended")
  ELSE IF s.size[g] > MetaPages THEN Moves(s, "idle")
  ELSE Call(Zeros(s, g), c, "idle")

StartCollector ==
  /\ Up /\ gc = "start"
  /\ LET g == FileNamed(Machine, GcName) IN
     IF g = NoFile THEN Opened(CreateFile(Machine, GcName), NewFile(Machine), Creating(GcName))
     ELSE Opened(Machine, g, Writing(GcName, 0, 1, Counts))

(* One block: erased, put into the free list and counted.                  *)
Collected(s) ==
  LET g == FileNamed(s, GcName) IN
  IF s.halt \/ g = NoFile THEN Moves(s, "busy")
  ELSE Call(WriteFile(s, g, 0, 1, Counts), Writing(GcName, 0, 1, Counts), "busy")

CollectBlock ==
  /\ Up
  /\ \/ gc = "idle" /\ Len(ram.dirty) >= Threshold
     \/ gc = "busy" /\ ram.dirty # <<>>
  /\ Collected(Erase([Machine EXCEPT !.dirty = Tail(@)], Head(ram.dirty)))

(* After the last one: perhaps the block with the lowest count, which may  *)
(* be any, has its data moved to another.                                  *)
EndPass ==
  /\ Up /\ gc = "busy" /\ ram.dirty = <<>>
  /\ \/ gc' = "idle" /\ Quiet /\ UNCHANGED <<flash, ram, losses, doubtful, shown>>
     \/ \E b \in Blocks \ ToSet(ram.free) :
          /\ flash[b].mark = "valid"
          /\ Moves(ReplaceBlock(Machine, flash[b].file, flash[b].num), "idle")

(* The mount, and a loss of power at rest.                                 *)
Mounts(s) ==
  \/ /\ doubtful' = {n \in doubtful : s.halt \/ FileNamed(s, n) # NoFile}
     /\ Ends(s, "start")
  \/ CutShort(s, GcName)

Mount == ~Up /\ Quiet /\ Mounts(Mounted(flash))

PowerLoss ==
  /\ Up /\ losses < MaxLosses
  /\ Quiet /\ UNCHANGED <<flash, doubtful>>
  /\ losses' = losses + 1 /\ Restart

(* The file system is formatted before its first mount.                    *)
Init ==
  /\ flash = [b \in Blocks |-> Erased]
  /\ ram = NoRam /\ gc = Off /\ losses = 0
  /\ doubtful = {} /\ shown = Seen(Mounted(flash)) /\ call = Promise!Nothing

Next ==
  \/ \E n \in Names \ {GcName} : Create(n) \/ Write(n) \/ Read(n) \/ Delete(n)
  \/ StartCollector \/ CollectBlock \/ EndPass \/ Mount \/ PowerLoss

Spec == Init /\ [][Next]_vars

-----------------------------------------------------------------------------
(* The lists: those of the files, the free list and the dirty list.        *)
FreeList  == -1
DirtyList == -2

ListOf(c) == IF c = FreeList THEN ram.free ELSE IF c = DirtyList THEN ram.dirty ELSE ram.list[c]
Places    == UNION {{c} \X DOMAIN ListOf(c) : c \in Files \cup {FreeList, DirtyList}}
BlockIn(p) == ListOf(p[1])[p[2]]

(* Between two calls every block is in exactly one list, the free list,    *)
(* the dirty list or that of a file, once; a dirty block is marked so in   *)
(* the flash, and the blocks of a file carry its number and their places   *)
(* in it: "no duplicate blocks, no missing blocks" (ffs_page_v_init).      *)
BlocksAccounted ==
  Up =>
    /\ {BlockIn(p) : p \in Places} = Blocks
    /\ \A p, q \in Places : BlockIn(p) = BlockIn(q) => p = q
    /\ \A b \in ToSet(ram.dirty) : IsDirty(flash, b)
    /\ \A f \in Files : \A i \in DOMAIN ram.list[f] :
         LET b == flash[ram.list[f][i]] IN b.mark = "valid" /\ b.file = f /\ b.num = i - 1

(* A block that is allocated is erased, whatever loss of power came before *)
(* (what is written over something else is neither).                       *)
FreeErased == Up => \A b \in ToSet(ram.free) : flash[b] = Erased

(* Files hold what was written to them, and nothing but a call that writes *)
(* to a file changes it: the collector does not, nor does a mount, nor a   *)
(* loss of power in a call for another file.                               *)
Implements == Promise!Spec
=============================================================================
