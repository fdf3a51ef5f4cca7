----------------------------- MODULE FlashPages -----------------------------
(***************************************************************************)
(* The blocks and pages of the flash file system (sapphireos/ffs_block.c   *)
(* and ffs_page.c) as operators on a machine s.  Nothing interrupts a call *)
(* of the file system but a loss of power, which finds the flash as one of *)
(* the writes so far left it: s.log has the flash after each write.        *)
(*                                                                         *)
(*   fl           the flash                                                *)
(*   free, dirty  free_list and dirty_list; their counts are their lengths *)
(*   list, size   files[]: the blocks of a file and its pages              *)
(*   ic           index_cache                                              *)
(*   log          [flash, gap] after each write; see Store                 *)
(*   halt         an assertion failed, or a walk of a list never ends      *)
(*   ret, data    the status and the page that the last call returned      *)
(*                                                                         *)
(* A page is written whole: offset and length are part of what it holds.   *)
(* The page cache is left out, since every write and every other read      *)
(* replaces what is in it.  Power is not lost between the two copies of an *)
(* index entry, a block that is half erased reads as a free one that is    *)
(* not blank, and the flash otherwise reads what was written to it.        *)
(***************************************************************************)
EXTENDS Integers, SequencesExt

CONSTANTS
  NBlocks,     \* _total_blocks
  NFiles,      \* FFS_MAX_FILES
  DataPages,   \* FFS_DATA_PAGES_PER_BLOCK
  SparePages,  \* FFS_SPARE_PAGES_PER_BLOCK
  Attempts,    \* FFS_IO_ATTEMPTS
  Contents     \* what a page may hold

ASSUME GeometryAssumption ==
  /\ NBlocks \in Nat \ {0} /\ NFiles \in Nat \ {0} /\ Attempts \in Nat \ {0}
  /\ DataPages \in Nat \ {0} /\ SparePages \in Nat

Blocks == 0 .. NBlocks - 1
None   == NBlocks      \* FFS_BLOCK_INVALID
Files  == 0 .. NFiles - 1
NoSize == -1
Junk   == "junk"       \* a page with a wrong CRC

BlockSeq == [i \in 1 .. NBlocks |-> i - 1]

(* A block: its header, the pages that its index names, in the order in    *)
(* which they were written, and whether the next page is still erased.     *)
(* The header has two copies.  It is                                       *)
(*   "free"    erased, flags FFS_FLAGS_FREE      "part"  as free, but the  *)
(*   "valid"   both copies complete                      rest is written   *)
(*   "dirty"   marked so in both copies                                    *)
(*   "torn"    the copies of the flags differ: FFS_FLAGS_INVALID, dirty    *)
(*   "unread"  flags valid, but the copies of the rest differ              *)
(* and its sequence number is left out: see Mapped.                        *)
Block == [mark: {"free", "part", "torn", "unread", "valid", "dirty"},
          file: Files \cup {-1}, num: Blocks \cup {-1},
          pages: Seq([n: 0 .. DataPages - 1, d: Contents \cup {Junk}]), clear: BOOLEAN]

Erased    == [mark |-> "free", file |-> -1, num |-> -1, pages |-> <<>>, clear |-> TRUE]
\* What was in a block is forgotten where no code reads it.
Spoiled(m) == [Erased EXCEPT !.mark = m, !.clear = FALSE]

IsDirty(fl, b) == fl[b].mark \in {"dirty", "torn"}

NoTables(fl) ==
  [fl |-> fl, free |-> <<>>, dirty |-> <<>>, list |-> [f \in Files |-> <<>>],
   size |-> [f \in Files |-> NoSize], ic |-> [block |-> None, index |-> <<>>],
   log |-> <<>>, halt |-> FALSE, ret |-> "ok", data |-> Junk]

Halt(s)       == [s EXCEPT !.halt = TRUE]
Returns(s, r) == [s EXCEPT !.ret = r]

(* A loop over a sequence.                                                 *)
ForEach(Op(_, _), s, seq) ==
  LET upto[i \in 0 .. Len(seq)] == IF i = 0 THEN s ELSE Op(upto[i - 1], seq[i])
  IN  upto[Len(seq)]

(* Writes that make block b the blocks of a sequence, one after the other; *)
(* `gap' is a name for the time after each of them.                        *)
Store(s, b, vals, gap) ==
  IF s.halt THEN s
  ELSE [s EXCEPT !.fl[b] = Last(vals),
                 !.log = @ \o [i \in 1 .. Len(vals) |->
                                [flash |-> [s.fl EXCEPT ![b] = vals[i]], gap |-> gap]]]

-----------------------------------------------------------------------------
(* ffs_block.c                                                             *)

(* A block that is put at the end of a list in which it is makes a loop,   *)
(* and the next one who looks for the end of the list does not find it.    *)
SetDirty(s, b) ==
  [Store(s, b, <<Spoiled("torn"), Spoiled("dirty")>>, "mark") EXCEPT
     !.dirty = Append(@, b), !.halt = @ \/ Contains(s.dirty, b)]

(* A header, byte by byte and copy by copy.                                *)
WriteMeta(s, b, f, n, gap) ==
  LET meta == [s.fl[b] EXCEPT !.mark = "valid", !.file = f, !.num = n] IN
  Store(Store(s, b, <<Spoiled("part"), Spoiled("torn"), Spoiled("unread")>>, "meta"), b, <<meta>>, gap)

(* ffs_block_i8_erase                                                      *)
Erase(s, b) ==
  LET t == [s EXCEPT !.ic = IF @.block = b THEN [block |-> None, index |-> <<>>] ELSE @]
  IN  [Store(t, b, <<Spoiled("part"), Erased>>, "erase") EXCEPT !.free = Append(@, b)]

(* ffs_block_i8_read_index: afterwards the index is s.ic.index.            *)
ReadIndex(s, b) ==
  IF s.ic.block = b THEN s
  ELSE [s EXCEPT !.ic = [block |-> b, index |-> [i \in DOMAIN s.fl[b].pages |-> s.fl[b].pages[i].n]]]

LastPage(index) == Max({-1} \cup ToSet(index))
IsFull(index)   == Len(index) = DataPages + SparePages

(* ffs_block_v_init                                                        *)

\* A bug: a header that cannot be read is passed over.
HeaderPassedOver(s, b) ==
  CASE s.fl[b].mark \in {"free", "part"} -> [s EXCEPT !.free = Append(@, b)]
    [] IsDirty(s.fl, b)                  -> [s EXCEPT !.dirty = Append(@, b)]
    [] OTHER                             -> s

Header(s, b) ==
  CASE s.fl[b].mark \in {"free", "part"} -> [s EXCEPT !.free = Append(@, b)]
    [] IsDirty(s.fl, b)                  -> [s EXCEPT !.dirty = Append(@, b)]
    [] s.fl[b].mark = "unread"           -> SetDirty(s, b)
    [] OTHER                             -> s

(* ffs_block_i8_verify_free_space.  The walk moves on from the block that  *)
(* it has just put at the end of the dirty list, so it ends at the first   *)
(* free block that is not erased.                                          *)
VerifyFreeSpace(s) ==
  LET bad == {i \in DOMAIN s.free : s.fl[s.free[i]] # Erased} IN
  IF bad = {} THEN s
  ELSE SetDirty([s EXCEPT !.free = RemoveAt(@, Min(bad))], s.free[Min(bad)])

\* A bug: free blocks are not looked at.
BlockInitUnverified(fl) == ForEach(Header, NoTables(fl), BlockSeq)

BlockInit(fl) == VerifyFreeSpace(ForEach(Header, NoTables(fl), BlockSeq))

-----------------------------------------------------------------------------
(* ffs_page.c                                                              *)

BlockAt(s, f, n) == IF n < Len(s.list[f]) THEN s.list[f][n + 1] ELSE None

At(index, n) == {i \in DOMAIN index : index[i] = n}

\* A bug: the index is searched from its start.
(* ffs_page_i32_seek_page: the last page of the block that has a number.   *)
NewestAt(index, n) == Max(At(index, n))

(* ffs_page_i8_read, of a page whose block b has its index in the cache.   *)
ReadFrom(s, b, n) ==
  LET at == NewestAt(s.ic.index, n)
      d  == IF at \in DOMAIN s.fl[b].pages THEN s.fl[b].pages[at].d ELSE Junk
  IN  IF At(s.ic.index, n) = {} THEN Returns(s, "eof")
      ELSE IF d = Junk THEN Returns(s, "error")
      ELSE [s EXCEPT !.ret = "ok", !.data = d]

ReadPage(s, f, p) ==
  LET b == BlockAt(s, f, p \div DataPages) IN
  IF b = None THEN Returns(s, "eof") ELSE ReadFrom(ReadIndex(s, b), b, p % DataPages)

(* A page and then its index entry.  A page that is not erased is taken to *)
(* be spoilt by what is written over it.                                   *)
PageAndEntry(s, b, n, d) ==
  LET old == s.fl[b]
      new == [old EXCEPT !.pages = Append(@, [n |-> n, d |-> IF old.clear THEN d ELSE Junk]),
                         !.clear = TRUE]
  IN  Store(Store(s, b, <<[old EXCEPT !.clear = FALSE]>>, "page"), b, <<new>>, "none")

\* A bug: the index in the cache is not brought up to date.
WriteEntryUncached(s, b, n, d) == PageAndEntry(s, b, n, d)

(* ffs_block_i8_set_index_entry                                            *)
WriteEntry(s, b, n, d) ==
  [PageAndEntry(s, b, n, d) EXCEPT !.ic.index = IF s.ic.block = b THEN Append(@, n) ELSE @]

(* ffs_page_i16_alloc_block                                                *)
AllocBlock(s, f) ==
  LET b == Head(s.free)
      t == WriteMeta([s EXCEPT !.free = Tail(@)], b, f, Len(s.list[f]), "none")
  IN  IF s.free = <<>> THEN Returns(s, "no_space")
      ELSE Returns([t EXCEPT !.list[f] = Append(@, b)], "ok")

(* ffs_page_i8_block_copy: pages up to the first that is not there, and    *)
(* the header last.                                                        *)
Copied(s, dst, i) ==
  IF s.ret # "ok" THEN s
  ELSE [s EXCEPT !.fl[dst].pages = Append(@, [n |-> i, d |-> s.data])]

CopyPage(s, w) ==
  IF s.ret # "ok" THEN s
  ELSE Copied(ReadPage(s, w.file, w.page), w.to, w.page % DataPages)

CopyHeader(s, src, dst) ==
  IF s.ret = "error" THEN Store(s, dst, <<Spoiled("part")>>, "meta")
  ELSE Returns(WriteMeta(Store(s, dst, <<Spoiled("part"), s.fl[dst]>>, "meta"),
                         dst, s.fl[src].file, s.fl[src].num, "replace"), "ok")

BlockCopy(s, src, dst) ==
  LET base == s.fl[src].num * DataPages
      work == [i \in 1 .. DataPages |-> [file |-> s.fl[src].file, page |-> base + i - 1, to |-> dst]]
  IN  CopyHeader(ForEach(CopyPage, Returns(s, "ok"), work), src, dst)

(* ffs_page_i16_replace_block                                              *)
Replaced(s, f, n, old, new) ==
  IF s.ret # "ok" THEN Returns(SetDirty(s, new), "error")
  ELSE Returns(SetDirty([s EXCEPT !.list[f][n + 1] = new], old), "ok")

ReplaceBlock(s, f, n) ==
  LET old == BlockAt(s, f, n)
      new == Head(s.free)
  IN  IF old = None THEN Halt(s)
      ELSE IF s.free = <<>> THEN Returns(s, "no_space")
      ELSE Replaced(BlockCopy([s EXCEPT !.free = Tail(@)], old, new), f, n, old, new)

(* ffs_page_i8_write, to the choice of a block with an erased page.  The   *)
(* status of alloc_block or replace_block is compared with                 *)
(* FFS_BLOCK_INVALID, which no status is: an assertion finds out.          *)
Reload(s, f, n) == IF s.ret # "ok" THEN Halt(s) ELSE ReadIndex(s, BlockAt(s, f, n))

MakeRoom(s, f, n) == IF IsFull(s.ic.index) THEN Reload(ReplaceBlock(s, f, n), f, n) ELSE s

FindBlock(s, f, n) ==
  IF BlockAt(s, f, n) = None THEN Halt(s) ELSE MakeRoom(ReadIndex(s, BlockAt(s, f, n)), f, n)

Place(s, f, n, grow) == FindBlock(IF grow THEN AllocBlock(s, f) ELSE s, f, n)

(* ffs_page_i8_write, from there: what is there is read, the page is       *)
(* written and read back.                                                  *)
Confirm(s, f, p) ==
  IF s.ret # "ok" THEN s ELSE [s EXCEPT !.size[f] = Max({@, p + 1}), !.ret = "done"]

Overwrite(s, f, p, d) ==
  IF s.ret = "error" THEN s
  ELSE Confirm(ReadPage(WriteEntry(s, BlockAt(s, f, p \div DataPages), p % DataPages, d), f, p), f, p)

WriteTo(s, f, p, d) ==
  IF s.halt \/ IsFull(s.ic.index) THEN s ELSE Overwrite(ReadPage(s, f, p), f, p, d)

(* ffs_page_i8_write.  The blocks are counted before the attempts.         *)
Attempt(s, w) ==
  IF s.halt \/ s.ret = "done" THEN s
  ELSE WriteTo(Place(s, w.file, w.page \div DataPages, w.grow), w.file, w.page, w.data)

WritePage(s, f, p, d) ==
  LET w == [file |-> f, page |-> p, data |-> d, grow |-> Len(s.list[f]) = p \div DataPages]
  IN  [ForEach(Attempt, Returns(s, "retry"), [i \in 1 .. Attempts |-> w]) EXCEPT
         !.ret = IF @ = "done" THEN "ok" ELSE "error"]

(* ffs_page_i8_delete_file                                                 *)
DeleteFile(s, f) ==
  [ForEach(SetDirty, s, s.list[f]) EXCEPT !.list[f] = <<>>, !.size[f] = NoSize, !.ret = "ok"]

-----------------------------------------------------------------------------
(* ffs_page_v_init.  Of two blocks with one place in a file the one found  *)
(* first is kept: the sequence numbers that are compared are both those of *)
(* the other.  The walk moves on from the block that it has just put at    *)
(* the end of the dirty list, so it ends at the first such block.          *)
NumAt(s, b) == s.fl[b].num

Doubles(s, q) == {i \in DOMAIN q : \E j \in 1 .. i - 1 : NumAt(s, q[j]) = NumAt(s, q[i])}

Mapped(s, q) == IF Doubles(s, q) = {} THEN q ELSE SubSeq(q, 1, Min(Doubles(s, q)) - 1)

Walk(s, f) ==
  IF Doubles(s, s.list[f]) = {} THEN s ELSE SetDirty(s, s.list[f][Min(Doubles(s, s.list[f]))])

(* What is left of the list when the walk has ended, for a deletion: the   *)
(* blocks that it saw.                                                     *)
Walked(s, q) == IF Doubles(s, q) = {} THEN q ELSE SubSeq(q, 1, Min(Doubles(s, q)))

HasGap(s, q) == \E b \in ToSet(q) : NumAt(s, b) > 0 /\ ~\E a \in ToSet(q) : NumAt(s, a) = NumAt(s, b) - 1

Ordered(s, q) == [i \in 1 .. Len(q) |-> CHOOSE b \in ToSet(q) : NumAt(s, b) = i - 1]

(* ffs_page_i32_scan_file_size: the last block may hold no page yet.       *)
Sized(s, f, pages) == [s EXCEPT !.size[f] = IF s.ret = "ok" THEN pages ELSE NoSize]

SizeAt(s, f, n) ==
  LET last == n * DataPages + LastPage(s.ic.index) IN
  IF s.ic.index = <<>> THEN [s EXCEPT !.size[f] = 0, !.ret = "ok"]
  ELSE Sized(ReadPage(s, f, last), f, last + 1)

SizeAtOrBefore(s, f, n) ==
  IF s.ic.index = <<>> /\ n > 0
  THEN SizeAt(ReadIndex(s, BlockAt(s, f, n - 1)), f, n - 1)
  ELSE SizeAt(s, f, n)

ScanSize(s, f) ==
  LET n == Len(s.list[f]) - 1 IN SizeAtOrBefore(ReadIndex(s, BlockAt(s, f, n)), f, n)

(* ffs_page_i8_file_scan: every page of the file, of all that the flash    *)
(* has room for.                                                           *)
ScanPage(s, w) ==
  IF s.ret # "ok" \/ w.page >= s.size[w.file] THEN s ELSE ReadPage(s, w.file, w.page)

ScanFile(s, f) ==
  IF s.size[f] = 0 THEN Returns(s, IF ReadPage(s, f, 0).ret = "eof" THEN "ok" ELSE "error")
  ELSE ForEach(ScanPage, Returns(s, "ok"),
               [p \in 1 .. NBlocks * DataPages |-> [file |-> f, page |-> p - 1]])

KeptIfRead(s, f) == IF s.ret # "ok" THEN DeleteFile(s, f) ELSE s

KeptIfSized(s, f) == IF s.ret # "ok" THEN DeleteFile(s, f) ELSE KeptIfRead(ScanFile(s, f), f)

FileInit(s, f) ==
  LET q == s.list[f]
      m == Mapped(s, q)
  IN  IF s.halt \/ q = <<>> THEN s
      ELSE IF HasGap(s, m) THEN DeleteFile([Walk(s, f) EXCEPT !.list[f] = Walked(s, q)], f)
      ELSE KeptIfSized(ScanSize([Walk(s, f) EXCEPT !.list[f] = Ordered(s, m)], f), f)

Enlist(s, b) ==
  IF s.fl[b].mark = "valid" THEN [s EXCEPT !.list[s.fl[b].file] = Append(@, b)] ELSE s

PageInit(s) == ForEach(FileInit, ForEach(Enlist, s, BlockSeq), [f \in 1 .. NFiles |-> f - 1])

(* ffs_v_mount                                                             *)
Mounted(fl) == PageInit(BlockInit(fl))
=============================================================================
