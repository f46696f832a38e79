------------------------------ MODULE LfsFile ------------------------------
(***************************************************************************)
(* A file of littlefs (lfs.c) and the handles open on it.  Its contents    *)
(* are inline in the directory or in a backward skip list of blocks (CTZ). *)
(* Blocks are never overwritten: a write allocates, copies and builds a    *)
(* new list next to the old one, and only the commit of a sync or close    *)
(* makes it the file.  The allocator knows nothing but what it finds when  *)
(* it scans the disk and the open handles, a window of blocks at a time.   *)
(*                                                                         *)
(* Words of four bytes stand for bytes, pointers and data alike, numbers   *)
(* below BlockCount being pointers; the blocks of metadata are left out.   *)
(* A step is what happens between two accesses to the flash; the power may *)
(* fail between any two steps, and programming may hit a bad block.        *)
(***************************************************************************)
EXTENDS Integers, Sequences, SequencesExt, FiniteSets

CONSTANTS
    Writers, Readers,   \* handles; readers are opened with LFS_O_RDONLY
    Syncers,            \* handles that are synced while they are open
    BlockCount, BlockSize, Window, InlineMax, FileMax,
    Modes,              \* sets of flags to open with: "trunc", "append"
    Sizes, Offsets,     \* lengths to write and positions to seek to
    Seeds,              \* where the allocator may start after a mount
    BadAtFirstWord,     \* whether a block may turn out to be bad at its first word
    MaxCalls, MaxFaults, MaxLosses, NoGoal

VARIABLES
    flash,      \* the words programmed in each block
    entry,      \* the file's structure in its directory
    lookahead,  \* the allocator's window
    file,       \* lfs_file_t of each handle
    steps,      \* what the call under way has still to do
    goal,       \* the contents a sync is to make durable
    ended,      \* how the last sync ended
    count       \* calls, bad blocks and power losses so far

fileVars == <<flash, entry, lookahead, file, steps, goal, ended, count>>

Handles == Writers \cup Readers
FileBlocks == 0 .. BlockCount - 1
LFS_BLOCK_NULL == 0 - 1
LFS_BLOCK_INLINE == 0 - 2
Erased == 98
Zero == 99
Data == 100 + count.calls

NoCache == [block |-> LFS_BLOCK_NULL, words |-> <<>>]
Caches == [block : Int, words : Seq(Int)]

\* lfs_bd_read: the block that a handle is programming is read from its cache.
Word(c, b, off) ==
    LET words == IF c.block = b THEN c.words ELSE IF b \in FileBlocks THEN flash[b] ELSE <<>>
    IN IF off < Len(words) THEN words[off + 1] ELSE Erased

-----------------------------------------------------------------------------
\* The skip list: block i has ctz(i)+1 pointers, to the blocks 2^k before it.
\* lfs_popc, lfs_ctz, lfs_npw2
Bit(n, k) == (n \div 2 ^ k) % 2
Popc(n) == Cardinality({k \in 0 .. 5 : Bit(n, k) = 1})
Ctz(n) == CHOOSE k \in 0 .. 5 : Bit(n, k) = 1 /\ \A j \in 0 .. k - 1 : Bit(n, j) = 0
Npw2(n) == CHOOSE k \in 0 .. 5 : 2 ^ k >= n /\ \A j \in 0 .. k - 1 : 2 ^ j < n
Least(a, b) == IF a <= b THEN a ELSE b
Most(a, b) == IF a <= b THEN b ELSE a

\* lfs_ctz_index: which block of the list has a position of the file, and where.
CtzIndex[pos \in Nat] ==
    LET b == BlockSize - 2
        i == pos \div b
        index == (pos - (Popc(i - 1) + 2)) \div b
    IN IF i = 0 THEN [index |-> 0, off |-> pos]
       ELSE [index |-> index, off |-> pos - b * index - Popc(index)]

SkipTo[c \in Caches, head \in Int, current \in Nat, target \in Nat] ==
    IF current <= target THEN head
    ELSE LET skip == Least(Npw2(current - target + 1) - 1, Ctz(current))
         IN SkipTo[c, Word(c, head, skip), current - 2 ^ skip, target]

lfs_ctz_find(c, head, size, pos) ==
    IF size = 0 THEN [block |-> LFS_BLOCK_NULL, off |-> 0]
    ELSE LET at == CtzIndex[pos]
         IN [block |-> SkipTo[c, head, CtzIndex[size - 1].index, at.index], off |-> at.off]

\* lfs_file_flushedread of the whole list
ReadList[c \in Caches, head \in Int, size \in Nat] ==
    [p \in 1 .. size |-> LET at == lfs_ctz_find(c, head, size, p - 1)
                         IN Word(c, at.block, at.off)]

\* lfs_ctz_traverse
WalkFrom[c \in Caches, head \in Int, index \in Int] ==
    IF head \notin FileBlocks THEN {}
    ELSE {head} \cup
         IF index = 0 THEN {}
         ELSE IF index % 2 = 1 THEN WalkFrom[c, Word(c, head, 0), index - 1]
         ELSE {Word(c, head, 0)} \cup WalkFrom[c, Word(c, head, 1), index - 2]
lfs_ctz_traverse(c, head, size) ==
    IF size = 0 THEN {} ELSE WalkFrom[c, head, CtzIndex[size - 1].index]

-----------------------------------------------------------------------------
\* A plausible bug: a list the directory no longer has is not kept for a reader.
TrackedDirty(g) ==
    IF ~g.open \/ g.inline THEN {}
    ELSE (IF g.dirty THEN lfs_ctz_traverse(g.cache, g.head, g.size) ELSE {})
         \cup (IF g.writing THEN lfs_ctz_traverse(g.cache, g.block, g.pos) ELSE {})

\* lfs_fs_traverse, the part for open files: the list a handle goes on using
\* although the directory does not have it (any more), and the one it builds.
Tracked(g) ==
    IF ~g.open \/ g.inline THEN {}
    ELSE (IF g.dirty \/ g.dusty THEN lfs_ctz_traverse(g.cache, g.head, g.size) ELSE {})
         \cup (IF g.writing THEN lfs_ctz_traverse(g.cache, g.block, g.pos) ELSE {})

InUse ==
    (IF entry.head = LFS_BLOCK_INLINE THEN {}
     ELSE lfs_ctz_traverse(NoCache, entry.head, entry.size))
    \cup UNION {Tracked(file[h]) : h \in Handles}

\* lfs_alloc_scan: the next window, no longer than what is left since the
\* last checkpoint.
lfs_alloc_scan(la) ==
    LET start == (la.start + la.next) % BlockCount
        size == Least(Window, la.ckpoint)
    IN [start |-> start, next |-> 0, size |-> size, ckpoint |-> la.ckpoint,
        used |-> {off \in 0 .. size - 1 : (start + off) % BlockCount \in InUse}]

\* lfs_alloc_ckpoint: all that was allocated can be found by a scan.
lfs_alloc_ckpoint(la) == [la EXCEPT !.ckpoint = BlockCount]

Lookaheads == [start : Nat, next : Nat, size : Nat, ckpoint : Nat, used : SUBSET Nat]

\* lfs_alloc: the next free block, and the window moved on to the one after.
FreeFrom(la, from) == {n \in from .. la.size - 1 : n \notin la.used}
LeastOr(S, else) == IF S = {} THEN else ELSE CHOOSE n \in S : \A m \in S : n <= m
Advance(la, next) == [la EXCEPT !.next = next, !.ckpoint = @ - (next - la.next)]

lfs_alloc[la \in Lookaheads] ==
    LET n == LeastOr(FreeFrom(la, la.next), la.size)
        spent == Advance(la, la.size)
    IN IF n < la.size
       THEN [block |-> (la.start + n) % BlockCount,
             la |-> Advance(la, LeastOr(FreeFrom(la, n + 1), la.size))]
       ELSE IF spent.ckpoint = 0 THEN [block |-> LFS_BLOCK_NULL, la |-> spent]
       ELSE lfs_alloc[lfs_alloc_scan(spent)]

-----------------------------------------------------------------------------
\* What a handle reads: the part it has written, then the rest of the old.
OldContents(g) ==
    IF g.inline THEN g.cache.words ELSE ReadList[g.cache, g.head, g.size]
View(g) ==
    IF g.writing /\ ~g.inline
    THEN ReadList[g.cache, g.block, g.pos] \o SubSeq(OldContents(g), g.pos + 1, g.size)
    ELSE OldContents(g)

\* What a mount finds.
Durable ==
    IF entry.head = LFS_BLOCK_INLINE THEN entry.words
    ELSE ReadList[NoCache, entry.head, entry.size]

Closed ==
    [open |-> FALSE, append |-> FALSE, dirty |-> FALSE, dusty |-> FALSE, erred |-> FALSE,
     writing |-> FALSE, inline |-> FALSE, pos |-> 0, off |-> 0, block |-> LFS_BLOCK_NULL,
     head |-> LFS_BLOCK_NULL, size |-> 0, cache |-> NoCache, expected |-> <<>>]

Overwrite(s, pos, data) ==
    LET gap == [i \in 1 .. pos - Len(s) |-> Zero]
    IN SubSeq(s \o gap, 1, pos) \o data \o SubSeq(s, pos + Len(data) + 1, Len(s))

Current == Head(steps)
Doing(what) == steps # <<>> /\ Current.do = what
f == file[Current.h]

Put(h, data) == [do |-> "put", h |-> h, data |-> data]
Flush(h) == [do |-> "flush", h |-> h, pos |-> file[h].pos]
SeekStep(h, pos) == [do |-> "seek", h |-> h, pos |-> pos]
Finish(h) == [do |-> "finish", h |-> h]
Repeat(step, n) == [i \in 1 .. n |-> step]

Then(g) == file' = [file EXCEPT ![Current.h] = g]
Progress(g, la, rest) ==
    /\ Then(g) /\ lookahead' = la /\ steps' = rest \o Tail(steps)
    /\ UNCHANGED <<entry, goal, ended>>

\* The end of a call, if it was a sync.
Ends(how) == goal' = NoGoal /\ ended' = IF goal = NoGoal THEN ended ELSE how

\* The call fails, as far as it got; the handle is not to be synced by its close.
Fails(la) ==
    /\ Then([f EXCEPT !.erred = TRUE, !.expected = View(f)])
    /\ lookahead' = la
    /\ steps' = <<>> /\ Ends("error")
    /\ UNCHANGED <<flash, entry>>

\* lfs_bd_flush, done by itself when the end of the block is programmed
Flushed(g) == [flash EXCEPT ![g.cache.block] = g.cache.words]

-----------------------------------------------------------------------------
\* lfs_file_relocate: what exists of the block goes to a new one.
Relocating(g, la) ==
    LET a == lfs_alloc[la]
        source(i) == IF g.inline THEN g.cache.words[i] ELSE Word(g.cache, g.block, i - 1)
    IN IF a.block = LFS_BLOCK_NULL THEN Fails(a.la) /\ UNCHANGED count
       ELSE /\ flash' = [flash EXCEPT ![a.block] = <<>>]
            /\ Progress([g EXCEPT !.block = a.block, !.writing = TRUE, !.inline = FALSE,
                                  !.cache = [block |-> a.block,
                                             words |-> [i \in 1 .. g.off |-> source(i)]]],
                        a.la, <<Current>>)

BadBlock ==
    /\ count.faults < MaxFaults
    /\ count' = [count EXCEPT !.faults = @ + 1]

\* lfs_file_flushedwrite: an inline file that does not fit any more ...
Outgrows(g, n) == g.inline /\ Most(g.pos + n, g.size) > InlineMax
Outline ==
    /\ Doing("put") /\ Outgrows(f, Len(Current.data))
    /\ Relocating([f EXCEPT !.off = f.pos], lfs_alloc_ckpoint(lookahead))
    /\ UNCHANGED count

\* ... a block is needed ...
NeedsBlock == ~f.writing \/ (~f.inline /\ f.off = BlockSize)

ExtendInline ==
    /\ Doing("put") /\ ~Outgrows(f, Len(Current.data)) /\ f.inline /\ NeedsBlock
    /\ Progress([f EXCEPT !.block = LFS_BLOCK_INLINE, !.off = f.pos, !.writing = TRUE],
                lookahead, <<Current>>)
    /\ UNCHANGED <<flash, count>>

\* (lfs_ctz_extend: the last block is copied if it is not full, else the new
\* one points back to it and, the power of two its index is divisible by
\* allowing, to earlier ones)
PointerTo[c \in Caches, head \in Int, k \in Nat] ==
    IF k = 0 THEN head ELSE Word(c, PointerTo[c, head, k - 1], k - 1)

NewBlock(c, head, size) ==
    IF size = 0 THEN <<>>
    ELSE LET last == CtzIndex[size - 1]
         IN IF last.off + 1 # BlockSize
            THEN [i \in 1 .. last.off + 1 |-> Word(c, head, i - 1)]
            ELSE [k \in 1 .. Ctz(last.index + 1) + 1 |-> PointerTo[c, head, k - 1]]

lfs_ctz_extend ==
    /\ Doing("put") /\ ~f.inline /\ NeedsBlock
    /\ LET a == lfs_alloc[lfs_alloc_ckpoint(lookahead)]
           from == IF f.writing \/ f.pos = 0 THEN f.block
                   ELSE lfs_ctz_find(f.cache, f.head, f.size, f.pos - 1).block
           words == NewBlock(f.cache, from, f.pos)
       IN IF a.block = LFS_BLOCK_NULL THEN Fails(a.la)
          ELSE /\ flash' = [flash EXCEPT ![a.block] = <<>>]
               /\ Progress([f EXCEPT !.block = a.block, !.off = Len(words), !.writing = TRUE,
                                     !.cache = [block |-> a.block, words |-> words]],
                           a.la, <<Current>>)
    /\ UNCHANGED count

\* ... and what fits into it is programmed, unless the block is bad.
Programmed ==
    LET n == IF f.inline THEN Len(Current.data)
             ELSE Least(Len(Current.data), BlockSize - f.off)
        end == f.off + n
    IN [f EXCEPT !.pos = @ + n, !.off = end,
                 !.cache.words = SubSeq(@, 1, f.off) \o SubSeq(Current.data, 1, n)
                                    \o SubSeq(@, end + 1, Len(@))]

Program ==
    /\ Doing("put") /\ ~Outgrows(f, Len(Current.data)) /\ ~NeedsBlock
    /\ LET g == Programmed
           rest == SubSeq(Current.data, g.pos - f.pos + 1, Len(Current.data))
       IN /\ flash' = IF ~g.inline /\ g.off = BlockSize THEN Flushed(g) ELSE flash
          /\ Progress(g, lfs_alloc_ckpoint(lookahead),
                      IF rest = <<>> THEN <<>> ELSE <<Put(Current.h, rest)>>)
    /\ UNCHANGED count

\* With nothing in the new block yet, lfs_fs_traverse takes it for the block
\* before and does not see the list behind it: on a full disk the relocation
\* may then be given a block of that list.
AtFirstWord == f.pos > 0 /\ CtzIndex[f.pos].index # CtzIndex[f.pos - 1].index

ProgramBad ==
    /\ Doing("put") /\ ~f.inline /\ ~NeedsBlock
    /\ AtFirstWord => BadAtFirstWord
    /\ BadBlock /\ Relocating(f, lookahead)

\* lfs_file_flush: the rest of the old list is copied after what was written,
\* and the new list is the handle's.
FlushCopies ==
    /\ Doing("flush") /\ f.writing /\ ~f.inline /\ f.pos < f.size
    /\ LET at == lfs_ctz_find(NoCache, f.head, f.size, f.pos)
       IN Progress(f, lookahead,
                   <<Put(Current.h, <<Word(NoCache, at.block, at.off)>>), Current>>)
    /\ UNCHANGED <<flash, count>>

FlushEnds ==
    /\ Doing("flush") /\ ~(f.writing /\ ~f.inline /\ f.pos < f.size)
    /\ IF f.writing
       THEN /\ Progress([f EXCEPT !.head = f.block, !.writing = FALSE, !.dirty = TRUE,
                                  !.size = IF f.inline THEN Most(f.pos, @) ELSE f.pos,
                                  !.pos = Current.pos],
                        lookahead, <<>>)
            /\ flash' = IF f.inline THEN flash ELSE Flushed(f)
       ELSE Progress(f, lookahead, <<>>) /\ UNCHANGED flash
    /\ UNCHANGED count

FlushBad ==
    /\ Doing("flush") /\ f.writing /\ ~f.inline /\ f.pos >= f.size
    /\ BadBlock /\ Relocating(f, lookahead)

-----------------------------------------------------------------------------
\* lfs_file_sync: the commit to the directory (LfsPair), which may fail; other
\* handles on the file now have contents that the directory does not.
CommitEntry ==
    /\ Doing("commit")
    /\ entry' = IF f.dirty THEN [head |-> f.head, size |-> f.size,
                                 words |-> IF f.inline THEN f.cache.words ELSE <<>>]
                ELSE entry
    /\ file' = [h \in Handles |->
                  IF h = Current.h THEN [f EXCEPT !.dirty = FALSE, !.erred = FALSE, !.dusty = FALSE]
                  ELSE [file[h] EXCEPT !.dusty = @ \/ file[h].open]]
    /\ steps' = Tail(steps)
    /\ UNCHANGED <<flash, lookahead, goal, ended, count>>

CommitFails ==
    /\ Doing("commit") /\ f.dirty /\ BadBlock
    /\ Fails(lookahead)

\* lfs_file_seek
Seek ==
    /\ Doing("seek")
    /\ Progress([f EXCEPT !.pos = Current.pos], lookahead, <<>>)
    /\ UNCHANGED <<flash, count>>
SeekTo(h, pos) == <<Flush(h), SeekStep(h, pos)>>

\* lfs_file_truncate, to where contents are inline again
Shrink ==
    /\ Doing("shrink")
    /\ LET n == Current.size
           keep == SubSeq(OldContents(f), 1, n)
           at == lfs_ctz_find(f.cache, f.head, f.size, n - 1)
       IN Progress(IF n <= InlineMax
                   THEN [f EXCEPT !.head = LFS_BLOCK_INLINE, !.size = n, !.dirty = TRUE,
                                  !.inline = TRUE,
                                  !.cache = [block |-> LFS_BLOCK_INLINE, words |-> keep]]
                   ELSE [f EXCEPT !.head = at.block, !.block = at.block, !.size = n,
                                  !.dirty = TRUE],
                   lookahead, <<>>)
    /\ UNCHANGED <<flash, count>>

Finishes ==
    /\ Doing("finish")
    /\ Then([f EXCEPT !.erred = FALSE, !.dusty = FALSE])
    /\ steps' = Tail(steps)
    /\ UNCHANGED <<flash, entry, lookahead, goal, ended, count>>

Return ==
    /\ Doing("return")
    /\ Then(IF Current.close THEN Closed ELSE f)
    /\ steps' = <<>> /\ Ends("ok")
    /\ UNCHANGED <<flash, entry, lookahead, count>>

-----------------------------------------------------------------------------
\* Calls.
Starts(h, g, todo) ==
    /\ steps = <<>> /\ count.calls < MaxCalls
    /\ file' = [file EXCEPT ![h] = g]
    /\ steps' = todo
    /\ count' = [count EXCEPT !.calls = @ + 1]
    /\ UNCHANGED <<flash, entry, lookahead>>
Quiet == UNCHANGED <<goal, ended>>
Returns(h, close) == [do |-> "return", h |-> h, close |-> close]

lfs_file_open(h, mode) ==
    LET trunc == "trunc" \in mode
        inline == trunc \/ entry.head = LFS_BLOCK_INLINE
        words == IF trunc THEN <<>> ELSE entry.words
    IN /\ ~file[h].open
       /\ Starts(h, [Closed EXCEPT
                !.open = TRUE, !.append = "append" \in mode, !.dirty = trunc, !.inline = inline,
                !.head = IF trunc THEN LFS_BLOCK_INLINE ELSE entry.head,
                !.size = IF trunc THEN 0 ELSE entry.size,
                !.cache = IF inline THEN [block |-> LFS_BLOCK_INLINE, words |-> words] ELSE NoCache,
                !.expected = IF trunc THEN <<>> ELSE Durable], <<>>)
       /\ Quiet

lfs_file_write(h, n) ==
    LET g == file[h]
        pos == IF g.append /\ g.pos < g.size THEN g.size ELSE g.pos
        gap == IF g.writing THEN 0 ELSE Most(0, pos - g.size)
        data == Repeat(Data, n)
    IN /\ g.open /\ pos + n <= FileMax
       /\ Starts(h, [g EXCEPT !.pos = pos - gap, !.expected = Overwrite(@, pos, data)],
                 Repeat(Put(h, <<Zero>>), gap) \o <<Put(h, data), Finish(h), Returns(h, FALSE)>>)
       /\ Quiet

lfs_file_read(h) ==
    /\ file[h].open /\ file[h].pos < Len(file[h].expected)
    /\ Starts(h, file[h], <<Flush(h), SeekStep(h, file[h].pos + 1), Returns(h, FALSE)>>)
    /\ Quiet

lfs_file_seek(h, pos) ==
    /\ file[h].open /\ file[h].pos # pos
    /\ Starts(h, file[h], SeekTo(h, pos) \o <<Returns(h, FALSE)>>)
    /\ Quiet

\* lfs_file_size
SizeOf(g) == IF g.writing THEN Most(g.pos, g.size) ELSE g.size

lfs_file_truncate(h, n) ==
    LET g == file[h]
        size == SizeOf(g)
        zeros == Repeat(Put(h, <<Zero>>), n - size)
    IN /\ g.open /\ n # size
       /\ Starts(h, [g EXCEPT !.expected = IF n < size THEN SubSeq(@, 1, n)
                                           ELSE Overwrite(@, size, Repeat(Zero, n - size))],
                 (IF n < size THEN <<Flush(h), [do |-> "shrink", h |-> h, size |-> n]>>
                  ELSE SeekTo(h, size) \o zeros \o <<Finish(h)>>)
                 \o <<[do |-> "flush", h |-> h, pos |-> g.pos], SeekStep(h, g.pos),
                      Returns(h, FALSE)>>)
       /\ Quiet

\* A plausible bug: the entry is committed before the blocks are written.
SyncUnflushed(h, close) == <<[do |-> "commit", h |-> h], Flush(h), Returns(h, close)>>

SyncSteps(h, close) == <<Flush(h), [do |-> "commit", h |-> h], Returns(h, close)>>
Goal(g) == IF g.dirty \/ g.writing THEN View(g) ELSE Durable

lfs_file_sync(h) ==
    /\ file[h].open
    /\ Starts(h, file[h], SyncSteps(h, FALSE))
    /\ goal' = Goal(file[h]) /\ ended' = "busy"

\* lfs_file_close: a handle that has failed is not synced.
lfs_file_close(h) ==
    /\ file[h].open
    /\ IF file[h].erred
       THEN Starts(h, Closed, <<>>) /\ Quiet
       ELSE /\ Starts(h, file[h], SyncSteps(h, TRUE))
            /\ goal' = Goal(file[h]) /\ ended' = "busy"

FilePowerLoss ==
    /\ count.losses < MaxLosses
    /\ count' = [count EXCEPT !.losses = @ + 1]
    /\ file' = [h \in Handles |-> Closed]
    /\ steps' = <<>> /\ Ends("lost")
    /\ \E start \in Seeds :
            lookahead' = [start |-> start, next |-> 0, size |-> 0, ckpoint |-> BlockCount,
                          used |-> {}]
    /\ UNCHANGED <<flash, entry>>

\* A file just created, or one that fills its first block and begins a second.
FileInit ==
    /\ \/ /\ flash = [b \in FileBlocks |-> <<>>]
          /\ entry = [head |-> LFS_BLOCK_INLINE, size |-> 0, words |-> <<>>]
       \/ /\ flash = [b \in FileBlocks |-> CASE b = 0 -> Repeat(Zero, BlockSize)
                                             [] b = 1 -> <<0, Zero>>
                                             [] OTHER -> <<>>]
          /\ entry = [head |-> 1, size |-> BlockSize + 1, words |-> <<>>]
    /\ lookahead = [start |-> 0, next |-> 0, size |-> 0, ckpoint |-> BlockCount, used |-> {}]
    /\ file = [h \in Handles |-> Closed]
    /\ steps = <<>> /\ goal = NoGoal /\ ended = "ok"
    /\ count = [calls |-> 0, faults |-> 0, losses |-> 0]

FileNext ==
    \/ \E h \in Writers :
        \/ \E mode \in Modes : lfs_file_open(h, mode)
        \/ \E n \in Sizes : lfs_file_write(h, n)
        \/ \E n \in Offsets : lfs_file_truncate(h, n)
    \/ \E h \in Syncers : lfs_file_sync(h)
    \/ \E h \in Readers : lfs_file_open(h, {})
    \/ \E h \in Handles :
        \/ \E pos \in Offsets : lfs_file_seek(h, pos)
        \/ lfs_file_read(h) \/ lfs_file_close(h)
    \/ Outline \/ ExtendInline \/ lfs_ctz_extend \/ Program \/ ProgramBad
    \/ FlushCopies \/ FlushEnds \/ FlushBad \/ CommitEntry \/ CommitFails
    \/ Seek \/ Shrink \/ Finishes \/ Return
    \/ FilePowerLoss

FileSpec == FileInit /\ [][FileNext]_fileVars

-----------------------------------------------------------------------------
(* Properties                                                              *)

FileContents == INSTANCE LfsAtomic WITH
                    Nothing <- NoGoal, value <- Durable, pending <- goal, result <- ended

\* Until a sync or close commits, what a mount would find is the file as it
\* was; from then on it is exactly what the handle had: written, copied,
\* truncated, with bad blocks and power losses on the way, and with a reader
\* open (lfs.c:614-715, 3353-3497).  Not if a bad block shows itself at its very
\* first word while the disk is full: BadAtFirstWord.
FileIsAtomic == FileContents!AtomicSpec

\* A handle reads what was in the file when it was opened, with its own writes
\* and truncations since, though the directory may have another list by now: with
\* one writer, the handles that fall behind the directory are known to the
\* allocator (lfs.c:3485-3495, 4775-4798).  A handle that falls behind and is then
\* synced or written to is not (3495, 3703), and its blocks may be given to
\* somebody else: with the reader in Syncers, and MaxCalls = 5, this is false.
HandleKeepsItsContents ==
    steps = <<>> => \A h \in Handles :
        file[h].open /\ ~file[h].erred => View(file[h]) = file[h].expected
=============================================================================
