------------------------------ MODULE LfsTree ------------------------------
(***************************************************************************)
(* The directories of littlefs (lfs.c).  Every directory is a chain of     *)
(* metadata pairs (hard tails), all pairs hang on one list (soft tails)    *)
(* that starts at the superblock, and an entry of a parent gives the       *)
(* address of a child.  So a change of the tree, or of the address of a    *)
(* pair, takes several commits: what is still to be done in between is     *)
(* kept as global state (an orphan to look for, an entry that has moved),  *)
(* stored as differences that are spread over the pairs and XORed together *)
(* by a mount, and is put right before the next change                     *)
(* (lfs_fs_forceconsistency).                                              *)
(*                                                                         *)
(* One step is one commit, atomic as LfsPair shows it to be; the power may *)
(* fail between any two.  Entries are known by name where the code counts  *)
(* ids; XOR is symmetric difference.  A pair is the set of its two blocks. *)
(***************************************************************************)
EXTENDS Naturals, Sequences, FiniteSets, SequencesExt

CONSTANTS
    TreeBlockCount,
    Names,          \* numbers: entries are sorted by name
    MaxEntries,     \* entries of a pair before it is split
    MaxDepth,       \* length of a path
    MaxOps, MaxRelocations, MaxPowerLosses,
    None

VARIABLES
    mdirs,      \* for each block its revision and what was last committed there
    lfs,        \* lfs_t: the file system in RAM
    ram,        \* the mdirs an operation works with
    todo,       \* the steps it has still to take
    newTree,    \* the tree it is to bring about
    treeEnded,  \* how the last operation ended
    counts      \* operations, relocations and power losses so far

treeVars == <<mdirs, lfs, ram, todo, newTree, treeEnded, counts>>

Superblock == {0, 1}
NoMdir == [ents |-> <<>>, tail |-> {}, split |-> FALSE, super |-> FALSE, g |-> {}]
NoBlock == [valid |-> FALSE, rev |-> 0, md |-> NoMdir]
NoHandle == [pair |-> {}, md |-> NoMdir]
NoHandles == [k \in {"cwd", "dir", "pred", "old", "p"} |-> NoHandle]

\* The parts of the global state: something is orphaned, an entry has moved.
Orphaned == <<"orphans", {}, 0>>
Tokens == {Orphaned} \cup ({"move"} \X (SUBSET (0 .. TreeBlockCount - 1)) \X Names)

Xor(a, b) == (a \ b) \cup (b \ a)

\* lfs_pair_cmp: half of a pair is enough, since relocation keeps one half.
SamePair(p, q) == p \cap q # {}

\* lfs_dir_fetch
TreeBlocks == 0 .. TreeBlockCount - 1
Newest[p \in SUBSET TreeBlocks] ==
    CHOOSE b \in p : \A c \in p \ {b} :
        ~mdirs[c].valid \/ (mdirs[b].valid /\ mdirs[b].rev >= mdirs[c].rev)
Mdir[p \in SUBSET TreeBlocks] ==
    IF p # {} /\ mdirs[Newest[p]].valid THEN mdirs[Newest[p]].md ELSE NoMdir
Handle(p) == [pair |-> p, md |-> Mdir[p]]

\* The list of all pairs, from the superblock.
Longer[list \in Seq(SUBSET TreeBlocks)] ==
    IF Mdir[Last(list)].tail = {} THEN list ELSE Append(list, Mdir[Last(list)].tail)
TailList[n \in Nat] == IF n = 0 THEN <<Superblock>> ELSE Longer[TailList[n - 1]]
Pairs == TailList[TreeBlockCount]

\* lfs_dir_getgstate over the list
GlobalSum[list \in Seq(SUBSET TreeBlocks)] ==
    IF list = <<>> THEN {} ELSE Xor(Mdir[Head(list)].g, GlobalSum[Tail(list)])
GlobalState == GlobalSum[Pairs]

\* The entries of a pair, without one that has moved away (the synthetic move
\* of lfs_dir_fetchmatch and lfs_dir_getslice).
Moved(g, p) == {t[3] : t \in {u \in g : u[1] = "move" /\ SamePair(u[2], p)}}
Shown(g, p) == DOMAIN Mdir[p].ents \ Moved(g, p)

\* lfs_fs_pred, lfs_fs_parent: None if there is none
First(list, at) == IF at = {} THEN None ELSE list[CHOOSE i \in at : \A j \in at : i <= j]

PredIn[list \in Seq(SUBSET TreeBlocks), p \in SUBSET TreeBlocks] ==
    First(list, {i \in DOMAIN list : SamePair(Mdir[list[i]].tail, p)})
PredOf(p) == PredIn[Pairs, p]

ChildrenAt(g, q, p) == {n \in Shown(g, q) : SamePair(Mdir[q].ents[n].pair, p)}

ParentIn[list \in Seq(SUBSET TreeBlocks), g \in SUBSET Tokens, p \in SUBSET TreeBlocks] ==
    First(list, {i \in DOMAIN list : ChildrenAt(g, list[i], p) # {}})
ParentOf(g, p) == ParentIn[Pairs, g, p]

\* What a user sees: the path, kind and identity of everything in the tree.
Below[g \in SUBSET Tokens, p \in SUBSET TreeBlocks, n \in Nat] ==
    LET md == Mdir[p]
        under(name) == IF md.ents[name].kind = "dir" THEN Below[g, md.ents[name].pair, n - 1]
                       ELSE {}
    IN IF n = 0 THEN {}
       ELSE {<< <<name>>, md.ents[name].kind, md.ents[name].id >> : name \in Shown(g, p)}
            \cup UNION {{<< <<name>> \o x[1], x[2], x[3] >> : x \in under(name)} :
                        name \in Shown(g, p)}
            \cup IF md.split THEN Below[g, md.tail, n - 1] ELSE {}

\* lfs_mount: the root is the last superblock on the list.
LastSuper[list \in Seq(SUBSET TreeBlocks)] ==
    IF Mdir[Last(list)].super THEN Last(list) ELSE LastSuper[Front(list)]
RootPair == LastSuper[Pairs]

Tree == Below[GlobalState, RootPair, TreeBlockCount]

-----------------------------------------------------------------------------
\* The global state in RAM, as lfs_gstate_t encodes it.
gstate(fs) == (IF fs.orphans > 0 THEN {Orphaned} ELSE {}) \cup fs.move

\* What the next commit has to add to the differences on disk.
Delta(fs) == Xor(Xor(gstate(fs), fs.gdisk), fs.gdelta)

preporphans(fs, n) == [fs EXCEPT !.orphans = @ + n]

HasMoveHere(fs, p) == \E t \in fs.move : SamePair(t[2], p)

\* lfs_alloc: a block that the tree does not use (lfs_fs_traverse, including
\* the addresses parents have for their children) and that has not been given
\* out since the last checkpoint.
Traversed(g) ==
    UNION {p \cup UNION {Mdir[p].ents[n].pair : n \in Shown(g, p)} : p \in Range(Pairs)}

FreeBlocks(fs) == (0 .. TreeBlockCount - 1) \ (fs.inflight \cup Traversed(fs.gdisk))

Smallest(S) == CHOOSE b \in S : \A c \in S : b <= c

PairFrom(S) == {Smallest(S), Smallest(S \ {Smallest(S)})}

\* Without power, or stopped, the RAM is gone.
Unmounted == [mounted |-> FALSE, root |-> {}, orphans |-> 0, move |-> {}, gdisk |-> {},
              gdelta |-> {}, inflight |-> {}, mlist |-> {}, orphaned |-> FALSE]

Stops(how) ==
    /\ lfs' = Unmounted /\ ram' = NoHandles
    /\ todo' = <<>> /\ newTree' = None /\ treeEnded' = how
    /\ UNCHANGED <<mdirs, counts>>

-----------------------------------------------------------------------------
\* Attributes of a commit: entries deleted, entries put, the new tail.
NoAttrs == [del |-> {}, put |-> <<>>, tail |-> <<>>]
PutEntry(name, entry) == [NoAttrs EXCEPT !.put = [n \in {name} |-> entry]]
Delete(names) == [NoAttrs EXCEPT !.del = names]
SetTail(p, split) == [NoAttrs EXCEPT !.tail = <<p, split>>]

Apply(md, a) ==
    LET kept == DOMAIN md.ents \ a.del
    IN [md EXCEPT
          !.ents = [n \in kept \cup DOMAIN a.put |->
                        IF n \in DOMAIN a.put THEN a.put[n] ELSE md.ents[n]],
          !.tail = IF a.tail = <<>> THEN @ ELSE a.tail[1],
          !.split = IF a.tail = <<>> THEN @ ELSE a.tail[2]]

Step(do) == [do |-> do]
CommitStep(h, attrs) == [do |-> "commit", h |-> h, attrs |-> attrs, fix |-> ""]
\* The commit that tells the parent, or the predecessor, a new address.
FixStep(fix, attrs) == [do |-> "commit", h |-> "p", attrs |-> attrs, fix |-> fix]

\* fixmlist: the mdirs that are hooked into the list of open ones follow the
\* commit, and so does the one it was made with.
Follow(h, old, new) ==
    [k \in DOMAIN ram |->
        IF k = h \/ (k \in lfs.mlist /\ SamePair(ram[k].pair, old)) THEN new ELSE ram[k]]

Commit == Head(todo)
Snapshot == ram[Commit.h]
NewMdir == Apply(Snapshot.md, Commit.attrs)
Count(md) == Cardinality(DOMAIN md.ents)

\* The commit is appended to the pair's log, or compacted in place.
CommitInPlace ==
    LET b == Newest[Snapshot.pair]
        new == [NewMdir EXCEPT !.g = Xor(@, Delta(lfs))]
    IN /\ mdirs' = [mdirs EXCEPT ![b] = [valid |-> TRUE, rev |-> @.rev, md |-> new]]
       /\ ram' = Follow(Commit.h, Snapshot.pair, [pair |-> Snapshot.pair, md |-> new])
       /\ lfs' = [lfs EXCEPT !.gdisk = gstate(lfs), !.gdelta = {}]
       /\ todo' = Tail(todo)
       /\ UNCHANGED <<newTree, treeEnded, counts>>

\* A delete that empties the pair: if it is not the head of its directory,
\* the pair goes too.
Empties == Commit.attrs.del # {} /\ Count(NewMdir) = 0 /\ ~NewMdir.super

CanDrop ==
    /\ Empties /\ PredOf(Snapshot.pair) # None
    /\ Mdir[PredOf(Snapshot.pair)].split

\* The predecessor takes over the tail and the pair's part of the global state.
DropPair ==
    /\ lfs' = [lfs EXCEPT !.gdelta = Xor(@, Snapshot.md.g)]
    /\ ram' = [Follow(Commit.h, Snapshot.pair, [Snapshot EXCEPT !.md = NewMdir])
                 EXCEPT !.p = Handle(PredOf(Snapshot.pair))]
    /\ todo' = <<CommitStep("p", SetTail(NewMdir.tail, NewMdir.split))>> \o Tail(todo)
    /\ UNCHANGED <<mdirs, newTree, treeEnded, counts>>

\* The pair goes on with a newly allocated block in the place of one of its two:
\* that one is worn, or bad.  If this happens while a parent is told a child's
\* address, the child's predecessor is left for lfs_fs_deorphan.
MovesTo(c, md) ==
    LET b == Newest[Snapshot.pair]
        new == [pair |-> {b, c}, md |-> md]
    IN /\ Snapshot.pair # Superblock
       /\ counts.relocations < MaxRelocations
       /\ ram' = Follow(Commit.h, Snapshot.pair, new)
       /\ todo' = <<[do |-> "relocated", old |-> Snapshot.pair, new |-> new.pair]>>
                    \o IF Commit.fix = "parent" THEN Tail(Tail(todo)) ELSE Tail(todo)
       /\ counts' = [counts EXCEPT !.relocations = @ + 1]
       /\ UNCHANGED <<newTree, treeEnded>>

CompactedTo(b, rev, md) == [mdirs EXCEPT ![b] = [valid |-> TRUE, rev |-> rev, md |-> md]]
NextRev == mdirs[Newest[Snapshot.pair]].rev + 1

\* What the commit would add to the global state is left to the one that makes
\* the new address known.
Relocate ==
    LET c == Smallest(FreeBlocks(lfs))
        md == [NewMdir EXCEPT !.g = Xor(@, lfs.gdelta)]
    IN /\ FreeBlocks(lfs) # {}
       /\ MovesTo(c, md)
       /\ mdirs' = CompactedTo(c, NextRev, md)
       /\ lfs' = [lfs EXCEPT !.gdelta = {}, !.inflight = @ \cup {c},
                             !.orphaned = @ \/ Commit.fix = "parent"]

LowerHalf(names) == {n \in names : 2 * Cardinality({k \in names : k <= n}) <= Cardinality(names)}

\* lfs_dir_split: the upper entries go to a new pair, which takes the change of
\* the global state with it.
NewPair == PairFrom(FreeBlocks(lfs))
Upper(keep) ==
    [NewMdir EXCEPT !.ents = [n \in DOMAIN @ \ keep |-> @[n]], !.super = @ /\ keep = {},
                    !.g = Delta(lfs)]
Lower(keep) == [NewMdir EXCEPT !.ents = [n \in keep |-> @[n]], !.tail = NewPair, !.split = TRUE]
WithUpper(disk, keep) ==
    [disk EXCEPT ![Smallest(NewPair)] = [valid |-> TRUE, rev |-> 0, md |-> Upper(keep)],
                 ![Smallest(NewPair \ {Smallest(NewPair)})] = NoBlock]
AfterSplit(keep, blocks) ==
    [lfs EXCEPT !.gdisk = gstate(lfs), !.gdelta = {}, !.inflight = @ \cup blocks,
                !.root = IF keep = {} /\ SamePair(@, Snapshot.pair) THEN NewPair ELSE @]

\* It is linked when the pair itself is compacted ...
Split(keep) ==
    LET b == Newest[Snapshot.pair]
    IN /\ Cardinality(FreeBlocks(lfs)) >= 2
       /\ mdirs' = WithUpper(CompactedTo(b, mdirs[b].rev, Lower(keep)), keep)
       /\ ram' = Follow(Commit.h, Snapshot.pair, [pair |-> Snapshot.pair, md |-> Lower(keep)])
       /\ lfs' = AfterSplit(keep, NewPair)
       /\ todo' = Tail(todo)
       /\ UNCHANGED <<newTree, treeEnded>>

\* ... which may relocate it.
SplitAndRelocate(keep) ==
    LET c == Smallest(FreeBlocks(lfs) \ NewPair)
    IN /\ Cardinality(FreeBlocks(lfs)) >= 3
       /\ MovesTo(c, Lower(keep))
       /\ mdirs' = WithUpper(CompactedTo(c, NextRev, Lower(keep)), keep)
       /\ lfs' = [AfterSplit(keep, NewPair \cup {c}) EXCEPT
                     !.orphaned = @ \/ Commit.fix = "parent"]

Full == Count(NewMdir) > MaxEntries
Halved == LowerHalf(DOMAIN NewMdir.ents)

\* lfs_dir_relocatingcommit with what it does to the pair and its neighbours.
\* A worn superblock expands: all its entries go, and the new pair is the root.
lfs_dir_relocatingcommit ==
    /\ todo # <<>> /\ Commit.do = "commit"
    /\ ~(Empties /\ Commit.fix # "")
    /\ IF CanDrop THEN DropPair
       ELSE \/ /\ Full => Cardinality(FreeBlocks(lfs)) < 2
               /\ CommitInPlace \/ Relocate
            \/ /\ Snapshot.pair = Superblock /\ counts.relocations < MaxRelocations
               /\ Split({})
               /\ counts' = [counts EXCEPT !.relocations = @ + 1]
            \/ Full /\ Split(Halved) /\ UNCHANGED counts
            \/ Full /\ SplitAndRelocate(Halved)

\* LFS_ASSERT(pdir): a fix that deletes the pair's only entry has no
\* predecessor to hand.  The program stops.
CommitAsserts ==
    /\ todo # <<>> /\ Commit.do = "commit"
    /\ Empties /\ Commit.fix # ""
    /\ Stops("assert")

-----------------------------------------------------------------------------
\* lfs_dir_orphaningcommit after a relocation.  A pending move out of the
\* pair that is about to be committed to is completed with it: the entry goes.
MovedNames(p) == {t[3] : t \in {u \in lfs.move : SamePair(u[2], p)}}

\* A plausible bug: the move stays pending although its source is gone.
KeepMove(fs, p) == fs

SettleMove(fs, p) == IF HasMoveHere(fs, p) THEN [fs EXCEPT !.move = {}] ELSE fs

FollowRelocation ==
    LET new == Commit.new
    IN [lfs EXCEPT !.root = IF SamePair(@, Commit.old) THEN new ELSE @]

\* From now until the predecessor has been told, the list shows the old half.
TellParent ==
    /\ todo # <<>> /\ Commit.do = "relocated"
    /\ LET par == ParentOf(lfs.gdisk, Commit.old)
           fs == FollowRelocation
           next(has) == [do |-> "pred", old |-> Commit.old, new |-> Commit.new, has |-> has]
       IN IF par = None
          THEN /\ lfs' = fs /\ todo' = <<next(0)>> \o Tail(todo)
               /\ UNCHANGED ram
          ELSE LET n == CHOOSE n \in ChildrenAt(lfs.gdisk, par, Commit.old) : TRUE
                   attrs == [PutEntry(n, [Mdir[par].ents[n] EXCEPT !.pair = Commit.new])
                                EXCEPT !.del = MovedNames(par)]
               IN /\ lfs' = SettleMove(preporphans(fs, 1), par)
                  /\ ram' = [ram EXCEPT !.p = Handle(par)]
                  /\ todo' = <<FixStep("parent", attrs), next(1)>> \o Tail(todo)
    /\ UNCHANGED <<mdirs, newTree, treeEnded, counts>>

TellPred ==
    /\ todo # <<>> /\ Commit.do = "pred"
    /\ LET pred == PredOf(Commit.old)
           fs == IF lfs.orphans > 0 THEN preporphans(lfs, 0 - Commit.has) ELSE lfs
       IN IF pred = None
          THEN todo' = Tail(todo) /\ UNCHANGED <<lfs, ram>>
          ELSE /\ lfs' = SettleMove(fs, pred)
               /\ ram' = [ram EXCEPT !.p = Handle(pred)]
               /\ todo' = <<FixStep("pred", [SetTail(Commit.new, Mdir[pred].split)
                                                EXCEPT !.del = MovedNames(pred)])>> \o Tail(todo)
    /\ UNCHANGED <<mdirs, newTree, treeEnded, counts>>

-----------------------------------------------------------------------------
\* lfs_fs_demove: the entry that has moved is deleted where it was.
lfs_fs_demove ==
    /\ todo # <<>> /\ Commit.do = "demove"
    /\ LET moves == {t \in lfs.gdisk : t[1] = "move"}
       IN IF moves = {} THEN todo' = Tail(todo) /\ UNCHANGED <<lfs, ram>>
          ELSE LET t == CHOOSE u \in moves : TRUE
               IN /\ lfs' = [lfs EXCEPT !.move = {}]
                  /\ ram' = [ram EXCEPT !.p = Handle(t[2])]
                  /\ todo' = <<CommitStep("p", Delete({t[3]})), Step("settle")>> \o Tail(todo)
    /\ UNCHANGED <<mdirs, newTree, treeEnded, counts>>

\* lfs_dir_commit: a relocation of a parent has left half-orphans.
SettleCommit ==
    /\ todo # <<>> /\ Commit.do = "settle"
    /\ todo' = IF lfs.orphaned THEN <<[do |-> "deorphan", powerloss |-> FALSE]>> \o Tail(todo)
               ELSE Tail(todo)
    /\ lfs' = [lfs EXCEPT !.orphaned = FALSE]
    /\ UNCHANGED <<mdirs, ram, newTree, treeEnded, counts>>

DeorphanBegins ==
    /\ todo # <<>> /\ Commit.do = "deorphan"
    /\ todo' = IF lfs.orphans = 0 THEN Tail(todo)
               ELSE <<[do |-> "scan", powerloss |-> Commit.powerloss, pass |-> 0,
                       more |-> FALSE]>> \o Tail(todo)
    /\ UNCHANGED <<mdirs, lfs, ram, newTree, treeEnded, counts>>

\* The heads of directories on the list: the ones whose parent has another
\* address for them, and the ones no parent has.
Heads(list) == {i \in 2 .. Len(list) : ~Mdir[list[i - 1]].split}
AddressOf(par, p) == Mdir[par].ents[CHOOSE n \in ChildrenAt(lfs.gdisk, par, p) : TRUE].pair
HalfOrphans(list) ==
    {i \in Heads(list) : LET par == ParentOf(lfs.gdisk, list[i])
                         IN par # None /\ AddressOf(par, list[i]) # list[i]}

\* A plausible bug: only half-orphans are looked for.
NoFullOrphans(list) == {}

FullOrphans(list) == {i \in Heads(list) : ParentOf(lfs.gdisk, list[i]) = None}

\* lfs_fs_deorphan: first half-orphans get their new address, then, after a
\* power loss, full orphans leave the list.
lfs_fs_deorphan ==
    /\ todo # <<>> /\ Commit.do = "scan"
    /\ LET list == Pairs
           found == CASE Commit.pass = 0 -> HalfOrphans(list)
                      [] Commit.pass = 1 /\ Commit.powerloss -> FullOrphans(list)
                      [] OTHER -> {}
           i == Smallest(found)
           pdir == list[i - 1]
           dir == Mdir[list[i]]
           more == Commit.more \/ lfs.orphaned
           fs == [lfs EXCEPT !.orphaned = FALSE]
           again == [Commit EXCEPT !.more = more]
       IN IF found # {}
          THEN /\ ram' = [ram EXCEPT !.p = Handle(pdir)]
               /\ IF Commit.pass = 0
                  THEN /\ lfs' = SettleMove(fs, pdir)
                       /\ todo' = <<CommitStep("p",
                                [SetTail(AddressOf(ParentOf(lfs.gdisk, list[i]), list[i]), FALSE)
                                    EXCEPT !.del = MovedNames(pdir)]), again>> \o Tail(todo)
                  ELSE /\ lfs' = [fs EXCEPT !.gdelta = Xor(@, dir.g)]
                       /\ todo' = <<CommitStep("p", SetTail(dir.tail, dir.split)), again>> \o Tail(todo)
          ELSE /\ UNCHANGED ram
               /\ IF more
                  THEN todo' = <<[again EXCEPT !.pass = 0, !.more = FALSE]>> \o Tail(todo) /\ lfs' = fs
                  ELSE IF Commit.pass = 0
                  THEN todo' = <<[again EXCEPT !.pass = 1]>> \o Tail(todo) /\ lfs' = fs
                  ELSE todo' = Tail(todo) /\ lfs' = [fs EXCEPT !.orphans = 0]
    /\ UNCHANGED <<mdirs, newTree, treeEnded, counts>>

lfs_fs_forceconsistency == <<Step("demove"), [do |-> "deorphan", powerloss |-> TRUE]>>

-----------------------------------------------------------------------------
\* lfs_dir_find: the pair that has the name, or where it is to be inserted.
Locate[p \in SUBSET TreeBlocks, name \in Names] ==
    IF (\E n \in Shown(lfs.gdisk, p) : n >= name) \/ ~Mdir[p].split THEN p
    ELSE Locate[Mdir[p].tail, name]

HeadOf[path \in Seq(Names)] ==
    IF path = <<>> THEN lfs.root
    ELSE Mdir[Locate[HeadOf[Front(path)], Last(path)]].ents[Last(path)].pair

PairOf(path) == Locate[HeadOf[Front(path)], Last(path)]

ChainEnd[p \in SUBSET TreeBlocks] == IF Mdir[p].split THEN ChainEnd[Mdir[p].tail] ELSE p

Entry(kind, pair) == [kind |-> kind, pair |-> pair, id |-> counts.ops]

DoneStep == Step("done")
AndDone(commit) == <<commit, Step("settle"), DoneStep>>

\* lfs_mkdir: the new pair is written, with the end of the parent's chain for
\* its predecessor ...
MkdirAlloc ==
    /\ todo # <<>> /\ Commit.do = "mkdir"
    /\ LET cwd == PairOf(Commit.path)
           pred == ChainEnd[cwd]
           fs == [lfs EXCEPT !.inflight = {}]
           t == PairFrom(FreeBlocks(fs))
       IN IF Cardinality(FreeBlocks(fs)) < 2
          THEN /\ lfs' = fs /\ ram' = NoHandles
               /\ todo' = <<>> /\ newTree' = None /\ treeEnded' = "error"
               /\ UNCHANGED mdirs
          ELSE /\ lfs' = [fs EXCEPT !.inflight = t]
               /\ mdirs' = [b \in DOMAIN mdirs |-> IF b \in t THEN NoBlock ELSE mdirs[b]]
               /\ ram' = [ram EXCEPT !.cwd = Handle(cwd), !.pred = Handle(pred),
                                     !.dir = [pair |-> t, md |-> NoMdir]]
               /\ todo' = <<CommitStep("dir", SetTail(Mdir[pred].tail, FALSE)), Step("settle"),
                            [Commit EXCEPT !.do = "mkdir list"]>> \o Tail(todo)
               /\ UNCHANGED <<newTree, treeEnded>>
    /\ UNCHANGED counts

\* ... linked into the list, which is a commit of its own if the chain ends
\* in another pair than the one that gets the entry ...
MkdirList ==
    /\ todo # <<>> /\ Commit.do = "mkdir list"
    /\ IF ram.cwd.md.split
       THEN /\ lfs' = [preporphans(lfs, 1) EXCEPT !.mlist = {"cwd"}]
            /\ todo' = <<CommitStep("pred", SetTail(ram.dir.pair, FALSE)), Step("settle"),
                         [Commit EXCEPT !.do = "mkdir entry", !.listed = TRUE]>> \o Tail(todo)
       ELSE /\ todo' = <<[Commit EXCEPT !.do = "mkdir entry"]>> \o Tail(todo)
            /\ UNCHANGED lfs
    /\ UNCHANGED <<mdirs, ram, newTree, treeEnded, counts>>

\* ... and entered into the parent.
MkdirEntry ==
    /\ todo # <<>> /\ Commit.do = "mkdir entry"
    /\ IF Commit.listed /\ lfs.orphans = 0
       THEN Stops("assert")
       ELSE /\ lfs' = IF Commit.listed THEN [preporphans(lfs, 0 - 1) EXCEPT !.mlist = {}] ELSE lfs
            /\ todo' = AndDone(CommitStep("cwd",
                    [PutEntry(Last(Commit.path), Entry("dir", ram.dir.pair)) EXCEPT
                        !.tail = IF ram.cwd.md.split THEN <<>> ELSE <<ram.dir.pair, FALSE>>]))
            /\ UNCHANGED <<mdirs, ram, newTree, treeEnded, counts>>

\* lfs_file_open with LFS_O_CREAT: the entry of the new, empty file.
CreateFile ==
    /\ todo # <<>> /\ Commit.do = "creat"
    /\ ram' = [ram EXCEPT !.cwd = Handle(PairOf(Commit.path))]
    /\ todo' = AndDone(CommitStep("cwd", PutEntry(Last(Commit.path), Entry("file", {}))))
    /\ UNCHANGED <<mdirs, lfs, newTree, treeEnded, counts>>

\* lfs_remove: a directory is announced as an orphan before its entry goes.
RemoveEntry ==
    /\ todo # <<>> /\ Commit.do = "remove"
    /\ LET cwd == PairOf(Commit.path)
           e == Mdir[cwd].ents[Last(Commit.path)]
       IN /\ ram' = [ram EXCEPT !.cwd = Handle(cwd),
                                !.dir = IF e.kind = "dir" THEN Handle(e.pair) ELSE @]
          /\ lfs' = IF e.kind = "dir" THEN [preporphans(lfs, 1) EXCEPT !.mlist = {"dir"}] ELSE lfs
          /\ todo' = <<CommitStep("cwd", Delete({Last(Commit.path)})), Step("settle"),
                       Step("drop")>>
    /\ UNCHANGED <<mdirs, newTree, treeEnded, counts>>

\* lfs_dir_drop: the directory leaves the list.
lfs_dir_drop ==
    /\ todo # <<>> /\ Commit.do = "drop"
    /\ LET pred == PredOf(ram.dir.pair)
           fs == [lfs EXCEPT !.mlist = {}]
       IN IF lfs.orphans = 0
          THEN lfs' = fs /\ todo' = <<DoneStep>> /\ UNCHANGED ram
          ELSE /\ lfs' = [preporphans(fs, 0 - 1) EXCEPT !.gdelta = Xor(@, ram.dir.md.g)]
               /\ ram' = [ram EXCEPT !.p = Handle(pred)]
               /\ todo' = AndDone(CommitStep("p", SetTail(ram.dir.md.tail, ram.dir.md.split)))
    /\ UNCHANGED <<mdirs, newTree, treeEnded, counts>>

\* lfs_rename: within a pair one commit; else the entry is put into the new
\* pair together with the note that it has moved out of the old one.
Rename ==
    /\ todo # <<>> /\ Commit.do = "rename"
    /\ LET old == PairOf(Commit.path)
           new == PairOf(Commit.to)
           n == Last(Commit.path)
           m == Last(Commit.to)
           same == SamePair(old, new)
           replaced == m \in Shown(lfs.gdisk, new)
           isdir == Mdir[old].ents[n].kind = "dir"
           fs == IF replaced /\ isdir THEN [preporphans(lfs, 1) EXCEPT !.mlist = {"dir"}] ELSE lfs
       IN /\ ram' = [ram EXCEPT !.old = Handle(old), !.cwd = Handle(new),
                                !.dir = IF replaced /\ isdir THEN Handle(Mdir[new].ents[m].pair)
                                        ELSE @]
          /\ lfs' = IF same THEN fs ELSE [fs EXCEPT !.move = {<<"move", old, n>>}]
          /\ todo' = <<CommitStep("cwd", [del |-> (IF replaced THEN {m} ELSE {})
                                                  \cup (IF same THEN {n} ELSE {}),
                                          put |-> [k \in {m} |-> Mdir[old].ents[n]],
                                          tail |-> <<>>]),
                       Step("settle"), [do |-> "unmove", name |-> n], Step("drop")>>
    /\ UNCHANGED <<mdirs, newTree, treeEnded, counts>>

\* The old entry is deleted, unless a relocation has done that already.
RenameDeletes ==
    /\ todo # <<>> /\ Commit.do = "unmove"
    /\ lfs' = [lfs EXCEPT !.move = {}]
    /\ todo' = IF lfs.move = {} THEN Tail(todo)
               ELSE <<CommitStep("old", Delete({Commit.name})), Step("settle")>> \o Tail(todo)
    /\ UNCHANGED <<mdirs, ram, newTree, treeEnded, counts>>

\* lfs_fs_mkconsistent: what is left of the global state is written.
MakeConsistent ==
    /\ todo # <<>> /\ Commit.do = "mkconsistent"
    /\ IF gstate(lfs) = lfs.gdisk THEN todo' = <<DoneStep>> /\ UNCHANGED ram
       ELSE /\ ram' = [ram EXCEPT !.cwd = Handle(lfs.root)]
            /\ todo' = AndDone(CommitStep("cwd", NoAttrs))
    /\ UNCHANGED <<mdirs, lfs, newTree, treeEnded, counts>>

Done ==
    /\ todo # <<>> /\ Commit.do = "done"
    /\ todo' = <<>> /\ newTree' = None /\ treeEnded' = "ok"
    /\ ram' = NoHandles
    /\ UNCHANGED <<mdirs, lfs, counts>>

-----------------------------------------------------------------------------
\* Calls, with arguments that pass the checks: nothing is created where
\* something is, nothing removed but files and empty directories, nothing
\* replaced by another kind, no directory moved into itself.
At(tree, path) == {x \in tree : x[1] = path}
IsDir(tree, path) == path = <<>> \/ \E x \in At(tree, path) : x[2] = "dir"
Inside(tree, path) == {x \in tree : IsStrictPrefix(path, x[1])}
Paths == UNION {[1 .. n -> Names] : n \in 1 .. MaxDepth}
Moving(tree, path, to) ==
    {<<to \o SubSeq(x[1], Len(path) + 1, Len(x[1])), x[2], x[3]>> :
        x \in At(tree, path) \cup Inside(tree, path)}

BeginCall(op, result) ==
    /\ todo' = lfs_fs_forceconsistency \o <<op>>
    /\ newTree' = result /\ treeEnded' = "busy"
    /\ counts' = [counts EXCEPT !.ops = @ + 1]
    /\ UNCHANGED <<mdirs, lfs, ram>>

CallMkdir(tree, path) ==
    /\ IsDir(tree, Front(path)) /\ At(tree, path) = {}
    /\ BeginCall([do |-> "mkdir", path |-> path, listed |-> FALSE],
                 tree \cup {<<path, "dir", counts.ops + 1>>})

CallCreate(tree, path) ==
    /\ IsDir(tree, Front(path)) /\ At(tree, path) = {}
    /\ BeginCall([do |-> "creat", path |-> path], tree \cup {<<path, "file", counts.ops + 1>>})

CallRemove(tree, path) ==
    /\ At(tree, path) # {} /\ Inside(tree, path) = {}
    /\ BeginCall([do |-> "remove", path |-> path], tree \ At(tree, path))

CallRename(tree, path, to) ==
    /\ At(tree, path) # {} /\ IsDir(tree, Front(to)) /\ path # to /\ ~IsStrictPrefix(path, to)
    /\ \A x \in At(tree, to), y \in At(tree, path) : x[2] = y[2] /\ Inside(tree, to) = {}
    /\ BeginCall([do |-> "rename", path |-> path, to |-> to],
                 (tree \ (At(tree, to) \cup At(tree, path) \cup Inside(tree, path)))
                    \cup Moving(tree, path, to))

CallMakeConsistent(tree) ==
    gstate(lfs) # lfs.gdisk /\ BeginCall(Step("mkconsistent"), tree)

Call ==
    /\ lfs.mounted /\ todo = <<>> /\ counts.ops < MaxOps
    /\ LET tree == Tree
       IN \/ \E path \in Paths :
                \/ CallMkdir(tree, path) \/ CallCreate(tree, path) \/ CallRemove(tree, path)
                \/ \E to \in Paths : CallRename(tree, path, to)
          \/ CallMakeConsistent(tree)

LosePower ==
    /\ todo # <<>> /\ counts.losses < MaxPowerLosses
    /\ counts' = [counts EXCEPT !.losses = @ + 1]
    /\ lfs' = Unmounted /\ ram' = NoHandles
    /\ todo' = <<>> /\ newTree' = None /\ treeEnded' = "lost"
    /\ UNCHANGED mdirs

\* lfs_mount: the root and the global state are collected from the list.
Mounted(g) ==
    [Unmounted EXCEPT !.mounted = TRUE, !.root = RootPair, !.gdisk = g,
        !.orphans = IF Orphaned \in g THEN 1 ELSE 0, !.move = g \ {Orphaned}]

lfs_mount ==
    /\ ~lfs.mounted
    /\ lfs' = Mounted(GlobalState)
    /\ UNCHANGED <<mdirs, ram, todo, newTree, treeEnded, counts>>

\* lfs_format
TreeInit ==
    /\ mdirs = [b \in 0 .. TreeBlockCount - 1 |->
                  IF b = 0 THEN [valid |-> TRUE, rev |-> 1, md |-> [NoMdir EXCEPT !.super = TRUE]]
                  ELSE NoBlock]
    /\ lfs = Mounted({})
    /\ ram = NoHandles
    /\ todo = <<>> /\ newTree = None /\ treeEnded = "ok"
    /\ counts = [ops |-> 0, relocations |-> 0, losses |-> 0]

TreeNext ==
    \/ Call
    \/ lfs_fs_demove \/ DeorphanBegins \/ lfs_fs_deorphan \/ SettleCommit
    \/ lfs_dir_relocatingcommit \/ CommitAsserts \/ TellParent \/ TellPred
    \/ MkdirAlloc \/ MkdirList \/ MkdirEntry \/ CreateFile \/ RemoveEntry \/ lfs_dir_drop
    \/ Rename \/ RenameDeletes \/ MakeConsistent \/ Done
    \/ LosePower \/ lfs_mount

TreeSpec == TreeInit /\ [][TreeNext]_treeVars

-----------------------------------------------------------------------------
(* Properties                                                              *)

Directory == INSTANCE LfsAtomic WITH Nothing <- None, value <- Tree, pending <- newTree,
                result <- IF treeEnded = "assert" THEN "lost" ELSE treeEnded

\* Making, creating, removing and renaming is atomic: with a power loss
\* between any two commits, with pairs splitting, joining and one of them moving
\* to another block meanwhile, and with what the operation before left
\* unfinished, a mount finds the tree before or the tree after, never a name
\* twice, lost or half moved (lfs.c:2409-2592, 4964-5148).  This much holds of
\* any three operations with one relocation and one power loss.  It does not
\* hold in general: not if a pair moves while the move of another is repaired
\* after a power loss (run lfs_moves, see ListIsTree), and not for a rename, the
\* fourth operation, into a directory whose pair splits and moves in the same
\* commit: the note of the move goes to the new pair, which the list does not
\* have until the predecessor is told, after the parent (lfs.c:1895, 2515-2595).
TreeIsAtomic == Directory!AtomicSpec

ChainOf[p \in SUBSET TreeBlocks, n \in Nat] ==
    {p} \cup IF Mdir[p].split /\ n > 0 THEN ChainOf[Mdir[p].tail, n - 1] ELSE {}
DirectoryPairs ==
    LET dirs == {lfs.root} \cup {HeadOf[x[1]] : x \in {y \in Tree : y[2] = "dir"}}
    IN UNION {ChainOf[d, TreeBlockCount] : d \in dirs}

\* lfs_fs_forceconsistency can rely on the list: every directory of the tree
\* is on it exactly once, under the address its parent has, and no block is
\* used twice, whenever nothing is announced as orphaned (lfs.c:5000-5127).
\* This is so with one relocation.  When a repair of the list after a power loss
\* moves the predecessor itself, it may be given blocks that only the copy not
\* yet on the list refers to: run lfs_moves, which has two relocations.
ListIsTree ==
    lfs.mounted /\ todo = <<>> /\ lfs.orphans = 0 /\ lfs.move = {} =>
        LET list == Pairs
        IN /\ DirectoryPairs \cup {Superblock} = Range(list)
           /\ \A i, j \in DOMAIN list : i # j => list[i] \cap list[j] = {}
           /\ GlobalState = lfs.gdisk
=============================================================================
