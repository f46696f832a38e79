------------------------------ MODULE LfsPair ------------------------------
(***************************************************************************)
(* A metadata pair of littlefs (lfs.c): two blocks that each hold a        *)
(* revision count and a log of commits.  The block with the newer revision *)
(* counts; a commit is appended to its log, or the log is compacted into   *)
(* the other block under the next revision, or, when that block is worn or *)
(* bad, into a newly allocated one, after which the parent is told the new *)
(* address.                                                                *)
(*                                                                         *)
(* One step is one program or erase operation of the flash.  The power may *)
(* fail at each, leaving what was being written in pieces; a program or    *)
(* erase operation may go wrong.  Attributes are abstracted to one value,  *)
(* which a commit replaces; a commit takes two program units, of which the *)
(* second holds its checksum.  Checksums are ideal.                        *)
(***************************************************************************)
EXTENDS Naturals, FiniteSets

CONSTANTS
    PairBlocks,         \* the pair's first two blocks are 1 and 2
    Units,          \* program units of a block
    MaxCommits,     \* commits, which are told apart by their number
    RevModulus,     \* revision counts wrap, in the code at 2^32
    block_cycles,
    MaxPairFaults,      \* program and erase operations that go wrong
    MaxPairLosses,      \* power losses
    Nothing

VARIABLES
    disk,       \* for each block its revision and program units
    parent,     \* the pair's address in its parent, <<>> before it is linked
    dir,        \* lfs_mdir_t: the pair in RAM, during a commit its local copy
    handle,     \* the copy the caller keeps, updated when the commit succeeded
    op,         \* the commit under way
    commits, faults, losses

pairVars == <<disk, parent, dir, handle, op, commits, faults, losses>>

Revs == 0 .. RevModulus - 1
ErasedUnit == <<"erased", Nothing>>
Junk == <<"junk", Nothing>>
Part(v) == <<"part", v>>
Crc(v) == <<"crc", v>>

\* lfs_scmp
Newer(a, b) == (a + RevModulus - b) % RevModulus \in 1 .. RevModulus \div 2 - 1

\* The log of a block ends after its last commit with a good checksum.
IsCommit(units, j) ==
    units[2*j - 1][1] = "part" /\ units[2*j] = Crc(units[2*j - 1][2])

LogEnd(b) ==
    2 * Cardinality({k \in 1 .. Units \div 2 : \A j \in 1 .. k : IsCommit(disk[b].units, j)})

HasCommit(b) == Units >= 2 /\ IsCommit(disk[b].units, 1)

\* A plausible bug: a block without a commit counts if its revision is newer.
CurrentByRevision(pair) == IF Newer(disk[pair[2]].rev, disk[pair[1]].rev) THEN 2 ELSE 1

\* The block with the newer revision, unless it holds no commit: then the
\* other one counts, whatever the revisions say.
CurrentBlock(pair) ==
    IF Newer(disk[pair[2]].rev, disk[pair[1]].rev)
    THEN IF HasCommit(pair[2]) THEN 2 ELSE 1
    ELSE IF HasCommit(pair[1]) THEN 1 ELSE 2

\* What follows the log is taken for erased only if it is as it was when the
\* last commit was made (the forward checksum).
ErasedAfter(b) == LogEnd(b) < Units /\ disk[b].units[LogEnd(b) + 1] = ErasedUnit

\* lfs_dir_fetchmatch, as far as the pair itself goes
lfs_dir_fetch(pair) ==
    LET i == CurrentBlock(pair)
    IN [pair |-> <<pair[i], pair[3 - i]>>, rev |-> disk[pair[i]].rev,
        off |-> LogEnd(pair[i]), erased |-> ErasedAfter(pair[i])]

LFS_ERR_CORRUPT == MaxCommits + 1

\* What a mount finds: an error if neither block holds a commit.
LastCommit(b) == IF HasCommit(b) THEN disk[b].units[LogEnd(b)][2] ELSE LFS_ERR_CORRUPT

PairValue == IF parent = <<>> THEN Nothing ELSE LastCommit(parent[CurrentBlock(parent)])

-----------------------------------------------------------------------------
Cycle == IF block_cycles % 2 = 0 THEN block_cycles + 1 ELSE block_cycles + 2

\* A block has room for a commit, and the revisions an allocation may skip are
\* few next to all there are (512 of 2^32 in the program).
ASSUME LfsPairAssumption ==
    /\ {1, 2} \subseteq PairBlocks
    /\ Units \in Nat /\ Units >= 2
    /\ MaxCommits \in Nat
    /\ block_cycles \in Nat /\ RevModulus \in Nat
    /\ Cycle < RevModulus \div 2
    /\ Nothing \notin Nat

\* lfs_alignup on a wrapping counter
AlignUp(rev) == LET a == (rev + Cycle - 1) % RevModulus IN a - (a % Cycle)

lfs_dir_needsrelocation == ((dir.rev + 1) % RevModulus) % Cycle = 0

Idle(result) == [at |-> "idle", val |-> Nothing, prog |-> 0, tried |-> {},
                 relocated |-> FALSE, result |-> result]

\* A new pair: its blocks still hold what they were last used for, and the
\* revision continues from there.
lfs_dir_alloc ==
    [pair |-> <<1, 2>>, rev |-> AlignUp(disk[1].rev), off |-> 0, erased |-> FALSE]

CreatePair ==
    /\ commits < MaxCommits /\ commits' = commits + 1
    /\ op.at = "idle" /\ parent = <<>>
    /\ dir' = lfs_dir_alloc /\ handle' = dir'
    /\ op' = [Idle("busy") EXCEPT !.at = "compact", !.val = commits', !.relocated = TRUE]
    /\ UNCHANGED <<disk, parent, faults, losses>>

\* lfs_dir_relocatingcommit: an operation fetches the pair, an open file
\* goes on with the copy it has.
BeginCommit ==
    /\ commits < MaxCommits /\ commits' = commits + 1
    /\ op.at = "idle" /\ parent # <<>>
    /\ dir' \in {handle, lfs_dir_fetch(parent)}
    /\ handle' = dir'
    /\ op' = [Idle("busy") EXCEPT !.at = IF dir'.erased THEN "append" ELSE "compact",
                                  !.val = commits']
    /\ UNCHANGED <<disk, parent, faults, losses>>

\* The program unit a commit writes next, and where.
NextUnit == IF op.prog = 0 THEN Part(op.val) ELSE Crc(op.val)
Target == IF op.at = "append" THEN <<dir.pair[1], dir.off + op.prog + 1>>
                              ELSE <<dir.pair[2], op.prog + 1>>

\* lfs_bd_prog: over anything but erased flash the result is neither.  The
\* revision is in the first unit of a block.
Written(unit) ==
    LET b == Target[1]
        u == Target[2]
    IN [disk EXCEPT
            ![b].units[u] = IF disk[b].units[u] = ErasedUnit THEN unit ELSE Junk,
            ![b].rev = IF u = 1 THEN dir.rev ELSE disk[b].rev]

\* lfs_dir_commitattr, lfs_dir_commitcrc: a unit that goes wrong shows when
\* the commit is read back.
lfs_dir_commitprog ==
    /\ op.at \in {"append", "program"} /\ op.prog < 2 /\ Target[2] <= Units
    /\ \/ disk' = Written(NextUnit) /\ UNCHANGED faults
       \/ /\ faults < MaxPairFaults
          /\ disk' = Written(Junk) /\ faults' = faults + 1
    /\ op' = [op EXCEPT !.prog = @ + 1]
    /\ UNCHANGED <<commits, handle, parent, dir, losses>>

CommitReads ==
    LET b == Target[1]
    IN /\ disk[b].units[Target[2] - 2] = Part(op.val)
       /\ disk[b].units[Target[2] - 1] = Crc(op.val)

\* The append is done, or is given up for a compaction: no room, or read
\* back wrong.
AppendEnds ==
    /\ op.at = "append"
    /\ \/ /\ op.prog = 2 /\ CommitReads
          /\ dir' = [dir EXCEPT !.off = @ + 2] /\ handle' = dir'
          /\ op' = Idle("ok")
       \/ /\ IF op.prog = 2 THEN ~CommitReads ELSE Target[2] > Units
          /\ op' = [op EXCEPT !.at = "compact", !.prog = 0]
          /\ UNCHANGED <<dir, handle>>
    /\ UNCHANGED <<commits, disk, parent, faults, losses>>

\* lfs_dir_compact begins with the next revision.
CompactBegins ==
    /\ op.at = "compact"
    /\ dir' = [dir EXCEPT !.rev = (@ + 1) % RevModulus]
    /\ op' = [op EXCEPT !.at = IF lfs_dir_needsrelocation THEN "tired" ELSE "erase"]
    /\ UNCHANGED <<commits, handle, disk, parent, faults, losses>>

ErasedBlock == [rev |-> RevModulus - 1, units |-> [u \in 1 .. Units |-> ErasedUnit]]

EraseTarget == dir.pair[2]

lfs_bd_erase ==
    /\ op.at = "erase"
    /\ \/ /\ disk' = [disk EXCEPT ![EraseTarget] = ErasedBlock]
          /\ op' = [op EXCEPT !.at = "program", !.prog = 0]
          /\ UNCHANGED faults
       \/ /\ faults < MaxPairFaults /\ faults' = faults + 1
          /\ op' = [op EXCEPT !.at = "bad"]
          /\ UNCHANGED disk
    /\ UNCHANGED <<commits, handle, parent, dir, losses>>

\* The compaction sticks, or the block is bad.
CompactEnds ==
    /\ op.at = "program" /\ op.prog = 2
    /\ IF CommitReads
       THEN /\ dir' = [dir EXCEPT !.pair = <<dir.pair[2], dir.pair[1]>>, !.off = 2]
            /\ handle' = dir'
            /\ op' = IF op.relocated THEN [op EXCEPT !.at = "relocated"] ELSE Idle("ok")
       ELSE op' = [op EXCEPT !.at = "bad"] /\ UNCHANGED <<dir, handle>>
    /\ UNCHANGED <<commits, disk, parent, faults, losses>>

\* lfs_alloc gives out no block that the tree or this commit uses.
Allocatable ==
    PairBlocks \ ({parent[i] : i \in DOMAIN parent} \cup {dir.pair[1], dir.pair[2]} \cup op.tried)

\* Half of the pair is replaced; without room a worn block is used once more,
\* a bad one fails the commit.
RelocateHalf ==
    /\ op.at \in {"tired", "bad"}
    /\ \/ \E b \in Allocatable :
            /\ dir' = [dir EXCEPT !.pair[2] = b]
            /\ op' = [op EXCEPT !.at = "erase", !.relocated = TRUE,
                                !.tried = @ \cup {dir.pair[2]}]
       \/ /\ Allocatable = {}
          /\ op' = IF op.at = "bad" THEN Idle("error")
                   ELSE [op EXCEPT !.at = "erase", !.relocated = TRUE]
          /\ UNCHANGED dir
    /\ UNCHANGED <<commits, handle, disk, parent, faults, losses>>

\* The parent's commit with the new address, itself atomic
\* (lfs_dir_orphaningcommit; for a new pair, lfs_mkdir).
Relink ==
    /\ op.at = "relocated"
    /\ parent' = dir.pair
    /\ op' = Idle("ok")
    /\ UNCHANGED <<commits, handle, disk, dir, faults, losses>>

-----------------------------------------------------------------------------
\* What a half-written or half-erased revision may look like: newer than
\* the other block's, older, or as far from it as a revision can be.
TornRevs == {(dir.rev + k) % RevModulus : k \in {1, RevModulus \div 2, RevModulus - 2}}

\* What a power loss may leave of the operation it interrupts.
Torn ==
    {disk} \cup
    CASE op.at \in {"append", "program"} /\ op.prog < 2 /\ Target[2] <= Units ->
            {[Written(Junk) EXCEPT ![Target[1]].rev = r] :
                r \in IF Target[2] = 1 THEN TornRevs ELSE {disk[Target[1]].rev}}
      [] op.at = "erase" ->
            {[disk EXCEPT ![EraseTarget] = [rev |-> r, units |-> [u \in 1 .. Units |-> Junk]]] :
                r \in TornRevs}
      [] OTHER -> {}

PowerLoss ==
    /\ op.at # "off" /\ losses < MaxPairLosses
    /\ disk' \in Torn
    /\ losses' = losses + 1
    /\ op' = [Idle(IF op.at = "idle" THEN op.result ELSE "lost") EXCEPT !.at = "off"]
    /\ UNCHANGED <<commits, handle, parent, dir, faults>>

MountPair ==
    /\ op.at = "off"
    /\ op' = Idle(op.result)
    /\ dir' = IF parent = <<>> THEN lfs_dir_alloc ELSE lfs_dir_fetch(parent)
    /\ handle' = dir'
    /\ UNCHANGED <<commits, disk, parent, faults, losses>>

\* The blocks come with any revision, as junk or with an old commit.
PairInit ==
    /\ \E r \in Revs, u \in {<<Junk, Junk>>, <<Part(0), Crc(0)>>} :
            disk = [b \in PairBlocks |->
                      [rev |-> r, units |-> [i \in 1 .. Units |-> IF i <= 2 THEN u[i] ELSE Junk]]]
    /\ parent = <<>>
    /\ dir = lfs_dir_alloc /\ handle = dir
    /\ op = Idle("lost")
    /\ commits = 0 /\ faults = 0 /\ losses = 0

PairNext ==
    \/ CreatePair \/ BeginCommit
    \/ lfs_dir_commitprog \/ AppendEnds
    \/ CompactBegins \/ lfs_bd_erase \/ CompactEnds \/ RelocateHalf \/ Relink
    \/ PowerLoss \/ MountPair

PairSpec == PairInit /\ [][PairNext]_pairVars

-----------------------------------------------------------------------------
(* Properties                                                              *)

Pair == INSTANCE LfsAtomic WITH
            value <- PairValue, pending <- op.val, result <- op.result

\* A commit to a metadata pair happens entirely or not at all, whether it is
\* appended, compacted or relocated, whatever the blocks held before, at
\* every power loss and with flash operations that go wrong; and when
\* lfs_dir_commit returns success it has happened (lfs.c:1107-1395, 1954-2405).
PairIsAtomic == Pair!AtomicSpec
=============================================================================
