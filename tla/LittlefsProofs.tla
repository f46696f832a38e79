--------------------------- MODULE LittlefsProofs ---------------------------
(***************************************************************************)
(* Proofs about littlefs: a commit to a metadata pair implements the       *)
(* atomic update of LfsAtomic.                                             *)
(***************************************************************************)
EXTENDS Littlefs, LoopTheorems, FiniteSetTheorems

-----------------------------------------------------------------------------
(* Revisions                                                               *)

\* The difference of two revisions, as lfs_scmp takes it.
LEMMA RevDifference ==
    ASSUME NEW a \in Revs, NEW b \in Revs
    PROVE  (a + RevModulus - b) % RevModulus = IF b <= a THEN a - b ELSE a + RevModulus - b
  <1> RevModulus \in Nat \ {0} /\ a \in Int /\ b \in Int
    BY LfsPairAssumption DEF Revs
  <1>1. CASE b <= a
    <2>1. a + RevModulus - b \in Int /\ RevModulus <= a + RevModulus - b /\ a + RevModulus - b < 2 * RevModulus
      BY <1>1 DEF Revs
    <2>2. PICK x \in Int, m \in Nat \ {0} : x = a + RevModulus - b /\ m = RevModulus
      BY <2>1
    <2>3. x % m = x - m
      BY <2>1, <2>2, ModAbove
    <2> QED
      BY <1>1, <2>2, <2>3
  <1>2. CASE ~(b <= a)
    <2>1. a + RevModulus - b \in Int /\ 0 <= a + RevModulus - b /\ a + RevModulus - b < RevModulus
      BY <1>2 DEF Revs
    <2> QED
      BY <1>2, <2>1, ModSmall
  <1> QED
    BY <1>1, <1>2

\* Of two revisions at most one is newer than the other.
LEMMA NewerIsOneWay ==
    ASSUME NEW a \in Revs, NEW b \in Revs, Newer(a, b)
    PROVE  ~Newer(b, a)
  <1>1. RevModulus \in Nat \ {0} /\ a \in 0 .. RevModulus - 1 /\ b \in 0 .. RevModulus - 1
    BY LfsPairAssumption DEF Revs
  <1>2. PICK h \in Int : h = RevModulus \div 2 /\ 2 * h <= RevModulus
    BY <1>1
  <1>3. (a + RevModulus - b) % RevModulus \in 1 .. h - 1
    BY <1>2 DEF Newer
  <1>4. (a + RevModulus - b) % RevModulus = IF b <= a THEN a - b ELSE a + RevModulus - b
    BY RevDifference
  <1>5. (b + RevModulus - a) % RevModulus = IF a <= b THEN b - a ELSE b + RevModulus - a
    BY RevDifference
  <1>6. (b + RevModulus - a) % RevModulus \notin 1 .. h - 1
    BY <1>1, <1>2, <1>3, <1>4, <1>5
  <1> QED
    BY <1>2, <1>6 DEF Newer

\* The revision a few steps on is newer.
LEMMA LaterIsNewer ==
    ASSUME NEW r \in Revs, NEW k \in 1 .. Cycle
    PROVE  (r + k) % RevModulus \in Revs /\ Newer((r + k) % RevModulus, r)
  <1>1. RevModulus \in Nat \ {0} /\ r \in 0 .. RevModulus - 1 /\ Cycle \in Nat /\ k \in Nat
    BY LfsPairAssumption DEF Revs, Cycle
  <1>2. PICK h \in Int : h = RevModulus \div 2 /\ 2 * h <= RevModulus
    BY <1>1
  <1>3. k \in 1 .. h - 1
    BY <1>1, <1>2, LfsPairAssumption
  <1>4. (r + k) % RevModulus = IF r + k < RevModulus THEN r + k ELSE r + k - RevModulus
    <2>1. CASE r + k < RevModulus
      BY <1>1, <2>1, ModSmall
    <2>2. CASE ~(r + k < RevModulus)
      <3>1. r + k \in Int /\ RevModulus <= r + k /\ r + k < 2 * RevModulus
        BY <1>1, <1>2, <1>3, <2>2
      <3> QED
        BY <1>1, <2>2, <3>1, ModAbove
    <2> QED
      BY <2>1, <2>2
  <1>5. PICK s \in Int : s = (r + k) % RevModulus
    BY <1>1, <1>4
  <1>6. s \in Revs
    BY <1>1, <1>2, <1>3, <1>4, <1>5 DEF Revs
  <1>7. (s + RevModulus - r) % RevModulus = IF r <= s THEN s - r ELSE s + RevModulus - r
    BY <1>6, RevDifference
  <1>8. (s + RevModulus - r) % RevModulus = k
    BY <1>1, <1>2, <1>3, <1>4, <1>5, <1>7
  <1> QED
    BY <1>2, <1>3, <1>5, <1>6, <1>8 DEF Newer

\* A new pair starts at a multiple of the cycle at or after the revision it found,
\* or at zero once the counter wraps; the next revision is newer than the one found.
LEMMA AlignedIsNewer ==
    ASSUME NEW r \in Revs
    PROVE  /\ AlignUp(r) \in Revs
           /\ (AlignUp(r) + 1) % RevModulus \in Revs
           /\ Newer((AlignUp(r) + 1) % RevModulus, r)
  <1>1. /\ RevModulus \in Nat \ {0} /\ r \in 0 .. RevModulus - 1 /\ Cycle \in Nat \ {0}
    BY LfsPairAssumption DEF Revs, Cycle
  <1>2. PICK h \in Int : h = RevModulus \div 2 /\ 2 * h <= RevModulus /\ Cycle < h
    BY <1>1, LfsPairAssumption
  <1>3. PICK m \in Nat, c \in Nat : m = RevModulus /\ c = Cycle
    BY <1>1
  <1>4. PICK x \in Int : x = r + c - 1
    BY <1>1, <1>3
  <1>5. AlignUp(r) = (x % m) - ((x % m) % c)
    <2>1. AlignUp(r) = ((r + Cycle - 1) % RevModulus) - (((r + Cycle - 1) % RevModulus) % Cycle)
      BY Zenon DEF AlignUp
    <2> QED
      BY <1>3, <1>4, <2>1, Zenon
  <1>6. CASE x < m
    <2>1. x % m = x
      BY <1>1, <1>3, <1>4, <1>6, ModSmall
    <2>2. PICK q \in Int, s \in 0 .. c - 1 : s = x % c
      BY <1>1, <1>3, DivMod
    <2>3. AlignUp(r) = r + (c - 1 - s)
      <3>1. AlignUp(r) = x - s
        BY <1>5, <2>1, <2>2, Zenon
      <3> QED
        BY <1>1, <1>3, <1>4, <2>2, <3>1
    <2>4. AlignUp(r) \in Revs /\ AlignUp(r) + 1 = r + (c - s) /\ c - s \in 1 .. c
      BY <1>1, <1>3, <1>4, <1>6, <2>2, <2>3 DEF Revs
    <2> QED
      BY <1>3, <2>4, LaterIsNewer
  <1>7. CASE ~(x < m)
    <2>1. m <= x /\ x < 2 * m /\ 0 <= x - m /\ x - m < c
      BY <1>1, <1>2, <1>3, <1>4, <1>7
    <2>2. x % m = x - m
      BY <1>1, <1>3, <2>1, ModAbove
    <2>3. (x - m) % c = x - m
      BY <1>1, <1>3, <2>1, ModSmall
    <2>4. AlignUp(r) = 0
      <3>1. AlignUp(r) = (x - m) - (x - m)
        BY <1>5, <2>2, <2>3, Zenon
      <3> QED
        BY <1>3, <3>1
    <2>5. m - r + 1 \in 1 .. c
      BY <1>1, <1>3, <1>4, <1>7
    <2>6. (r + (m - r + 1)) % m = (AlignUp(r) + 1) % m
      <3>1. (m + 1) % m = 1
        <4>1. m \in Nat \ {0} /\ m + 1 \in Int /\ m <= m + 1 /\ m + 1 < 2 * m
          BY <1>1, <1>2, <1>3
        <4>2. (m + 1) % m = m + 1 - m
          BY <4>1, ModAbove
        <4> QED
          BY <4>1, <4>2
      <3>2. 1 % m = 1
        BY <1>1, <1>2, <1>3, ModSmall
      <3>3. r + (m - r + 1) = m + 1
        BY <1>1, <1>3
      <3> QED
        BY <2>4, <3>1, <3>2, <3>3
    <2>7. AlignUp(r) \in Revs
      BY <1>1, <2>4 DEF Revs
    <2> QED
      BY <1>3, <2>5, <2>6, <2>7, LaterIsNewer
  <1> QED
    BY <1>6, <1>7

-----------------------------------------------------------------------------
(* The log of a block                                                      *)

UnitValue == {ErasedUnit, Junk} \cup ({"part", "crc"} \X Nat)
BlockUnits == [1 .. Units -> UnitValue]

\* The first n commits of a block are good, and none after them is.
LogIs(units, n) ==
    /\ n \in 0 .. Units \div 2
    /\ \A j \in 1 .. n : IsCommit(units, j)
    /\ \A j \in n + 1 .. Units \div 2 : ~IsCommit(units, j)

\* Commits follow each other without a gap, and what was written of a commit was
\* written in order.
Shaped(units) ==
    /\ \E n \in 0 .. Units \div 2 : LogIs(units, n)
    /\ \A j \in 1 .. Units \div 2 : units[2*j - 1] = ErasedUnit => units[2*j] = ErasedUnit

\* How the flash takes a program operation.
UnitProgrammed(units, u, x) == [units EXCEPT ![u] = IF units[u] = ErasedUnit THEN x ELSE Junk]

LogEndOf(units) ==
    2 * Cardinality({k \in 1 .. Units \div 2 : \A j \in 1 .. k : IsCommit(units, j)})

\* Half of the units of a block.
LEMMA HalfOfUnits ==
    /\ Units \div 2 \in Nat \ {0}
    /\ 2 * (Units \div 2) <= Units /\ Units < 2 * (Units \div 2) + 2
  BY LfsPairAssumption

\* The log ends after its good commits.
LEMMA LogLength ==
    ASSUME NEW units, NEW n, LogIs(units, n)
    PROVE  LogEndOf(units) = 2 * n
  <1>1. PICK h \in Nat : h = Units \div 2
    BY HalfOfUnits
  <1>2. n \in Nat /\ n <= h
    BY <1>1 DEF LogIs
  <1>3. {k \in 1 .. h : \A j \in 1 .. k : IsCommit(units, j)} = 1 .. n
    <2>1. \A j \in 1 .. n : IsCommit(units, j)
      BY DEF LogIs
    <2>2. \A j \in n + 1 .. h : ~IsCommit(units, j)
      BY <1>1 DEF LogIs
    <2> QED
      BY <1>2, <2>1, <2>2
  <1>4. Cardinality(1 .. n) = n
    BY <1>2, FS_Interval
  <1>5. LogEndOf(units) = 2 * Cardinality({k \in 1 .. h : \A j \in 1 .. k : IsCommit(units, j)})
    BY <1>1, Zenon DEF LogEndOf
  <1> QED
    BY <1>3, <1>4, <1>5

\* The first unit of a commit, programmed after the log, does not add to it.
LEMMA FirstUnitProgrammed ==
    ASSUME NEW units \in BlockUnits, Shaped(units), NEW n \in Nat, LogIs(units, n),
           NEW u \in 1 .. Units, u = 2 * n + 1,
           NEW v \in Nat, NEW x \in {Junk, Part(v)}
    PROVE  /\ UnitProgrammed(units, u, x) \in BlockUnits
           /\ UnitProgrammed(units, u, x)[u] # ErasedUnit
           /\ LogIs(UnitProgrammed(units, u, x), n) /\ Shaped(UnitProgrammed(units, u, x))
  <1> DEFINE new == UnitProgrammed(units, u, x)
  <1>1. PICK h \in Nat : h = Units \div 2 /\ 2 * h <= Units /\ Units < 2 * h + 2 /\ h >= 1
    BY HalfOfUnits
  <1>2. /\ Units \in Nat /\ x \in UnitValue /\ Junk \in UnitValue
        /\ x # ErasedUnit /\ Junk # ErasedUnit
    BY LfsPairAssumption DEF UnitValue, Junk, Part, ErasedUnit
  <1>3. new \in BlockUnits /\ \A i \in 1 .. Units : i # u => new[i] = units[i]
    BY <1>2 DEF BlockUnits, UnitProgrammed
  <1>4. new[u] = (IF units[u] = ErasedUnit THEN x ELSE Junk) /\ new[u] # ErasedUnit
    BY <1>2 DEF BlockUnits, UnitProgrammed
  <1>5. \A j \in 1 .. h : j # n + 1 => new[2*j - 1] = units[2*j - 1] /\ new[2*j] = units[2*j]
    BY <1>1, <1>2, <1>3
  <1>6. ASSUME n + 1 <= h PROVE ~IsCommit(new, n + 1)
    <2>1. 2 * (n + 1) - 1 = u /\ 2 * (n + 1) = u + 1 /\ n + 1 \in 1 .. h /\ u + 1 \in 1 .. Units
      BY <1>1, <1>2, <1>6
    <2>2. new[u + 1] = units[u + 1]
      BY <2>1, <1>3
    <2>3. CASE units[u] = ErasedUnit
      <3>1. units[u + 1] = ErasedUnit
        BY <1>1, <2>1, <2>3 DEF Shaped
      <3> QED
        BY <2>1, <2>2, <3>1 DEF IsCommit, ErasedUnit, Crc
    <2>4. CASE units[u] # ErasedUnit
      BY <1>4, <2>1, <2>4 DEF IsCommit, Junk
    <2> QED
      BY <2>3, <2>4
  <1>7. LogIs(new, n)
    <2>1. \A j \in 1 .. h : j # n + 1 => (IsCommit(new, j) <=> IsCommit(units, j))
      BY <1>5 DEF IsCommit
    <2>2. \A j \in 1 .. n : IsCommit(units, j)
      BY DEF LogIs
    <2>3. \A j \in n + 1 .. h : ~IsCommit(units, j)
      BY <1>1 DEF LogIs
    <2>4. n \in 0 .. h
      BY <1>1 DEF LogIs
    <2> HIDE DEF new
    <2>5. \A j \in 1 .. n : IsCommit(new, j)
      BY <2>1, <2>2, <2>4
    <2>6. \A j \in n + 1 .. h : ~IsCommit(new, j)
      BY <2>1, <2>3, <2>4, <1>6
    <2> QED
      BY <1>1, <2>4, <2>5, <2>6 DEF LogIs
  <1>8. Shaped(new)
    <2>1. \A j \in 1 .. h : units[2*j - 1] = ErasedUnit => units[2*j] = ErasedUnit
      BY <1>1 DEF Shaped
    <2>2. \A j \in 1 .. h : new[2*j - 1] = ErasedUnit => new[2*j] = ErasedUnit
      <3> TAKE j \in 1 .. h
      <3>1. CASE j = n + 1
        <4>1. 2 * j - 1 = u
          BY <3>1
        <4> QED
          BY <1>4, <4>1
      <3>2. CASE j # n + 1
        BY <1>5, <2>1, <3>2
      <3> QED
        BY <3>1, <3>2
    <2>3. n \in 0 .. h
      BY <1>1 DEF LogIs
    <2> HIDE DEF new
    <2> QED
      BY <1>1, <1>7, <2>2, <2>3 DEF Shaped
  <1> QED
    BY <1>3, <1>4, <1>7, <1>8

\* The second one completes it if both were programmed as they should, and
\* otherwise leaves the log as it was.
LEMMA SecondUnitProgrammed ==
    ASSUME NEW units \in BlockUnits, Shaped(units), NEW n \in Nat, LogIs(units, n),
           NEW u \in 1 .. Units, u = 2 * n + 2, units[u - 1] # ErasedUnit,
           NEW v \in Nat, NEW x \in {Junk, Crc(v)}
    PROVE  /\ UnitProgrammed(units, u, x) \in BlockUnits
           /\ Shaped(UnitProgrammed(units, u, x))
           /\ IF UnitProgrammed(units, u, x)[u - 1] = Part(v) /\ UnitProgrammed(units, u, x)[u] = Crc(v)
              THEN LogIs(UnitProgrammed(units, u, x), n + 1)
              ELSE LogIs(UnitProgrammed(units, u, x), n)
  <1> DEFINE new == UnitProgrammed(units, u, x)
  <1>1. PICK h \in Nat : h = Units \div 2 /\ 2 * h <= Units /\ Units < 2 * h + 2 /\ h >= 1
    BY HalfOfUnits
  <1>2. /\ Units \in Nat /\ x \in UnitValue /\ Junk \in UnitValue
        /\ x # ErasedUnit /\ Junk # ErasedUnit
    BY LfsPairAssumption DEF UnitValue, Junk, Crc, ErasedUnit
  <1>3. new \in BlockUnits /\ \A i \in 1 .. Units : i # u => new[i] = units[i]
    BY <1>2 DEF BlockUnits, UnitProgrammed
  <1>4. new[u] = (IF units[u] = ErasedUnit THEN x ELSE Junk) /\ new[u] \in {Junk, Crc(v)}
    BY <1>2 DEF BlockUnits, UnitProgrammed
  <1>5. \A j \in 1 .. h : j # n + 1 => new[2*j - 1] = units[2*j - 1] /\ new[2*j] = units[2*j]
    BY <1>1, <1>2, <1>3
  <1>6. n + 1 \in 1 .. h /\ u - 1 \in 1 .. Units /\ 2 * (n + 1) - 1 = u - 1 /\ 2 * (n + 1) = u
    BY <1>1, <1>2
  <1>7. IsCommit(new, n + 1) <=> new[u - 1] = Part(v) /\ new[u] = Crc(v)
    <2>1. new[u - 1] \in UnitValue
      BY <1>3, <1>6 DEF BlockUnits
    <2>2. IsCommit(new, n + 1) <=> new[u - 1][1] = "part" /\ new[u] = Crc(new[u - 1][2])
      BY <1>6, Zenon DEF IsCommit
    <2> HIDE DEF new
    <2> QED
      BY <1>4, <2>1, <2>2 DEF UnitValue, ErasedUnit, Junk, Part, Crc
  <1>8. \A j \in 1 .. h : j # n + 1 => (IsCommit(new, j) <=> IsCommit(units, j))
    BY <1>5 DEF IsCommit
  <1>9. /\ \A j \in 1 .. n : IsCommit(units, j)
        /\ \A j \in n + 1 .. h : ~IsCommit(units, j)
    BY <1>1 DEF LogIs
  <1> HIDE DEF new
  <1>10. IF new[u - 1] = Part(v) /\ new[u] = Crc(v) THEN LogIs(new, n + 1) ELSE LogIs(new, n)
    <2>1. CASE IsCommit(new, n + 1)
      <3>1. \A j \in 1 .. n + 1 : IsCommit(new, j)
        BY <1>6, <1>8, <1>9, <2>1
      <3>2. \A j \in n + 2 .. h : ~IsCommit(new, j)
        BY <1>6, <1>8, <1>9
      <3>3. n + 1 \in 0 .. h /\ n + 1 + 1 = n + 2
        BY <1>6
      <3>4. LogIs(new, n + 1)
        BY <1>1, <3>1, <3>2, <3>3 DEF LogIs
      <3> QED
        BY <1>7, <2>1, <3>4
    <2>2. CASE ~IsCommit(new, n + 1)
      <3>1. \A j \in 1 .. n : IsCommit(new, j)
        BY <1>6, <1>8, <1>9
      <3>2. \A j \in n + 1 .. h : ~IsCommit(new, j)
        BY <1>6, <1>8, <1>9, <2>2
      <3>3. n \in 0 .. h
        BY <1>6
      <3>4. LogIs(new, n)
        BY <1>1, <3>1, <3>2, <3>3 DEF LogIs
      <3> QED
        BY <1>7, <2>2, <3>4
    <2> QED
      BY <2>1, <2>2
  <1>11. Shaped(new)
    <2>1. \A j \in 1 .. h : units[2*j - 1] = ErasedUnit => units[2*j] = ErasedUnit
      BY <1>1 DEF Shaped
    <2>2. \A j \in 1 .. h : new[2*j - 1] = ErasedUnit => new[2*j] = ErasedUnit
      <3> TAKE j \in 1 .. h
      <3>1. CASE j = n + 1
        <4>1. 2 * j - 1 = u - 1 /\ new[u - 1] = units[u - 1]
          BY <3>1, <1>3, <1>6
        <4> QED
          BY <4>1
      <3>2. CASE j # n + 1
        BY <1>5, <2>1, <3>2
      <3> QED
        BY <3>1, <3>2
    <2>3. \E k \in 0 .. h : LogIs(new, k)
      BY <1>6, <1>10
    <2> QED
      BY <1>1, <2>2, <2>3 DEF Shaped
  <1> QED
    BY <1>3, <1>10, <1>11 DEF new

\* An erased block, and one that was left half erased, holds no commit.
LEMMA NoLog ==
    ASSUME NEW x \in {ErasedUnit, Junk}
    PROVE  /\ [u \in 1 .. Units |-> x] \in BlockUnits
           /\ Shaped([u \in 1 .. Units |-> x]) /\ LogIs([u \in 1 .. Units |-> x], 0)
  <1> DEFINE new == [u \in 1 .. Units |-> x]
  <1>1. PICK h \in Nat : h = Units \div 2 /\ 2 * h <= Units /\ Units < 2 * h + 2 /\ h >= 1
    BY HalfOfUnits
  <1>2. Units \in Nat /\ x[1] # "part" /\ x \in UnitValue
    BY LfsPairAssumption DEF ErasedUnit, Junk, UnitValue
  <1>3. \A j \in 1 .. h : new[2*j - 1] = x /\ new[2*j] = x
    BY <1>1, <1>2
  <1>4. new \in BlockUnits
    BY <1>2 DEF BlockUnits
  <1> HIDE DEF new
  <1>5. \A j \in 1 .. h : ~IsCommit(new, j)
    BY <1>2, <1>3 DEF IsCommit
  <1>6. LogIs(new, 0)
    BY <1>1, <1>5 DEF LogIs
  <1>7. Shaped(new)
    BY <1>1, <1>3, <1>6 DEF Shaped
  <1> QED
    BY <1>4, <1>6, <1>7 DEF new

-----------------------------------------------------------------------------
(* The state of a pair                                                     *)

Disks == [PairBlocks -> [rev : Revs, units : BlockUnits]]
Copies == [pair : PairBlocks \X PairBlocks, rev : Revs, off : Nat, erased : BOOLEAN]
Phases == {"idle", "off", "append", "compact", "tired", "erase", "program", "bad", "relocated"}
Commits == [at : Phases, val : {Nothing} \cup Nat, prog : 0 .. 2, tried : SUBSET PairBlocks,
            relocated : BOOLEAN, result : {"ok", "error", "lost", "busy"}]

PairTypeOK ==
    /\ disk \in Disks
    /\ parent = <<>> \/ (parent \in PairBlocks \X PairBlocks)
    /\ dir \in Copies /\ handle \in Copies
    /\ op \in Commits
    /\ commits \in Nat

\* HasCommit, LastCommit and PairValue, of any disk.
HasCommitOn(d, b) == Units >= 2 /\ IsCommit(d[b].units, 1)
LastCommitOn(d, b) == d[b].units[LogEndOf(d[b].units)][2]
CurrentOn(d, p) ==
    IF Newer(d[p[2]].rev, d[p[1]].rev)
    THEN IF HasCommitOn(d, p[2]) THEN 2 ELSE 1
    ELSE IF HasCommitOn(d, p[1]) THEN 1 ELSE 2
ValueOn(d, p) ==
    IF p = <<>> THEN Nothing
    ELSE IF HasCommitOn(d, p[CurrentOn(d, p)]) THEN LastCommitOn(d, p[CurrentOn(d, p)])
                                               ELSE LFS_ERR_CORRUPT

\* Block a counts and block b does not, in whichever order they are listed.
Counts(d, a, b) == HasCommitOn(d, a) /\ (HasCommitOn(d, b) => Newer(d[a].rev, d[b].rev))

\* The copy h in RAM is one of the linked pair, its current block first.
Linked(h) == parent = <<h.pair[1], h.pair[2]>> \/ parent = <<h.pair[2], h.pair[1]>>

\* The copy h is as its first block is.
Describes(h, d) ==
    /\ HasCommitOn(d, h.pair[1]) /\ h.rev = d[h.pair[1]].rev
    /\ h.off = LogEndOf(d[h.pair[1]].units)

\* Block b while a commit that begins at its unit base + 1 is written to it.
Writing(b, base) ==
    \E n \in Nat :
        /\ base = 2 * n
        /\ op.prog < 2 => LogIs(disk[b].units, n)
        /\ op.prog = 1 => base + 1 <= Units /\ disk[b].units[base + 1] # ErasedUnit
        /\ op.prog = 2 =>
              /\ base + 2 <= Units
              /\ IF CommitReads THEN LogIs(disk[b].units, n + 1) ELSE LogIs(disk[b].units, n)

IdleInv ==
    /\ op.at \in {"idle", "off"} <=> op.val = Nothing
    /\ op.at = "idle" /\ parent # <<>> =>
          /\ Linked(handle) /\ Describes(handle, disk)
          /\ Counts(disk, handle.pair[1], handle.pair[2])

AppendInv ==
    op.at = "append" =>
        /\ parent # <<>> /\ dir = handle /\ Linked(dir)
        /\ Counts(disk, dir.pair[1], dir.pair[2]) /\ dir.rev = disk[dir.pair[1]].rev
        /\ dir.off # 0 /\ Writing(dir.pair[1], dir.off)

\* Until the compaction is complete the pair is as it was before the commit.
CompactInv ==
    op.at \in {"compact", "tired", "erase", "program", "bad"} =>
        /\ parent # <<>> =>
              /\ Linked(handle) /\ Describes(handle, disk)
              /\ dir.pair[1] = handle.pair[1]
              /\ (dir.pair[2] = handle.pair[2] \/ dir.pair[2] \notin {parent[1], parent[2]})
              /\ ~(op.at = "program" /\ op.prog = 2 /\ CommitReads) =>
                    Counts(disk, handle.pair[1], handle.pair[2])
        /\ ~op.relocated => parent # <<>> /\ dir.pair = handle.pair
        /\ LET rev == IF op.at = "compact" THEN (dir.rev + 1) % RevModulus ELSE dir.rev
           IN Newer(rev, disk[dir.pair[1]].rev)

ProgramInv ==
    op.at = "program" =>
        Writing(dir.pair[2], 0) /\ (op.prog > 0 => disk[dir.pair[2]].rev = dir.rev)

\* The block that replaces another one is whole before the parent is told.
RelocatedInv ==
    op.at = "relocated" =>
        /\ Describes(dir, disk) /\ Counts(disk, dir.pair[1], dir.pair[2])
        /\ LastCommitOn(disk, dir.pair[1]) = op.val
        /\ handle = dir

PairInv ==
    /\ PairTypeOK
    /\ dir.pair[1] # dir.pair[2]
    /\ \A b \in PairBlocks : Shaped(disk[b].units)
    /\ parent # <<>> =>
          /\ parent[1] # parent[2]
          /\ Counts(disk, parent[1], parent[2]) \/ Counts(disk, parent[2], parent[1])
    /\ IdleInv /\ AppendInv /\ CompactInv /\ ProgramInv /\ RelocatedInv

-----------------------------------------------------------------------------
(* What a mount finds                                                      *)

\* The operators of the model are those of any disk, taken of this one.
LEMMA OfThisDisk ==
    /\ PairValue = ValueOn(disk, parent)
    /\ \A b : LogEnd(b) = LogEndOf(disk[b].units)
    /\ \A p : CurrentBlock(p) = CurrentOn(disk, p)
  BY DEF PairValue, ValueOn, LastCommit, LastCommitOn, CurrentBlock, CurrentOn, HasCommit, HasCommitOn,
         LogEnd, LogEndOf

\* So are they after a step.
LEMMA OfTheNextDisk ==
    PairValue' = ValueOn(disk', parent')
  BY DEF PairValue, ValueOn, LastCommit, LastCommitOn, CurrentBlock, CurrentOn, HasCommit, HasCommitOn,
         LogEnd, LogEndOf

\* A block holds a commit if its log is not empty.
LEMMA HasCommitIs ==
    ASSUME NEW d, NEW b, NEW n, LogIs(d[b].units, n)
    PROVE  HasCommitOn(d, b) <=> n >= 1
  <1>1. PICK h \in Nat : h = Units \div 2 /\ h >= 1 /\ Units >= 2
    BY HalfOfUnits, LfsPairAssumption
  <1>2. n \in 0 .. h
    BY <1>1 DEF LogIs
  <1>3. CASE n >= 1
    <2>1. 1 \in 1 .. n
      BY <1>2, <1>3
    <2> QED
      BY <1>1, <1>3, <2>1 DEF LogIs, HasCommitOn
  <1>4. CASE ~(n >= 1)
    <2>1. 1 \in n + 1 .. h
      BY <1>1, <1>2, <1>4
    <2> QED
      BY <1>1, <1>4, <2>1 DEF LogIs, HasCommitOn
  <1> QED
    BY <1>3, <1>4

\* The block that counts is taken, whichever half of the pair it is.
LEMMA TheBlockThatCounts ==
    ASSUME NEW d \in Disks, NEW a \in PairBlocks, NEW b \in PairBlocks, Counts(d, a, b)
    PROVE  /\ CurrentOn(d, <<a, b>>) = 1 /\ ValueOn(d, <<a, b>>) = LastCommitOn(d, a)
           /\ CurrentOn(d, <<b, a>>) = 2 /\ ValueOn(d, <<b, a>>) = LastCommitOn(d, a)
  <1>1. HasCommitOn(d, a) /\ (HasCommitOn(d, b) => Newer(d[a].rev, d[b].rev) /\ ~Newer(d[b].rev, d[a].rev))
    BY NewerIsOneWay DEF Counts, Disks
  <1>2. CurrentOn(d, <<a, b>>) = 1 /\ CurrentOn(d, <<b, a>>) = 2
    BY <1>1 DEF CurrentOn
  <1> QED
    BY <1>1, <1>2 DEF ValueOn

\* Of one block that is written only the other depends: if that is not the one that
\* counts, and gets no commit, the pair stays what it is.
LEMMA TheOtherBlockChanges ==
    ASSUME NEW d \in Disks, NEW e \in Disks, NEW a \in PairBlocks, NEW b \in PairBlocks, Counts(d, a, b),
           e[a] = d[a], e[b] = d[b] \/ ~HasCommitOn(e, b),
           NEW p, p = <<a, b>> \/ p = <<b, a>>
    PROVE  /\ Counts(e, a, b) /\ ValueOn(e, p) = ValueOn(d, p)
           /\ ValueOn(d, p) = LastCommitOn(d, a)
  <1>1. d[a].rev \in Revs /\ d[b].rev \in Revs /\ e[a].rev \in Revs /\ e[b].rev \in Revs
    BY DEF Disks
  <1>2. Counts(e, a, b)
    BY DEF Counts, HasCommitOn
  <1>3. LastCommitOn(e, a) = LastCommitOn(d, a)
    BY DEF LastCommitOn
  <1> QED
    BY <1>1, <1>2, <1>3, TheBlockThatCounts

\* A fetch finds the pair as it is.
LEMMA FetchDescribes ==
    ASSUME PairTypeOK, parent # <<>>,
           Counts(disk, parent[1], parent[2]) \/ Counts(disk, parent[2], parent[1])
    PROVE  LET h == lfs_dir_fetch(parent)
           IN /\ h \in Copies /\ Linked(h) /\ Describes(h, disk)
              /\ Counts(disk, h.pair[1], h.pair[2])
  <1>1. PICK a \in PairBlocks, b \in PairBlocks : parent = <<a, b>>
    BY DEF PairTypeOK
  <1>2. disk \in Disks /\ disk[a].rev \in Revs /\ disk[b].rev \in Revs
    BY DEF PairTypeOK, Disks
  <1>3. ASSUME NEW c \in PairBlocks PROVE LogEndOf(disk[c].units) \in Nat
    <2>1. Cardinality({k \in 1 .. Units \div 2 : \A j \in 1 .. k : IsCommit(disk[c].units, j)}) \in Nat
      <3>1. PICK h \in Nat : h = Units \div 2
        BY HalfOfUnits
      <3>2. IsFiniteSet(1 .. h)
        BY FS_Interval
      <3>3. IsFiniteSet({k \in 1 .. h : \A j \in 1 .. k : IsCommit(disk[c].units, j)})
        BY <3>2, FS_Subset
      <3> QED
        BY <3>1, <3>3, FS_CardinalityType
    <2> QED
      BY <2>1 DEF LogEndOf
  <1>4. CASE Counts(disk, a, b)
    <2>1. CurrentBlock(parent) = 1
      <3>1. CurrentOn(disk, <<a, b>>) = 1
        BY <1>2, <1>4, TheBlockThatCounts
      <3> QED
        BY <1>1, <3>1, OfThisDisk
    <2>2. /\ lfs_dir_fetch(parent).pair = <<a, b>> /\ lfs_dir_fetch(parent).rev = disk[a].rev
          /\ lfs_dir_fetch(parent).off = LogEndOf(disk[a].units)
      BY <1>1, <2>1, OfThisDisk DEF lfs_dir_fetch
    <2>3. lfs_dir_fetch(parent) \in Copies
      <3>1. lfs_dir_fetch(parent) = [pair |-> <<a, b>>, rev |-> disk[a].rev,
                                     off |-> LogEndOf(disk[a].units), erased |-> ErasedAfter(a)]
        BY <1>1, <2>1, OfThisDisk DEF lfs_dir_fetch
      <3>2. ErasedAfter(a) \in BOOLEAN
        BY DEF ErasedAfter
      <3> QED
        BY <1>2, <1>3, <3>1, <3>2 DEF Copies
    <2> QED
      BY <1>1, <1>4, <2>2, <2>3 DEF Linked, Describes, Counts
  <1>5. CASE Counts(disk, b, a)
    <2>1. CurrentBlock(parent) = 2
      <3>1. CurrentOn(disk, <<a, b>>) = 2
        BY <1>2, <1>5, TheBlockThatCounts
      <3> QED
        BY <1>1, <3>1, OfThisDisk
    <2>2. /\ lfs_dir_fetch(parent).pair = <<b, a>> /\ lfs_dir_fetch(parent).rev = disk[b].rev
          /\ lfs_dir_fetch(parent).off = LogEndOf(disk[b].units)
      BY <1>1, <2>1, OfThisDisk DEF lfs_dir_fetch
    <2>3. lfs_dir_fetch(parent) \in Copies
      <3>1. lfs_dir_fetch(parent) = [pair |-> <<b, a>>, rev |-> disk[b].rev,
                                     off |-> LogEndOf(disk[b].units), erased |-> ErasedAfter(b)]
        BY <1>1, <2>1, OfThisDisk DEF lfs_dir_fetch
      <3>2. ErasedAfter(b) \in BOOLEAN
        BY DEF ErasedAfter
      <3> QED
        BY <1>2, <1>3, <3>1, <3>2 DEF Copies
    <2> QED
      BY <1>1, <1>5, <2>2, <2>3 DEF Linked, Describes, Counts
  <1> QED
    BY <1>1, <1>4, <1>5

-----------------------------------------------------------------------------
(* Program operations                                                      *)

\* The disk with one unit of block b programmed, under revision r.
WithUnit(b, r, u, x) ==
    [disk EXCEPT ![b] = [rev |-> r, units |-> UnitProgrammed(disk[b].units, u, x)]]

\* Block b of disk d, of which the first n commits are good, with the next unit of
\* the commit under way.
Advanced(d, b, n, x) ==
    /\ op.prog = 0 => LogIs(d[b].units, n) /\ d[b].units[2*n + 1] # ErasedUnit
    /\ op.prog = 1 => IF d[b].units[2*n + 1] = Part(op.val) /\ d[b].units[2*n + 2] = Crc(op.val)
                      THEN LogIs(d[b].units, n + 1) ELSE LogIs(d[b].units, n)
    /\ x = Junk => LogIs(d[b].units, n)

\* Every unit of a commit is written over what it should be, and the commit counts
\* only with the second.
LEMMA UnitWritten ==
    ASSUME PairTypeOK, NEW b \in PairBlocks, Shaped(disk[b].units),
           NEW n \in Nat, LogIs(disk[b].units, n), op.prog \in {0, 1},
           op.prog = 1 => disk[b].units[2*n + 1] # ErasedUnit,
           op.val \in Nat, NEW u \in Nat, u = 2*n + op.prog + 1, u <= Units,
           NEW x \in {Junk, NextUnit}, NEW r \in Revs
    PROVE  /\ WithUnit(b, r, u, x) \in Disks /\ Shaped(WithUnit(b, r, u, x)[b].units)
           /\ WithUnit(b, r, u, x)[b].rev = r
           /\ Advanced(WithUnit(b, r, u, x), b, n, x)
           /\ \A i \in 1 .. Units : i # u => WithUnit(b, r, u, x)[b].units[i] = disk[b].units[i]
           /\ \A c \in PairBlocks : c # b => WithUnit(b, r, u, x)[c] = disk[c]
  <1> DEFINE units == disk[b].units
             new == UnitProgrammed(units, u, x)
             d == WithUnit(b, r, u, x)
  <1>1. units \in BlockUnits /\ u \in 1 .. Units /\ disk \in Disks /\ Units \in Nat
    BY LfsPairAssumption DEF PairTypeOK, Disks
  <1>2. d[b] = [rev |-> r, units |-> new] /\ \A c \in PairBlocks : c # b => d[c] = disk[c]
    BY <1>1 DEF WithUnit, Disks
  <1>3. \A i \in 1 .. Units : i # u => new[i] = units[i]
    BY <1>1 DEF BlockUnits, UnitProgrammed
  <1>4. new \in BlockUnits => d \in Disks
    BY <1>1 DEF WithUnit, Disks
  <1>5. CASE op.prog = 0
    <2>1. u = 2 * n + 1 /\ x \in {Junk, Part(op.val)}
      BY <1>5 DEF NextUnit
    <2>2. new \in BlockUnits /\ new[u] # ErasedUnit /\ LogIs(new, n) /\ Shaped(new)
      BY <1>1, <2>1, FirstUnitProgrammed
    <2> HIDE DEF new, d
    <2>3. Advanced(d, b, n, x)
      BY <1>2, <1>5, <2>1, <2>2 DEF Advanced
    <2> QED
      BY <1>2, <1>3, <1>4, <2>2, <2>3 DEF d
  <1>6. CASE op.prog = 1
    <2>1. u = 2 * n + 2 /\ u - 1 = 2 * n + 1 /\ x \in {Junk, Crc(op.val)}
      BY <1>6 DEF NextUnit
    <2>2. units[u - 1] # ErasedUnit
      BY <1>6, <2>1
    <2>3. /\ new \in BlockUnits /\ Shaped(new)
          /\ IF new[u - 1] = Part(op.val) /\ new[u] = Crc(op.val) THEN LogIs(new, n + 1) ELSE LogIs(new, n)
      BY <1>1, <2>1, <2>2, SecondUnitProgrammed
    <2>4. x = Junk => new[u] = Junk
      BY <1>1 DEF UnitProgrammed, BlockUnits
    <2>5. Junk # Crc(op.val)
      BY DEF Junk, Crc
    <2> HIDE DEF new, d
    <2>6. Advanced(d, b, n, x)
      BY <1>2, <1>6, <2>1, <2>3, <2>4, <2>5 DEF Advanced
    <2> QED
      BY <1>2, <1>3, <1>4, <2>3, <2>6 DEF d
  <1> QED
    BY <1>5, <1>6

\* The units programmed and torn are such units.
LEMMA WrittenUnits ==
    ASSUME PairTypeOK, NEW b \in PairBlocks, NEW u, Target = <<b, u>>, u \in 1 .. Units, NEW x
    PROVE  /\ Written(x) = WithUnit(b, IF u = 1 THEN dir.rev ELSE disk[b].rev, u, x)
           /\ \A r : [Written(x) EXCEPT ![Target[1]].rev = r] = WithUnit(b, r, u, x)
  <1>1. /\ disk = [c \in PairBlocks |-> disk[c]] /\ disk[b] = [rev |-> disk[b].rev, units |-> disk[b].units]
        /\ Target[1] = b /\ Target[2] = u
    BY DEF PairTypeOK, Disks
  <1>2. Written(x) = WithUnit(b, IF u = 1 THEN dir.rev ELSE disk[b].rev, u, x)
    <2> DEFINE y == IF disk[b].units[u] = ErasedUnit THEN x ELSE Junk
               q == IF u = 1 THEN dir.rev ELSE disk[b].rev
               e == [disk EXCEPT ![b].units[u] = y]
               z == [disk[b].units EXCEPT ![u] = y]
    <2>1. [disk[b] EXCEPT !.units[u] = y] = [rev |-> disk[b].rev, units |-> z]
      <3>1. PICK old : old = disk[b] /\ old = [rev |-> disk[b].rev, units |-> disk[b].units]
        BY <1>1
      <3> QED
        BY <3>1
    <2>2. e = [disk EXCEPT ![b] = [rev |-> disk[b].rev, units |-> z]]
      BY <1>1, <2>1
    <2>3. [e EXCEPT ![b].rev = q] = WithUnit(b, q, u, x)
      <3>1. e[b] = [rev |-> disk[b].rev, units |-> z] /\ e = [c \in PairBlocks |-> e[c]]
        BY <1>1, <2>2
      <3>2. \A c \in PairBlocks : c # b => e[c] = disk[c]
        BY <1>1, <2>2
      <3> HIDE DEF e, q, z
      <3>3. [e[b] EXCEPT !.rev = q] = [rev |-> q, units |-> z]
        <4>1. PICK old : old = e[b] /\ old = [rev |-> disk[b].rev, units |-> z]
          BY <3>1
        <4> QED
          BY <4>1
      <3>4. [e EXCEPT ![b].rev = q] = [e EXCEPT ![b] = [rev |-> q, units |-> z]]
        BY <3>1, <3>3
      <3> USE DEF q, z
      <3> QED
        BY <1>1, <3>1, <3>2, <3>4 DEF WithUnit, UnitProgrammed
    <2>4. Written(x) = [e EXCEPT ![b].rev = q]
      BY <1>1 DEF Written
    <2> QED
      BY <2>3, <2>4
  <1> QED
    BY <1>1, <1>2 DEF WithUnit

-----------------------------------------------------------------------------
(* Steps                                                                   *)

\* A step that the atomic update allows, or none of its steps.
Promised == [Pair!AtomicNext]_(Pair!atomicVars)

\* The kinds of steps: nothing to see from above, the effect, an end, a beginning.
LEMMA NothingSeen ==
    ASSUME PairValue' = PairValue, op'.val = op.val, op'.result = op.result
    PROVE  Promised
  BY DEF Promised, Pair!atomicVars

\* The operation under way takes effect.
LEMMA EffectSeen ==
    ASSUME op.val # Nothing, PairValue' = op.val, op'.val = op.val, op'.result = op.result
    PROVE  Promised
  BY DEF Promised, Pair!atomicVars, Pair!AtomicNext, Pair!TakeEffect

\* The operation ends, with or without its effect.
LEMMA EndSeen ==
    ASSUME op.val # Nothing, op'.val = Nothing, PairValue' \in {PairValue, op.val},
           op'.result \in {"ok", "error", "lost"}, op'.result = "ok" => PairValue' = op.val
    PROVE  Promised
  BY DEF Promised, Pair!atomicVars, Pair!AtomicNext, Pair!End

\* An operation begins.
LEMMA BeginningSeen ==
    ASSUME op.val = Nothing, op'.val # Nothing, op'.result = "busy", PairValue' = PairValue
    PROVE  Promised
  BY DEF Promised, Pair!atomicVars, Pair!AtomicNext, Pair!Begin

\* The value depends on the disk and the address alone.
LEMMA ValueKept ==
    ASSUME disk' = disk, parent' = parent
    PROVE  PairValue' = PairValue
  BY OfThisDisk, OfTheNextDisk

\* As the blocks come, the one that is new is shaped like any other.
LEMMA InitInv ==
    PairInit => PairInv /\ op.val = Nothing
  <1> SUFFICES ASSUME PairInit PROVE PairInv /\ op.val = Nothing
    OBVIOUS
  <1>1. PICK r \in Revs, u \in {<<Junk, Junk>>, <<Part(0), Crc(0)>>} :
            disk = [b \in PairBlocks |->
                      [rev |-> r, units |-> [i \in 1 .. Units |-> IF i <= 2 THEN u[i] ELSE Junk]]]
    BY DEF PairInit
  <1> DEFINE units == [i \in 1 .. Units |-> IF i <= 2 THEN u[i] ELSE Junk]
  <1>2. PICK h \in Nat : h = Units \div 2 /\ 2 * h <= Units /\ Units < 2 * h + 2 /\ h >= 1
    BY HalfOfUnits
  <1>3. units \in BlockUnits
    BY LfsPairAssumption DEF BlockUnits, UnitValue, Junk, Part, Crc
  <1>4. Shaped(units)
    <2>1. units[1] = u[1] /\ units[2] = u[2] /\ \A i \in 3 .. Units : units[i] = Junk
      BY <1>2, LfsPairAssumption
    <2>2. \A j \in 2 .. h : units[2*j - 1] = Junk /\ units[2*j] = Junk
      BY <1>2, <2>1, LfsPairAssumption
    <2>3. \A j \in 2 .. h : ~IsCommit(units, j)
      BY <2>2 DEF IsCommit, Junk
    <2>4. CASE u = <<Junk, Junk>>
      <3>1. ~IsCommit(units, 1)
        BY <2>1, <2>4 DEF IsCommit, Junk
      <3> HIDE DEF units
      <3>2. LogIs(units, 0)
        <4>1. \A j \in 1 .. h : ~IsCommit(units, j)
          BY <1>2, <2>3, <3>1
        <4> QED
          BY <1>2, <4>1 DEF LogIs
      <3>3. \A j \in 1 .. h : units[2*j - 1] # ErasedUnit
        <4>1. Junk # ErasedUnit
          BY DEF Junk, ErasedUnit
        <4>2. \A j \in 1 .. h : j = 1 \/ j \in 2 .. h
          BY <1>2
        <4>3. units[1] = Junk /\ 2 * 1 - 1 = 1
          BY <2>1, <2>4
        <4> QED
          BY <2>2, <4>1, <4>2, <4>3
      <3> QED
        BY <1>2, <3>2, <3>3 DEF Shaped
    <2>5. CASE u = <<Part(0), Crc(0)>>
      <3>1. IsCommit(units, 1)
        BY <2>1, <2>5 DEF IsCommit, Part, Crc
      <3> HIDE DEF units
      <3>2. LogIs(units, 1)
        <4>1. \A j \in 1 .. 1 : IsCommit(units, j)
          BY <3>1
        <4>2. 1 \in 0 .. h
          BY <1>2
        <4>3. 1 + 1 .. h = 2 .. h
          OBVIOUS
        <4> QED
          BY <1>2, <2>3, <4>1, <4>2, <4>3 DEF LogIs
      <3>3. \A j \in 1 .. h : units[2*j - 1] # ErasedUnit
        <4>1. Junk # ErasedUnit /\ Part(0) # ErasedUnit
          BY DEF Junk, ErasedUnit, Part
        <4>2. \A j \in 1 .. h : j = 1 \/ j \in 2 .. h
          BY <1>2
        <4>3. units[1] = Part(0) /\ 2 * 1 - 1 = 1
          BY <2>1, <2>5
        <4> QED
          BY <2>2, <4>1, <4>2, <4>3
      <3>4. 1 \in 0 .. h
        BY <1>2
      <3> QED
        BY <1>2, <3>2, <3>3, <3>4 DEF Shaped
    <2> QED
      BY <2>4, <2>5
  <1>5. disk = [b \in PairBlocks |-> [rev |-> r, units |-> units]]
    BY <1>1
  <1> HIDE DEF units
  <1>6. disk \in Disks /\ 1 \in PairBlocks /\ 2 \in PairBlocks
    BY <1>3, <1>5, LfsPairAssumption DEF Disks
  <1>7. dir = [pair |-> <<1, 2>>, rev |-> AlignUp(disk[1].rev), off |-> 0, erased |-> FALSE] /\ handle = dir
    BY DEF PairInit, lfs_dir_alloc
  <1>8. dir \in Copies
    BY <1>6, <1>7, AlignedIsNewer DEF Copies, Disks
  <1>9. parent = <<>> /\ op = Idle("lost") /\ commits = 0
    BY DEF PairInit
  <1>10. op \in Commits /\ op.at = "idle" /\ op.val = Nothing
    BY <1>9 DEF Idle, Commits, Phases
  <1>11. PairTypeOK
    BY <1>6, <1>7, <1>8, <1>9, <1>10 DEF PairTypeOK
  <1>12. IdleInv /\ AppendInv /\ CompactInv /\ ProgramInv /\ RelocatedInv
    BY <1>9, <1>10 DEF IdleInv, AppendInv, CompactInv, ProgramInv, RelocatedInv
  <1>13. \A b \in PairBlocks : Shaped(disk[b].units)
    BY <1>4, <1>5
  <1> QED
    BY <1>7, <1>9, <1>10, <1>11, <1>12, <1>13 DEF PairInv

\* An allocation gives a pair whose next revision is newer than what its first block
\* holds.
LEMMA AllocDescribes ==
    ASSUME PairTypeOK
    PROVE  /\ lfs_dir_alloc \in Copies /\ lfs_dir_alloc.pair = <<1, 2>>
           /\ Newer((lfs_dir_alloc.rev + 1) % RevModulus, disk[1].rev)
  <1>1. 1 \in PairBlocks /\ 2 \in PairBlocks /\ disk[1].rev \in Revs
    BY LfsPairAssumption DEF PairTypeOK, Disks
  <1> QED
    BY <1>1, AlignedIsNewer DEF lfs_dir_alloc, Copies

\* A new pair.
LEMMA CreatePairStep ==
    PairInv /\ CreatePair => PairInv' /\ Promised
  <1> SUFFICES ASSUME PairInv, CreatePair PROVE PairInv' /\ Promised
    OBVIOUS
  <1>1. /\ PairTypeOK /\ IdleInv /\ op.at = "idle" /\ parent = <<>> /\ commits \in Nat
        /\ disk' = disk /\ parent' = parent /\ handle' = dir' /\ commits' = commits + 1
    BY DEF PairInv, CreatePair, PairTypeOK
  <1>2. dir' = lfs_dir_alloc
    BY DEF CreatePair
  <1>3. dir' \in Copies /\ dir'.pair = <<1, 2>> /\ Newer((dir'.rev + 1) % RevModulus, disk'[1].rev)
    BY <1>1, <1>2, AllocDescribes
  <1>4. op' = [at |-> "compact", val |-> commits + 1, prog |-> 0, tried |-> {}, relocated |-> TRUE,
               result |-> "busy"]
    BY <1>1 DEF CreatePair, Idle
  <1>5. op' \in Commits /\ op'.val # Nothing /\ op.val = Nothing
    BY <1>1, <1>4, LfsPairAssumption DEF Commits, Phases, IdleInv
  <1>6. PairTypeOK'
    BY <1>1, <1>3, <1>5 DEF PairTypeOK
  <1>7. IdleInv' /\ AppendInv' /\ CompactInv' /\ ProgramInv' /\ RelocatedInv'
    BY <1>1, <1>3, <1>4, <1>5 DEF IdleInv, AppendInv, CompactInv, ProgramInv, RelocatedInv
  <1>8. PairInv'
    BY <1>1, <1>3, <1>6, <1>7 DEF PairInv
  <1>9. Promised
    BY <1>1, <1>4, <1>5, ValueKept, BeginningSeen
  <1> QED
    BY <1>8, <1>9

\* A commit to a pair that is linked, by the copy at hand or a fetched one.
LEMMA BeginCommitStep ==
    PairInv /\ BeginCommit => PairInv' /\ Promised
  <1> SUFFICES ASSUME PairInv, BeginCommit PROVE PairInv' /\ Promised
    OBVIOUS
  <1>1. /\ PairTypeOK /\ IdleInv /\ op.at = "idle" /\ parent # <<>> /\ commits \in Nat
        /\ disk' = disk /\ parent' = parent /\ handle' = dir' /\ commits' = commits + 1
        /\ parent[1] # parent[2]
        /\ Counts(disk, parent[1], parent[2]) \/ Counts(disk, parent[2], parent[1])
        /\ \A b \in PairBlocks : Shaped(disk[b].units)
    BY DEF PairInv, BeginCommit, PairTypeOK
  <1>2. /\ dir' \in Copies /\ Linked(dir') /\ Describes(dir', disk)
        /\ Counts(disk, dir'.pair[1], dir'.pair[2])
    <2>1. CASE dir' = handle
      BY <1>1, <2>1 DEF IdleInv, PairTypeOK
    <2>2. CASE dir' = lfs_dir_fetch(parent)
      BY <1>1, <2>2, FetchDescribes
    <2> QED
      BY <2>1, <2>2 DEF BeginCommit
  <1>3. PICK c \in PairBlocks, o \in PairBlocks : dir'.pair = <<c, o>> /\ c # o
    BY <1>1, <1>2 DEF Copies, Linked
  <1>4. op' = [at |-> IF dir'.erased THEN "append" ELSE "compact", val |-> commits + 1, prog |-> 0,
               tried |-> {}, relocated |-> FALSE, result |-> "busy"]
    BY <1>1 DEF BeginCommit, Idle
  <1>5. op' \in Commits /\ op'.val # Nothing /\ op.val = Nothing
    BY <1>1, <1>4, LfsPairAssumption DEF Commits, Phases, IdleInv
  <1>6. PairTypeOK'
    BY <1>1, <1>2, <1>5 DEF PairTypeOK
  <1>7. /\ Linked(dir)' /\ Describes(dir', disk') /\ Counts(disk', c, o) /\ disk'[c].rev \in Revs
        /\ dir'.rev = disk'[c].rev
    BY <1>1, <1>2, <1>3 DEF Linked, Describes, PairTypeOK, Disks
  <1>8. AppendInv'
    <2> SUFFICES ASSUME op'.at = "append" PROVE Writing(c, dir.off)' /\ dir'.off # 0
      BY <1>1, <1>3, <1>7 DEF AppendInv
    <2>1. PICK n \in Nat : LogIs(disk[c].units, n)
      <3>1. PICK h \in Nat : h = Units \div 2
        BY HalfOfUnits
      <3> QED
        BY <1>1, <3>1 DEF Shaped
    <2>2. dir'.off = 2 * n
      BY <1>2, <1>3, <2>1, LogLength DEF Describes
    <2>3. n >= 1
      BY <1>2, <1>3, <2>1, HasCommitIs DEF Describes
    <2> QED
      BY <1>1, <1>4, <2>1, <2>2, <2>3 DEF Writing
  <1>9. CompactInv'
    <2> SUFFICES ASSUME op'.at = "compact" PROVE CompactInv'
      BY <1>4 DEF CompactInv
    <2>1. Newer((dir'.rev + 1) % RevModulus, disk'[c].rev)
      BY <1>7, LaterIsNewer, LfsPairAssumption DEF Cycle
    <2> QED
      BY <1>1, <1>3, <1>4, <1>7, <2>1 DEF CompactInv, Linked
  <1>10. IdleInv' /\ ProgramInv' /\ RelocatedInv'
    BY <1>4, <1>5 DEF IdleInv, ProgramInv, RelocatedInv
  <1>11. PairInv'
    BY <1>1, <1>3, <1>6, <1>8, <1>9, <1>10 DEF PairInv
  <1>12. Promised
    BY <1>1, <1>4, <1>5, ValueKept, BeginningSeen
  <1> QED
    BY <1>11, <1>12

\* A unit of an appended commit leaves the pair as it was, unless it is the last one:
\* then the pair holds the new commit.
LEMMA AppendKeeps ==
    ASSUME PairInv, op.at = "append", op.prog < 2, Target[2] <= Units, NEW x \in {Junk, NextUnit},
           NEW e, e = WithUnit(dir.pair[1], disk[dir.pair[1]].rev, Target[2], x)
    PROVE  /\ e \in Disks /\ \A b \in PairBlocks : Shaped(e[b].units)
           /\ Counts(e, dir.pair[1], dir.pair[2]) /\ e[dir.pair[1]].rev = disk[dir.pair[1]].rev
           /\ \E n \in Nat : dir.off = 2*n /\ n >= 1 /\ Advanced(e, dir.pair[1], n, x)
           /\ Target[2] = dir.off + op.prog + 1
           /\ ValueOn(e, parent) \in {ValueOn(disk, parent), op.val}
           /\ x = Junk => ValueOn(e, parent) = ValueOn(disk, parent)
  <1>1. /\ PairTypeOK /\ IdleInv /\ AppendInv /\ \A b \in PairBlocks : Shaped(disk[b].units)
        /\ dir.pair[1] # dir.pair[2] /\ op.prog \in {0, 1} /\ dir.off \in Nat
    BY DEF PairInv, PairTypeOK, Commits, Copies
  <1>2. PICK c \in PairBlocks, o \in PairBlocks : dir.pair = <<c, o>> /\ c # o
    BY <1>1 DEF PairTypeOK, Copies
  <1>3. /\ Target = <<c, dir.off + op.prog + 1>> /\ op.val \in Nat /\ disk[c].rev \in Revs
        /\ disk[o].rev \in Revs /\ Counts(disk, c, o) /\ Writing(c, dir.off) /\ Linked(dir) /\ dir.off # 0
    BY <1>1, <1>2 DEF Target, IdleInv, PairTypeOK, Commits, Disks, AppendInv
  <1>4. PICK n \in Nat : /\ dir.off = 2 * n /\ LogIs(disk[c].units, n)
                         /\ op.prog = 1 => disk[c].units[2*n + 1] # ErasedUnit
    BY <1>1, <1>3 DEF Writing
  <1>5. PICK u \in Nat : u = 2 * n + op.prog + 1 /\ u = Target[2] /\ u <= Units
    BY <1>1, <1>3, <1>4
  <1>6. e = WithUnit(c, disk[c].rev, u, x)
    BY <1>2, <1>5
  <1>7. /\ e \in Disks /\ Shaped(e[c].units) /\ e[c].rev = disk[c].rev /\ Advanced(e, c, n, x)
        /\ \A i \in 1 .. Units : i # u => e[c].units[i] = disk[c].units[i]
        /\ \A b \in PairBlocks : b # c => e[b] = disk[b]
    <2>1. op.prog = 1 => disk[c].units[2*n + 1] # ErasedUnit
      BY <1>4
    <2>2. PairTypeOK /\ Shaped(disk[c].units) /\ op.prog \in {0, 1} /\ op.val \in Nat
      BY <1>1, <1>3
    <2>3. PICK r \in Revs : r = disk[c].rev
      BY <1>3
    <2> QED
      BY <1>4, <1>5, <1>6, <2>1, <2>2, <2>3, UnitWritten
  <1>8. n >= 1
    BY <1>3, <1>4
  <1>9. LogIs(e[c].units, n) \/ (/\ LogIs(e[c].units, n + 1) /\ op.prog = 1 /\ ~LogIs(e[c].units, n)
                                 /\ e[c].units[2*n + 2] = Crc(op.val))
    BY <1>1, <1>7 DEF Advanced
  <1>10. HasCommitOn(e, c) /\ HasCommitOn(disk, c)
    <2>1. \A k \in Nat : n + 1 >= 1
      BY <1>8
    <2>2. HasCommitOn(disk, c)
      BY <1>4, <1>8, HasCommitIs
    <2>3. CASE LogIs(e[c].units, n)
      BY <1>8, <2>2, <2>3, HasCommitIs
    <2>4. CASE LogIs(e[c].units, n + 1)
      BY <2>1, <2>2, <2>4, HasCommitIs
    <2> QED
      BY <1>9, <2>3, <2>4
  <1>11. Counts(e, c, o)
    BY <1>2, <1>3, <1>7, <1>10 DEF Counts, HasCommitOn
  <1>12. e \in Disks /\ disk \in Disks
    BY <1>1, <1>7 DEF PairTypeOK
  <1>13. ValueOn(e, parent) = LastCommitOn(e, c) /\ ValueOn(disk, parent) = LastCommitOn(disk, c)
    <2>1. parent = <<c, o>> \/ parent = <<o, c>>
      BY <1>2, <1>3 DEF Linked
    <2>2. ValueOn(e, <<c, o>>) = LastCommitOn(e, c) /\ ValueOn(e, <<o, c>>) = LastCommitOn(e, c)
      BY <1>2, <1>11, <1>12, TheBlockThatCounts
    <2>3. ValueOn(disk, <<c, o>>) = LastCommitOn(disk, c) /\ ValueOn(disk, <<o, c>>) = LastCommitOn(disk, c)
      BY <1>2, <1>3, <1>12, TheBlockThatCounts
    <2> QED
      BY <2>1, <2>2, <2>3
  <1>14. ASSUME LogIs(e[c].units, n) PROVE LastCommitOn(e, c) = LastCommitOn(disk, c)
    <2>1. LogEndOf(e[c].units) = 2 * n /\ LogEndOf(disk[c].units) = 2 * n
      BY <1>4, <1>14, LogLength
    <2>2. e[c].units[2 * n] = disk[c].units[2 * n]
      <3>1. 2 * n \in 1 .. Units /\ 2 * n # u
        BY <1>1, <1>5, <1>8, LfsPairAssumption
      <3> QED
        BY <1>7, <3>1
    <2> QED
      BY <2>1, <2>2 DEF LastCommitOn
  <1>15. ASSUME ~LogIs(e[c].units, n) PROVE LastCommitOn(e, c) = op.val
    <2>1. LogEndOf(e[c].units) = 2 * n + 2
      <3>1. LogEndOf(e[c].units) = 2 * (n + 1)
        BY <1>9, <1>15, LogLength
      <3> QED
        BY <3>1
    <2>2. e[c].units[2 * n + 2] = Crc(op.val)
      BY <1>9, <1>15
    <2>3. LastCommitOn(e, c) = Crc(op.val)[2]
      BY <2>1, <2>2, Zenon DEF LastCommitOn
    <2> QED
      BY <2>3 DEF Crc
  <1>16. /\ ValueOn(e, parent) \in {ValueOn(disk, parent), op.val}
         /\ x = Junk => ValueOn(e, parent) = ValueOn(disk, parent)
    BY <1>7, <1>13, <1>14, <1>15 DEF Advanced
  <1>17. \A b \in PairBlocks : Shaped(e[b].units)
    BY <1>1, <1>7
  <1> QED
    BY <1>2, <1>3, <1>4, <1>7, <1>8, <1>11, <1>16, <1>17

\* A unit of a compaction leaves the linked pair as it was, unless it completes the
\* commit in one of its two blocks.
LEMMA CompactionKeeps ==
    ASSUME PairInv, op.at = "program", op.prog < 2, Target[2] <= Units, NEW x \in {Junk, NextUnit},
           NEW r \in Revs, NEW e, e = WithUnit(dir.pair[2], r, Target[2], x)
    PROVE  LET t == dir.pair[2]
               complete == op.prog = 1 /\ e[t].units[1] = Part(op.val) /\ e[t].units[2] = Crc(op.val)
           IN /\ e \in Disks /\ \A b \in PairBlocks : Shaped(e[b].units)
              /\ e[t].rev = r /\ \A b \in PairBlocks : b # t => e[b] = disk[b]
              /\ Advanced(e, t, 0, x) /\ Target[2] = op.prog + 1
              /\ x = Junk => ~complete
              /\ parent # <<>> /\ (t = handle.pair[2] => ~complete) =>
                    /\ Counts(e, handle.pair[1], handle.pair[2])
                    /\ ValueOn(e, parent) = ValueOn(disk, parent)
              /\ parent # <<>> /\ t = handle.pair[2] /\ complete /\ r = dir.rev =>
                    /\ Counts(e, handle.pair[2], handle.pair[1])
                    /\ ValueOn(e, parent) = op.val
  <1>1. /\ PairTypeOK /\ IdleInv /\ CompactInv /\ ProgramInv /\ \A b \in PairBlocks : Shaped(disk[b].units)
        /\ dir.pair[1] # dir.pair[2] /\ op.prog \in {0, 1}
    BY DEF PairInv, PairTypeOK, Commits
  <1>2. PICK c \in PairBlocks, t \in PairBlocks : dir.pair = <<c, t>> /\ c # t
    BY <1>1 DEF PairTypeOK, Copies
  <1>3. /\ Target = <<t, op.prog + 1>> /\ op.val \in Nat /\ disk \in Disks /\ Writing(t, 0)
    BY <1>1, <1>2 DEF Target, IdleInv, PairTypeOK, Commits, ProgramInv
  <1>4. /\ LogIs(disk[t].units, 0)
        /\ op.prog = 1 => disk[t].units[2*0 + 1] # ErasedUnit
    <2>1. PICK n \in Nat : /\ 0 = 2 * n /\ LogIs(disk[t].units, n)
                           /\ op.prog = 1 => disk[t].units[0 + 1] # ErasedUnit
      BY <1>1, <1>3 DEF Writing
    <2>2. n = 0
      BY <2>1
    <2> QED
      BY <2>1, <2>2
  <1>5. PICK u \in Nat : u = 2 * 0 + op.prog + 1 /\ u = Target[2] /\ u <= Units
    BY <1>1, <1>3
  <1>6. e = WithUnit(t, r, u, x)
    BY <1>2, <1>5
  <1>7. /\ e \in Disks /\ Shaped(e[t].units) /\ e[t].rev = r /\ Advanced(e, t, 0, x)
        /\ \A b \in PairBlocks : b # t => e[b] = disk[b]
    <2>1. PICK n \in Nat : n = 0
      OBVIOUS
    <2>2. /\ LogIs(disk[t].units, n) /\ (op.prog = 1 => disk[t].units[2*n + 1] # ErasedUnit)
          /\ u = 2*n + op.prog + 1 /\ e = WithUnit(t, r, u, x)
      BY <1>4, <1>5, <1>6, <2>1
    <2>3. Shaped(disk[t].units)
      BY <1>1
    <2>4. /\ e \in Disks /\ Shaped(e[t].units) /\ e[t].rev = r /\ Advanced(e, t, n, x)
          /\ \A b \in PairBlocks : b # t => e[b] = disk[b]
      BY <1>1, <1>3, <1>5, <2>2, <2>3, UnitWritten
    <2> QED
      BY <2>1, <2>4
  <1> DEFINE complete == op.prog = 1 /\ e[t].units[1] = Part(op.val) /\ e[t].units[2] = Crc(op.val)
  <1>8. /\ complete => LogIs(e[t].units, 1)
        /\ ~complete => LogIs(e[t].units, 0)
        /\ x = Junk => LogIs(e[t].units, 0)
    BY <1>1, <1>7 DEF Advanced
  <1>9. HasCommitOn(e, t) <=> complete
    BY <1>8, HasCommitIs
  <1>10. x = Junk => ~HasCommitOn(e, t)
    BY <1>8, HasCommitIs
  <1>11. /\ Newer(dir.rev, disk[c].rev)
         /\ parent # <<>> =>
               /\ Linked(handle) /\ handle.pair[1] = c /\ Counts(disk, handle.pair[1], handle.pair[2])
               /\ (t = handle.pair[2] \/ t \notin {parent[1], parent[2]})
    BY <1>1, <1>2 DEF CompactInv
  <1> HIDE DEF complete
  <1>12. ASSUME parent # <<>>
         PROVE  \E o \in PairBlocks :
                    /\ handle.pair = <<c, o>> /\ handle.pair[2] = o
                    /\ (parent = <<c, o>> \/ parent = <<o, c>>)
                    /\ Counts(disk, c, o) /\ (t # o => e[o] = disk[o])
    <2>1. PICK a \in PairBlocks, o \in PairBlocks : handle.pair = <<a, o>>
      BY <1>1 DEF PairTypeOK, Copies
    <2> QED
      BY <1>7, <1>11, <1>12, <2>1 DEF Linked
  <1>13. ASSUME parent # <<>>, t = handle.pair[2] => ~complete
         PROVE  Counts(e, handle.pair[1], handle.pair[2]) /\ ValueOn(e, parent) = ValueOn(disk, parent)
    <2>1. PICK o \in PairBlocks :
                /\ handle.pair = <<c, o>> /\ handle.pair[2] = o
                /\ (parent = <<c, o>> \/ parent = <<o, c>>)
                /\ Counts(disk, c, o) /\ (t # o => e[o] = disk[o])
      BY <1>12, <1>13
    <2>2. e[c] = disk[c] /\ (e[o] = disk[o] \/ ~HasCommitOn(e, o))
      BY <1>2, <1>7, <1>9, <1>13, <2>1
    <2> QED
      BY <1>3, <1>7, <2>1, <2>2, TheOtherBlockChanges
  <1>14. ASSUME parent # <<>>, t = handle.pair[2], complete, r = dir.rev
         PROVE  Counts(e, handle.pair[2], handle.pair[1]) /\ ValueOn(e, parent) = op.val
    <2>1. handle.pair = <<c, t>> /\ (parent = <<c, t>> \/ parent = <<t, c>>) /\ e[c] = disk[c]
      BY <1>2, <1>7, <1>12, <1>14
    <2>2. Counts(e, t, c)
      BY <1>7, <1>9, <1>11, <1>14, <2>1 DEF Counts
    <2>3. e \in Disks
      BY <1>7
    <2>4. ValueOn(e, parent) = LastCommitOn(e, t)
      BY <2>1, <2>2, <2>3, TheBlockThatCounts
    <2>5. LogEndOf(e[t].units) = 2 * 1
      BY <1>8, <1>14, LogLength
    <2>6. e[t].units[2] = Crc(op.val)
      BY <1>14 DEF complete
    <2> QED
      BY <2>1, <2>2, <2>4, <2>5, <2>6 DEF LastCommitOn, Crc
  <1>15. \A b \in PairBlocks : Shaped(e[b].units)
    BY <1>1, <1>7
  <1>16. Target[2] = op.prog + 1 /\ (x = Junk => ~complete)
    BY <1>3, <1>9, <1>10
  <1> QED
    BY <1>2, <1>7, <1>13, <1>14, <1>15, <1>16 DEF complete

\* A program operation of the commit.
LEMMA CommitprogStep ==
    PairInv /\ lfs_dir_commitprog => PairInv' /\ Promised
  <1> SUFFICES ASSUME PairInv, lfs_dir_commitprog PROVE PairInv' /\ Promised
    OBVIOUS
  <1>1. /\ PairTypeOK /\ IdleInv /\ AppendInv /\ CompactInv /\ ProgramInv
        /\ dir.pair[1] # dir.pair[2] /\ op.prog \in {0, 1} /\ op.prog < 2 /\ Target[2] <= Units
        /\ commits' = commits /\ handle' = handle /\ parent' = parent /\ dir' = dir
        /\ op' = [op EXCEPT !.prog = @ + 1] /\ op.at \in {"append", "program"}
    BY DEF PairInv, PairTypeOK, Commits, lfs_dir_commitprog
  <1>2. PICK c \in PairBlocks, t \in PairBlocks : dir.pair = <<c, t>> /\ c # t
    BY <1>1 DEF PairTypeOK, Copies
  <1>3. /\ op' \in Commits /\ op'.prog = op.prog + 1 /\ op'.at = op.at /\ op'.val = op.val
        /\ op'.relocated = op.relocated /\ op'.result = op.result /\ op.val \in Nat /\ op.val # Nothing
    BY <1>1, LfsPairAssumption DEF Commits, PairTypeOK, IdleInv
  <1>4. PICK x \in {Junk, NextUnit} : disk' = Written(x)
    BY DEF lfs_dir_commitprog
  <1>5. /\ Target[2] \in 1 .. Units /\ dir.off \in Nat /\ dir.rev \in Revs /\ disk \in Disks
        /\ op.at = "append" => Target = <<c, Target[2]>>
        /\ op.at = "program" => Target = <<t, Target[2]>>
    BY <1>1, <1>2, LfsPairAssumption DEF Target, PairTypeOK, Copies
  <1>6. IdleInv' /\ RelocatedInv'
    BY <1>1, <1>3 DEF IdleInv, RelocatedInv
  <1>7. ASSUME disk' \in Disks PROVE PairTypeOK'
    BY <1>1, <1>3, <1>7 DEF PairTypeOK
  <1>8. CASE op.at = "append"
    <2>1. /\ dir = handle /\ parent # <<>> /\ Linked(dir) /\ dir.rev = disk[c].rev /\ dir.off # 0
      BY <1>1, <1>2, <1>8 DEF AppendInv
    <2>2. Target[2] = dir.off + op.prog + 1
      BY <1>8 DEF Target
    <2>3. disk' = WithUnit(c, disk[c].rev, Target[2], x)
      <3>1. Target[2] # 1
        BY <1>1, <1>5, <2>1, <2>2
      <3> QED
        BY <1>1, <1>4, <1>5, <1>8, <3>1, WrittenUnits
    <2>4. PICK e : e = disk'
      OBVIOUS
    <2>5. /\ e \in Disks /\ \A b \in PairBlocks : Shaped(e[b].units)
          /\ Counts(e, c, t) /\ e[c].rev = disk[c].rev
          /\ \E n \in Nat : dir.off = 2*n /\ n >= 1 /\ Advanced(e, c, n, x)
          /\ ValueOn(e, parent) \in {ValueOn(disk, parent), op.val}
      BY <1>1, <1>2, <1>8, <2>3, <2>4, AppendKeeps
    <2>6. PICK n \in Nat : dir.off = 2*n /\ n >= 1 /\ Advanced(e, c, n, x)
      BY <2>5
    <2>7. Writing(c, dir.off)'
      <3>1. CASE op.prog = 0
        BY <1>1, <1>3, <2>2, <2>4, <2>6, <3>1 DEF Writing, Advanced
      <3>2. CASE op.prog = 1
        <4>1. op'.prog = 2 /\ Target' = <<c, dir.off + 3>>
          BY <1>1, <1>2, <1>3, <1>5, <1>8, <3>2 DEF Target
        <4>2. dir.off + 3 - 2 = 2*n + 1 /\ dir.off + 3 - 1 = 2*n + 2 /\ dir.off + 2 <= Units
          BY <1>1, <2>2, <2>6, <3>2
        <4>3. CommitReads' <=> e[c].units[2*n + 1] = Part(op.val) /\ e[c].units[2*n + 2] = Crc(op.val)
          <5>1. Target'[1] = c /\ Target'[2] - 2 = 2*n + 1 /\ Target'[2] - 1 = 2*n + 2
            BY <1>5, <2>6, <4>1, <4>2
          <5> QED
            BY <1>3, <2>4, <5>1, Zenon DEF CommitReads
        <4>4. IF CommitReads' THEN LogIs(e[c].units, n + 1) ELSE LogIs(e[c].units, n)
          BY <2>6, <3>2, <4>3 DEF Advanced
        <4> QED
          BY <1>1, <2>4, <2>6, <4>1, <4>2, <4>4 DEF Writing
      <3> QED
        BY <1>1, <3>1, <3>2
    <2>8. AppendInv'
      BY <1>1, <1>2, <2>1, <2>4, <2>5, <2>7 DEF AppendInv, Linked
    <2>9. CompactInv' /\ ProgramInv'
      BY <1>3, <1>8 DEF CompactInv, ProgramInv
    <2>10. parent' # <<>> =>
              /\ parent'[1] # parent'[2]
              /\ (Counts(disk', parent'[1], parent'[2]) \/ Counts(disk', parent'[2], parent'[1]))
      BY <1>1, <1>2, <2>1, <2>4, <2>5 DEF Linked
    <2>11. PairInv'
      BY <1>1, <1>2, <1>6, <1>7, <2>4, <2>5, <2>8, <2>9, <2>10 DEF PairInv
    <2>12. Promised
      BY <1>1, <1>3, <2>4, <2>5, OfThisDisk, OfTheNextDisk, NothingSeen, EffectSeen
    <2> QED
      BY <2>11, <2>12
  <1>9. CASE op.at = "program"
    <2>1. PICK r \in Revs : r = dir.rev /\ disk' = WithUnit(t, r, Target[2], x)
      <3>1. Target[2] # 1 => disk[t].rev = dir.rev
        BY <1>1, <1>2, <1>9 DEF ProgramInv, Target
      <3> QED
        BY <1>1, <1>4, <1>5, <1>9, <3>1, WrittenUnits
    <2>2. PICK e : e = disk'
      OBVIOUS
    <2> DEFINE complete == op.prog = 1 /\ e[t].units[1] = Part(op.val) /\ e[t].units[2] = Crc(op.val)
    <2>3. /\ e \in Disks /\ \A b \in PairBlocks : Shaped(e[b].units)
          /\ e[t].rev = r /\ \A b \in PairBlocks : b # t => e[b] = disk[b]
          /\ Advanced(e, t, 0, x) /\ Target[2] = op.prog + 1
          /\ parent # <<>> /\ (t = handle.pair[2] => ~complete) =>
                /\ Counts(e, handle.pair[1], handle.pair[2])
                /\ ValueOn(e, parent) = ValueOn(disk, parent)
          /\ parent # <<>> /\ t = handle.pair[2] /\ complete =>
                /\ Counts(e, handle.pair[2], handle.pair[1])
                /\ ValueOn(e, parent) = op.val
      BY <1>1, <1>2, <1>9, <2>1, <2>2, CompactionKeeps
    <2>4. op.prog = 1 => (CommitReads' <=> complete)
      <3> SUFFICES ASSUME op.prog = 1 PROVE CommitReads' <=> complete
        OBVIOUS
      <3>1. Target' = <<t, 3>>
        BY <1>1, <1>2, <1>3, <1>9 DEF Target
      <3> QED
        BY <1>3, <2>2, <3>1 DEF CommitReads
    <2>5. Writing(t, 0)'
      <3>1. CASE op.prog = 0
        BY <1>1, <1>3, <2>2, <2>3, <3>1 DEF Writing, Advanced
      <3>2. CASE op.prog = 1
        <4>1. op'.prog = 2 /\ 0 + 2 <= Units
          BY <1>1, <1>3, <2>3, <3>2
        <4>2. IF CommitReads' THEN LogIs(e[t].units, 0 + 1) ELSE LogIs(e[t].units, 0)
          BY <2>3, <2>4, <3>2 DEF Advanced
        <4> QED
          BY <2>2, <4>1, <4>2 DEF Writing
      <3> QED
        BY <1>1, <3>1, <3>2
    <2>6. ProgramInv'
      BY <1>1, <1>2, <1>9, <2>1, <2>2, <2>3, <2>5 DEF ProgramInv
    <2>7. AppendInv'
      BY <1>3, <1>9 DEF AppendInv
    <2>8. complete <=> op'.prog = 2 /\ CommitReads'
      BY <1>1, <1>3, <2>4
    <2> HIDE DEF complete
    <2>9. parent # <<>> =>
            /\ Linked(handle) /\ Describes(handle, disk) /\ handle.pair[1] = c
            /\ (t = handle.pair[2] \/ t \notin {parent[1], parent[2]})
      BY <1>1, <1>2, <1>9 DEF CompactInv
    <2>10. CompactInv'
      <3>1. Newer(dir'.rev, e[c].rev)
        BY <1>1, <1>2, <1>9, <2>3 DEF CompactInv
      <3>2. parent # <<>> => Linked(handle)' /\ Describes(handle', e)
        BY <1>1, <1>2, <2>3, <2>9 DEF Linked, Describes, HasCommitOn
      <3>3. parent # <<>> /\ ~complete => Counts(e, handle.pair[1], handle.pair[2])
        BY <2>3
      <3>4. ~op'.relocated => parent' # <<>> /\ dir'.pair = handle'.pair
        BY <1>1, <1>3, <1>9 DEF CompactInv
      <3> QED
        BY <1>1, <1>2, <1>3, <1>9, <2>2, <2>8, <2>9, <3>1, <3>2, <3>3, <3>4 DEF CompactInv
    <2>11. parent' # <<>> =>
              /\ parent'[1] # parent'[2]
              /\ (Counts(disk', parent'[1], parent'[2]) \/ Counts(disk', parent'[2], parent'[1]))
      <3> SUFFICES ASSUME parent # <<>>
                   PROVE  /\ parent[1] # parent[2]
                          /\ (Counts(e, parent[1], parent[2]) \/ Counts(e, parent[2], parent[1]))
        BY <1>1, <2>2
      <3>1. parent[1] # parent[2]
        BY DEF PairInv
      <3>2. Counts(e, handle.pair[1], handle.pair[2]) \/ Counts(e, handle.pair[2], handle.pair[1])
        BY <2>3
      <3> QED
        BY <2>9, <3>1, <3>2 DEF Linked
    <2>12. PairInv'
      BY <1>1, <1>2, <1>6, <1>7, <2>2, <2>3, <2>6, <2>7, <2>10, <2>11 DEF PairInv
    <2>13. ValueOn(e, parent) \in {ValueOn(disk, parent), op.val}
      <3>1. CASE parent = <<>>
        BY <3>1 DEF ValueOn
      <3>2. CASE parent # <<>>
        BY <2>3, <3>2
      <3> QED
        BY <3>1, <3>2
    <2>14. Promised
      BY <1>1, <1>3, <2>2, <2>13, OfThisDisk, OfTheNextDisk, NothingSeen, EffectSeen
    <2> QED
      BY <2>12, <2>14
  <1> QED
    BY <1>1, <1>8, <1>9

\* An append ends: the commit is what the pair holds, or a compaction follows.
LEMMA AppendEndsStep ==
    PairInv /\ AppendEnds => PairInv' /\ Promised
  <1> SUFFICES ASSUME PairInv, AppendEnds PROVE PairInv' /\ Promised
    OBVIOUS
  <1>1. /\ PairTypeOK /\ IdleInv /\ AppendInv /\ op.at = "append" /\ dir.pair[1] # dir.pair[2]
        /\ commits' = commits /\ parent' = parent /\ disk' = disk
        /\ \A b \in PairBlocks : Shaped(disk[b].units)
        /\ parent # <<>> =>
              /\ parent[1] # parent[2]
              /\ Counts(disk, parent[1], parent[2]) \/ Counts(disk, parent[2], parent[1])
    BY DEF PairInv, AppendEnds
  <1>2. PICK c \in PairBlocks, o \in PairBlocks : dir.pair = <<c, o>> /\ c # o
    BY <1>1 DEF PairTypeOK, Copies
  <1>3. /\ dir = handle /\ parent # <<>> /\ Linked(dir) /\ dir.rev = disk[c].rev /\ dir.off # 0
        /\ Counts(disk, c, o) /\ Writing(c, dir.off)
        /\ op.val \in Nat /\ op.val # Nothing /\ disk \in Disks /\ dir \in Copies /\ op \in Commits
    BY <1>1, <1>2, LfsPairAssumption DEF AppendInv, IdleInv, PairTypeOK, Commits
  <1>4. Target = <<c, dir.off + op.prog + 1>> /\ dir.off \in Nat /\ op.prog \in 0 .. 2
    BY <1>1, <1>2, <1>3 DEF Target, Copies, Commits
  <1>5. PICK n \in Nat :
            /\ dir.off = 2 * n
            /\ op.prog < 2 => LogIs(disk[c].units, n)
            /\ op.prog = 2 => IF CommitReads THEN LogIs(disk[c].units, n + 1) ELSE LogIs(disk[c].units, n)
    BY <1>3 DEF Writing
  <1>6. CASE /\ op.prog = 2 /\ CommitReads
             /\ dir' = [dir EXCEPT !.off = @ + 2] /\ handle' = dir' /\ op' = Idle("ok")
    <2>1. LogEndOf(disk[c].units) = 2 * n + 2
      <3>1. LogEndOf(disk[c].units) = 2 * (n + 1)
        BY <1>5, <1>6, LogLength
      <3> QED
        BY <3>1
    <2>2. dir' \in Copies /\ dir'.pair = <<c, o>> /\ dir'.rev = dir.rev /\ dir'.off = 2 * n + 2
      BY <1>2, <1>3, <1>4, <1>5, <1>6 DEF Copies
    <2>3. op' \in Commits /\ op'.at = "idle" /\ op'.val = Nothing /\ op'.result = "ok"
      BY <1>6 DEF Commits, Idle, Phases
    <2>4. Linked(handle)' /\ Describes(handle', disk')
      BY <1>1, <1>2, <1>3, <1>6, <2>1, <2>2 DEF Linked, Describes, Counts
    <2>5. PairTypeOK' /\ dir'.pair[1] # dir'.pair[2]
      BY <1>1, <1>2, <1>6, <2>2, <2>3 DEF PairTypeOK
    <2>6. IdleInv' /\ AppendInv' /\ CompactInv' /\ ProgramInv' /\ RelocatedInv'
      BY <1>1, <1>3, <1>6, <2>2, <2>3, <2>4 DEF IdleInv, AppendInv, CompactInv, ProgramInv, RelocatedInv
    <2>7. PairInv'
      BY <1>1, <2>5, <2>6 DEF PairInv
    <2>8. PairValue = op.val
      <3>1. ValueOn(disk, parent) = LastCommitOn(disk, c)
        <4>1. disk[c].rev \in Revs /\ disk[o].rev \in Revs
          BY <1>3 DEF Disks
        <4>2. parent = <<c, o>> \/ parent = <<o, c>>
          BY <1>2, <1>3 DEF Linked
        <4>3. ValueOn(disk, <<c, o>>) = LastCommitOn(disk, c) /\ ValueOn(disk, <<o, c>>) = LastCommitOn(disk, c)
          BY <1>3, <4>1, TheBlockThatCounts
        <4> QED
          BY <4>2, <4>3
      <3>2. disk[c].units[2 * n + 2] = Crc(op.val)
        <4>1. Target[1] = c /\ Target[2] - 1 = 2 * n + 2
          BY <1>4, <1>5, <1>6
        <4> QED
          BY <1>6, <4>1, Zenon DEF CommitReads
      <3>3. LastCommitOn(disk, c) = Crc(op.val)[2]
        BY <2>1, <3>2, Zenon DEF LastCommitOn
      <3> QED
        BY <3>1, <3>3, OfThisDisk DEF Crc
    <2>9. Promised
      BY <1>1, <1>3, <2>3, <2>8, ValueKept, EndSeen
    <2> QED
      BY <2>7, <2>9
  <1>7. CASE /\ IF op.prog = 2 THEN ~CommitReads ELSE Target[2] > Units
             /\ op' = [op EXCEPT !.at = "compact", !.prog = 0]
             /\ UNCHANGED <<dir, handle>>
    <2>1. LogIs(disk[c].units, n)
      BY <1>4, <1>5, <1>7
    <2>2. LogEndOf(disk[c].units) = dir.off
      BY <1>5, <2>1, LogLength
    <2>3. /\ op' \in Commits /\ op'.at = "compact" /\ op'.val = op.val /\ op'.result = op.result
      <3>1. op' = [at |-> "compact", val |-> op.val, prog |-> 0, tried |-> op.tried,
                   relocated |-> op.relocated, result |-> op.result]
        BY <1>3, <1>7 DEF Commits
      <3> QED
        BY <1>3, <3>1 DEF Commits, Phases
    <2>4. Describes(handle, disk)
      BY <1>2, <1>3, <2>2 DEF Describes, Counts
    <2>5. Newer((dir.rev + 1) % RevModulus, disk[c].rev)
      BY <1>3, LaterIsNewer, LfsPairAssumption DEF Cycle, Copies
    <2>6. CompactInv'
      BY <1>1, <1>2, <1>3, <1>7, <2>3, <2>4, <2>5 DEF CompactInv, Linked, Describes
    <2>7. PairTypeOK' /\ dir'.pair[1] # dir'.pair[2]
      BY <1>1, <1>2, <1>7, <2>3 DEF PairTypeOK
    <2>8. IdleInv' /\ AppendInv' /\ ProgramInv' /\ RelocatedInv'
      BY <1>3, <2>3 DEF IdleInv, AppendInv, ProgramInv, RelocatedInv
    <2>9. PairInv'
      BY <1>1, <2>6, <2>7, <2>8 DEF PairInv
    <2>10. Promised
      BY <1>1, <2>3, ValueKept, NothingSeen
    <2> QED
      BY <2>9, <2>10
  <1> QED
    BY <1>6, <1>7 DEF AppendEnds

\* A compaction begins under the next revision.
LEMMA CompactBeginsStep ==
    PairInv /\ CompactBegins => PairInv' /\ Promised
  <1> SUFFICES ASSUME PairInv, CompactBegins PROVE PairInv' /\ Promised
    OBVIOUS
  <1>1. /\ PairTypeOK /\ IdleInv /\ CompactInv /\ op.at = "compact" /\ dir.pair[1] # dir.pair[2]
        /\ commits' = commits /\ parent' = parent /\ disk' = disk /\ handle' = handle
        /\ dir' = [dir EXCEPT !.rev = (@ + 1) % RevModulus]
        /\ op' = [op EXCEPT !.at = IF lfs_dir_needsrelocation THEN "tired" ELSE "erase"]
        /\ \A b \in PairBlocks : Shaped(disk[b].units)
        /\ parent # <<>> =>
              /\ parent[1] # parent[2]
              /\ Counts(disk, parent[1], parent[2]) \/ Counts(disk, parent[2], parent[1])
    BY DEF PairInv, CompactBegins
  <1>2. PICK c \in PairBlocks, t \in PairBlocks : dir.pair = <<c, t>> /\ c # t
    BY <1>1 DEF PairTypeOK, Copies
  <1>3. dir.rev \in Revs /\ (dir.rev + 1) % RevModulus \in Revs
    BY <1>1, LaterIsNewer, LfsPairAssumption DEF PairTypeOK, Copies, Cycle
  <1>4. dir' \in Copies /\ dir'.pair = dir.pair /\ dir'.rev = (dir.rev + 1) % RevModulus
    BY <1>1, <1>3 DEF PairTypeOK, Copies
  <1>5. /\ op' \in Commits /\ op'.at \in {"tired", "erase"} /\ op'.val = op.val
        /\ op'.relocated = op.relocated /\ op'.result = op.result
    BY <1>1 DEF Commits, PairTypeOK, Phases
  <1>6. CompactInv'
    BY <1>1, <1>2, <1>4, <1>5 DEF CompactInv, Linked, Describes
  <1>7. PairTypeOK' /\ dir'.pair[1] # dir'.pair[2]
    BY <1>1, <1>4, <1>5 DEF PairTypeOK
  <1>8. IdleInv' /\ AppendInv' /\ ProgramInv' /\ RelocatedInv'
    BY <1>1, <1>5 DEF IdleInv, AppendInv, ProgramInv, RelocatedInv
  <1>9. PairInv'
    BY <1>1, <1>6, <1>7, <1>8 DEF PairInv
  <1>10. Promised
    BY <1>1, <1>5, ValueKept, NothingSeen
  <1> QED
    BY <1>9, <1>10

\* The disk with every unit of block b alike.
Cleared(b, r, y) == [disk EXCEPT ![b] = [rev |-> r, units |-> [u \in 1 .. Units |-> y]]]

\* A block without a commit in place of the one that does not count leaves a linked
\* pair as it is.
LEMMA EraseKeeps ==
    ASSUME PairInv, op.at = "erase", NEW r \in Revs, NEW y \in {ErasedUnit, Junk},
           NEW e, e = Cleared(dir.pair[2], r, y)
    PROVE  /\ e \in Disks /\ \A b \in PairBlocks : Shaped(e[b].units)
           /\ LogIs(e[dir.pair[2]].units, 0) /\ \A b \in PairBlocks : b # dir.pair[2] => e[b] = disk[b]
           /\ parent # <<>> =>
                 /\ Counts(e, handle.pair[1], handle.pair[2])
                 /\ Counts(e, parent[1], parent[2]) \/ Counts(e, parent[2], parent[1])
                 /\ Describes(handle, e)
           /\ ValueOn(e, parent) = ValueOn(disk, parent)
  <1>1. PairTypeOK /\ CompactInv /\ dir.pair[1] # dir.pair[2] /\ \A b \in PairBlocks : Shaped(disk[b].units)
    BY DEF PairInv
  <1>2. PICK c \in PairBlocks, t \in PairBlocks : dir.pair = <<c, t>> /\ c # t
    BY <1>1 DEF PairTypeOK, Copies
  <1> DEFINE units == [u \in 1 .. Units |-> y]
  <1>3. units \in BlockUnits /\ Shaped(units) /\ LogIs(units, 0)
    BY NoLog
  <1>4. e = [disk EXCEPT ![t] = [rev |-> r, units |-> units]]
    BY <1>2 DEF Cleared
  <1> HIDE DEF units
  <1>5. /\ e \in Disks /\ e[t].units = units /\ \A b \in PairBlocks : b # t => e[b] = disk[b]
        /\ disk \in Disks
    <2>1. disk \in Disks
      BY <1>1 DEF PairTypeOK
    <2>2. PICK block : block = [rev |-> r, units |-> units]
      OBVIOUS
    <2>3. block \in [rev : Revs, units : BlockUnits] /\ block.units = units
      BY <1>3, <2>2
    <2>4. e = [disk EXCEPT ![t] = block]
      BY <1>4, <2>2
    <2> QED
      BY <2>1, <2>3, <2>4 DEF Disks
  <1>6. ~HasCommitOn(e, t)
    <2>1. LogIs(e[t].units, 0)
      BY <1>3, <1>5
    <2>2. HasCommitOn(e, t) <=> 0 >= 1
      BY <2>1, HasCommitIs
    <2> QED
      BY <2>2
  <1>7. \A b \in PairBlocks : Shaped(e[b].units)
    BY <1>1, <1>3, <1>5
  <1>8. /\ e \in Disks /\ \A b \in PairBlocks : Shaped(e[b].units)
        /\ LogIs(e[dir.pair[2]].units, 0) /\ \A b \in PairBlocks : b # dir.pair[2] => e[b] = disk[b]
    BY <1>2, <1>3, <1>5, <1>7
  <1>9. parent = <<>> => ValueOn(e, parent) = ValueOn(disk, parent)
    BY DEF ValueOn
  <1>10. ASSUME parent # <<>>
         PROVE  /\ Counts(e, handle.pair[1], handle.pair[2])
                /\ Counts(e, parent[1], parent[2]) \/ Counts(e, parent[2], parent[1])
                /\ Describes(handle, e) /\ ValueOn(e, parent) = ValueOn(disk, parent)
    <2>1. /\ Linked(handle) /\ Describes(handle, disk) /\ handle.pair[1] = c
          /\ Counts(disk, handle.pair[1], handle.pair[2])
          /\ (t = handle.pair[2] \/ t \notin {parent[1], parent[2]})
      BY <1>1, <1>2, <1>10 DEF CompactInv
    <2>2. PICK o \in PairBlocks : handle.pair = <<c, o>>
      BY <1>1, <2>1 DEF PairTypeOK, Copies
    <2>3. /\ parent = <<c, o>> \/ parent = <<o, c>>
          /\ Counts(disk, c, o) /\ e[c] = disk[c] /\ (e[o] = disk[o] \/ ~HasCommitOn(e, o))
      BY <1>2, <1>5, <1>6, <2>1, <2>2 DEF Linked
    <2>4. Counts(e, c, o) /\ ValueOn(e, parent) = ValueOn(disk, parent)
      BY <1>2, <1>5, <2>2, <2>3, TheOtherBlockChanges
    <2>5. Describes(handle, e)
      BY <2>1, <2>2, <2>3 DEF Describes, HasCommitOn
    <2> QED
      BY <2>2, <2>3, <2>4, <2>5
  <1> QED
    BY <1>8, <1>9, <1>10

\* The erase operation succeeds, or shows the block to be bad.
LEMMA EraseStep ==
    PairInv /\ lfs_bd_erase => PairInv' /\ Promised
  <1> SUFFICES ASSUME PairInv, lfs_bd_erase PROVE PairInv' /\ Promised
    OBVIOUS
  <1>1. /\ PairTypeOK /\ IdleInv /\ CompactInv /\ op.at = "erase" /\ dir.pair[1] # dir.pair[2]
        /\ commits' = commits /\ parent' = parent /\ handle' = handle /\ dir' = dir
        /\ \A b \in PairBlocks : Shaped(disk[b].units)
        /\ parent # <<>> =>
              /\ parent[1] # parent[2]
              /\ Counts(disk, parent[1], parent[2]) \/ Counts(disk, parent[2], parent[1])
    BY DEF PairInv, lfs_bd_erase
  <1>2. PICK c \in PairBlocks, t \in PairBlocks : dir.pair = <<c, t>> /\ c # t
    BY <1>1 DEF PairTypeOK, Copies
  <1>3. CASE /\ disk' = [disk EXCEPT ![EraseTarget] = ErasedBlock]
             /\ op' = [op EXCEPT !.at = "program", !.prog = 0]
    <2>1. RevModulus - 1 \in Revs
      BY LfsPairAssumption DEF Revs, Cycle
    <2>2. PICK e : e = disk'
      OBVIOUS
    <2>3. e = [disk EXCEPT ![dir.pair[2]] = [rev |-> RevModulus - 1, units |-> [u \in 1 .. Units |-> ErasedUnit]]]
      BY <1>3, <2>2 DEF EraseTarget, ErasedBlock
    <2>4. /\ e \in Disks /\ \A b \in PairBlocks : Shaped(e[b].units)
          /\ LogIs(e[t].units, 0) /\ \A b \in PairBlocks : b # t => e[b] = disk[b]
          /\ parent # <<>> =>
                /\ Counts(e, handle.pair[1], handle.pair[2])
                /\ Counts(e, parent[1], parent[2]) \/ Counts(e, parent[2], parent[1])
                /\ Describes(handle, e)
          /\ ValueOn(e, parent) = ValueOn(disk, parent)
      <3>1. PICK y \in {ErasedUnit, Junk}, r \in Revs : y = ErasedUnit /\ r = RevModulus - 1
        BY <2>1
      <3>2. e = Cleared(dir.pair[2], r, y)
        BY <2>3, <3>1 DEF Cleared
      <3> QED
        BY <1>1, <1>2, <3>2, EraseKeeps
    <2>5. /\ op' \in Commits /\ op'.at = "program" /\ op'.prog = 0 /\ op'.val = op.val
          /\ op'.relocated = op.relocated /\ op'.result = op.result
      <3>1. op' = [at |-> "program", val |-> op.val, prog |-> 0, tried |-> op.tried,
                   relocated |-> op.relocated, result |-> op.result]
        BY <1>1, <1>3 DEF Commits, PairTypeOK
      <3> QED
        BY <1>1, <3>1 DEF Commits, PairTypeOK, Phases
    <2>6. PairTypeOK'
      BY <1>1, <2>2, <2>4, <2>5 DEF PairTypeOK
    <2>7. ProgramInv'
      BY <1>1, <1>2, <2>2, <2>4, <2>5 DEF ProgramInv, Writing
    <2>8. CompactInv'
      <3>1. Newer(dir'.rev, e[c].rev)
        BY <1>1, <1>2, <2>4 DEF CompactInv
      <3>2. parent # <<>> => Linked(handle)'
        BY <1>1 DEF CompactInv, Linked
      <3> QED
        BY <1>1, <1>2, <2>2, <2>4, <2>5, <3>1, <3>2 DEF CompactInv
    <2>9. IdleInv' /\ AppendInv' /\ RelocatedInv'
      BY <1>1, <2>5 DEF IdleInv, AppendInv, RelocatedInv
    <2>10. PairInv'
      BY <1>1, <2>2, <2>4, <2>6, <2>7, <2>8, <2>9 DEF PairInv
    <2>11. Promised
      BY <1>1, <2>2, <2>4, <2>5, OfThisDisk, OfTheNextDisk, NothingSeen
    <2> QED
      BY <2>10, <2>11
  <1>4. CASE disk' = disk /\ op' = [op EXCEPT !.at = "bad"]
    <2>1. /\ op' \in Commits /\ op'.at = "bad" /\ op'.val = op.val
          /\ op'.relocated = op.relocated /\ op'.result = op.result
      BY <1>1, <1>4 DEF Commits, PairTypeOK, Phases
    <2>2. PairTypeOK'
      BY <1>1, <1>4, <2>1 DEF PairTypeOK
    <2>3. CompactInv'
      BY <1>1, <1>4, <2>1 DEF CompactInv, Linked, Describes
    <2>4. IdleInv' /\ AppendInv' /\ ProgramInv' /\ RelocatedInv'
      BY <1>1, <2>1 DEF IdleInv, AppendInv, ProgramInv, RelocatedInv
    <2>5. PairInv'
      BY <1>1, <1>4, <2>2, <2>3, <2>4 DEF PairInv
    <2> QED
      BY <1>1, <1>4, <2>1, <2>5, ValueKept, NothingSeen
  <1> QED
    BY <1>3, <1>4 DEF lfs_bd_erase

\* A compaction that reads back is the pair, or waits for the parent to be told; one
\* that does not shows the block to be bad.
LEMMA CompactEndsStep ==
    PairInv /\ CompactEnds => PairInv' /\ Promised
  <1> SUFFICES ASSUME PairInv, CompactEnds PROVE PairInv' /\ Promised
    OBVIOUS
  <1>1. /\ PairTypeOK /\ IdleInv /\ CompactInv /\ ProgramInv /\ op.at = "program" /\ op.prog = 2
        /\ dir.pair[1] # dir.pair[2]
        /\ commits' = commits /\ parent' = parent /\ disk' = disk
        /\ \A b \in PairBlocks : Shaped(disk[b].units)
        /\ parent # <<>> =>
              /\ parent[1] # parent[2]
              /\ Counts(disk, parent[1], parent[2]) \/ Counts(disk, parent[2], parent[1])
    BY DEF PairInv, CompactEnds
  <1>2. PICK c \in PairBlocks, t \in PairBlocks : dir.pair = <<c, t>> /\ c # t
    BY <1>1 DEF PairTypeOK, Copies
  <1>3. /\ op.val \in Nat /\ op.val # Nothing /\ disk \in Disks /\ dir \in Copies /\ op \in Commits
        /\ disk[c].rev \in Revs /\ disk[t].rev \in Revs
    BY <1>1, LfsPairAssumption DEF IdleInv, PairTypeOK, Commits, Disks
  <1>4. disk[t].rev = dir.rev /\ Newer(dir.rev, disk[c].rev)
    BY <1>1, <1>2 DEF ProgramInv, CompactInv
  <1>5. IF CommitReads THEN LogIs(disk[t].units, 1) ELSE LogIs(disk[t].units, 0)
    <2>1. PICK n \in Nat : /\ 0 = 2 * n
                           /\ IF CommitReads THEN LogIs(disk[t].units, n + 1) ELSE LogIs(disk[t].units, n)
      BY <1>1, <1>2 DEF ProgramInv, Writing
    <2>2. n = 0 /\ n + 1 = 1
      BY <2>1
    <2> QED
      BY <2>1, <2>2
  <1>6. CASE CommitReads
    <2>1. /\ dir' = [dir EXCEPT !.pair = <<dir.pair[2], dir.pair[1]>>, !.off = 2] /\ handle' = dir'
          /\ op' = IF op.relocated THEN [op EXCEPT !.at = "relocated"] ELSE Idle("ok")
      BY <1>6 DEF CompactEnds
    <2>2. /\ dir'.pair = <<t, c>> /\ dir'.rev = dir.rev /\ dir'.off = 2 /\ dir' \in Copies
          /\ dir'.pair[1] = t /\ dir'.pair[2] = c
      <3>1. PICK rev \in Revs, off \in Nat, erased \in BOOLEAN :
                dir = [pair |-> <<c, t>>, rev |-> rev, off |-> off, erased |-> erased]
        BY <1>2, <1>3 DEF Copies
      <3>2. dir' = [pair |-> <<t, c>>, rev |-> rev, off |-> 2, erased |-> erased]
        BY <2>1, <3>1
      <3> QED
        BY <3>1, <3>2 DEF Copies
    <2>3. dir' \in Copies
      BY <2>2
    <2>4. LogEndOf(disk[t].units) = 2
      <3>1. LogEndOf(disk[t].units) = 2 * 1
        BY <1>5, <1>6, LogLength
      <3> QED
        BY <3>1
    <2>5. HasCommitOn(disk, t)
      <3>1. HasCommitOn(disk, t) <=> 1 >= 1
        BY <1>5, <1>6, HasCommitIs
      <3> QED
        BY <3>1
    <2>6. Counts(disk, t, c)
      BY <1>4, <2>5 DEF Counts
    <2>7. Describes(dir', disk')
      BY <1>1, <1>4, <2>2, <2>4, <2>5 DEF Describes
    <2>8. LastCommitOn(disk, t) = op.val
      <3>1. disk[t].units[2] = Crc(op.val)
        <4>1. Target[1] = t /\ Target[2] - 1 = 2
          BY <1>1, <1>2 DEF Target
        <4> QED
          BY <1>6, <4>1, Zenon DEF CommitReads
      <3>2. LastCommitOn(disk, t) = Crc(op.val)[2]
        BY <2>4, <3>1, Zenon DEF LastCommitOn
      <3> QED
        BY <3>2 DEF Crc
    <2>9. CASE op.relocated
      <3>1. /\ op' \in Commits /\ op'.at = "relocated" /\ op'.val = op.val /\ op'.result = op.result
        BY <1>3, <2>1, <2>9 DEF Commits, Phases
      <3>2. RelocatedInv'
        BY <1>1, <2>1, <2>2, <2>6, <2>7, <2>8, <3>1 DEF RelocatedInv
      <3>3. IdleInv' /\ AppendInv' /\ CompactInv' /\ ProgramInv'
        BY <1>1, <3>1 DEF IdleInv, AppendInv, CompactInv, ProgramInv
      <3>4. PairTypeOK' /\ dir'.pair[1] # dir'.pair[2]
        BY <1>1, <1>2, <2>1, <2>2, <2>3, <3>1 DEF PairTypeOK
      <3>5. PairInv'
        BY <1>1, <3>2, <3>3, <3>4 DEF PairInv
      <3> QED
        BY <1>1, <3>1, <3>5, ValueKept, NothingSeen
    <2>10. CASE ~op.relocated
      <3>1. /\ op' \in Commits /\ op'.at = "idle" /\ op'.val = Nothing /\ op'.result = "ok"
        BY <2>1, <2>10 DEF Commits, Phases, Idle
      <3>2. parent # <<>> /\ (parent = <<c, t>> \/ parent = <<t, c>>)
        BY <1>1, <1>2, <2>10 DEF CompactInv, Linked
      <3>3. Linked(handle)'
        BY <1>1, <2>1, <2>2, <3>2 DEF Linked
      <3>4. IdleInv' /\ AppendInv' /\ CompactInv' /\ ProgramInv' /\ RelocatedInv'
        BY <1>1, <2>1, <2>2, <2>6, <2>7, <3>1, <3>3
        DEF IdleInv, AppendInv, CompactInv, ProgramInv, RelocatedInv
      <3>5. PairTypeOK' /\ dir'.pair[1] # dir'.pair[2]
        BY <1>1, <1>2, <2>1, <2>2, <2>3, <3>1 DEF PairTypeOK
      <3>6. PairInv'
        BY <1>1, <3>4, <3>5 DEF PairInv
      <3>7. ValueOn(disk, parent) = op.val
        <4>1. ValueOn(disk, <<t, c>>) = LastCommitOn(disk, t) /\ ValueOn(disk, <<c, t>>) = LastCommitOn(disk, t)
          BY <1>3, <2>6, TheBlockThatCounts
        <4> QED
          BY <2>8, <3>2, <4>1
      <3>8. PairValue' = PairValue /\ PairValue = op.val
        BY <1>1, <3>7, ValueKept, OfThisDisk
      <3> QED
        BY <1>3, <3>1, <3>6, <3>8, EndSeen
    <2> QED
      BY <2>9, <2>10
  <1>7. CASE ~CommitReads
    <2>1. op' = [op EXCEPT !.at = "bad"] /\ dir' = dir /\ handle' = handle
      BY <1>7 DEF CompactEnds
    <2>2. /\ op' \in Commits /\ op'.at = "bad" /\ op'.val = op.val
          /\ op'.relocated = op.relocated /\ op'.result = op.result
      BY <1>3, <2>1 DEF Commits, Phases
    <2>3. PairTypeOK'
      BY <1>1, <2>1, <2>2 DEF PairTypeOK
    <2>4. CompactInv'
      BY <1>1, <1>7, <2>1, <2>2 DEF CompactInv, Linked, Describes
    <2>5. IdleInv' /\ AppendInv' /\ ProgramInv' /\ RelocatedInv'
      BY <1>1, <2>2 DEF IdleInv, AppendInv, ProgramInv, RelocatedInv
    <2>6. PairInv'
      BY <1>1, <2>1, <2>3, <2>4, <2>5 DEF PairInv
    <2> QED
      BY <1>1, <2>2, <2>6, ValueKept, NothingSeen
  <1> QED
    BY <1>6, <1>7

\* Half of the pair is replaced by a block that is in use nowhere, or the commit goes
\* on with what it has, or fails.
LEMMA RelocateHalfStep ==
    PairInv /\ RelocateHalf => PairInv' /\ Promised
  <1> SUFFICES ASSUME PairInv, RelocateHalf PROVE PairInv' /\ Promised
    OBVIOUS
  <1>1. /\ PairTypeOK /\ IdleInv /\ CompactInv /\ op.at \in {"tired", "bad"} /\ dir.pair[1] # dir.pair[2]
        /\ commits' = commits /\ parent' = parent /\ disk' = disk /\ handle' = handle
        /\ \A b \in PairBlocks : Shaped(disk[b].units)
        /\ parent # <<>> =>
              /\ parent[1] # parent[2]
              /\ Counts(disk, parent[1], parent[2]) \/ Counts(disk, parent[2], parent[1])
    BY DEF PairInv, RelocateHalf
  <1>2. PICK c \in PairBlocks, t \in PairBlocks : dir.pair = <<c, t>> /\ c # t
    BY <1>1 DEF PairTypeOK, Copies
  <1>3. op.val \in Nat /\ op.val # Nothing /\ dir \in Copies /\ op \in Commits
    BY <1>1, LfsPairAssumption DEF IdleInv, PairTypeOK, Commits
  <1>4. ASSUME NEW b \in Allocatable,
               dir' = [dir EXCEPT !.pair[2] = b],
               op' = [op EXCEPT !.at = "erase", !.relocated = TRUE, !.tried = @ \cup {dir.pair[2]}]
        PROVE  PairInv' /\ Promised
    <2>1. b \in PairBlocks /\ b # c /\ b # t /\ (parent # <<>> => b \notin {parent[1], parent[2]})
      <3>1. b \in PairBlocks /\ b # c /\ b # t /\ b \notin {parent[i] : i \in DOMAIN parent}
        BY <1>2 DEF Allocatable
      <3>2. parent # <<>> => DOMAIN parent = 1 .. 2
        BY <1>1 DEF PairTypeOK
      <3> QED
        BY <3>1, <3>2
    <2>2. dir' = [pair |-> <<c, b>>, rev |-> dir.rev, off |-> dir.off, erased |-> dir.erased]
      <3>1. PICK rev, off, erased : dir = [pair |-> <<c, t>>, rev |-> rev, off |-> off, erased |-> erased]
        BY <1>2, <1>3 DEF Copies
      <3> QED
        BY <1>4, <3>1
    <2>3. dir' \in Copies
      BY <1>3, <2>1, <2>2 DEF Copies
    <2>4. op' = [at |-> "erase", val |-> op.val, prog |-> op.prog, tried |-> op.tried \cup {t},
                 relocated |-> TRUE, result |-> op.result]
      <3>1. PICK o : o = op /\ o = [at |-> op.at, val |-> op.val, prog |-> op.prog, tried |-> op.tried,
                                    relocated |-> op.relocated, result |-> op.result]
        BY <1>3 DEF Commits
      <3>2. op' = [o EXCEPT !.at = "erase", !.relocated = TRUE, !.tried = op.tried \cup {t}]
        BY <1>2, <1>4, <3>1
      <3> QED
        BY <3>1, <3>2
    <2>5. op' \in Commits
      BY <1>3, <2>4 DEF Commits, Phases
    <2>6. PairTypeOK' /\ dir'.pair[1] # dir'.pair[2]
      BY <1>1, <2>1, <2>2, <2>3, <2>5 DEF PairTypeOK
    <2>7. CompactInv'
      BY <1>1, <1>2, <2>1, <2>2, <2>4 DEF CompactInv, Linked, Describes
    <2>8. IdleInv' /\ AppendInv' /\ ProgramInv' /\ RelocatedInv'
      BY <1>3, <2>4 DEF IdleInv, AppendInv, ProgramInv, RelocatedInv
    <2>9. PairInv'
      BY <1>1, <2>6, <2>7, <2>8 DEF PairInv
    <2> QED
      BY <1>1, <2>4, <2>9, ValueKept, NothingSeen
  <1>5. CASE op.at = "bad" /\ op' = Idle("error") /\ dir' = dir
    <2>1. /\ op' \in Commits /\ op'.at = "idle" /\ op'.val = Nothing /\ op'.result = "error"
      BY <1>5 DEF Commits, Phases, Idle
    <2>2. PairTypeOK'
      BY <1>1, <1>5, <2>1 DEF PairTypeOK
    <2>3. IdleInv'
      BY <1>1, <1>5, <2>1 DEF IdleInv, CompactInv, Linked, Describes
    <2>4. CompactInv' /\ AppendInv' /\ ProgramInv' /\ RelocatedInv'
      BY <2>1 DEF CompactInv, AppendInv, ProgramInv, RelocatedInv
    <2>5. PairInv'
      BY <1>1, <1>5, <2>2, <2>3, <2>4 DEF PairInv
    <2> QED
      BY <1>1, <1>3, <2>1, <2>5, ValueKept, EndSeen
  <1>6. CASE op.at # "bad" /\ op' = [op EXCEPT !.at = "erase", !.relocated = TRUE] /\ dir' = dir
    <2>1. op' = [at |-> "erase", val |-> op.val, prog |-> op.prog, tried |-> op.tried,
                 relocated |-> TRUE, result |-> op.result]
      BY <1>3, <1>6 DEF Commits
    <2>2. op' \in Commits
      BY <1>3, <2>1 DEF Commits, Phases
    <2>3. PairTypeOK'
      BY <1>1, <1>6, <2>2 DEF PairTypeOK
    <2>4. CompactInv'
      BY <1>1, <1>6, <2>1 DEF CompactInv, Linked, Describes
    <2>5. IdleInv' /\ AppendInv' /\ ProgramInv' /\ RelocatedInv'
      BY <1>3, <2>1 DEF IdleInv, AppendInv, ProgramInv, RelocatedInv
    <2>6. PairInv'
      BY <1>1, <1>6, <2>3, <2>4, <2>5 DEF PairInv
    <2> QED
      BY <1>1, <2>1, <2>6, ValueKept, NothingSeen
  <1> QED
    BY <1>4, <1>5, <1>6 DEF RelocateHalf

\* The parent is told the new address, under which the new commit is found.
LEMMA RelinkStep ==
    PairInv /\ Relink => PairInv' /\ Promised
  <1> SUFFICES ASSUME PairInv, Relink PROVE PairInv' /\ Promised
    OBVIOUS
  <1>1. /\ PairTypeOK /\ IdleInv /\ RelocatedInv /\ op.at = "relocated" /\ dir.pair[1] # dir.pair[2]
        /\ commits' = commits /\ parent' = dir.pair /\ disk' = disk /\ handle' = handle /\ dir' = dir
        /\ op' = Idle("ok")
        /\ \A b \in PairBlocks : Shaped(disk[b].units)
    BY DEF PairInv, Relink
  <1>2. PICK c \in PairBlocks, t \in PairBlocks : dir.pair = <<c, t>> /\ c # t
    BY <1>1 DEF PairTypeOK, Copies
  <1>3. /\ op.val \in Nat /\ op.val # Nothing /\ disk[c].rev \in Revs /\ disk[t].rev \in Revs
    BY <1>1, LfsPairAssumption DEF IdleInv, PairTypeOK, Commits, Disks
  <1>4. Describes(dir, disk) /\ Counts(disk, c, t) /\ LastCommitOn(disk, c) = op.val
    BY <1>1, <1>2 DEF RelocatedInv
  <1>5. op' \in Commits /\ op'.at = "idle" /\ op'.val = Nothing /\ op'.result = "ok"
    BY <1>1 DEF Commits, Phases, Idle
  <1>6. PairTypeOK'
    BY <1>1, <1>2, <1>5 DEF PairTypeOK
  <1>7. handle = dir
    BY <1>1 DEF RelocatedInv
  <1>8. IdleInv'
    BY <1>1, <1>2, <1>4, <1>5, <1>7 DEF IdleInv, Linked, Describes
  <1>9. CompactInv' /\ AppendInv' /\ ProgramInv' /\ RelocatedInv'
    BY <1>5 DEF CompactInv, AppendInv, ProgramInv, RelocatedInv
  <1>10. PairInv'
    BY <1>1, <1>2, <1>4, <1>6, <1>8, <1>9 DEF PairInv
  <1>11. PairValue' = op.val
    <2>1. ValueOn(disk, <<c, t>>) = op.val
      BY <1>1, <1>2, <1>3, <1>4, TheBlockThatCounts DEF PairTypeOK
    <2> QED
      BY <1>1, <1>2, <2>1, OfTheNextDisk
  <1> QED
    BY <1>3, <1>5, <1>10, <1>11, EndSeen

\* A revision that a power loss left half written is a revision.
LEMMA TornRevsAreRevs ==
    ASSUME PairTypeOK
    PROVE  TornRevs \in SUBSET Revs
  <1>1. ASSUME NEW k \in {1, RevModulus \div 2, RevModulus - 2} PROVE (dir.rev + k) % RevModulus \in Revs
    <2>1. RevModulus \in Nat \ {0} /\ dir.rev \in Int /\ k \in Int
      BY LfsPairAssumption DEF PairTypeOK, Copies, Revs, Cycle
    <2>2. PICK q \in Int, s \in 0 .. RevModulus - 1 : s = (dir.rev + k) % RevModulus
      BY <2>1, DivMod
    <2> QED
      BY <2>2 DEF Revs
  <1> QED
    BY <1>1 DEF TornRevs

\* The power fails.
LEMMA PowerLossStep ==
    PairInv /\ PowerLoss => PairInv' /\ Promised
  <1> SUFFICES ASSUME PairInv, PowerLoss PROVE PairInv' /\ Promised
    OBVIOUS
  <1>1. /\ PairTypeOK /\ IdleInv /\ AppendInv /\ CompactInv /\ ProgramInv /\ RelocatedInv /\ op.at # "off"
        /\ dir.pair[1] # dir.pair[2] /\ disk' \in Torn
        /\ commits' = commits /\ parent' = parent /\ handle' = handle /\ dir' = dir
        /\ op' = [Idle(IF op.at = "idle" THEN op.result ELSE "lost") EXCEPT !.at = "off"]
        /\ \A b \in PairBlocks : Shaped(disk[b].units)
        /\ parent # <<>> =>
              /\ parent[1] # parent[2]
              /\ Counts(disk, parent[1], parent[2]) \/ Counts(disk, parent[2], parent[1])
    BY DEF PairInv, PowerLoss
  <1>2. PICK c \in PairBlocks, t \in PairBlocks : dir.pair = <<c, t>> /\ c # t
    BY <1>1 DEF PairTypeOK, Copies
  <1>3. /\ disk \in Disks /\ dir \in Copies /\ op \in Commits
        /\ op.at # "idle" => op.val \in Nat /\ op.val # Nothing
    BY <1>1, LfsPairAssumption DEF IdleInv, PairTypeOK, Commits
  <1>4. PICK e : e = disk'
    OBVIOUS
  <1> DEFINE kept == /\ e \in Disks /\ \A b \in PairBlocks : Shaped(e[b].units)
                     /\ parent # <<>> => Counts(e, parent[1], parent[2]) \/ Counts(e, parent[2], parent[1])
                     /\ ValueOn(e, parent) = ValueOn(disk, parent)
  <1>5. e = disk => kept
    BY <1>1, <1>3
  <1>6. ASSUME op.at \in {"append", "program"}, op.prog < 2, Target[2] <= Units,
               NEW r, r \in IF Target[2] = 1 THEN TornRevs ELSE {disk[Target[1]].rev},
               e = [Written(Junk) EXCEPT ![Target[1]].rev = r]
        PROVE  kept
    <2>1. op.prog \in {0, 1} /\ dir.off \in Nat
      BY <1>3, <1>6 DEF Commits, Copies
    <2>2. CASE op.at = "append"
      <3>1. /\ Target = <<c, dir.off + op.prog + 1>> /\ dir.off # 0 /\ parent # <<>> /\ Linked(dir)
        BY <1>1, <1>2, <2>2 DEF Target, AppendInv
      <3>2. Target[2] \in 1 .. Units /\ Target[2] # 1 /\ r = disk[c].rev
        BY <1>6, <2>1, <3>1, LfsPairAssumption
      <3>3. e = WithUnit(c, disk[c].rev, Target[2], Junk)
        <4>1. Target = <<c, Target[2]>>
          BY <3>1
        <4>2. \A q : [Written(Junk) EXCEPT ![Target[1]].rev = q] = WithUnit(c, q, Target[2], Junk)
          BY <1>1, <3>2, <4>1, WrittenUnits
        <4> QED
          BY <1>6, <3>2, <4>2
      <3>4. PICK x \in {Junk, NextUnit} : x = Junk
        OBVIOUS
      <3>5. /\ e \in Disks /\ \A b \in PairBlocks : Shaped(e[b].units)
            /\ Counts(e, c, t) /\ ValueOn(e, parent) = ValueOn(disk, parent)
        <4>1. op.prog < 2 /\ Target[2] <= Units
          BY <1>6
        <4>2. e = WithUnit(dir.pair[1], disk[dir.pair[1]].rev, Target[2], x)
          BY <1>2, <3>3, <3>4
        <4>3. /\ e \in Disks /\ \A b \in PairBlocks : Shaped(e[b].units)
              /\ Counts(e, dir.pair[1], dir.pair[2])
              /\ x = Junk => ValueOn(e, parent) = ValueOn(disk, parent)
          BY <2>2, <4>1, <4>2, AppendKeeps
        <4> QED
          BY <1>2, <3>4, <4>3
      <3> QED
        BY <1>2, <3>1, <3>5 DEF Linked
    <2>3. CASE op.at = "program"
      <3>1. Target = <<t, op.prog + 1>>
        BY <1>2, <2>3 DEF Target
      <3>2. Target[2] \in 1 .. Units /\ r \in Revs
        BY <1>1, <1>3, <1>6, <2>1, <3>1, TornRevsAreRevs, LfsPairAssumption DEF Disks
      <3>3. e = WithUnit(t, r, Target[2], Junk)
        <4>1. Target = <<t, Target[2]>>
          BY <3>1
        <4>2. \A q : [Written(Junk) EXCEPT ![Target[1]].rev = q] = WithUnit(t, q, Target[2], Junk)
          BY <1>1, <3>2, <4>1, WrittenUnits
        <4> QED
          BY <1>6, <4>2
      <3>4. PICK x \in {Junk, NextUnit} : x = Junk
        OBVIOUS
      <3>5. /\ e \in Disks /\ \A b \in PairBlocks : Shaped(e[b].units)
            /\ parent # <<>> => /\ Counts(e, handle.pair[1], handle.pair[2])
                                /\ ValueOn(e, parent) = ValueOn(disk, parent)
        <4>1. op.prog < 2 /\ Target[2] <= Units /\ r \in Revs
          BY <1>6, <3>2
        <4>2. e = WithUnit(dir.pair[2], r, Target[2], x)
          BY <1>2, <3>3, <3>4
        <4>3. /\ e \in Disks /\ \A b \in PairBlocks : Shaped(e[b].units)
              /\ x = Junk /\ parent # <<>> => /\ Counts(e, handle.pair[1], handle.pair[2])
                                             /\ ValueOn(e, parent) = ValueOn(disk, parent)
          BY <2>3, <4>1, <4>2, CompactionKeeps
        <4> QED
          BY <3>4, <4>3
      <3>6. parent # <<>> => Linked(handle)
        BY <1>1, <2>3 DEF CompactInv
      <3>7. CASE parent = <<>>
        BY <3>5, <3>7 DEF ValueOn
      <3>8. CASE parent # <<>>
        BY <3>5, <3>6, <3>8 DEF Linked
      <3> QED
        BY <3>7, <3>8
    <2> QED
      BY <1>6, <2>2, <2>3
  <1>7. ASSUME op.at = "erase", NEW r \in TornRevs,
               e = [disk EXCEPT ![EraseTarget] = [rev |-> r, units |-> [u \in 1 .. Units |-> Junk]]]
        PROVE  kept
    <2>1. PICK y \in {ErasedUnit, Junk}, q \in Revs : y = Junk /\ q = r
      BY <1>1, TornRevsAreRevs
    <2>2. e = Cleared(dir.pair[2], q, y)
      BY <1>7, <2>1 DEF Cleared, EraseTarget
    <2> QED
      <3>1. op.at = "erase"
        BY <1>7
      <3>2. /\ e \in Disks /\ \A b \in PairBlocks : Shaped(e[b].units)
            /\ parent # <<>> => Counts(e, parent[1], parent[2]) \/ Counts(e, parent[2], parent[1])
            /\ ValueOn(e, parent) = ValueOn(disk, parent)
        BY <2>2, <3>1, EraseKeeps
      <3> QED
        BY <3>2
  <1>8. kept
    <2>1. CASE op.at \in {"append", "program"} /\ op.prog < 2 /\ Target[2] <= Units
      BY <1>1, <1>4, <1>5, <1>6, <2>1 DEF Torn
    <2>2. CASE op.at = "erase"
      BY <1>1, <1>4, <1>5, <1>7, <2>2 DEF Torn
    <2>3. CASE ~(op.at \in {"append", "program"} /\ op.prog < 2 /\ Target[2] <= Units) /\ op.at # "erase"
      BY <1>1, <1>4, <1>5, <2>3 DEF Torn
    <2> QED
      BY <2>1, <2>2, <2>3
  <1>9. /\ op' \in Commits /\ op'.at = "off" /\ op'.val = Nothing
        /\ op'.result = IF op.at = "idle" THEN op.result ELSE "lost"
    <2>1. op' = [at |-> "off", val |-> Nothing, prog |-> 0, tried |-> {}, relocated |-> FALSE,
                 result |-> IF op.at = "idle" THEN op.result ELSE "lost"]
      BY <1>1 DEF Idle
    <2> QED
      BY <1>3, <2>1 DEF Commits, Phases
  <1>10. PairTypeOK'
    BY <1>1, <1>4, <1>8, <1>9 DEF PairTypeOK
  <1>11. IdleInv' /\ CompactInv' /\ AppendInv' /\ ProgramInv' /\ RelocatedInv'
    BY <1>9 DEF IdleInv, CompactInv, AppendInv, ProgramInv, RelocatedInv
  <1>12. PairInv'
    BY <1>1, <1>4, <1>8, <1>10, <1>11 DEF PairInv
  <1>13. PairValue' = PairValue
    BY <1>1, <1>4, <1>8, OfThisDisk, OfTheNextDisk
  <1>14. Promised
    <2>1. CASE op.at = "idle"
      <3>1. op.val = Nothing
        BY <1>1, <2>1 DEF IdleInv
      <3> QED
        BY <1>9, <1>13, <2>1, <3>1, NothingSeen
    <2>2. CASE op.at # "idle"
      BY <1>3, <1>9, <1>13, <2>2, EndSeen
    <2> QED
      BY <2>1, <2>2
  <1> QED
    BY <1>12, <1>14

\* A mount reads the pair again.
LEMMA MountStep ==
    PairInv /\ MountPair => PairInv' /\ Promised
  <1> SUFFICES ASSUME PairInv, MountPair PROVE PairInv' /\ Promised
    OBVIOUS
  <1>1. /\ PairTypeOK /\ IdleInv /\ op.at = "off" /\ op.val = Nothing /\ op \in Commits
        /\ commits' = commits /\ parent' = parent /\ disk' = disk /\ handle' = dir'
        /\ dir' = IF parent = <<>> THEN lfs_dir_alloc ELSE lfs_dir_fetch(parent)
        /\ op' = Idle(op.result)
        /\ \A b \in PairBlocks : Shaped(disk[b].units)
        /\ parent # <<>> =>
              /\ parent[1] # parent[2]
              /\ Counts(disk, parent[1], parent[2]) \/ Counts(disk, parent[2], parent[1])
    BY DEF PairInv, MountPair, IdleInv, PairTypeOK
  <1>2. op' \in Commits /\ op'.at = "idle" /\ op'.val = Nothing /\ op'.result = op.result
    BY <1>1 DEF Commits, Phases, Idle
  <1>3. CASE parent = <<>>
    <2>1. dir' \in Copies /\ dir'.pair = <<1, 2>>
      BY <1>1, <1>3, AllocDescribes
    <2>2. PairTypeOK'
      BY <1>1, <1>2, <2>1 DEF PairTypeOK
    <2>3. IdleInv' /\ CompactInv' /\ AppendInv' /\ ProgramInv' /\ RelocatedInv'
      BY <1>1, <1>2, <1>3 DEF IdleInv, CompactInv, AppendInv, ProgramInv, RelocatedInv
    <2> QED
      BY <1>1, <1>2, <1>3, <2>1, <2>2, <2>3, ValueKept, NothingSeen DEF PairInv
  <1>4. CASE parent # <<>>
    <2>1. PICK h : h = lfs_dir_fetch(parent)
      OBVIOUS
    <2>2. h \in Copies /\ Linked(h) /\ Describes(h, disk) /\ Counts(disk, h.pair[1], h.pair[2])
      BY <1>1, <1>4, <2>1, FetchDescribes
    <2>3. dir' = h /\ handle' = h
      BY <1>1, <1>4, <2>1
    <2>4. h.pair[1] # h.pair[2]
      BY <1>1, <1>4, <2>2 DEF Linked, Copies
    <2>5. PairTypeOK'
      BY <1>1, <1>2, <2>2, <2>3 DEF PairTypeOK
    <2>6. IdleInv' /\ CompactInv' /\ AppendInv' /\ ProgramInv' /\ RelocatedInv'
      BY <1>1, <1>2, <2>2, <2>3
      DEF IdleInv, CompactInv, AppendInv, ProgramInv, RelocatedInv, Linked, Describes
    <2> QED
      BY <1>1, <1>2, <2>3, <2>4, <2>5, <2>6, ValueKept, NothingSeen DEF PairInv
  <1> QED
    BY <1>3, <1>4

-----------------------------------------------------------------------------
(* The theorems                                                            *)

\* Each step keeps the invariant and is a step of the atomic update, or none.
LEMMA PairStep ==
    PairInv /\ [PairNext]_pairVars => PairInv' /\ Promised
  <1> SUFFICES ASSUME PairInv, [PairNext]_pairVars PROVE PairInv' /\ Promised
    OBVIOUS
  <1>1. CASE UNCHANGED pairVars
    <2>1. /\ disk' = disk /\ parent' = parent /\ dir' = dir /\ handle' = handle /\ op' = op
          /\ commits' = commits
      BY <1>1 DEF pairVars
    <2>2. PairTypeOK' /\ IdleInv' /\ ProgramInv' /\ RelocatedInv'
      BY <2>1 DEF PairInv, PairTypeOK, IdleInv, ProgramInv, RelocatedInv, Writing, CommitReads,
                  Target, Linked
    <2>3. AppendInv' /\ CompactInv'
      BY <2>1 DEF PairInv, AppendInv, CompactInv, Writing, CommitReads, Target, Linked
    <2> QED
      BY <2>1, <2>2, <2>3, ValueKept, NothingSeen DEF PairInv
  <1> QED
    BY <1>1, CreatePairStep, BeginCommitStep, CommitprogStep, AppendEndsStep, CompactBeginsStep,
       EraseStep, CompactEndsStep, RelocateHalfStep, RelinkStep, PowerLossStep, MountStep
    DEF PairNext

\* A commit to a metadata pair happens entirely or not at all, for every number of
\* blocks, units, commits, faults and power losses (lfs.c:1107-1395, 1954-2405).
THEOREM CommitsAreAtomic == PairSpec => PairIsAtomic
  <1>1. PairSpec => []PairInv
    <2>1. PairInit => PairInv
      BY InitInv
    <2>2. PairInv /\ [PairNext]_pairVars => PairInv'
      BY PairStep
    <2> QED
      BY <2>1, <2>2, PTL DEF PairSpec
  <1>2. PairInit => op.val = Nothing
    BY InitInv
  <1>3. PairInv /\ [PairNext]_pairVars => [Pair!AtomicNext]_(Pair!atomicVars)
    BY PairStep DEF Promised
  <1> QED
    BY <1>1, <1>2, <1>3, PTL DEF PairSpec, PairIsAtomic, Pair!AtomicSpec

\* So they are in what the three layers of littlefs do together.
THEOREM LittlefsCommitsAreAtomic == LittlefsSpec => PairIsAtomic
  <1>1. LittlefsInit => PairInit
    BY DEF LittlefsInit
  <1>2. [LittlefsNext]_littlefsVars => [PairNext]_pairVars
    BY DEF LittlefsNext, littlefsVars, pairVars
  <1>3. LittlefsSpec => PairSpec
    BY <1>1, <1>2, PTL DEF LittlefsSpec, PairSpec
  <1> QED
    BY <1>3, CommitsAreAtomic
=============================================================================
