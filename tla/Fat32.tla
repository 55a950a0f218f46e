------------------------------- MODULE Fat32 -------------------------------
(***************************************************************************)
(* The FAT32 RAM disk of src/fb.c: a file allocation table, and clusters   *)
(* whose bytes are directory entries or file content, depending on who     *)
(* points at them.  A cell is the 32 bytes of one directory entry; content *)
(* is written in whole cells.  The second FAT is always written together   *)
(* with the first and never read, so one table stands for both.            *)
(***************************************************************************)
EXTENDS Integers, Sequences, FiniteSets, FiniteSetsExt, SequencesExt

CONSTANTS
  LastClus,  \* the last data cluster (960 in the build); the first is 2
  Cells,     \* directory entries in a cluster (16 in the build)
  Paths,     \* the paths callers use, as non-empty sequences of 8.3 names
  Texts,     \* what callers write
  Lengths    \* the lengths of a write, in cells

Names == UNION {ToSet(p) : p \in Paths}

ASSUME Fat32Assumption ==
  /\ LastClus \in Nat /\ LastClus >= 2
  /\ Cells \in Nat /\ Cells >= 2
  /\ Lengths \subseteq Nat /\ Lengths # {}
  /\ Paths \subseteq Seq(Names) \ {<<>>}

Clusters == 2 .. LastClus
FREE == 0
EOC == LastClus + 1      \* every value from FAT32_EOC on ends a chain
RootClus == 2

VARIABLE disk            \* [fat |-> link of each cluster, cells |-> its cells]

(* A cell by its first byte: 0x00, 0xE5, or the start of a name or a text. *)
End == [kind |-> "end"]
Deleted == [kind |-> "deleted"]
Entry(name, isDir, clus, size) ==
  [kind |-> "entry", name |-> name, dir |-> isDir, clus |-> clus, size |-> size]
Text(t, part) == [kind |-> "text", text |-> t, part |-> part]

Blank == [i \in 0 .. Cells - 1 |-> End]

-----------------------------------------------------------------------------
(* Chains.                                                                 *)

(* The clusters that a loop over fat_read visits from c on, in order; a    *)
(* chain that does not end shows as one that visits a cluster twice.       *)
Chain(d, c) ==
  LET hop[k \in 0 .. LastClus] ==
        IF k = 0 THEN c
        ELSE IF hop[k - 1] \in Clusters THEN d.fat[hop[k - 1]] ELSE EOC
      n == Cardinality({k \in 0 .. LastClus : hop[k] \in Clusters})
  IN  [k \in 1 .. n |-> hop[k - 1]]

FreeClusters(d) == {c \in Clusters : d.fat[c] = FREE}

(* As Claim, but the cluster's FAT entry is left at FREE.                  *)
ClaimUnmarked(d, c) == [fat |-> d.fat, cells |-> [d.cells EXCEPT ![c] = Blank]]

(* fat_alloc: the first free cluster, zeroed and ending its chain.         *)
Claim(d, c) == [fat   |-> [d.fat EXCEPT ![c] = EOC],
                cells |-> [d.cells EXCEPT ![c] = Blank]]

-----------------------------------------------------------------------------
(* Directories.  A listing is the cells along a directory's chain, by index*)
(* from 0.                                                                 *)

Spread(d, chain) ==
  [n \in 0 .. Len(chain) * Cells - 1 |->
     d.cells[chain[(n \div Cells) + 1]][n % Cells]]
Along(d, c) == Spread(d, Chain(d, c))

(* find_dirent_in_chain gives up at the first 0x00.                        *)
Visible(dir) ==
  {n \in DOMAIN dir : dir[n].kind = "entry" /\ \A m \in 0 .. n : dir[m] # End}
Matches(dir, name) == {n \in Visible(dir) : dir[n].name = name}

(* resolve_parent: the cluster of the directory that holds the last name   *)
(* of the path, or 0, which has no cells.                                  *)
StepInto(dir, found) ==
  IF found # {} /\ dir[Min(found)].dir THEN dir[Min(found)].clus ELSE 0
Parent(d, p) ==
  FoldLeft(LAMBDA c, name : StepInto(Along(d, c), Matches(Along(d, c), name)),
           RootClus, Front(p))

Listing(d, p) == Along(d, Parent(d, p))
Hits(d, p) == Matches(Listing(d, p), Last(p))
Exists(d, p) == Hits(d, p) # {}
Dirent(d, p) == Listing(d, p)[Min(Hits(d, p))]

PutAt(d, chain, n, cell) ==
  [d EXCEPT !.cells[chain[(n \div Cells) + 1]][n % Cells] = cell]
SetCell(d, c, n, cell) == PutAt(d, Chain(d, c), n, cell)

(* dir_add_entry: the first 0x00 or 0xE5 cell.  The cell behind it in the  *)
(* same cluster becomes 0x00 as well, whatever it held.                    *)
Vacancies(dir) == {n \in DOMAIN dir : dir[n] \in {End, Deleted}}
Placed(d, c, n, ent) ==
  IF (n % Cells) + 1 < Cells
  THEN SetCell(SetCell(d, c, n, ent), c, n + 1, End)
  ELSE SetCell(d, c, n, ent)

(* As Grown, but the new cluster is not linked to the directory.           *)
GrownUnlinked(d, c, new, ent) == [Claim(d, new) EXCEPT !.cells[new][0] = ent]

(* A directory without such a cell gets another cluster.                   *)
Grown(d, c, new, ent) ==
  [Claim(d, new) EXCEPT !.fat[Last(Chain(d, c))] = new, !.cells[new][0] = ent]

AddEntry(d, c, ent) ==
  IF Vacancies(Along(d, c)) # {}
  THEN Placed(d, c, Min(Vacancies(Along(d, c))), ent)
  ELSE IF FreeClusters(d) = {}
  THEN d
  ELSE Grown(d, c, Min(FreeClusters(d)), ent)

-----------------------------------------------------------------------------
(* The calls, as functions of the disk.                                    *)

(* fat32_create: the cluster it allocates stays allocated when the entry   *)
(* finds no place.                                                         *)
CreatedAt(d, p, isDir, c) ==
  AddEntry(Claim(d, c), Parent(d, p), Entry(Last(p), isDir, c, 0))
Created(d, p, isDir) ==
  IF Parent(d, p) = 0 \/ Exists(d, p) \/ FreeClusters(d) = {}
  THEN d
  ELSE CreatedAt(d, p, isDir, Min(FreeClusters(d)))

(* The clusters a write of n cells goes to: those the file has, then free  *)
(* ones in ascending order, as many as there are.                          *)
ClustersFor(n) == IF n = 0 THEN 1 ELSE (n + Cells - 1) \div Cells
FirstOf(s, n) == SubSeq(s, 1, Min({n, Len(s)}))

Ascending(S) ==
  CHOOSE s \in [1 .. Cardinality(S) -> S] :
    \A i, j \in 1 .. Cardinality(S) : i < j => s[i] < s[j]

(* As Extent, but free clusters go before those the file has.              *)
ExtentReversed(d, p, n) ==
  FirstOf(Ascending(FreeClusters(d)) \o Chain(d, Dirent(d, p).clus),
          ClustersFor(n))

Extent(d, p, n) ==
  FirstOf(Chain(d, Dirent(d, p).clus) \o Ascending(FreeClusters(d)),
          ClustersFor(n))
Written(d, p, n) == Min({n, Len(Extent(d, p, n)) * Cells})

(* The loop of fat32_write.  What the file had behind the new end keeps    *)
(* its links.                                                              *)
Filled(d, ext, t, n) ==
  LET pos(c) == CHOOSE k \in 1 .. Len(ext) : ext[k] = c
      fill(c, old) == [i \in 0 .. Cells - 1 |->
                         IF (pos(c) - 1) * Cells + i < n
                         THEN Text(t, (pos(c) - 1) * Cells + i) ELSE old[i]]
  IN  [fat   |-> [c \in Clusters |->
                    IF c \notin ToSet(ext) THEN d.fat[c]
                    ELSE IF pos(c) = Len(ext) THEN EOC
                    ELSE ext[pos(c) + 1]],
       cells |-> [c \in Clusters |->
                    IF c \notin ToSet(ext) THEN d.cells[c]
                    ELSE fill(c, IF d.fat[c] = FREE THEN Blank ELSE d.cells[c])]]

(* The size is the one asked for, however much was written.                *)
Overwrite(d, p, t, n) ==
  SetCell(Filled(d, Extent(d, p, n), t, n), Parent(d, p), Min(Hits(d, p)),
          [Dirent(d, p) EXCEPT !.size = n])

PutInto(d, p, t, n) == IF Exists(d, p) THEN Overwrite(d, p, t, n) ELSE d
WriteTo(d, p, t, n) == PutInto(Created(d, p, FALSE), p, t, n)

Unlinked(d, chain) ==
  [d EXCEPT !.fat = [c \in Clusters |-> IF c \in ToSet(chain) THEN FREE ELSE @[c]]]

(* As Erased, but the directory entry stays.                               *)
ErasedByHalf(d, p) == Unlinked(d, Chain(d, Dirent(d, p).clus))

(* fat32_delete: frees the chain and marks the entry, of a directory too,  *)
(* whatever is in it.                                                      *)
Erased(d, p) ==
  [Unlinked(d, Chain(d, Dirent(d, p).clus)) EXCEPT
     !.cells = SetCell(d, Parent(d, p), Min(Hits(d, p)), Deleted).cells]

-----------------------------------------------------------------------------
Init == disk = [fat   |-> [c \in Clusters |-> IF c = RootClus THEN EOC ELSE FREE],
                cells |-> [c \in Clusters |-> Blank]]

Create(p, isDir) == disk' = Created(disk, p, isDir)

(* A write to a directory replaces its entries: nothing refuses it.        *)
Write(p, t, n) == disk' = WriteTo(disk, p, t, n)

Delete(p) == Exists(disk, p) /\ disk' = Erased(disk, p)

Next ==
  \E p \in Paths :
    \/ \E isDir \in BOOLEAN : Create(p, isDir)
    \/ \E t \in Texts, n \in Lengths : Write(p, t, n)
    \/ Delete(p)

Spec == Init /\ [][Next]_disk

-----------------------------------------------------------------------------
(* Properties.                                                             *)

(* Everything that can be named, the root included, and its clusters.      *)
Named(d) == {p \in Paths : Exists(d, p)}
Owned(d, p) == Chain(d, IF p = <<>> THEN RootClus ELSE Dirent(d, p).clus)

(* No two names reach one cluster, no chain runs into itself, and no chain *)
(* runs into a free cluster, through every create, shrink, growth, delete  *)
(* of a full directory and shortage of clusters.                           *)
ChainsAreDisjoint ==
  LET names == Named(disk) \cup {<<>>}
  IN  /\ \A p \in names :
           /\ IsInjective(Owned(disk, p))
           /\ Owned(disk, p) # <<>>
           /\ disk.fat[Last(Owned(disk, p))] = EOC
      /\ \A p, q \in names :
           p # q => ToSet(Owned(disk, p)) \cap ToSet(Owned(disk, q)) = {}

(* What fat32_read returns.                                                *)
Content(d, p) ==
  LET part(dir, n) == [i \in 1 .. Min({n, Cardinality(DOMAIN dir)}) |-> dir[i - 1]]
  IN  part(Along(d, Dirent(d, p).clus), Dirent(d, p).size)
IsFile(d, p) == Exists(d, p) /\ ~Dirent(d, p).dir

(* A call changes what a file that is still there reads as only if it      *)
(* writes to it or deletes it, or a directory above it.  A delete is among *)
(* these since a directory can hold a name twice: an entry that an earlier *)
(* create hid may come back behind one that was created in its absence     *)
(* (fb.c:507), and shows when that one is deleted.                         *)
OthersKeepTheirContent ==
  [][\A p \in Paths :
       IsFile(disk, p) /\ IsFile(disk', p) /\ Content(disk', p) # Content(disk, p)
       => \E q \in {SubSeq(p, 1, k) : k \in 1 .. Len(p)} :
            \/ disk' = Erased(disk, q)
            \/ \E t \in Texts, n \in Lengths : disk' = WriteTo(disk, q, t, n)]_disk

(* Whatever state the disk is in, a write that reports all of its cells    *)
(* written reads back.                                                     *)
WriteReadsBack ==
  \A p \in Named(disk), t \in Texts, n \in Lengths :
    LET e == WriteTo(disk, p, t, n)
    IN  IsFile(e, p) /\ Written(disk, p, n) = n
        => Content(e, p) = [i \in 1 .. n |-> Text(t, i - 1)]

(* With two free clusters, one for the file and one for the directory,     *)
(* fat32_create finds a place in every directory, and a directory from     *)
(* which nothing was deleted, growing or not, still shows all it did.      *)
NothingDeletedIn(dir) == \A n \in DOMAIN dir : dir[n] # Deleted
CreateFindsRoom ==
  \A p \in Paths, isDir \in BOOLEAN :
    Parent(disk, p) # 0 /\ ~Exists(disk, p) /\ Cardinality(FreeClusters(disk)) >= 2
    => LET e == Created(disk, p, isDir)
       IN  /\ Exists(e, p)
           /\ NothingDeletedIn(Listing(disk, p)) => Named(disk) \subseteq Named(e)
=============================================================================
