------------------------------ MODULE FsShell ------------------------------
(***************************************************************************)
(* The life of the ES1 file system: cpio_extract_all (src/drivers/cpio.c)  *)
(* fills it at boot, entry by entry, and then the shell commands of        *)
(* src/commands/command_logic.c work on it, one at a time: the kernel has  *)
(* one thread and the commands run to completion.                          *)
(*                                                                         *)
(* A command that prints an error and returns changes nothing, so its      *)
(* early returns are the guards of its action.                             *)
(***************************************************************************)
EXTENDS Es1, FiniteSetsExt

CONSTANTS
  NamePrefix,  \* pairs <<a, ab>> of names, the first a proper prefix
  Archives     \* the initramfs archives, as sequences of entries

(* data is what stands behind the header: nothing, where size is zero.     *)
Entry == [path : Paths, kind : {"dir", "reg", "other"}, size : Nat,
          data : Payloads \cup {NoData}]

ASSUME ArchivesAssumption == Archives # {} /\ Archives \subseteq Seq(Entry)

VARIABLES
  fs,        \* es1_nodes and es1_sb
  cwd,       \* cwd_path
  archive,   \* the archive GRUB loaded
  pos,       \* the entry cpio_extract_all looks at
  extracted  \* its local variable count, and then its result

vars == <<fs, cwd, archive, pos, extracted>>

-----------------------------------------------------------------------------
(* Paths.                                                                  *)

(* resolve_path and normalize_path drop "." and "..", so a command can     *)
(* name only these.  The archive walker drops neither.                     *)
UserPaths == {p \in Paths : \A k \in 1 .. Len(p) : p[k] \notin {".", ".."}}

(* As TextPrefix, but it misses the texts that are longer by one name.     *)
TextPrefixTooShort(p, q) ==
  /\ Len(p) + 1 < Len(q)
  /\ \A k \in 1 .. Len(p) : p[k] = q[k]

(* The text of p is a proper prefix of the text of q, as rmdir tests it.   *)
TextPrefix(p, q) ==
  /\ p # q
  /\ Len(p) <= Len(q)
  /\ \A k \in 1 .. Len(p) :
       \/ p[k] = q[k]
       \/ k = Len(p) /\ <<p[k], q[k]>> \in NamePrefix

(* q lies below the directory p.                                           *)
Below(p, q) ==
  /\ Len(p) < Len(q)
  /\ \A k \in 1 .. Len(p) : p[k] = q[k]

-----------------------------------------------------------------------------
(* Boot: one archive entry.                                                *)

(* Point the node at the archive's memory.  The total grows by the size of *)
(* the entry, whatever the node held before.                               *)
PointAt(f, p, d, size) ==
  IF ~Found(f, p)
  THEN f
  ELSE [f EXCEPT !.nodes[Find(f, p)].ext = d,
                 !.nodes[Find(f, p)].size = size,
                 !.total = @ + size]

ExtractRegular(f, e) ==
  LET g == IF Found(f, e.path)
           THEN [f EXCEPT !.nodes[Find(f, e.path)].flags = @ \cup {"EXTDATA"}]
           ELSE Alloc(f, e.path, {"USED", "EXTDATA"}, "root")
  IN  PointAt(g, e.path, e.data, e.size)

(* A regular file without content is taken for a directory.                *)
ExtractDirectory(f, e) ==
  IF Found(f, e.path) THEN f ELSE Alloc(f, e.path, {"USED", "DIR"}, "root")

IsFileEntry(e) == e.kind = "reg" /\ e.size > 0
IsDirEntry(e) == e.kind = "dir" \/ (e.kind = "reg" /\ e.size = 0)

Booted == pos > Len(archive)

ExtractEntry ==
  /\ ~Booted
  /\ LET e == archive[pos]
     IN  /\ fs' = IF IsFileEntry(e) THEN ExtractRegular(fs, e)
                  ELSE IF IsDirEntry(e) THEN ExtractDirectory(fs, e)
                  ELSE fs
         /\ extracted' = extracted + IF IsFileEntry(e) THEN 1 ELSE 0
  /\ pos' = pos + 1
  /\ UNCHANGED <<cwd, archive>>

-----------------------------------------------------------------------------
(* The shell commands.                                                     *)

CurrentUser == "user"

(* perms is "rwxr-xr-x" or "rw-r--r--"; user_can looks at the characters   *)
(* 1 to 3 for the owner and 7 to 9 for everybody else, counted from 0.     *)
PermsOf(n) ==
  IF "DIR" \in n.flags
  THEN <<"r", "w", "x", "r", "-", "x", "r", "-", "x", "">>
  ELSE <<"r", "w", "-", "r", "-", "-", "r", "-", "-", "">>

UserCan(n, need) ==
  \E k \in IF n.owner = CurrentUser THEN 1 .. 3 ELSE 7 .. 9 :
    PermsOf(n)[k + 1] = need

(* As Touch, but without the look for a node that is there.                *)
TouchBlindly(f, p) == Alloc(f, p, {"USED"}, CurrentUser)

(* cmd_touch, also called by write, cp, mv and the editor.                 *)
Touch(f, p) == IF Found(f, p) THEN f ELSE Alloc(f, p, {"USED"}, CurrentUser)

CmdTouch(p) ==
  /\ ~Found(fs, p)
  /\ Vacant(fs) # {}
  /\ fs' = Touch(fs, p)
  /\ UNCHANGED cwd

(* Nothing asks whether the parent exists.                                 *)
CmdMkdir(p) ==
  /\ ~Found(fs, p)
  /\ Vacant(fs) # {}
  /\ fs' = Alloc(fs, p, {"USED", "DIR"}, CurrentUser)
  /\ UNCHANGED cwd

CmdRm(p) ==
  /\ Found(fs, p)
  /\ ~IsDir(fs, p)
  /\ UserCan(NodeAt(fs, p), "w")
  /\ fs' = Free(fs, p)
  /\ UNCHANGED cwd

CmdRmdir(p) ==
  /\ IsDir(fs, p)
  /\ \A i \in Live(fs) \ {Find(fs, p)} : ~TextPrefix(p, fs.nodes[i].path)
  /\ fs' = Free(fs, p)
  /\ UNCHANGED cwd

CmdWrite(p, t) ==
  /\ fs' = Write(Touch(fs, p), p, t, TextLen[t])
  /\ UNCHANGED cwd

(* cp and mv keep the pointer to the source node across the touch and copy *)
(* size bytes from its inline_data, wherever the content really is.        *)
CopyInto(f, p, q) ==
  Write(Touch(f, q), q, NodeAt(f, p).data, NodeAt(f, p).size)

CmdCp(p, q) ==
  /\ Found(fs, p)
  /\ ~IsDir(fs, p)
  /\ fs' = CopyInto(fs, p, q)
  /\ UNCHANGED cwd

(* The source goes whether or not the copy was written.                    *)
CmdMv(p, q) ==
  /\ Found(fs, p)
  /\ fs' = Free(CopyInto(fs, p, q), p)
  /\ UNCHANGED cwd

(* ^S in the editor: writes the node's inline_data itself, past es1_write. *)
SaveInto(f, p, t) ==
  IF Found(f, p) /\ ~IsDir(f, p)
  THEN [f EXCEPT !.nodes[Find(f, p)].data = t,
                 !.nodes[Find(f, p)].size = TextLen[t]]
  ELSE f

(* A saved buffer has at least one line and so at least one byte.          *)
EditSave(p, t) ==
  /\ TextLen[t] > 0
  /\ fs' = SaveInto(Touch(fs, p), p, t)
  /\ UNCHANGED cwd

CmdCd(p) ==
  /\ IsDir(fs, p)
  /\ cwd' = p
  /\ UNCHANGED fs

CmdCdHome ==
  /\ cwd' = Root
  /\ UNCHANGED fs

-----------------------------------------------------------------------------
Init ==
  /\ fs = Formatted
  /\ cwd = Root
  /\ archive \in Archives
  /\ pos = 1
  /\ extracted = 0

Command ==
  /\ Booted
  /\ \/ \E p \in UserPaths :
          \/ CmdTouch(p) \/ CmdMkdir(p) \/ CmdRm(p) \/ CmdRmdir(p) \/ CmdCd(p)
          \/ \E t \in Texts : CmdWrite(p, t)
          \/ \E q \in UserPaths : CmdCp(p, q) \/ CmdMv(p, q)
     \/ CmdCdHome
  /\ UNCHANGED <<archive, pos, extracted>>

Edit ==
  /\ Booted
  /\ \E p \in UserPaths, t \in Texts : EditSave(p, t)
  /\ UNCHANGED <<archive, pos, extracted>>

Next == ExtractEntry \/ Command \/ Edit

Spec == Init /\ [][Next]_vars

(* A session in which the editor is not used.                              *)
NoEditSpec == Init /\ [][ExtractEntry \/ Command]_vars

-----------------------------------------------------------------------------
(* Properties.                                                             *)

(* Types of the table, the counters, the working directory and the archive *)
(* walker's position.                                                      *)
TypeOK ==
  /\ fs \in FileSystem
  /\ cwd \in UserPaths
  /\ archive \in Archives
  /\ pos \in 1 .. Len(archive) + 1
  /\ extracted \in 0 .. Len(archive)

(* No path is in two slots: es1_alloc does not look, so every caller has   *)
(* to.  With two, es1_find would hide one of them for good.                *)
UniquePaths ==
  \A i, j \in Live(fs) : fs.nodes[i].path = fs.nodes[j].path => i = j

(* used_nodes never falls behind the table, not even when a neighbour's    *)
(* terminator has wiped a slot.                                            *)
UsedCoversLive == Cardinality(Live(fs)) <= fs.used

(* "nodes currently allocated" (kernel_utils.h): the counter that meminfo  *)
(* and fetch print is the number of live slots ...                         *)
UsedIsLive == fs.used = Cardinality(Live(fs))

(* ... as long as the archive has no file that fills inline_data.  Then no *)
(* copy of one can wipe a neighbour, and the users' own texts are shorter. *)
Fitting(a) == \A k \in 1 .. Len(a) : a[k].size < InlineSize
UsedIsLiveIfFitting == Fitting(archive) => UsedIsLive

(* "sum of all file sizes" (kernel_utils.h).                               *)
SizeSum == MapThenSumSet(LAMBDA i : fs.nodes[i].size, Live(fs))
TotalIsSum == fs.total = SizeSum

(* A second entry of a file would add its size once more (cpio.c).         *)
NamedOnce(a) ==
  \A k, l \in DOMAIN a :
    IsFileEntry(a[k]) /\ IsFileEntry(a[l]) /\ a[k].path = a[l].path => k = l

(* A text is as long as the node that holds it says, so cat, which prints  *)
(* up to the NUL, and stat, which prints size, agree.                      *)
TextHasItsSize ==
  \A i \in Live(fs) :
    fs.nodes[i].data # Zeros => fs.nodes[i].size = TextLen[fs.nodes[i].data]

(* rmdir never takes a directory away from under a file in it, although it *)
(* compares texts and never parses a path.                                 *)
Orphans(f, p) == {i \in Live(f) : Below(p, f.nodes[i].path)}
RmdirLeavesNoOrphans ==
  [][\A p \in UserPaths : CmdRmdir(p) => Orphans(fs', p) = {}]_vars

(* The content of a node: what it points to, where the flag says that      *)
(* "data lives at ext_data ptr" (kernel_utils.h), or its inline_data.      *)
Content(n) == IF "EXTDATA" \in n.flags THEN n.ext ELSE n.data

FileAt(p) ==
  IF ~Found(fs, p)
  THEN [dir |-> "none"]
  ELSE [dir   |-> IsDir(fs, p),
        owner |-> NodeAt(fs, p).owner,
        size  |-> NodeAt(fs, p).size,
        data  |-> Content(NodeAt(fs, p))]

Files == [p \in Paths |-> FileAt(p)]

Map == INSTANCE FileMap WITH
         Capacity <- MaxNodes,
         Blank    <- Zeros,
         None     <- [dir |-> "none"],
         files    <- Files

(* The commands know inline_data alone: what they make of a file that is   *)
(* in the archive's memory is no copy and no write (CpCopiesTheFile).      *)
External(p) == Found(fs, p) /\ "EXTDATA" \in NodeAt(fs, p).flags

(* At most the files at S are not what they were.                          *)
Spares(S) == \A p \in Paths \ S : FileAt(p)' = FileAt(p)

(* A step that needs a file at p it can write is done, or changes nothing. *)
IfWritable(p, step) == IF Map!Writable(p) THEN step ELSE UNCHANGED Files

(* What an entry of the archive does: a file is stored, a directory is     *)
(* created.  An empty regular file is taken for a directory, against what  *)
(* cpio.h:75 says, and a directory can get the content of a file.          *)
ExtractsItsEntry ==
  ExtractEntry =>
    LET e == archive[pos]
        p == e.path
    IN  /\ IsFileEntry(e) =>
             IF IsDir(fs, p)
             THEN Spares({p})
             ELSE IfWritable(p, Map!Store(p, "root", e.data, e.size))
        /\ e.kind = "reg" /\ e.size = 0 => Spares({p})
        /\ e.kind = "dir" =>
             IF ~Found(fs, p) /\ Map!HasRoom
             THEN Map!Create(p, TRUE, "root")
             ELSE UNCHANGED Files
        /\ e.kind = "other" => UNCHANGED Files

(* What a command or a save does.  A mv of a directory, to itself or to    *)
(* where nothing can be written loses its file (MvKeepsTheFile).           *)
DoesItsCommand ==
  \A p \in UserPaths :
    /\ CmdTouch(p) => Map!Create(p, FALSE, CurrentUser)
    /\ CmdMkdir(p) => Map!Create(p, TRUE, CurrentUser)
    /\ CmdRm(p) \/ CmdRmdir(p) => Map!Remove(p)
    /\ \A t \in Texts :
         CmdWrite(p, t) \/ EditSave(p, t) =>
           IF External(p)
           THEN Spares({p})
           ELSE IfWritable(p, Map!Store(p, CurrentUser, t, TextLen[t]))
    /\ \A q \in UserPaths :
         /\ CmdCp(p, q) =>
              IF External(p) \/ External(q)
              THEN Spares({q})
              ELSE IfWritable(q, Map!Copy(p, q, CurrentUser))
         /\ CmdMv(p, q) =>
              IF \/ External(p) \/ External(q)
                 \/ IsDir(fs, p) \/ p = q \/ ~Map!Writable(q)
              THEN Spares({p, q})
              ELSE Map!Move(p, q, CurrentUser)

(* The table with its slots, scans and counters is the map of FileMap:     *)
(* every entry, command and save is the operation on the map that its name *)
(* and its arguments say, and changes nothing when that is not possible.   *)
(* The exceptions touch no path they do not name.                          *)
ImplementsFileMap ==
  Map!Init /\ [][ExtractsItsEntry /\ DoesItsCommand]_vars

-----------------------------------------------------------------------------
(* What the repository's own words say of the program.                     *)

(* The help text of mv, "Move/rename file": a file that was moved is at    *)
(* one of the two places afterwards.                                       *)
HoldsText(f, t) == \E i \in Live(f) : f.nodes[i].data = t
MvKeepsTheFile ==
  [][\A p, q \in UserPaths :
       CmdMv(p, q) /\ ~IsDir(fs, p) /\ NodeAt(fs, p).data # Zeros
       => HoldsText(fs', NodeAt(fs, p).data)]_vars

(* The help text of cp, "Copy file": what cp creates has the content of    *)
(* the file it was given.                                                  *)
CpCopiesTheFile ==
  [][\A p, q \in UserPaths :
       CmdCp(p, q) /\ ~Found(fs, q) /\ Found(fs', q)
       => Content(NodeAt(fs', q)) = Content(NodeAt(fs, p))]_vars
=============================================================================
