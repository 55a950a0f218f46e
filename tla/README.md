# BlexOS: TLA+ models, model checks and proofs

BlexOS (BNU-Blex) is a small 32-bit operating system in C: one kernel thread,
an in-memory file system, a shell with an editor, a framebuffer terminal, a
FAT32 RAM disk, and network and disk drivers that poll. This directory models
its core logic in TLA+, checks it with TLC on small instances and proves some
of it with TLAPS for every value of the constants. Modelled are the way from
the loader to the prompt, both file systems, what runs on the command line, both
consoles and the glyphs they draw, and the drivers that share memory or
registers with a device.

Paths below are relative to `src/`.

## 1. Inventory

### The program

`Makefile` links `boot.o kernel.o fb.o es1.o sata.o commands/command_logic.o
commands/stb_image_impl.o drivers/initramfs.o drivers/cpio.o fonts/ttf_render.o`.
The network drivers, the second framebuffer driver (`drivers/fb/fb.c`), the
second ATA driver, the boot log, the interrupt table, the serial port, `bsh.c`,
`monky.c` and `hello.c` are in the repository but not linked.

Nothing in the linked kernel is concurrent: no interrupts are enabled, the
keyboard is polled, and a command runs to its end before the next key is read.
Concurrency comes in with the devices: the network cards write memory that
their drivers read, and the disks work while the driver polls them. Nothing survives a power cycle, as both file systems are in
memory, so there is no crash recovery to model.

### Components

| component | state | operations | what makes it correct |
|---|---|---|---|
| ES1 file system (`es1.c`, `kernel_utils.h`) | `es1_nodes[32]`, the counters `used_nodes` and `total_bytes` | `es1_init`, `es1_find`, `es1_alloc`, `es1_free`, `es1_write`, `es1_read` | a path is in one slot; the counters describe the table; an operation on one path leaves the others alone |
| Multiboot2 tags and initramfs (`fb_init`, `drivers/initramfs.c`) | pointer into the tags, `fb.addr`, `initramfs_mod_start`, `font_path` | `fb_init`, `detect_initramfs`, `load_dynamic_font` | the walk stands on tags and ends; the font is the file that `font.cfg` names |
| CPIO extraction (`drivers/cpio.c`) | position in the archive, number of extracted files | `cpio_extract_all` at boot; `cpio_find_file` reads; `cpio_extract_one` has no caller | every entry goes where it says; duplicates and a full table do no harm; three walks agree on the layout |
| Shell file commands (`commands/command_logic.c`) | `cwd_path`, and ES1 | `cd mkdir touch rm rmdir write cp mv`; `ls pwd cat stat` read | rmdir orphans nothing; mv keeps the file; permissions are those of the owner; a path means the same however it is spelled |
| Editor (`command_logic.c`, `cmd_edit`) | `E`: rows, cursor, scroll offset, dirty flag | open, the keys, `^S`, `^Q` | the cursor stays in the text; saving and opening are inverse; dirty tells the truth |
| FAT32 RAM disk (`fb.c`, again in `drivers/fb/fb.c`) | two FATs, clusters | format, create, write, read, delete, exists, stat | chains stay apart; a write reads back and changes no file but its own; a listed name leads back to its entry |
| Framebuffer terminal (`fb.c`) | the grid of cells, `tty_cx`, `tty_cy` | `tty_putchar`, `tty_scroll`, `tty_clear` | the grid shows the last rows of what was printed |
| UTF-8 console (`drivers/fb/fb.c`) | the grid, `tty_utf8_decoder` | `tty_putchar` of a byte | the same, and malformed bytes never cost the next character |
| TrueType renderer (`fonts/ttf_render.c`) | `g_pts`, `g_bitmap` | load a glyph, rasterise it | the points are those of the file; the bitmap is the inside of the outline |
| Command line (`kernel.c`) | `shell_buffer`, `buf_idx`, `history`, `history_index`, `ctrl_pressed`, `shift_pressed` | keys; `process_command` | the echo is the line that Enter runs; the history is the last ten lines; a modifier that counts as pressed is held |
| Script interpreter (`bsh.c`) | pointer into the slot of its file | `bsh_run_file`, `bsh_exec`, `bsh_wait` | every command runs once, without comments; the script ends, whatever its commands do to its file; a wait ends |
| e1000 driver, `net_ping` (`drivers/net/`) | two descriptor rings shared with the card, `tx_cur`, `rx_cur` | init, send, wait, recv; ping | frames are neither lost, doubled nor reordered by the driver; ping comes back |
| virtio-net driver (`drivers/virtio/`) | two virtqueues shared with the device, free lists, wrapping indices | init, send, wait, recv | every descriptor is in exactly one place |
| ATA driver (`sata.c`, `drivers/sata/sata.c`) | `ata_drives`, the registers, the drives | `ata_init`, `ata_read_sectors`, `ata_write_sectors` | sectors inside the disk, in order; calls come back; reported drives are real |
| Log ring (`drivers/logo_display.c`), boot log (`drivers/bootlog.c`) | ring of lines | add, show | not linked, formatting and drawing; not modelled |
| Image decoder (`stb_image.h`) with its bump allocator | heap pointer | decode | vendored; the allocator only counts up; not modelled |
| `idt.c`, `sio.c`, `monky.c`, `hello.c`, hardware information commands | none worth a model | output and port access | not modelled |

How they interact: `kernel_main` initialises the terminal from the loader's tags,
then ES1, then lets `initramfs_setup` find the archive in the tags, extract it into ES1 and load a
font out of it, then loops over keys. The
command line calls the commands, which call ES1 by path and keep node pointers
across calls; the editor writes a node behind ES1's back, and a script runs out of
the slot that its own commands may write. The editor and `beep` read the keyboard
in loops of their own while they run. Everything prints
through the terminal. `net_ping` calls the card's driver in a fixed order and
shares one packet buffer between request and reply. The FAT32 calls have no
caller outside `fb.c`, so the model lets callers use them in any order.

What is hard here: a terminator written one byte behind a node
(`es1.c:103`); operations composed of several calls of which one fails (`mv`,
extraction with a full table, a write with a full disk); pointers and counters
read before a call and used after it; limits that differ by one between two
pieces of code (rows of the editor, the two save loops, the wrap of the
terminal); layouts in memory in which every size is rounded or not (tags, archive
entries, the three lists of a glyph); texts that end in four ways (scripts, `font.cfg`);
two readers of one keyboard; devices that run between any two accesses and finish in any order;
waits that give up and forget what they waited for. `PROJECT.json` lists each at
its line under `hazards`.

## 2. Modules

| module | models | state | extends |
|---|---|---|---|
| `Boot` | tags, archive and font, from the loader to the prompt | `magic tags archive stage p fb module seen wanted font` | |
| `Es1` | `es1.c` as functions from a file system record to the next | none (a record) | |
| `FsShell` | boot extraction, then shell commands and editor saves | `fs cwd archive pos extracted` | `Es1` |
| `FileMap` | the abstract specification of `FsShell`: a map from paths to files | `files` | |
| `Paths` | texts of paths: resolving, keeping, finding | `cwd nodes made` | |
| `Fat32` | FAT, clusters, directories and the calls on them | `disk` | |
| `Dos83` | the names of `Fat32` as they are typed, packed and listed | `tree` | |
| `RamDisk` | the two together, as callers of `fb.c` see the disk | those of `Fat32`, `tree` | `Fat32`, an instance of `Dos83` |
| `E1000` | descriptor rings: the driver's accesses and the card | none (two records) | |
| `Ping` | `net_ping` over the driver, beside card and network | `tx rx pc wait pkt result` and histories | `E1000` |
| `Virtqueue` | one virtqueue: the `vq_` helpers and the device | none (a record) | |
| `VirtioNet` | the driver's calls on both queues beside the device | `rxVq txVq call held shared` and histories | `Virtqueue` |
| `Editor` | `cmd_edit` and the file it works on | `mode ed file` | |
| `Script` | `bsh.c` and the slot a script runs from | `mem size state start ran` and histories | |
| `Keyboard` | who reads the keys, and what each knows of the modifiers | `reader down main editor` and a history | |
| `Tty` | the terminal grid and `tty_putchar` | none (a record) | |
| `Utf8` | the decoder and the table of glyphs | none (a record) | |
| `Console` | a program that prints bytes, with either driver | `driver grid dec text` | `Tty`, `Utf8` |
| `Shell` | keyboard loop, line, history, echo | `tty line history hindex ran` | `Tty` |
| `Glyph` | the TrueType renderer | `glyph font points bitmap pc` | |
| `Ata` | both ATA drivers and two drives on a channel | `setup table chan dev disk pc wait call result` and histories | |
| `Basics` | lemmas about numbers, sequences and folds | | TLAPS |
| `FsShellProofs`, `AtaProofs`, `BootProofs` | theorems about the module of that name | | that module, `Basics` or TLAPS |
| `Fat32Proofs` | theorems about `Fat32` and `Dos83` | | `RamDisk`, `Basics` |
| `NetworkProofs` | theorems about `Ping` and `VirtioNet` | | both, `Basics` |
| `TerminalProofs` | theorems about `Console`, `Shell` and `Keyboard` | | all three, `Basics` |
| `ProgramProofs` | theorems about `Editor`, `Script` and `Paths` | | all three, `Basics` |

`MCFsShell`, `MCFat32`, `MCNetwork`, `MCTerminal`, `MCPrograms`, `MCBoot` and
`MCAta` give the constants their small values. `MCMachine` (the boot, the disks and the programs) and `MCOutput`
(the screen and the network) put several of these side by side, so that one run checks components that do
not share state: a variable (`turn`, `out`, and below them `part` and
`card`), chosen in the initial state and never changed, says which of them moves. This is a choice of
the instances, not a claim about the system; where components do interact, one
module extends or instantiates the other (`FsShell` over `Es1`, `Ping` over
`E1000`, `Shell` and `Console` over `Tty`, `Console` over `Utf8`). Modules that an MC
module extends together have names of their own for their initial states and steps
(`BootInit`, `ShellNext`, `AtaSpec`, `PingSpec`). A liveness property of one of them gets a name in the MC module, where it
is about the behaviours in which that module moves: `EveryScriptEnds` (`ScriptEnds` of `Script`), `EveryWaitEnds`
(`WaitEnds`), `EveryBootEnds` (`BootEnds` of `Boot`) and `EveryCallReturns` (`CallsReturn` of `Ata`). What the
modules side by side presume of their constants are the definitions
`ShellConstants`, `GlyphConstants`, `PingConstants`, `ScriptConstants`,
`PathConstants` and `NameConstants`, which an `ASSUME` of the MC module (of `RamDisk`,
for the names) lets TLC evaluate.

Data structures that several behaviours share (`Es1`, `E1000`, `Virtqueue`,
`Tty`) are modules of operators on one record; the module that owns the
behaviour has the variables. Operators named *As X, but ...* stand before some
definitions: each is the definition with one slip a programmer could make, and
`PROJECT.json` says under `mutants` which property finds it.

### From the loader to the prompt: `Boot`

The information structure of Multiboot2 is a sequence of tags and the archive a
sequence of entries; `TagPlace` and `EntryPlace` say where a loader and a cpio tool put
them, from their formats, and are external. The code has pointers only: `p` moves by
what `AlignTag` and `CpioNext` compute from the sizes it reads, and an action finds a
tag or an entry only where one begins. One action is one round of a loop: `FbInit`,
`DetectInitramfs`, `ExtractEntry`, `FindCfg`, `FindFont`. Names and texts are
sequences of tokens of one byte each, except the tokens that the code compares as a
whole (`FONT=`, `TRAILER!!!`). Two buffers are shorter than what is copied to them can be, and their sizes are
constants: `Cut` leaves of an entry's name what the path buffer of `cpio.c` holds (`PathRoom`), `NameBehind` of
a font's name what `font_name` holds (`NameRoom`). `FontNamed` searches beyond the end of the text as the
code does, which looks for a NUL. What ES1 does with an entry is in `FsShell`;
there a path is in its final form.

### ES1, extraction, shell commands: `Es1`, `FsShell`, `FileMap`

A node is its flags, path, owner, size, `inline_data` and `ext_data`. `inline_data` is a whole text, or
zeros when it was never written; `ext_data` stands for what it points at in the memory of the
archive (`Payloads`), or is `NoData`; sizes are kept, because
`es1_write` behaves differently when the content fills `inline_data`:
`Terminate` is the NUL that lands on the flags of the next slot. A path is a
sequence of names; `normalize_path` lets a command name only paths without `.`
and `..` (`UserPaths`), while the archive walker takes every path as it is.
`TextPrefix` is the text comparison of `rmdir`, where `/a` is also a prefix of
`/ab`; which names are prefixes of which is the constant `NamePrefix`.

`ExtractEntry` is one round of the loop of `cpio_extract_all`: a node pointing
at the archive's memory for a non-empty regular file, a directory for a
directory *or an empty regular file*, nothing for others. One action per command
follows; each is the whole command, with refusals as guards. `cp` and `mv` copy
`size` bytes from `inline_data` of the source, also of a node whose content is in
the archive. `EditSave` writes the node without `es1_write`, as the editor does.

`FileMap` says what all this promises without slots, flags or counters: a map from paths to
files with the operations `Create`, `Remove`, `Store`, `Copy` and `Move`, each with the paths
it works on as arguments. The file at a path is what `es1_find` finds there (`Files`); its content is what
`ext_data` points at where the flag `EXTDATA` is set, since then the "data lives at ext_data ptr"
(`kernel_utils.h:48`), and `inline_data` otherwise (`Content`). `ImplementsFileMap` is labelled: an entry of the
archive, a command or a save must be the operation that its name and its arguments say, or change no file when
the operation is not possible. So a `cp` that did a `Store` of something else would not pass. Where the
code does something else than its operation, the property asks only that the step changes no path it does not
name (`Spares`): `write`, `cp`, `mv` and a save on files in the memory of the archive, an empty regular entry, an
entry with content onto a directory, and `mv` of a directory, to itself or to where nothing can be
written. What `cp` and `mv` should do is said by properties of their own, which are violated (`CpCopiesTheFile`,
`MvKeepsTheFile`); the others are among the known deviations.

### The editor: `Editor`

The struct `E` is the record `ed`. `Load` and `Store` are the two conversions
between the file's bytes and rows, with their limits: `Rows`, `Cols - 1`
characters, `InlineSize - 2` bytes. Keys are functions of the struct. `write`
from the shell may change the file between two sessions.

### FAT32: `Fat32`

The disk is the table and the cells of each cluster, where a cell is 32 bytes: a
directory entry, the deleted mark, the end mark, or a part of a text. The same
cell is read as entry or as text depending on who points at the cluster, so a
write to a directory, which the code allows, destroys entries in the model too.
`dir_add_entry` ends the directory behind the entry it writes, wherever that is.
The second FAT is always written with the first and never read.

### The network: `E1000` + `Ping`, `Virtqueue` + `VirtioNet`

The driver's steps are split at every point where the order of its accesses to
shared memory and registers matters (before and after each fence). The card may
move between any two of them, be late, or be stuck for good. The network answers
a request that reached the wire once, twice, late or never, and brings frames
nobody asked for, among them some longer than the caller's buffer. `net_ping`
runs its two bounded loops to the end. The virtio device takes descriptors in
order and finishes them in any order. All frames are built in one buffer (`shared`);
a wait follows every send, as in `net_ping`, and may give up. The device is assumed to report a queue of
`VIRTQ_MAX_DESC` entries (see known deviations).

The card, the device and the hosts are not in the repository: what they may do
is taken from how the drivers use them, and their definitions are marked
external.

### Terminal, consoles, glyphs, command line: `Tty`, `Utf8`, `Console`, `Glyph`, `Shell`

`Tty` is the grid with newline, backspace, wrap and scroll, which both framebuffer
drivers share. `Console` prints bytes with either: `driver` is `"linked"` for `fb.c`, which draws
a glyph for every byte that is no control character, or `"utf8"` for `drivers/fb/fb.c`,
which decodes first (`Utf8!Decode`), knows tabulators and ignores other control
characters. The grid is compared with an independent layout of the printed text
(`Page`) and the decoder with an independent reading of the bytes (`Meaning`).

`Shell` adds the line, the history and the arrow keys; the user sees what Enter
will run.

`Glyph` computes with the numbers of the code: coordinates, the scale in 65536ths,
curves divided at their middle, cuts rounded towards zero. `Stored` packs an outline as
a font tool may (external), `Load` reads it back with the three pointers of
`ttf_load_simple_glyph`, `Rasterize` is `rasterize_glyph`. The subdivision of
curves is a RECURSIVE operator, as in the code, so nothing is proved about this module.

### Paths and names: `Paths`, `Dos83`

The other modules take paths as sequences of names. These two justify it: `Paths` is
`resolve_path` on texts, and the field of the node in which a path longer than 63
characters runs into the owner. A text is walked character by character: a slash ends a name
(`internal_strtok`), which the loop of `normalize_path` then takes (`Step`, `Taken`). Nothing can be typed
before `Es1Init` has made the root; `Dos83` is what becomes of a name in eight and three
characters.

### Scripts and the keyboard: `Script`, `Keyboard`

A script is a sequence of tokens in the memory of a slot; each stands for a word.
`Run` is `bsh_run_line` and the step to the next line, for which the code reads the
slot again *after* the command, whatever the command left there: the slot as it was,
another text over the old one, zeros, or another file. `Wait` is where a script stops
for good: `bsh_wait` waits for `boot_ticks`, which only the loop of `kernel_main`
advances (`kernel.c:229`), and that loop is not running; a number so large that the target wraps around is
not modelled. What should be run, `Meant`, is said of the text
alone, and of what `bsh.h` promises: a line begins at each character that is no end of line and stands behind one, what
it says ends at a comment (`Said`), and a wait is only a pause, so the commands behind it count as well.

`Keyboard` is about who sees a key: `kernel_main`, or `edit` or `beep` while they
run. Each of the first two has flags of its own.

### The disks: `Ata`

`ata_init`, `ata_read_sectors` and `ata_write_sectors`, split at every wait.
`setup` is chosen at the start: the driver of `sata.c` or that of
`drivers/sata/sata.c`, which differ in `Refused`; whether the callers of the first are
`careful`, that is ask for at least one sector and for none at or past 2^32; and what is attached to the
channel (disks, an ATAPI drive, nothing). `WaitBusy` is `ata_wait_busy` with its
five callers in `AfterBusy`; `WaitDrq` is the loop behind it. Both give up after
`MaxWait` rounds and go on as if the drive were ready, as the code does.

The drives work beside the driver: one that is busy fails, asks for the next
sector or is done, at any time or never. They are external, and two things about
them are presumed because the code presumes them: the data port hands out bytes
(a drive with a 16-bit data register hands out words, and the two `inb` of
`sata.c:189` would lose every second byte), and a command is ignored in the
middle of another (the flush of `sata.c:231`).

The driver does not notice when a wait gives up, nor when a write fails after its
last sector. The history variable `orderly` becomes `FALSE` then. The check of `sata.c` also lets through a request for
no sectors (which a drive takes for 256) and one whose sum wraps; such a request is *not* taken out
of the properties: `SectorsExist`, that the drives are asked only for sectors they have, is violated by it. It
holds, as `AsksInside`, of the driver that repairs the check and of the linked one with careful callers
(`Trusted`), and there `ReadDelivers` and `WriteStores` say what a call transfers. `CallsReturn` speaks of
every call of every caller, also of one that is not orderly.

## 3. What the runs check

| run | bounds | properties |
|---|---|---|
| `fs` | 3 slots, 4 paths, inline size 2, archives that name a path twice, hold an oversized file, or have more entries than slots | `TypeOK`, `UniquePaths`, `UsedCoversLive`, `UsedIsLiveIfFitting`, `TextHasItsSize` |
| `fs_map` | 3 slots, 4 nested paths, inline size 3, three well-behaved archives with directories and files, no editor | `TotalIsSum`, `RmdirLeavesNoOrphans`, `ImplementsFileMap` |
| `fat32` | 5 clusters of 2 cells, 3 files in the root or a directory with one, texts of 2 or 3 cells; 18 typed names, room for 3 and 1 characters, 2 entries | `ChainsAreDisjoint`, `WriteReadsBack`, `CreateFindsRoom`, `OthersKeepTheirContent`, `ListingsLeadBack` |
| `output` | *terminal*: a 2 by 3 grid; 7 bytes printed with the linked driver, 6 with the UTF-8 driver; lines of 2, history of 2, 3 commands; 7 outlines in every packing, bitmaps up to 8 by 8, 4 cuts kept of a row. *network*: rings of 3, 2 hosts, 4 pings, 3 received frames, 2 rounds per wait; virtio queues of 2, indices modulo 4 | `ShowsTheLastRows`, `EchoShowsTheLine`, `HistoryIsRecent`, `InkFollowsTheOutline`, `RecvSeesTheOldest`, `WireKeepsTheOrder`, `AnsweredByThisFrame`, `PingReturns`, `InOnePlace`, `BuffersAreKept` |
| `machine` | *boot*: every list of up to three tags out of six, archives of up to four entries whose names and texts end at every place of a word; paths are cut behind 4 tokens, font names behind 2. *disks*: disks of 3 and 1 sectors (or one and an ATAPI drive or nothing), requests for 0 to 2 sectors, by careful callers and others, 2^32 as 8, 2^28 as 4, 1 round per wait. *programs*: editor: 3 rows of 4 columns, inline size 8; scripts: a slot of 13 tokens, lines cut at 4; 3 modifier keys; paths: 3 characters, a field of 5, 3 nodes | `FindsTheTags`, `ExtractsTheArchive`, `FontIsTheFile`, `EveryBootEnds`, `PresentIsReal`, `AsksInside`, `ReadDelivers`, `WriteStores`, `EveryCallReturns`, `CursorInText`, `BackspaceUndoesEnter`, `OpenShowsAll`, `CleanMeansStored`, `RunsEveryLine`, `EveryScriptEnds`, `ModifiersAreHeld`, `PathsLeadThere` |

Why these bounds are enough to meet the interesting cases:

- `fs`: three slots for four paths, so the table fills up in the middle of an
  archive and under a command; a slot in the middle has neighbours on both sides
  for the terminator; `a` and `ab` make the text prefix differ from the path
  prefix, and an archive can name `.`, which no command can. `CountersBounded`
  (`MaxUsed`, `MaxTotal`) stops the exploration once a counter has drifted above
  4: wiped slots let `used_nodes` grow without end, and the editor `total_bytes`.
- `fs_map`: the archives here name paths once and hold no file of `InlineSize`
  bytes. That is the condition under which the counter and the refinement hold
  at all; the run `fs` covers the other archives.
- `machine`, the boot: sizes that are multiples of eight, one above and one below; framebuffer and
  module tags that come twice, in either order, or not at all; `font.cfg` before or
  behind the fonts, with and without newline, with two fonts or none; fonts that are
  missing, empty, double, or written with `./` or `/`; paths of five tokens, of which the last is cut off, and
  font names of two tokens, which fit, and of three, which do not.
- `fat32`: a file of three cells needs a second cluster; a directory of two
  cells is full and must grow; five clusters run out. With three entries the root gets
  a second cluster, behind whose end entries hide and come back. Calls write one
  text, since nothing in the code looks into it; `WriteReadsBack` tries a second. The
  names have stems and extensions below, at and above their room, dots in every place,
  and both cases.
- `output`, the network: four requests lap a ring of three; two hosts make a wrong answer
  recognisable. `MaxPings` and `MaxFrames` only bound the histories. The virtio indices
  wrap after four submissions and nothing else counts there, so the run covers sessions of every length.
- `output`, the terminal: seven bytes fill and scroll a grid of six cells; the bytes of the UTF-8
  driver include a complete letter, its two halves apart, and the start of a longer
  sequence. Three commands overflow a history of two, and the prompt is in
  the bottom row after the first. The outlines have holes, curves that begin off the
  outline, corners, points that lie on top of each other, and parts outside the bitmap.
- `machine`, the programs: with at most 3 rows of 3 characters every limit of the editor is hit: the number
  of rows, the length of a row, the room of the file in the middle of a row, at
  its end and one byte behind it. Scripts have one to three lines, empty, comments or
  commands, with each of the three line ends and with none at the end, and a line that is cut. Paths are
  all texts of up to three characters and some longer ones, typed in the root and
  below it, some of them too long for the field.
- `machine`, the disks: requests can be inside the disk, touch its end, stick out by one, and
  wrap; a transfer of two sectors has a flush in its middle and a failure before,
  between and after its sectors; two drives share the registers. A count of 0 and a sum that wraps
  reach the drive in the linked version. Sectors take two values. No call begins after one that was not `orderly` or that left a drive at
  work (a bound in `Request`), so the system stops there.

Deadlock is not checked where the system really stops: at the prompt or halted, when a script is done
or behind a call that was not `orderly` or left a drive waiting for the driver
(`machine`), with nothing left to print, or with all pings used up and the card done (`output`).

Violations, each one property that a text of the repository states and the code
breaks:

| run | property | the text | what happens |
|---|---|---|---|
| `fs_used_claim` | `UsedIsLive` | `kernel_utils.h:54` "nodes currently allocated" | a content of `ES1_INLINE_SIZE` bytes wipes the flags of the next slot (`es1.c:103`) |
| `fs_mv_claim` | `MvKeepsTheFile` | `command_logic.c:1112` "Move/rename file" | the source is freed whatever became of the write (`command_logic.c:381`) |
| `ping_sent_claim` | `WaitEndsWithTheFrameSent` | `e1000.c:185` "Spin until the TX head catches up to our last submitted descriptor" | `tx_cur` laps the head and the wait ends at once |
| `outline_claim` | `EveryOutlineIsDrawn` | `ttf_render.h:18` "On-curve and off-curve (quadratic Bezier) contours" | between two neighbouring points off the curve the piece before their middle is drawn twice and the one behind it never (`ttf_render.c:348`) |
| `fs_cp_claim` | `CpCopiesTheFile` | `command_logic.c:1111` "Copy file" | `cp` reads `inline_data`, so the copy of a file of the archive is zeros (`command_logic.c:361`) |
| `ata_bounds_claim` | `SectorsExist` | `drivers/sata/sata.c:162` "lba + count could wrap around UINT32_MAX, bypassing the bounds check. Validate safely without overflow." | the linked version of the function passes a count of 0 and a sum that wraps (`sata.c:164`) |
| `script_wait_claim` | `EveryWaitEnds` | `bsh.h:8` "pause for N seconds" | nothing advances `boot_ticks` while a script waits (`bsh.c:66`) |

### Fairness

`PingReturns`, `EveryCallReturns`, `EveryScriptEnds` and `EveryBootEnds` are liveness properties. They
assume weak fairness of the processor only, which executes the next instruction:
`WF` of `Driver` in `Ping` and `Ata`, of the next step in `Script` and `Boot`, where
nothing else moves. That is all the code justifies, and all that is needed, since the
loops of `net_ping` and of the
ATA driver count their rounds; card, network and drives may do nothing for ever.
`EveryScriptEnds` presumes that commands come back, and speaks of scripts without a
wait that takes time; that a wait ends is `EveryWaitEnds`, which is violated under the same fairness. `EveryBootEnds`
presumes tags of at least eight bytes, as every loader writes
them, because a size of 0 keeps the loops where they are. Everything else is a safety
property of specifications without fairness.

### Known deviations met while modelling

Besides the violations above, the model shows these, which the properties are worded
around or leave out:

- A text longer than `inline_data` is cut by `^S` and shown as saved
  (`command_logic.c:678`).
- `total_bytes` is not adjusted by the editor's save (`command_logic.c:683`), so
  `TotalIsSum` is checked without the editor, and an archive that names a path
  twice counts both sizes (`cpio.c:232`).
- `write`, `mv` and a save on a file whose content is in the archive leave the flag `EXTDATA` as it is or read
  `inline_data`, like `cp` above: `ImplementsFileMap` excepts them, as long as they touch no other path. An entry
  with content, whose path is a directory already, gives the directory that content (`cpio.c:226`).
- An empty regular file of the archive becomes a directory (`cpio.c:206`), although `cpio.h:75` says "insert every
  regular file into ES1 under the path recorded in the archive".
- `cpio_extract_all` counts a file for which no node was left (`cpio.c:234`), although `cpio.h:81` says "number of
  files extracted"; only the sign of the count is looked at (`initramfs.c:148`).
- The path of an archive entry is cut behind 125 characters (`cpio.c:81`), the name in `font.cfg` behind 63
  (`initramfs.c:111`): `ExtractsTheArchive` speaks of the cut path, `FontIsTheFile` of names that fit.
- Creating a FAT32 entry in the place of a deleted one ends the directory behind
  it and hides the later entries (`fb.c:507`): `CreateFindsRoom` promises to keep
  the others only in a directory from which nothing was deleted. A hidden entry in a
  later cluster comes back when the last place of the cluster before it is taken, by then
  perhaps behind a newer entry of the same name. The directory then holds the name
  twice, and deleting the first shows the older file: `OthersKeepTheirContent`
  excepts a delete of the file itself.
- `vq_submit` reduces indices modulo `VIRTQ_MAX_DESC`, a device with a smaller
  queue modulo its own size (`virtio.c:134`).
- Backspace refuses to merge two rows that fill a row exactly
  (`command_logic.c:762`).
- The editor saves the last two bytes of the room differently from the rest, so
  `CleanMeansStored` is restricted to texts that leave them alone.
- The ATA driver reports success when a wait gave up (`sata.c:182`) or a write
  failed after its last sector (`sata.c:232`), and reports a drive whose size it
  never read (`sata.c:78`).
- A wait for the virtio device that gave up once leaves every later wait one frame
  behind, so that sends overlap in `pkt_buf[0]` (`virtio.c:246`): `BuffersAreKept`
  speaks of sessions without. With no free descriptor left `net_ping` returns before
  it waits (`net.c:82`), nothing is reaped any more, and sending is over for good.
- A path of 64 characters or more is kept with the owner's name written over what lies
  behind the 64th (`es1.c:77`, then `command_logic.c:260`), and is not found under its
  name again; from 90 characters on it also reaches size and contents of the node.
  `kernel_utils.h:32` says that paths are stored in full.
- A FAT32 directory whose name with its extension has more than eight characters can
  be created and listed but not entered (`fb.c:488` cuts before it packs), and a stem of more
  than eight loses its extension.
- The Turkish letters are mapped to 167 ... 222, while their glyphs stand in the rows
  95 to 106 of the font (`drivers/fb/fb.c:74`); those rows are blank.
- `tty_putchar` of a newline clears its row from the cursor on, so CR LF clears
  the row it ends.
- A script whose first line ends in a lone CR runs nothing, and a line that does not fit is cut; `RunsEveryLine`
  excepts both. It also excepts a comment behind a command, which becomes the command's arguments (`bsh.c:90` looks at
  the start of a line only) although `bsh.h:34` says "Parses each line, strips comments". A script that rewrites its file goes on with what then lies there.
- A `font.cfg` without an end of line behind the name whose text fills its last word yields the
  fallback font; `FONT=` counts wherever it stands, also in a comment.
- `cpio_find_file` takes the first entry of a name, ES1 keeps the last.
- The two shift keys share one flag (`kernel.c:234`), and a shift let go while a
  program reads the keys stays set on the command line: `ModifiersAreHeld` excepts
  it. The editor does not know caps lock.
- `cat` shows nothing of a file in the archive; `date` reads the clock without
  looking whether it is being updated (`command_logic.c:808`).
- `command_count` is 38 for 39 entries, so `morse` cannot be run
  (`command_logic.c:1147`).

## 4. What is proved

Every run shows its properties for the small instance of its `.cfg`. The theorems
below state them for every value of the constants; each names the definition that the
run checks.

| module | theorem | statement |
|---|---|---|
| `FsShellProofs` | `TypeCorrect` | `Spec => []TypeOK` |
| | `PathsAreUnique` | `Spec => []UniquePaths` |
| | `UsedCovers` | `Spec => []UsedCoversLive` |
| | `UsedIsExact` | `Spec => []UsedIsLiveIfFitting` |
| | `TextsAreMeasured` | `Spec => []TextHasItsSize` |
| | `RmdirIsSafe` | `Spec => RmdirLeavesNoOrphans` |
| | `ShellImplementsMap` | `Spec /\ Fitting(archive) => ImplementsFileMap` |
| | `TotalIsExact` | `NoEditSpec /\ Fitting(archive) /\ NamedOnce(archive) => []TotalIsSum` |
| `AtaProofs` | `SizesAreReal` | `AtaSpec => []PresentIsReal` |
| | `RequestsStayInside` | `AtaSpec => []AsksInside` |
| | `ReadsDeliver` | `AtaSpec => ReadDelivers` |
| | `WritesStore` | `AtaSpec => WriteStores` |
| `NetworkProofs` | `SendsInOrder` | `PingSpec => []WireKeepsTheOrder` |
| | `ReceivesInOrder` | `PingSpec => []RecvSeesTheOldest` |
| | `AnswersAreFresh` | `PingSpec => AnsweredByThisFrame` |
| | `DescriptorsKeepTheirPlace` | `QueueSize = MaxDesc` gives `VirtioSpec => []InOnePlace` |
| | `BuffersHaveOneWriter` | `QueueSize = MaxDesc` gives `VirtioSpec => []BuffersAreKept` |
| `ProgramProofs` | `CursorIsInText` | `Spec => []CursorInText` |
| | `BackspaceIsEntersInverse` | `Spec => []BackspaceUndoesEnter` |
| | `OpeningShowsAll` | `Spec => []OpenShowsAll` |
| | `CleanIsStored` | `Spec => []CleanMeansStored` |
| | `LinesAreRun` | `ScriptConstants` gives `ScriptSpec => []RunsEveryLine` |
| | `PathsAreUnderstood` | `PathConstants` gives `PathsSpec => []PathsLeadThere` |
| `TerminalProofs` | `LineIsShown` | `ShellConstants` gives `ShellSpec => []EchoShowsTheLine` |
| | `HistoryIsKept` | `ShellConstants` gives `ShellSpec => []HistoryIsRecent` |
| | `FlagsAreHeld` | `KeySpec => []ModifiersAreHeld` |
| | `LastRowsAreShown` | `Spec => []ShowsTheLastRows` (`Console`) |
| `Fat32Proofs` | `ChainsStayApart` | `Spec => []ChainsAreDisjoint` |
| | `RoomIsFound` | `Spec => []CreateFindsRoom` |
| | `WritesReadBack` | `Spec => []WriteReadsBack` |
| | `OthersAreKept` | `Spec => OthersKeepTheirContent` |
| | `NamesLeadBack` | `DosNames!Spec => []ListingsLeadBack` |
| `BootProofs` | `TagsAreFound` | `BootSpec => []FindsTheTags` |
| | `ArchiveIsExtracted` | `BootSpec => []ExtractsTheArchive` |
| | `FontIsFound` | `BootSpec => []FontIsTheFile` |

`Basics` has the lemmas on numbers, sequences and folds that the others share.

### Assumptions

- File system: `ConstantsAssumption` (`Es1`) and `ArchivesAssumption` (`FsShell`): at least
  one slot, `/` is a path, the texts users can enter are shorter than `inline_data`,
  archives are sequences of entries. About the payloads nothing is assumed.
- Drives: `AtaAssumption`: no drive has more sectors than its registers can address,
  addresses are below the modulus, and nobody asks for as many sectors as the
  count register holds.
- e1000: `E1000Assumption`, a ring of at least two; the theorems about `Ping` have no other.
- virtio: `VirtqueueAssumption`: the queue fits the rings, indices have more values than a ring has
  places and wrap at a multiple of them; and `QueueSize = MaxDesc`, which `virtio.h:93` demands ("must match device's
  queue size") and `virtio.c` does not test.
- FAT32: `Fat32Assumption`: there is a root cluster, a cluster holds at least two entries, and a path has at
  least one name. Names: `RamDiskAssumption`: stem and extension have room for at least one character, what
  is typed is a text.
- Boot: `LoadsAssumption`: the last tag, and no other, has type 0, and a tag is at least as long as
  its header, as the format of Multiboot2 has it; the archive has a trailer, and its names are not empty.
  `RoomAssumption`: the path of `font.cfg` and that of a font fit the path buffer, as 125 and 63 do.
- Editor: `EditorAssumption`: a newline is not a character, a line from the command line is
  shorter than a row and than `inline_data`. `ProgramProofs` is about scripts and paths too; no step of those
  proofs uses this.
- Scripts: `ScriptConstants`: a script, and what its commands write in its place, is a text without a NUL
  and shorter than `inline_data`; a line buffer of at least one byte.
- Paths: `PathConstants`: what is typed and the owner are texts that are not empty. They may be of any length:
  that a path is cut before 256 characters and after 64 names (`command_logic.c:122`, `:131`) is not modelled, because
  a line of the shell is too short for one.
- Command line: `ShellConstants`: a prompt and the longest line fit on a row, and what can be
  typed is printable. Commands may print anything, newlines and backspaces
  too, as long as the output ends with a newline.
- Console: `TtyAssumption` and `ConsoleAssumption`: a grid of at least one cell, tab stops at least one
  column apart, the values of the control characters, and a cell for each of the 223 glyphs and the empty
  one, numbered 0. `TerminalProofs` is about the command line too, so these numbers are presumed there as well;
  no step of those proofs uses them.

TLC evaluates each of them in the runs of the module.

### The arguments

**File system, counters and slots.** `TypeOK` and `UniquePaths` are not inductive alone: the type of
`extracted` needs `extracted < pos`, and a bound on the counter needs its relation
to the table. The inductive invariant is `Inv`, whose part `Good(fs)` says of one
record that it is well typed, that no path is in two live slots, and that
`used` is at least the number of live slots. One lemma per operation (`AllocKeeps`,
`FreeKeeps`, `WriteKeeps`, `TouchKeeps`, `CopyKeeps`, `PointAtKeeps`,
`ExtractKeeps`, `SaveKeeps`) shows that it turns a good record into a good record; each command
is a composition of operations and its case cites them. The terminator in
`Write` is where the work is: it can remove a slot from the live ones, never add
one, so uniqueness and `>=` survive although equality does not. `UsedIsExact`
strengthens `Inv` with `Exact`: the counter equals the number of live slots *and
every live node is shorter than `inline_data`*. The second half is what makes
the first inductive: `cp` passes the size of the source node to `es1_write`.
`FirstIsMember` proves that the first slot of a set is in it, by well-foundedness
of `<`, since `First` is a `CHOOSE`.

**File system, content.** For `TextHasItsSize` one must know that nothing has a text before the
boot is over (`Textless`): a node that points into the archive has a size and
`inline_data` of zeros, and only a command that writes a text changes both. `RmdirIsSafe` compares the
text prefix of the code with the path below: every path below `p` has the text of `p`
as a prefix, so the scan of `rmdir` sees at least the children.

**File system, the sum.** `SizeSum` is a fold over a set, in an order nobody chose. `Sums(T, sz)` is a function
on all sets of slots that loses one size with each slot taken out; it exists
(`SumsExist`, one slot at a time) and whoever adds a set up one slot after the other gets its value (`SumIs`).
With it, each operation of `es1.c` moves one slot or one size and `total` follows (`JoinedSummed`,
`LeftSummed`, `ResizedSummed`). Three hypotheses are needed, and each is
there for a line of the code: a save in the editor sets `size` alone; a terminator that wipes
a neighbour takes its size from the table and not from `total` (`Fitting`); and `cpio.c:232`
adds the size of an entry to a node that may have one already. For the last, `Awaited`
says of every file still to come that a node of its path is empty (`NamedOnce`).

**Refinement.** `ShellImplementsMap` shows that the initial states of `FsShell` map to
the initial state of `FileMap`, and that each step is the operation of the map its label and arguments say. The
mapping reads the file at a path through `es1_find`; `FileIn` says the same of
a record, and for each operation of `es1.c` a lemma (`AllocFiles`, `FreeFiles`, `UpdateFiles`, `TouchFiles`,
`StoreFiles`, `ProvideFiles`) says which paths change their file and to
what; a lemma per kind of step (its name ends in `Matches`) puts these together. A free slot corresponds to room in
the map (`RoomIsVacancy`), and a write leaves the content of a node to `inline_data` unless it points into the archive
(`ContentFiles`). The theorem presumes an archive without
a file as long as `inline_data`: with one, a write wipes the
neighbour, which no operation of the map does.

**Drives.** `AsksInside` says of a drive at work that what it has
still to transfer lies inside it; to know this of a command when it is issued
one must know it of the request that was accepted (`ready`, `issue`), hence that the
size it was compared with is the drive's, which is `PresentIsReal`; and that size is
real because the driver, while orderly, reads it from a drive that offers the
data of an IDENTIFY, which only a disk does. `Sound` holds these facts for orderly
states; `Place` says which call may be where and which drive is selected; `Doing`
says that no drive transfers before the first call, so that data offered during
`ata_init` is that of an IDENTIFY. `NotRefused` shows that the check of the guarded driver is enough for every request,
that of `sata.c` for those of careful callers, whose sum does not wrap, and
`SmallMod` that the address in the registers is the caller's. For what a call leaves behind,
`Progress` ties the sector the drive is at to the one the driver counts, at every
wait, also while the flush in the middle of a transfer is ignored; `Held` says of the buffer and of the
disk what the first `s` sectors have become.

**e1000.** Driver and card share indices that wrap; the invariants
`TxInv` and `RxInv` name for each index the counter of the histories whose remainder it is
(`rx.next = taken % NumDesc`), and for each buffer which frame is in it. That the
card cannot overtake is `Len(stored) <= taken + NumDesc - 1`, from which two frames never
share a buffer (`RoundApart`). On the sending side nothing bounds the distance, since
`virtio_net_send` does not look at the DD bit; so `TxHolds` says only that a buffer holds the
*last* frame that was filled in at its index (`LatestRound`), which is why the order survives
when the tail laps the head.

**virtio.** The invariant `NetInv` gives each descriptor a place (a function
from descriptors to five places) and says that free list, available ring and used ring each list the
descriptors of one place once. Unbounded counters stand for the four wrapping
indices. Each helper (`vq_alloc_desc`, `vq_free_desc`, `vq_submit`, `vq_pop`) and each step of the
device moves one descriptor from one place to another: one lemma each. `FreeListIs`
and `EntriesBetween` show that the sequences the property speaks of are these
lists, and `PlacesAre` that five disjoint lists make up all descriptors.

**Editor.** `Edits` is the set of structs whose cursor is on a row that exists and within it;
each key is shown to stay in it. Opening and saving are folds (`Load`, `Store`): a fold is the
last value of a run, one value per element, and what is shown of the run by
stepping along it holds of the fold (`FoldExists`, `FoldRuns`). `TextOf` is a run too, of the file
glued together row by row; `LoadsText` shows that reading it gives the rows back, `StoreText` that saving
writes the text of the rows, the last of them perhaps cut. Hence `Written`: every
file is a line from the shell or the text of some rows, which gives `OpenShowsAll`; and with room
for the whole text, `Store` and `Lines` agree (`FitsStores`), which gives `CleanMeansStored`.

**Command line.** A grid is `Tidy` when nothing is drawn behind the cursor or below its row. Every
character keeps it so (`PutcharIsTidy`), therefore a newline always finds an empty row, also when it scrolls
one in. Printing is a fold; `PrintsPlain` and `RubsOut` say what a run of letters
and a run of backspaces do to the row of the cursor. `Recent` ties the history to the last
entries of what was run.

**Console.** The text alone determines an endless page of rows (`PageOf`); `Showing` says that the grid is
the window on its last rows, blank where a row has ended. A character either changes the row of the cursor
(`RowChanges`) or begins a new one (`RowTurns`, where a window that is full moves down), and a lemma for each
control character, the wrap and the tab shows that it does the same to both. The page of a text is a fold
over its characters, so it grows as the text does (`LaidGrows`). For the UTF-8 driver one must know, as
well, which characters a text has: `Meaning` says of each byte what it completes, looking back, and
`DecoderAt` that the decoder is in the middle of a sequence exactly if the text is, with as many
bytes to come and the value so far. `DecodeIs` shows that every byte keeps it so, a byte that cuts a sequence
off included, and `MeaningStays` that what earlier bytes mean no longer changes.

**FAT32.** That two names never share a cluster cannot be shown of the names alone: entries that no path reaches,
of a directory that was deleted or cut off by a shorter write, come back when their cluster is linked again.
`Sound` therefore speaks of *all* entries in clusters that are in use: each names a cluster at which nothing else points, no link
and no other entry, and no two links lead to one cluster. Two chains that meet have come
the same way (`PathsMeet`), so a chain from a cluster without a link to it neither shares a cluster nor
returns to itself; and a path that reaches an entry is the only one (`OnePath`), since the entry lies
in one chain and that chain, by the same argument one name earlier, belongs to one directory. Each call is a composition of
few steps: `ClaimSound`, `PutSound`, `LinkSound`, `FilledSound`, `UnlinkedSound`. A write must also not reach the directory its entry is
in, which is `ParentIsAnother`.

**FAT32, contents and listings.** Given `Sound`, three questions remain. *What does a create do to a listing?* `Gains`
says it of the chain of the directory: the new name takes the first place that is free, or the first of a cluster
claimed and linked behind; where nothing was deleted no place before it is free, and no listed entry lies
behind it. *What does a write leave?* The chain is filled cluster by cluster, grown and cut on the way;
`OverwriteReads` follows one cell of the text to the cluster it went to and back through `Read`, for which two
cells must not have gone to one place, again by `Sound`. *What does a call do to a file that it does not name?*
`AgreeBut` says of the disks before and after the call that every directory but the one the call wrote or deleted finds
the same entry under every name but the one it named. The path of the file is walked on both; where two walks part
for the first time, a directory that both are in finds two things under one name (`WalksPart`), and `AgreeBut` leaves
for that only a path over which the call's file lies. Hence both arrive at the same entry (`AgreeIsSame`), and the chain behind it
keeps its clusters and cells, since by `Sound` the call had none of them.

**Names.** A packed name has no dot in its stem, is in capitals and no longer than its room (`IsEntry`). So the first dot
of what is listed is the one that `Unpack` put there, and packing that again cuts nothing and changes no letter
(`PackedAgain`). The tree keeps with every path the name its last part was packed from, of which `ListedAsTyped` speaks.

**Boot.** The places of tags and entries are sums of the padded sizes before them (`IsSum`), and the pointers of the
code add what they read. `TagPlaces` and `EntryPlaces` show the one to be the other, step by step, and
`TagsApart` and `EntriesApart` that no two things begin at one place, so that what a pointer stands on is
one thing. The invariant `BootInv` then says of each loop at which tag or entry it is and
what it has seen before: no framebuffer, the last module, the entries so far handed over, no
`font.cfg`, no font. When the walks have ended, the first trailer is the same for all three (`FirstTrailerIsOne`). What
`FontNamed` finds in the bytes of `font.cfg`, which go on behind its text, is in `NoMark` and
`OneMark`: the padding has no `FONT=`, and a newline ends the name inside the text.

**Scripts.** `MeantUpTo` gathers, character by character of the text, the lines to be run that begin there.
`ScriptInv` ties the memory to it: while no command has touched the slot, it holds the text and a NUL; the script
stands behind an end of line or at the end of the text; and `ran` is what was gathered up to there.
`LineIs` shows that the line read from memory is the one that begins behind the end of line, and `NextLine` that from
one end of line to the next at most this one is gathered: between CR and LF, and between two ends, no line begins.
`ShebangIs` is the only place that needs the first line to end in LF or CR LF: otherwise lines begin in
front of the first that is run. A line that the code skips or waits at says nothing that would be gathered, so `ran` and
what was gathered agree behind it too.

**Paths.** A walk over a text knows only the names so far and the one that is open. So two texts whose walks
agree still agree when the same is put behind both (`WalksAlike`). A path that was put together from names is
walked to these names (`PathWalks`, by a new name gathered behind each slash), hence
what `normalize_path` returns resolves to itself. `x/y` is glued to a directory as `x` is, with `/y` behind it
(`BaseOfBelow`), and behind what `x` resolves to the walk is where it is behind `x` (`ResolvedBelow`); the root, which already
ends in a slash, is the case of its own there. That a path is found once rests on `PathsInv`: a path that fits was not there
before its `mkdir`, and what is kept of one that does not fit is too long to be another's.

**Keyboard.** `ModifiersAreHeld` speaks of the flags of `kernel_main` only while it reads the keys. What makes
it true again when a program ends is that `missed` collects every flag it then gets
wrong; the invariant says so whoever reads.

Induction is always over a number or a position: a set of numbers that is not empty has a least
element (`LeastExists`), so a counterexample has a first one, and the step before it was none.

### Only model-checked

- Liveness (`PingReturns`, `EveryCallReturns`, `EveryBootEnds`, `EveryScriptEnds`) and `ENABLED`: out of
  the prover's reach. The violated properties are not theorems, of course.
- `InkFollowsTheOutline`: `Glyph` declares a RECURSIVE operator, over which the provers stop.

## 5. Not modelled

- Two thirds of the lines of the repository are a vendored decoder (`stb_image.h`), a table of
  names (`drivers/pci_vendors.c`) and two pictures (`itsblex_png.h`, twice): data or
  the code of others.
- Image decoding: the allocator under it only counts up.
- The tables of a font (`cmap`, `loca`, `hmtx`), compound glyphs, and copying a bitmap
  to the screen; colours, the logo.
- The log ring and the boot log, which are not linked, and `idt.c`, `sio.c`,
  `monky.c`, `hello.c`: no state of interest. The boot log's walk over the tags is that of `fb_init`.
- Commands that only print (`ls`, `cat`, `stat`, `fetch`, `lspci`, `date` ...):
  they change nothing.
- PCI probing, the EEPROM, virtio's feature negotiation, and device initialisation
  beyond the state it leaves; the second ATA channel, which is the same code on other ports.
- `boot.s`, which passes two registers on.
- Buffers that a FAT32 path of more than 63 characters or a name of more than 31
  overruns (`fb.c:480`).

## 6. Plan

Order of the modules, the most important behaviour first; all of these are written.

1. `Es1`, `FsShell`, `FileMap`, `FsShellProofs`: the file system is what every
   command works on.
2. `Fat32`; `E1000`, `Ping`; `Virtqueue`, `VirtioNet`: shared memory and chains.
3. `Editor`; `Tty`, `Shell`.
4. `Ata`, `AtaProofs`.
5. `Boot`; `Utf8`, `Console`; `Glyph`; `Script`; `Keyboard`; `Paths`, `Dos83`.

Proved are the theorems of section 4: every safety property that a run checks is stated by one,
except `InkFollowsTheOutline`. What could come next: if the renderer is ever linked with other
fonts, its `cmap` look-up.
