-------------------------------- MODULE Boot --------------------------------
(***************************************************************************)
(* From the loader to the shell: fb_init (src/fb.c) and detect_initramfs   *)
(* (src/drivers/initramfs.c) walk the tags of Multiboot2, cpio_extract_all *)
(* and cpio_find_file (src/drivers/cpio.c) the archive of the module, and  *)
(* load_dynamic_font looks the font up.  Addresses are offsets, in bytes.  *)
(* What es1 does with an entry is in FsShell.                              *)
(***************************************************************************)
EXTENDS Integers, Sequences, SequencesExt, FiniteSetsExt

CONSTANTS
  Loads,     \* what a loader may pass: tags, a sequence of [type, size, value]
             \* with type 0 at the end, and an archive, a sequence of
             \* entries [name, text] with the trailer at the end
  Fallback,  \* the font of system.h (SYS_FALLBACK_FONT_NAME)
  FallbackFb, \* the framebuffer address taken when no tag names one
  PathRoom,  \* what es1_path has room for behind its "/" (125 in cpio.c)
  NameRoom   \* what font_name has room for (63 in initramfs.c)

VARIABLES
  magic,    \* whether eax held the magic number of Multiboot2
  tags, archive,
  stage,    \* "fb", "module", "extract", "cfg", "font", "shell" or "halted"
  p,        \* the pointer of the loop under way
  fb,       \* fb.addr
  module,   \* initramfs_mod_start: "none" (0), "archive" or "other"
  seen,     \* what cpio_extract_all handed to ES1
  wanted,   \* font_path
  font      \* the address given to ttf_init, 0 at first

bootVars == <<magic, tags, archive, stage, p, fb, module, seen, wanted, font>>

HeaderSize == 110
TagFramebuffer == 8
TagModule == 3
CfgName == <<"fonts/", "font.cfg">>

(* The path of font.cfg, and that of a font, fit the path buffer.          *)
ASSUME RoomAssumption ==
  /\ PathRoom \in Nat /\ NameRoom \in Nat \ {0}
  /\ Len(CfgName) < PathRoom /\ NameRoom + 1 < PathRoom

-----------------------------------------------------------------------------
(* Where the loader puts the tags and the cpio tool the entries.           *)

Padded(n, unit) == ((n + unit - 1) \div unit) * unit
NameSize(e) == Len(e.name) + 1
TagPlace(ts, i) == FoldLeft(LAMBDA a, t : a + Padded(t.size, 8), 8, SubSeq(ts, 1, i - 1))
DataPlace(e) == Padded(HeaderSize + NameSize(e), 4)
EntryPlace(es, i) ==
  FoldLeft(LAMBDA a, e : a + DataPlace(e) + Padded(Len(e.text), 4), 0, SubSeq(es, 1, i - 1))

TagAt(a) == {i \in DOMAIN tags : TagPlace(tags, i) = a}
EntryAt(a) == {i \in DOMAIN archive : module = "archive" /\ EntryPlace(archive, i) = a}

(* From the text of an entry to the magic number of the next one.          *)
BytesFrom(e) ==
  e.text \o [i \in 1 .. Padded(Len(e.text), 4) - Len(e.text) |-> "NUL"] \o <<"070701">>

-----------------------------------------------------------------------------
(* As AlignTag, but without rounding up.                                   *)
AlignTagNot(size) == size

(* As AlignTag, but the size is taken for the one of the body.             *)
AlignTagBody(size) == ((size - 8 + 7) \div 8) * 8

AlignTag(size) == ((size + 7) \div 8) * 8

(* parse_hex and & ~3u.                                                    *)
Align4(off) == ((off + 3) \div 4) * 4

(* As CpioNext, but the next header follows the data at once.              *)
CpioNextTight(a, e) == a + Align4(HeaderSize + NameSize(e)) + Len(e.text)

CpioNext(a, e) == a + Align4(Align4(HeaderSize + NameSize(e)) + Len(e.text))

DataOf(a, e) == a + Align4(HeaderSize + NameSize(e))

(* cpio_normalise_name: "./" goes and then one "/".                        *)
Without(name, prefix) ==
  IF IsPrefix(prefix, name) THEN SubSeq(name, Len(prefix) + 1, Len(name)) ELSE name
Normalised(name) == Without(Without(name, <<".", "/">>), <<"/">>)

(* cpio_to_es1_path copies what its buffer has room for.                   *)
Cut(name) == SubSeq(name, 1, IF Len(name) < PathRoom THEN Len(name) ELSE PathRoom)

(* The walks end at the trailer and where no header is.                    *)
IsTrailer(e) == IsPrefix(<<"TRAILER!!!">>, Normalised(e.name))
Entry(a) == {archive[i] : i \in {i \in EntryAt(a) : ~IsTrailer(archive[i])}}

(* What a loader passes: the last tag, and no other, has type 0, and the   *)
(* archive has a trailer.                                                  *)
IsSequence(s) == s \in Seq({s[i] : i \in DOMAIN s}) /\ s # <<>>

ASSUME LoadsAssumption ==
  \A load \in Loads :
    /\ IsSequence(load.tags)
    /\ \A i \in DOMAIN load.tags :
         /\ load.tags[i].size \in Nat /\ load.tags[i].size >= 8
         /\ load.tags[i].type = 0 <=> i = Len(load.tags)
    /\ IsSequence(load.archive)
    /\ \A i \in DOMAIN load.archive :
         /\ load.archive[i].name \in Seq(STRING) \ {<<>>}
         /\ load.archive[i].text \in Seq(STRING)
    /\ \E i \in DOMAIN load.archive : IsTrailer(load.archive[i])

-----------------------------------------------------------------------------
(* As NameBehind, but the end of the line does not end the name.           *)
NameBehindToNul(bytes, i) ==
  LET Stop(j) == j - i = NameRoom \/ j = Len(bytes) + 1 \/ bytes[j] = "NUL"
      end == CHOOSE j \in i .. Len(bytes) + 1 : Stop(j) /\ \A k \in i .. j - 1 : ~Stop(k)
  IN  SubSeq(bytes, i, end - 1)

(* The rest of the line from i on, as far as font_name has room for it.    *)
NameBehind(bytes, i) ==
  LET Stop(j) == j - i = NameRoom \/ j = Len(bytes) + 1 \/ bytes[j] \in {"NL", "CR", "NUL"}
      end == CHOOSE j \in i .. Len(bytes) + 1 : Stop(j) /\ \A k \in i .. j - 1 : ~Stop(k)
  IN  SubSeq(bytes, i, end - 1)

(* The first "FONT=" before a NUL counts, wherever it stands.  The search  *)
(* knows no size: a text that fills its last word goes on into the header. *)
FontNamed(e) ==
  LET bytes == BytesFrom(e)
      hits == {i \in DOMAIN bytes : bytes[i] = "FONT=" /\ \A j \in 1 .. i : bytes[j] # "NUL"}
  IN  IF e.text = <<>> \/ hits = {} THEN <<Fallback>>
      ELSE NameBehind(bytes, (CHOOSE i \in hits : \A j \in hits : i <= j) + 1)

-----------------------------------------------------------------------------
BootInit ==
  /\ magic \in BOOLEAN
  /\ \E load \in Loads : tags = load.tags /\ archive = load.archive
  /\ stage = "fb" /\ p = 8
  /\ fb = 0 /\ module = "none" /\ seen = <<>> /\ wanted = <<>> /\ font = 0

boot == <<magic, tags, archive>>

(* Without the magic number fb.addr stays 0 and kernel_main halts.         *)
NoFramebuffer ==
  /\ stage = "fb" /\ ~magic
  /\ stage' = "halted"
  /\ UNCHANGED <<boot, p, fb, module, seen, wanted, font>>

(* fb_init leaves its loop at the first framebuffer tag.                   *)
FbInit ==
  /\ stage = "fb" /\ magic
  /\ \E i \in TagAt(p) :
       IF tags[i].type \in {0, TagFramebuffer}
       THEN /\ fb' = IF tags[i].type = 0 \/ tags[i].value = 0 THEN FallbackFb ELSE tags[i].value
            /\ stage' = "module" /\ p' = 8
       ELSE p' = p + AlignTag(tags[i].size) /\ UNCHANGED <<fb, stage>>
  /\ UNCHANGED <<boot, module, seen, wanted, font>>

(* detect_initramfs goes through all the tags; the last module stays.      *)
DetectInitramfs ==
  /\ stage = "module"
  /\ \E i \in TagAt(p) :
       IF tags[i].type = 0
       THEN /\ stage' = IF module = "none" THEN "shell" ELSE "extract"
            /\ p' = 0 /\ UNCHANGED module
       ELSE /\ module' = IF tags[i].type = TagModule THEN tags[i].value ELSE module
            /\ p' = p + AlignTag(tags[i].size) /\ UNCHANGED stage
  /\ UNCHANGED <<boot, fb, seen, wanted, font>>

(* One round of the loop of cpio_extract_all.                              *)
ExtractEntry ==
  /\ stage = "extract"
  /\ \E e \in Entry(p) :
       /\ seen' = Append(seen, [path |-> Cut(Normalised(e.name)), data |-> DataOf(p, e)])
       /\ p' = CpioNext(p, e)
  /\ UNCHANGED <<boot, stage, fb, module, wanted, font>>

ExtractEnd ==
  /\ stage = "extract" /\ Entry(p) = {}
  /\ stage' = "cfg" /\ p' = 0
  /\ UNCHANGED <<boot, fb, module, seen, wanted, font>>

(* The loop of cpio_find_file for font.cfg and for the font.               *)
FindPass(name) ==
  /\ \E e \in Entry(p) : Normalised(e.name) # name /\ p' = CpioNext(p, e)
  /\ UNCHANGED <<boot, stage, fb, module, seen, wanted, font>>

FindCfg ==
  /\ stage = "cfg"
  /\ \/ FindPass(CfgName)
     \/ /\ \E e \in Entry(p) : Normalised(e.name) = CfgName /\ wanted' = <<"fonts/">> \o FontNamed(e)
        /\ stage' = "font" /\ p' = 0
        /\ UNCHANGED <<boot, fb, module, seen, font>>
     \/ /\ Entry(p) = {}
        /\ wanted' = <<"fonts/", Fallback>>
        /\ stage' = "font" /\ p' = 0
        /\ UNCHANGED <<boot, fb, module, seen, font>>

FindFont ==
  /\ stage = "font"
  /\ \/ FindPass(wanted)
     \/ /\ \E e \in Entry(p) : /\ Normalised(e.name) = wanted
                               /\ font' = IF e.text = <<>> THEN 0 ELSE DataOf(p, e)
        /\ stage' = "shell"
        /\ UNCHANGED <<boot, p, fb, module, seen, wanted>>
     \/ /\ Entry(p) = {}
        /\ stage' = "shell"
        /\ UNCHANGED <<boot, p, fb, module, seen, wanted, font>>

BootNext == \/ NoFramebuffer \/ FbInit \/ DetectInitramfs
            \/ ExtractEntry \/ ExtractEnd \/ FindCfg \/ FindFont

(* One processor, and nothing else runs.                                   *)
BootSpec == BootInit /\ [][BootNext]_bootVars /\ WF_bootVars(BootNext)

-----------------------------------------------------------------------------
(* Properties.                                                             *)

OfType(type) == {i \in DOMAIN tags : tags[i].type = type}

(* The walks over the tags stand on tags only, whatever their sizes, and   *)
(* find the first framebuffer, unless it is at 0, and the last module.     *)
FindsTheTags ==
  LET first == tags[Min(OfType(TagFramebuffer))].value
  IN  /\ stage \in {"fb", "module"} => TagAt(p) # {}
      /\ stage \notin {"fb", "halted"} =>
           fb = (IF OfType(TagFramebuffer) = {} \/ first = 0 THEN FallbackFb ELSE first)
      /\ stage \notin {"fb", "halted", "module"} =>
           module = (IF OfType(TagModule) = {} THEN "none" ELSE tags[Max(OfType(TagModule))].value)

(* A path stands for a name: all of it, or as much as the buffer holds.    *)
StandsFor(path, name) ==
  /\ IsPrefix(path, name) /\ Len(path) <= PathRoom
  /\ path = name \/ Len(path) = PathRoom

(* cpio_extract_all hands over every entry before the trailer, in order,   *)
(* under its name, cut to what the path buffer holds, and with the address *)
(* of its data, and nothing else, as long as no file is called like the    *)
(* trailer but for the "./" or "/".                                        *)
ExtractsTheArchive ==
  LET ends == {i \in DOMAIN archive : archive[i].name[1] = "TRAILER!!!"}
      plain == \A i \in DOMAIN archive : IsTrailer(archive[i]) => i \in ends
  IN  stage \notin {"fb", "halted", "module"} /\ module = "archive" /\ plain =>
        /\ Len(seen) < Min(ends)
        /\ stage # "extract" => Len(seen) = Min(ends) - 1
        /\ \A i \in DOMAIN seen :
             /\ StandsFor(seen[i].path, Normalised(archive[i].name))
             /\ seen[i].data = EntryPlace(archive, i) + DataPlace(archive[i])

(* The font that a font.cfg means: the fallback when it has no FONT=, and  *)
(* what the only one has behind it up to the end of its line, when that is *)
(* there and the name fits.                                                *)
FontsMeant(text) ==
  LET marks == {k \in DOMAIN text : text[k] = "FONT="}
      Ends(k) == {j \in k + 1 .. Len(text) : text[j] \in {"NL", "CR"}}
  IN  IF marks = {} THEN {<<Fallback>>}
      ELSE {SubSeq(text, k + 1, Min(Ends(k)) - 1) :
              k \in {k \in marks : /\ marks = {k} /\ \A i \in DOMAIN text : text[i] # "NUL"
                                   /\ Ends(k) # {} /\ Min(Ends(k)) - (k + 1) <= NameRoom}}

(* The font that is loaded is the one that font.cfg means, or the fallback *)
(* when there is no font.cfg, out of the very bytes that the node of ES1   *)
(* points at, as long as no path is in the archive twice.                  *)
FontIsTheFile ==
  LET Of(path) == {n \in DOMAIN seen : seen[n].path = path}
      meant == IF Of(CfgName) = {} THEN {<<Fallback>>}
               ELSE UNION {FontsMeant(archive[n].text) : n \in Of(CfgName)}
      once == \A i, j \in DOMAIN seen : seen[i].path = seen[j].path => i = j
  IN  stage = "shell" /\ module = "archive" /\ once =>
        \A name \in meant :
          LET nodes == {n \in Of(<<"fonts/">> \o name) : archive[n].text # <<>>}
          IN  font = IF nodes = {} THEN 0 ELSE seen[CHOOSE n \in nodes : TRUE].data

(* The boot comes to the prompt or halts, whatever the loader passed.      *)
BootEnds == <>(stage \in {"shell", "halted"})
=============================================================================
