------------------------------ MODULE RamDisk ------------------------------
(* The disk of src/fb.c for its callers: the calls on it (Fat32), and the  *)
(* names that callers type and that the disk lists (Dos83), which are a    *)
(* component of their own, with the tree of entries as its state.          *)
EXTENDS Fat32

CONSTANTS NameMax, ExtMax, Typed, MaxEntries  \* as in Dos83

VARIABLE tree

DosNames == INSTANCE Dos83

ASSUME RamDiskAssumption == DosNames!NameConstants

(* What is listed can be typed again: stated and explained in Dos83.       *)
ListingsLeadBack == DosNames!ListingsLeadBack
=============================================================================
