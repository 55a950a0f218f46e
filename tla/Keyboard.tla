------------------------------ MODULE Keyboard ------------------------------
(***************************************************************************)
(* Who reads the PS/2 keyboard: the loop of kernel_main (src/kernel.c), or,*)
(* while they run, cmd_edit and cmd_beep (src/commands/command_logic.c).   *)
(* Each keeps its own idea of the modifier keys.                           *)
(***************************************************************************)
EXTENDS Integers, FiniteSets

VARIABLES
  reader,   \* "main", "edit" or "beep"
  down,     \* the modifier keys that are held down
  main,     \* the static flags ctrl_pressed and shift_pressed
  editor,   \* ed_ctrl and ed_shift
  missed    \* the flags whose key was let go during a program

keyVars == <<reader, down, main, editor, missed>>

Modifiers == {"ctrl", "left shift", "right shift"}
Flag(key) == IF key = "ctrl" THEN "ctrl" ELSE "shift"

(* As NoFlags, but the editor starts from what the command line knows.     *)
FlagsOfMain == main

(* ed_ctrl and ed_shift start at 0 with every edit.                        *)
NoFlags == [ctrl |-> FALSE, shift |-> FALSE]

KeyInit ==
  /\ reader = "main" /\ down = {} /\ missed = {}
  /\ main = [ctrl |-> FALSE, shift |-> FALSE]
  /\ editor = [ctrl |-> FALSE, shift |-> FALSE]

(* A key that goes down, that repeats or that is let go.  Both shift keys  *)
(* set and clear the same flag; cmd_beep looks for three other codes and   *)
(* passes over the rest.                                                   *)
Code(key, press) ==
  /\ press \/ key \in down
  /\ down' = IF press THEN down \cup {key} ELSE down \ {key}
  /\ main' = IF reader = "main" THEN [main EXCEPT ![Flag(key)] = press] ELSE main
  /\ editor' = IF reader = "edit" THEN [editor EXCEPT ![Flag(key)] = press] ELSE editor
  /\ missed' = IF reader = "main" THEN missed \ {Flag(key)}
               ELSE IF press THEN missed ELSE missed \cup {Flag(key)}
  /\ UNCHANGED reader

(* Enter, at the end of a command line that names a program.               *)
StartEdit ==
  /\ reader = "main"
  /\ reader' = "edit" /\ editor' = NoFlags
  /\ UNCHANGED <<down, main, missed>>

StartBeep ==
  /\ reader = "main"
  /\ reader' = "beep"
  /\ UNCHANGED <<down, main, editor, missed>>

(* ^Q, and the letter C.                                                   *)
QuitEdit ==
  /\ reader = "edit" /\ editor.ctrl
  /\ reader' = "main"
  /\ UNCHANGED <<down, main, editor, missed>>

QuitBeep ==
  /\ reader = "beep"
  /\ reader' = "main"
  /\ UNCHANGED <<down, main, editor, missed>>

KeyNext == \/ \E key \in Modifiers, press \in BOOLEAN : Code(key, press)
           \/ StartEdit \/ StartBeep \/ QuitEdit \/ QuitBeep

KeySpec == KeyInit /\ [][KeyNext]_keyVars

-----------------------------------------------------------------------------
Held(flag) == \E key \in down : Flag(key) = flag

(* A modifier that counts as pressed is held down: in the editor always, so*)
(* it never takes a plain q for ^Q; on the command line unless it was let  *)
(* go during a program and has not moved since.                            *)
ModifiersAreHeld ==
  \A flag \in {"ctrl", "shift"} :
    /\ reader = "edit" /\ editor[flag] => Held(flag)
    /\ reader = "main" /\ main[flag] /\ flag \notin missed => Held(flag)
=============================================================================
