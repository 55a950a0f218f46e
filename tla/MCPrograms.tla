----------------------------- MODULE MCPrograms -----------------------------
(* What runs on top of the command line: an editor of a few rows of a few  *)
(* columns, scripts of up to three lines, who gets the keys, and paths as  *)
(* they are typed.  Each of the four runs by itself.                       *)
EXTENDS Editor, Keyboard, Script, Paths

VARIABLE part

ofEditor == <<mode, ed, file>>
ofKeyboard == <<reader, down, main, editor, missed>>

-----------------------------------------------------------------------------
MCChars == {"a"}
MCShellLines == {<<>>, <<"a">>}

(* Lines with and without text, each of the ends, and none at the end.     *)
Ends == {<<"LF">>, <<"CR">>, <<"CR", "LF">>}
ScriptLines == {<<>>, <<"ls">>, <<"ls", "//">>, <<"//", "ls">>, <<"wait(0)">>, <<"wait(1)">>}
MCScripts ==
  {<<"#!">>, <<"ls", "LF", "ls">>, <<"#!", "CR", "ls", "CR">>, <<"#!", "LF", "ls", "a", "b", "c", "d", "LF">>}
  \cup {<<"#!">> \o first \o a \o e \o b \o f \o c
          : first \in {<<"LF">>, <<"CR", "LF">>, <<"//", "LF">>},
            a, b \in ScriptLines, c \in {<<>>, <<"ls">>}, e, f \in Ends}
MCRewrites == {<<>>, <<"#!", "LF", "rm">>, <<"rm", "LF", "rm", "LF", "rm", "LF", "rm", "LF">>}

(* Every text of up to three characters and some of the longer ones.       *)
PathChars == {"/", ".", "a"}
MCInputs == UNION {[1 .. n -> PathChars] : n \in 1 .. 3}
          \cup {<<".", ".", "/", "a">>, <<"a", "/", ".", ".">>, <<"a", "/", "/", "a">>,
                <<"/", "a", "/", ".", "a", "/">>}
MCOwner == <<"u">>

ASSUME ScriptConstants /\ PathConstants

-----------------------------------------------------------------------------
ProgramsInit ==
  /\ part \in {"editor", "script", "keyboard", "paths"}
  /\ part # "script" => text = <<"#!">>
  /\ part # "editor" => file = <<>>
  /\ Init /\ ScriptInit /\ KeyInit /\ PathsInit

OnScript == part = "script" /\ UNCHANGED <<part, ofEditor, ofKeyboard, pathsVars>>

ProgramsNext ==
  \/ part = "editor" /\ Next /\ UNCHANGED <<part, scriptVars, ofKeyboard, pathsVars>>
  \/ OnScript /\ ScriptNext
  \/ part = "keyboard" /\ KeyNext /\ UNCHANGED <<part, ofEditor, scriptVars, pathsVars>>
  \/ part = "paths" /\ PathsNext /\ UNCHANGED <<part, ofEditor, scriptVars, ofKeyboard>>

(* A script has the processor, a user need not press keys.                 *)
ofPrograms == <<part, ofEditor, scriptVars, ofKeyboard, pathsVars>>

ProgramsSpec == ProgramsInit /\ [][ProgramsNext]_ofPrograms
                             /\ WF_ofPrograms(OnScript /\ ScriptNext)

(* Of the scripts, stated and explained in Script.                         *)
EveryScriptEnds == part = "script" => ScriptEnds
EveryWaitEnds == part = "script" => WaitEnds
=============================================================================
