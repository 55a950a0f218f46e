------------------------------- MODULE Paths -------------------------------
(***************************************************************************)
(* How a command finds a node by what was typed: resolve_path and          *)
(* normalize_path of src/commands/command_logic.c, and the path field of   *)
(* es1_node_t, in which es1_alloc and es1_find of src/es1.c keep and look  *)
(* it up.  Texts are sequences of characters.  A line of 63 characters is  *)
(* too short for more than 64 names or 255 characters.                     *)
(***************************************************************************)
EXTENDS Integers, Sequences, SequencesExt, FiniteSets, FiniteSetsExt

CONSTANTS
  NameLen,   \* ES1_NAME_LEN (64)
  MaxNodes,  \* ES1_MAX_NODES (32)
  Owner,     \* current_user, the text that mkdir puts behind the path
  Inputs     \* what is typed behind a command

PathConstants ==
  /\ NameLen \in Nat \ {0} /\ MaxNodes \in Nat \ {0}
  /\ Inputs \cup {Owner} \subseteq Seq(STRING) \ {<<>>}

VARIABLES
  cwd,    \* cwd_path
  nodes,  \* the path each live node reads as, in the order of the slots
  made    \* history: the paths that mkdir said nothing about

pathsVars == <<cwd, nodes, made>>

Slash == <<"/">>

-----------------------------------------------------------------------------
(* One character of a path.  A slash ends a name (internal_strtok), and    *)
(* the loop of normalize_path takes it.                                    *)
Taken(parts, tok) ==
  CASE tok = <<".">>      -> parts
    [] tok = <<".", ".">> -> IF parts = <<>> THEN parts ELSE Front(parts)
    [] OTHER              -> Append(parts, tok)

Step(walk, ch) ==
  IF ch # "/" THEN [walk EXCEPT !.tok = Append(@, ch)]
  ELSE IF walk.tok = <<>> THEN walk
  ELSE [parts |-> Taken(walk.parts, walk.tok), tok |-> <<>>]

Walked(s) ==
  LET walk[n \in 0 .. Len(s)] ==
        IF n = 0 THEN [parts |-> <<>>, tok |-> <<>>] ELSE Step(walk[n - 1], s[n])
  IN  walk[Len(s)]

(* The NUL behind a path ends a name as a slash does.                      *)
Parts(s) == Walked(s \o Slash).parts

PathOf(parts) ==
  LET path[n \in 0 .. Len(parts)] == IF n = 0 THEN <<>> ELSE path[n - 1] \o Slash \o parts[n]
  IN  path[Len(parts)]

Normalized(s) == IF Parts(s) = <<>> THEN Slash ELSE PathOf(Parts(s))

(* As Resolved, but a name typed below the root's children is glued on.    *)
ResolvedGlued(dir, s) == Normalized(IF s[1] = "/" THEN s ELSE dir \o s)

Resolved(dir, s) ==
  Normalized(IF s[1] = "/" THEN s
             ELSE IF Last(dir) = "/" THEN dir \o s ELSE dir \o Slash \o s)

(* es1_strcpy runs into the owner field when the path does not fit, and the*)
(* owner is written over what stands there: the field then reads as its    *)
(* first NameLen characters and the owner.                                 *)
Kept(path) == IF Len(path) < NameLen THEN path ELSE SubSeq(path, 1, NameLen) \o Owner

(* es1_find.                                                               *)
Found(path) == \E n \in DOMAIN nodes : nodes[n] = path

-----------------------------------------------------------------------------
PathsInit == cwd = Slash /\ nodes = <<>> /\ made = {}

Es1Init == nodes = <<>> /\ nodes' = <<Slash>> /\ made' = {Slash} /\ UNCHANGED cwd

Mkdir(s) ==
  /\ ~Found(Resolved(cwd, s))
  /\ Len(nodes) < MaxNodes
  /\ nodes' = Append(nodes, Kept(Resolved(cwd, s)))
  /\ made' = made \cup {Resolved(cwd, s)}
  /\ UNCHANGED cwd

Cd(s) ==
  /\ Found(Resolved(cwd, s))
  /\ cwd' = Resolved(cwd, s)
  /\ UNCHANGED <<nodes, made>>

CdHome == cwd' = Slash /\ UNCHANGED <<nodes, made>>

PathsNext ==
  \/ Es1Init
  \/ /\ nodes # <<>>
     /\ (\E s \in Inputs : Mkdir(s) \/ Cd(s)) \/ CdHome

PathsSpec == PathsInit /\ [][PathsNext]_pathsVars

-----------------------------------------------------------------------------
(* Properties.                                                             *)

(* A path means the same however it is spelled and from wherever it is     *)
(* typed: what it resolves to resolves to itself, going to x and naming y  *)
(* there is naming x/y, and a directory whose path fits into its node is   *)
(* found under it, once.                                                   *)
PathsLeadThere == nodes # <<>> =>
  /\ \A x \in Inputs :
       LET there == Resolved(cwd, x)
       IN  /\ Resolved(cwd, there) = there
           /\ \A y \in Inputs : y[1] # "/" => Resolved(there, y) = Resolved(cwd, x \o Slash \o y)
  /\ \A p \in made : Len(p) < NameLen => Cardinality({n \in DOMAIN nodes : nodes[n] = p}) = 1
=============================================================================
