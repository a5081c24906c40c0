------------------------------ MODULE UshPaths ------------------------------
(***************************************************************************)
(* The path functions of ush_utils.c and ush_node_get_absolute_path,       *)
(* character by character, on the path that is typed and the path of the   *)
(* current node; a string is the sequence of its characters.               *)
(***************************************************************************)
EXTENDS Integers, FiniteSetsExt, SequencesExt

CONSTANTS
  Letters,   \* the characters that are neither "/" nor "."
  MaxTyped,  \* bound on the length of what is typed
  Currents   \* paths of current nodes

Chars == Letters \cup {"/", "."}

ASSUME PathsAssumption ==
  /\ MaxTyped \in Nat
  /\ Currents \subseteq Seq(Chars)

VARIABLES
  typed,    \* a path, as it is typed or mounted
  current   \* current_node->path

pathVars == <<typed, current>>

Root == <<"/">>

(***************************************************************************)
(* Levels.  The count starts at one and each "/" but the first adds one.   *)
(***************************************************************************)
\* Mutant: the first "/" is not counted for.
LevelsCountShort(p) == Cardinality({k \in 2 .. Len(p) : p[k] = "/"})

LevelAt(p, k) == 1 + Cardinality({j \in 2 .. k : p[j] = "/"})

LevelsCount(p) == IF p \in {Root, << >>} THEN 0 ELSE LevelAt(p, Len(p))

\* ush_utils_get_path_level copies until the "/" that would begin level + 1.
PathLevel(level, p) ==
  IF level = 0 THEN Root
  ELSE SubSeq(p, 1, Max({k \in DOMAIN p : LevelAt(p, k) <= level} \cup {0}))

(***************************************************************************)
(* The path one level up and the last name, both found from the end.       *)
(***************************************************************************)
LastSlash(p) == Max({k \in DOMAIN p : p[k] = "/"} \cup {0})

\* Mutant: the "/" in front is cut off with the only name.
PathUpperCut(p) ==
  IF Len(p) = 1 \/ LastSlash(p) = 1 THEN << >>
  ELSE IF LastSlash(p) = 0 THEN p
  ELSE SubSeq(p, 1, LastSlash(p) - 1)

PathUpper(p) ==
  IF Len(p) = 1 THEN << >>
  ELSE CASE LastSlash(p) = 0 -> p
         [] LastSlash(p) = 1 -> SubSeq(p, 1, 1)
         [] OTHER            -> SubSeq(p, 1, LastSlash(p) - 1)

PathLast(p) == IF Len(p) = 1 THEN p ELSE SubSeq(p, LastSlash(p) + 1, Len(p))

JoinPath(p, name) == IF p = Root THEN p \o name ELSE p \o Root \o name

(***************************************************************************)
(* Collapsing: the path is split at each "/", the character after one      *)
(* beginning a name whatever it is; then ".." and "." are resolved.        *)
(***************************************************************************)
SplitChar(split, ch) ==
  IF split.state = 0
  THEN IF ch = "/" THEN [split EXCEPT !.state = 1]
       ELSE [split EXCEPT !.nodes[Len(split.nodes)] = Append(@, ch)]
  ELSE [state |-> 0, nodes |-> Append(split.nodes, <<ch>>)]

NothingSplit == [state |-> 0, nodes |-> << >>]

Split(p) ==
  LET split[k \in 0 .. Len(p)] ==
        IF k = 0 THEN NothingSplit ELSE SplitChar(split[k - 1], p[k])
      done == split[Len(p)]
  IN  IF done.state = 1 THEN Append(done.nodes, << >>) ELSE done.nodes

\* Mutant: a ".." at the root drops the name after it.
KeepNameDeep(kept, name) ==
  CASE name = <<".", ".">> -> IF kept = << >> THEN <<name>> ELSE Front(kept)
    [] name = <<".">>      -> kept
    [] OTHER               -> Append(kept, name)

KeepName(kept, name) ==
  CASE name = <<".", ".">> -> IF kept = << >> THEN kept ELSE Front(kept)
    [] name = <<".">>      -> kept
    [] OTHER               -> Append(kept, name)

NamesKept(names) ==
  LET kept[i \in 0 .. Len(names)] ==
        IF i = 0 THEN << >> ELSE KeepName(kept[i - 1], names[i])
  IN  kept[Len(names)]

Written(names) == FlattenSeq([i \in DOMAIN names |-> Root \o names[i]])

Collapse(p) ==
  LET kept == NamesKept(Split(p))
  IN  IF p = Root \/ kept = << >> THEN Root ELSE Written(kept)

\* ush_node_get_absolute_path: one "/" at the end is forgiven.
Anchored(p) == IF p # << >> /\ p[1] = "/" THEN p ELSE JoinPath(current, p)
Trimmed(p) == IF Len(p) > 1 /\ Last(p) = "/" THEN Front(p) ELSE p
AbsolutePath(p) == Collapse(Trimmed(Anchored(p)))

(***************************************************************************)
(* Every path is typed, character by character.                            *)
(***************************************************************************)
PathInit == typed = << >> /\ current \in Currents

Type(ch) == /\ Len(typed) < MaxTyped
            /\ typed' = Append(typed, ch)
            /\ UNCHANGED current

PathNext == \E ch \in Chars : Type(ch)

PathSpec == PathInit /\ [][PathNext]_pathVars

-----------------------------------------------------------------------------
(***************************************************************************)
(* The names of a path, by positions: a name begins at a character that is *)
(* no "/" and follows none, and its characters are those with as many      *)
(* beginnings up to them as up to the first.                               *)
(***************************************************************************)
Slashes(p) == {k \in DOMAIN p : p[k] = "/"}

Regular(p) == \A k \in Slashes(p) : k < Len(p) => p[k + 1] # "/"

Beginnings(p) == {k \in DOMAIN p \ Slashes(p) : k > 1 => k - 1 \in Slashes(p)}

PlacesOf(p, i) ==
  {k \in DOMAIN p \ Slashes(p) : Cardinality({b \in Beginnings(p) : b <= k}) = i}

NamesOf(p) ==
  [i \in 1 .. Cardinality(Beginnings(p)) |->
     SubSeq(p, Min(PlacesOf(p, i)), Max(PlacesOf(p, i)))]

Reference == INSTANCE UshNames WITH Up <- <<".", ".">>, Same <- <<".">>

\* The paths nodes are mounted at.
Mountable(p) ==
  /\ p # << >> /\ p[1] = "/" /\ Regular(p)
  /\ p = Root \/ Last(p) # "/"

\* The characters of a path typed with single "/" come to the names that the
\* path means at the current node, ".." and "." resolved, ".." of the root
\* being the root.
ResolvesNames ==
  Regular(typed) =>
    LET from  == IF typed # << >> /\ typed[1] = "/" THEN << >> ELSE NamesOf(current)
        names == Reference!Resolve(from \o NamesOf(typed))
    IN  AbsolutePath(typed) = IF names = << >> THEN Root ELSE Written(names)

\* The names are split into an array with one place per level, whatever is
\* typed, empty names and all.
SplitFits ==
  LET p == Trimmed(Anchored(typed))
  IN  p # Root => Len(Split(p)) <= LevelsCount(p)

\* The levels of a mounted path are its prefixes of whole names: the level
\* above the last is the parent's path, and the parent's path joined with the
\* last name is the path.
LevelsAreParents ==
  Mountable(typed) /\ typed # Root =>
    LET n == LevelsCount(typed)
    IN  /\ n = Len(NamesOf(typed))
        /\ \A i \in 1 .. n : PathLevel(i, typed) = Written(SubSeq(NamesOf(typed), 1, i))
        /\ PathUpper(typed) = PathLevel(n - 1, typed)
        /\ JoinPath(PathUpper(typed), PathLast(typed)) = typed

=============================================================================
