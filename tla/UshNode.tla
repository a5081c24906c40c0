------------------------------ MODULE UshNode ------------------------------
(***************************************************************************)
(* The mounted nodes of microshell: the tree the application builds with   *)
(* ush_node_mount and ush_node_unmount, the current node, the list of      *)
(* global commands, and the searches by path in them.                      *)
(*                                                                         *)
(* A path is the sequence of its names, "/" being the empty one; a list    *)
(* linked by "next" is a sequence.  Every action is one call of the        *)
(* library.                                                                *)
(***************************************************************************)
EXTENDS Integers, FiniteSetsExt, SequencesExt

CONSTANTS
  Nodes,     \* node objects of the application
  Names,     \* names of nodes and files
  MaxDepth,  \* bound on the length of the paths mounted
  FilesOf,   \* the names in the file list each node object is mounted with
  Relative,  \* the relative paths that are typed
  NoNode     \* NULL

Paths == UNION {[1 .. k -> Names] : k \in 0 .. MaxDepth}

ASSUME NodeAssumption ==
  /\ MaxDepth \in Nat
  /\ FilesOf \in [Nodes -> SUBSET Names]
  /\ Relative \subseteq Seq(Names \cup {"..", "."})
  /\ NoNode \notin Nodes \cup Paths

VARIABLES
  root,      \* root
  current,   \* current_node
  path,      \* node->path, NoNode for NULL
  parent,    \* node->parent
  children,  \* node->children and the siblings that follow
  commands,  \* the nodes in the list of commands
  status     \* what the last call about the mounted nodes returned

vars == <<root, current, path, parent, children, commands, status>>

(***************************************************************************)
(* Searches.                                                               *)
(***************************************************************************)

\* Mutant: only the first node of the list is compared.
FirstOnly(list, p) ==
  IF list # << >> /\ path[list[1]] = p THEN list[1] ELSE NoNode

\* The first node of a list with a path, as strcmp finds it.
FirstWith(list, p) ==
  LET found == {i \in 1 .. Len(list) : path[list[i]] = p}
  IN  IF found = {} THEN NoNode ELSE list[Min(found)]

\* ush_node_get_by_path goes down one level per name, comparing whole paths.
GetByPath(p) ==
  LET down[i \in 0 .. Len(p)] ==
        IF i = 0 THEN root
        ELSE IF down[i - 1] = NoNode THEN NoNode
        ELSE FirstWith(children[down[i - 1]], SubSeq(p, 1, i))
  IN  down[Len(p)]

GetParentByPath(p) == IF p = << >> THEN NoNode ELSE GetByPath(Front(p))

\* Mutant: ".." is dropped, and what precedes it is not.
CollapseDots(p) == SelectSeq(p, LAMBDA name : name \notin {"..", "."})

\* ush_utils_get_collapse_path: "." is dropped, ".." drops the name before it.
Collapse(p) ==
  LET done[i \in 0 .. Len(p)] ==
        IF i = 0 THEN << >>
        ELSE CASE p[i] = ".." -> IF done[i - 1] = << >> THEN << >> ELSE Front(done[i - 1])
               [] p[i] = "."  -> done[i - 1]
               [] OTHER       -> Append(done[i - 1], p[i])
  IN  done[Len(p)]

\* A path typed at the current node: absolute, or relative to its path.
AbsolutePath(absolute, p) ==
  Collapse(IF absolute THEN p ELSE path[current] \o p)

PositionIn(list, n) == Min({i \in 1 .. Len(list) : list[i] = n})

\* Mutant: the search starts at the node after the one found.
AfterNode(n) ==
  IF n = root THEN << >>
  ELSE LET list == children[parent[n]]
       IN  SubSeq(list, PositionIn(list, n) + 1, Len(list))

\* The nodes from the one found on in the list it is in.
FromNode(n) ==
  IF n = root THEN <<n>>
  ELSE LET list == children[parent[n]]
       IN  SubSeq(list, PositionIn(list, n), Len(list))

Home(node, name) == [node |-> node, name |-> name]
NoFile == Home(NoNode, "")

\* The first node of a list that holds one of the files looked for.
FirstFile(list, p, files) ==
  LET found == {i \in 1 .. Len(list) : files \cap ({list[i]} \X FilesOf[list[i]]) # {}}
  IN  IF found = {} THEN NoFile ELSE Home(list[Min(found)], Last(p))

\* ush_file_find_by_name: a command with the name as it was typed, or a file
\* whose node and name make up the absolute path, looked for in the node of
\* the parent path and in those mounted beside it before.
FindByName(absolute, p) ==
  LET abs   == AbsolutePath(absolute, p)
      up    == GetParentByPath(abs)
      typed == FirstFile(commands, p, {file \in Nodes \X Names : ~absolute /\ <<file[2]>> = p})
  IN  IF typed # NoFile \/ up = NoNode THEN typed
      ELSE FirstFile(FromNode(up), abs,
                     {file \in Nodes \X Names : /\ path[file[1]] # NoNode
                                               /\ Append(path[file[1]], file[2]) = abs})

(***************************************************************************)
(* The tree as it is linked: the nodes reached from root.                  *)
(***************************************************************************)
ClosedBelow(set) == \A n \in set : ToSet(children[n]) \subseteq set

Mounted ==
  {n \in Nodes : \A set \in SUBSET Nodes :
                   {root} \ {NoNode} \subseteq set /\ ClosedBelow(set) => n \in set}

(***************************************************************************)
(* ush_node_mount writes the path into the node before it knows whether    *)
(* the node can be mounted.  The application gives it nodes that are in no *)
(* list: mounting one twice would link the list into itself.               *)
(***************************************************************************)
Free(node) == /\ node \notin Mounted \cup ToSet(commands)
              /\ node # current

PathWritten(node, p) == path' = [path EXCEPT ![node] = p]

MountExists(node, p) ==
  /\ GetByPath(p) # NoNode
  /\ PathWritten(node, p)
  /\ status' = "ERROR_NODE_ALREADY_MOUNTED"
  /\ UNCHANGED <<root, current, parent, children, commands>>

MountBelow(node, p) ==
  LET up == GetParentByPath(p)
  IN  /\ GetByPath(p) = NoNode
      /\ up # NoNode
      /\ PathWritten(node, p)
      /\ children' = [children EXCEPT ![up] = <<node>> \o @]
      /\ parent' = [parent EXCEPT ![node] = up]
      /\ status' = "OK"
      /\ UNCHANGED <<root, current, commands>>

MountRoot(node, p) ==
  /\ GetByPath(p) = NoNode
  /\ p = << >>
  /\ PathWritten(node, p)
  /\ root' = node /\ current' = node
  /\ parent' = [parent EXCEPT ![node] = NoNode]
  /\ status' = "OK"
  /\ UNCHANGED <<children, commands>>

MountNowhere(node, p) ==
  /\ GetByPath(p) = NoNode /\ GetParentByPath(p) = NoNode
  /\ p # << >>
  /\ PathWritten(node, p)
  /\ status' = "ERROR_NODE_WITHOUT_PARENT"
  /\ UNCHANGED <<root, current, parent, children, commands>>

Mount(node, p) ==
  /\ Free(node)
  /\ \/ MountExists(node, p) \/ MountBelow(node, p)
     \/ MountRoot(node, p)   \/ MountNowhere(node, p)

(***************************************************************************)
(* ush_node_unmount unlinks the node and leaves its own fields, and        *)
(* current_node, as they are.                                              *)
(***************************************************************************)
UnmountMissing(p) ==
  /\ \/ GetByPath(p) = NoNode
     \/ GetByPath(p) # root /\ GetParentByPath(p) = NoNode
  /\ status' = "ERROR_NODE_NOT_FOUND"
  /\ UNCHANGED <<root, current, path, parent, children, commands>>

\* A list without a node, whose predecessor is linked to its successor.
Unlinked(list, n) ==
  IF n \in ToSet(list) THEN RemoveAt(list, PositionIn(list, n)) ELSE list

\* Mutant: a node is unmounted whether or not something is mounted below it.
NeverParent(node) == FALSE

HasChildren(node) == children[node] # << >>

UnmountParent(p) ==
  /\ GetByPath(p) # NoNode
  /\ HasChildren(GetByPath(p))
  /\ status' = "ERROR_NODE_WITH_CHILDS"
  /\ UNCHANGED <<root, current, path, parent, children, commands>>

UnmountLeaf(p) ==
  LET node == GetByPath(p)
      up   == GetParentByPath(p)
  IN  /\ node # NoNode
      /\ ~HasChildren(node)
      /\ IF up = NoNode
         THEN root' = NoNode /\ UNCHANGED children
         ELSE children' = [children EXCEPT ![up] = Unlinked(@, node)] /\ UNCHANGED root
      /\ status' = "OK"
      /\ UNCHANGED <<current, path, parent, commands>>

Unmount(p) == UnmountMissing(p) \/ UnmountParent(p) \/ UnmountLeaf(p)

(***************************************************************************)
(* The current node: ush_node_set_current_dir, which resolves a relative   *)
(* path against the current one, and ush_reset.                            *)
(***************************************************************************)
SetCurrentDir(absolute, p) ==
  LET node == GetByPath(AbsolutePath(absolute, p))
  IN  /\ current # NoNode /\ path[current] # NoNode
      /\ IF node # NoNode
         THEN current' = node /\ status' = "OK"
         ELSE status' = "ERROR_NODE_NOT_FOUND" /\ UNCHANGED current
      /\ UNCHANGED <<root, path, parent, children, commands>>

Reset ==
  /\ current' = root
  /\ UNCHANGED <<root, path, parent, children, commands, status>>

(***************************************************************************)
(* Commands: ush_commands_add prepends a node and clears its path,         *)
(* ush_commands_remove unlinks one.                                        *)
(***************************************************************************)
CommandsAdd(node) ==
  /\ Free(node)
  /\ commands' = <<node>> \o commands
  /\ path' = [path EXCEPT ![node] = NoNode]
  /\ UNCHANGED <<root, current, parent, children, status>>

CommandsRemove(node) ==
  /\ commands' = Unlinked(commands, node)
  /\ UNCHANGED <<root, current, path, parent, children, status>>

\* ush_deinit clears the mounted nodes and forgets everything; ush_init is
\* the only call that may follow it.
Deinit ==
  /\ root' = NoNode /\ current' = NoNode /\ commands' = << >>
  /\ path' = [n \in Nodes |-> IF n \in Mounted THEN NoNode ELSE path[n]]
  /\ parent' = [n \in Nodes |-> IF n \in Mounted THEN NoNode ELSE parent[n]]
  /\ children' = [n \in Nodes |-> IF n \in Mounted THEN << >> ELSE children[n]]
  /\ status' = "DEINIT"

Init ==
  /\ root = NoNode /\ current = NoNode
  /\ path = [n \in Nodes |-> NoNode]
  /\ parent = [n \in Nodes |-> NoNode]
  /\ children = [n \in Nodes |-> << >>]
  /\ commands = << >>
  /\ status = "OK"

Next ==
  \/ \E node \in Nodes, p \in Paths : Mount(node, p)
  \/ \E p \in Paths : Unmount(p) \/ SetCurrentDir(TRUE, p)
  \/ \E p \in Relative : SetCurrentDir(FALSE, p)
  \/ \E node \in Nodes : CommandsAdd(node) \/ CommandsRemove(node)
  \/ Reset \/ Deinit

Spec == Init /\ [][Next]_vars

-----------------------------------------------------------------------------
\* The variables hold what their C types allow.
TypeOK ==
  /\ root \in Nodes \cup {NoNode} /\ current \in Nodes \cup {NoNode}
  /\ path \in [Nodes -> Paths \cup {NoNode}]
  /\ parent \in [Nodes -> Nodes \cup {NoNode}]
  /\ children \in [Nodes -> Seq(Nodes)]
  /\ commands \in Seq(Nodes)

\* The tree: root is at "/", the parent of any other mounted node is mounted,
\* holds it once among its children, and its path is one name shorter; no path
\* is mounted twice; a node outside the tree has no children.
TreeShape ==
  /\ root # NoNode => path[root] = << >> /\ parent[root] = NoNode
  /\ \A n \in Mounted : \A i \in 1 .. Len(children[n]) :
       LET child == children[n][i]
       IN  /\ parent[child] = n
           /\ path[child] # << >> /\ Front(path[child]) = path[n]
           /\ \A j \in 1 .. Len(children[n]) : path[children[n][j]] = path[child] => i = j
  /\ \A n \in Nodes \ Mounted : children[n] = << >>

\* The node the search goes down to, for every path: the one mounted there.
FindsMounted ==
  \A p \in Paths : \A n \in Mounted : path[n] = p <=> GetByPath(p) = n

\* A file is found where its absolute path says, and only there, whatever the
\* commands are called: going on to the nodes mounted beside the parent node
\* never finds another.
FindsFile ==
  \A p \in Paths \ {<< >>} :
    LET home == GetByPath(Front(p))
    IN  FindByName(TRUE, p) =
          IF home # NoNode /\ Last(p) \in FilesOf[home] THEN Home(home, Last(p)) ELSE NoFile

\* ush_service asserts that there is a current node: no call but ush_deinit
\* takes it away.
CurrentSurvives == [][current # NoNode /\ status' # "DEINIT" => current' # NoNode]_vars

-----------------------------------------------------------------------------
(***************************************************************************)
(* What mounting promises, as a table from paths to nodes.                 *)
(***************************************************************************)
\* The node mounted at each path, as the links of the tree have it.
MountedAt == [p \in {path[n] : n \in Mounted} |-> CHOOSE n \in Mounted : path[n] = p]

Table == INSTANCE MountTable WITH
           Nowhere <- NoNode, Absolute <- Paths,
           table <- MountedAt,
           here <- IF current = NoNode THEN NoNode ELSE path[current],
           result <- status

\* The tree with its lists, and the current node with the path written in it,
\* do what the table does.
RefinesMountTable == Table!Spec

\* A directory asked for by a relative path is the one its names lead to, ".."
\* and "." resolved as the table does.
CdResolves ==
  [][\A p \in Relative :
       SetCurrentDir(FALSE, p) => Table!ChangeDir(Table!Resolve(path[current] \o p))]_vars

=============================================================================
