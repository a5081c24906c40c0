----------------------------- MODULE MountTable -----------------------------
(***************************************************************************)
(* What mounting promises: a table from paths to nodes, closed under       *)
(* parents, and a working directory that only changes when it is told to.  *)
(***************************************************************************)
EXTENDS Integers, FiniteSetsExt, SequencesExt

CONSTANTS
  Nodes,     \* what is mounted
  Nowhere,   \* the working directory of an empty table
  Absolute,  \* the absolute paths in use
  Relative   \* the relative paths in use

VARIABLES
  table,   \* the node mounted at each path
  here,    \* the path of the working directory, Nowhere without one
  result   \* what the last operation returned

tableVars == <<table, here, result>>

Resolution == INSTANCE UshNames WITH Up <- "..", Same <- "."
Resolve(p) == Resolution!Resolve(p)

Below(p) == {q \in DOMAIN table : q # << >> /\ Front(q) = p}

Init == table = << >> /\ here = Nowhere /\ result = "OK"

\* A node is mounted at a free path whose parent is mounted; mounting "/"
\* makes it the working directory.
Mount(node, p) ==
  /\ \A q \in DOMAIN table : table[q] # node
  /\ IF p \in DOMAIN table
     THEN result' = "ERROR_NODE_ALREADY_MOUNTED" /\ UNCHANGED <<table, here>>
     ELSE IF p = << >> \/ Front(p) \in DOMAIN table
     THEN /\ result' = "OK"
          /\ table' = [q \in DOMAIN table \cup {p} |-> IF q = p THEN node ELSE table[q]]
          /\ here' = IF p = << >> THEN p ELSE here
     ELSE result' = "ERROR_NODE_WITHOUT_PARENT" /\ UNCHANGED <<table, here>>

Unmount(p) ==
  /\ UNCHANGED here
  /\ IF p \notin DOMAIN table
     THEN result' = "ERROR_NODE_NOT_FOUND" /\ UNCHANGED table
     ELSE IF Below(p) # {}
     THEN result' = "ERROR_NODE_WITH_CHILDS" /\ UNCHANGED table
     ELSE /\ result' = "OK"
          /\ table' = [q \in DOMAIN table \ {p} |-> table[q]]

\* Changing to a path: only a mounted one becomes the working directory.
ChangeDir(p) ==
  /\ here # Nowhere
  /\ IF p \in DOMAIN table
     THEN result' = "OK" /\ here' = p
     ELSE result' = "ERROR_NODE_NOT_FOUND" /\ UNCHANGED here
  /\ UNCHANGED table

Restart ==
  /\ here' = IF << >> \in DOMAIN table THEN << >> ELSE Nowhere
  /\ UNCHANGED <<table, result>>

Clear == table' = << >> /\ here' = Nowhere /\ result' = "DEINIT"

Next ==
  \/ \E node \in Nodes, p \in Absolute : Mount(node, p)
  \/ \E p \in Absolute : Unmount(p) \/ ChangeDir(Resolve(p))
  \/ \E p \in Relative : ChangeDir(Resolve(here \o p))
  \/ Restart \/ Clear

Spec == Init /\ [][Next]_tableVars

=============================================================================
