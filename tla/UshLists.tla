------------------------------ MODULE UshLists ------------------------------
(***************************************************************************)
(* The linked lists that commands and autocompletion walk through while    *)
(* the application changes them: the children of one directory and the     *)
(* nodes of global commands, linked by "next" as in the code.              *)
(***************************************************************************)
EXTENDS Integers, SequencesExt, FiniteSetsExt

CONSTANTS
  Nodes,     \* the node objects linked and unlinked
  NoNode     \* NULL

ASSUME NodesAssumption == IsFiniteSet(Nodes) /\ NoNode \notin Nodes

VARIABLES
  next,      \* node->next
  head       \* the first node of each list

lists == <<next, head>>

Lists == {"children", "commands"}

\* The sequence of nodes reached from a pointer.
NodesFrom(p) ==
  LET at[i \in 0 .. Cardinality(Nodes)] ==
        IF i = 0 THEN p ELSE IF at[i - 1] = NoNode THEN NoNode ELSE next[at[i - 1]]
      linked == {i \in DOMAIN at : at[i] # NoNode}
  IN  [i \in 1 .. Cardinality(linked) |-> at[i - 1]]

ListOf(l) == NodesFrom(head[l])

Linked == UNION {ToSet(ListOf(l)) : l \in Lists}

NothingLinked ==
  /\ next = [n \in Nodes |-> NoNode]
  /\ head = [l \in Lists |-> NoNode]

\* ush_node_mount and ush_commands_add link a node in front of a list.
LinkFirst(l, n) ==
  /\ n \notin Linked
  /\ next' = [next EXCEPT ![n] = head[l]]
  /\ head' = [head EXCEPT ![l] = n]

\* Mutant: the node unlinked forgets the rest of the list.
NextCleared(n) ==
  [m \in Nodes |-> IF m = n THEN NoNode
                   ELSE IF m \in Linked /\ next[m] = n THEN next[n] ELSE next[m]]

\* The node before n is found by walking the list: nodes unlinked earlier that
\* still point to n are left alone.
NextAfter(n) ==
  [m \in Nodes |-> IF m \in Linked /\ next[m] = n THEN next[n] ELSE next[m]]

\* Mutant: the head of the list is not looked at.
HeadSame(l, n) == head[l]

HeadAfter(l, n) == IF head[l] = n THEN next[n] ELSE head[l]

\* ush_node_unmount and ush_commands_remove.
UnlinkFrom(l, n) ==
  /\ n \in ToSet(ListOf(l))
  /\ head' = [head EXCEPT ![l] = HeadAfter(l, n)]
  /\ next' = NextAfter(n)

=============================================================================
