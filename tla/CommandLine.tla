---------------------------- MODULE CommandLine ----------------------------
(***************************************************************************)
(* What the line discipline promises: a line is edited, entered and then   *)
(* run once, with the words of the line as its arguments.  Only an         *)
(* interrupt typed into it, or the application printing over it, loses a   *)
(* line.  No buffer positions, no escape state, no echo: one step an edit. *)
(***************************************************************************)
EXTENDS UshTokens

CONSTANTS
  Capacity,  \* bytes a line has room for, its newline included
  Keys,      \* bytes that may enter a line, newlines apart
  Ends       \* newlines

VARIABLES
  line,      \* the line being edited, or entered (then with its newline)
  phase,     \* "closed" before the prompt, "edit", "entered"
  given,     \* the arguments of the command run since the prompt
  prints     \* how often the application has printed

lineVars == <<line, phase, given, prints>>

Init == line = <<>> /\ phase = "closed" /\ given = <<>> /\ prints = 0

Open == /\ phase = "closed"
        /\ phase' = "edit" /\ line' = <<>> /\ given' = <<>>
        /\ UNCHANGED prints

Insert(key) == /\ phase = "edit"
               /\ Len(line) + 1 < Capacity
               /\ line' = Append(line, key)
               /\ UNCHANGED <<phase, given, prints>>

\* A line that reaches the capacity is forgotten, and typing starts anew.
Restart == /\ phase = "edit"
           /\ Len(line) + 1 = Capacity
           /\ line' = <<>>
           /\ UNCHANGED <<phase, given, prints>>

Erase == /\ phase = "edit" /\ line # <<>>
         /\ line' = Front(line)
         /\ UNCHANGED <<phase, given, prints>>

Enter(end) == /\ phase = "edit"
              /\ line' = Append(line, end)
              /\ phase' = "entered"
              /\ UNCHANGED <<given, prints>>

\* A line without words runs nothing.  One that fills its room has lost its
\* first byte: the name of its command is empty.
Run == /\ phase = "entered"
       /\ phase' = "closed" /\ line' = <<>>
       /\ IF Len(line) < Capacity
          THEN given' = Tokens(Front(line))
          ELSE given' # <<>> /\ Head(given') = <<>>
       /\ UNCHANGED prints

Interrupt == /\ phase = "edit"
             /\ phase' = "closed" /\ line' = <<>>
             /\ UNCHANGED <<given, prints>>

\* What the application prints goes to the terminal at once.
PrintOver == /\ prints' = prints + 1
             /\ phase' = "closed" /\ line' = <<>>
             /\ UNCHANGED given

Next == \/ Open \/ Restart \/ Erase \/ Run \/ Interrupt \/ PrintOver
        \/ \E key \in Keys : Insert(key)
        \/ \E end \in Ends : Enter(end)

Spec == Init /\ [][Next]_lineVars

=============================================================================
