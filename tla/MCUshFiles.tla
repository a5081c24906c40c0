----------------------------- MODULE MCUshFiles -----------------------------
(***************************************************************************)
(* An instance of UshFiles for TLC: the devices of the demo programs, with *)
(* arrays of a few bytes.  Of two nodes with the path of the host name one *)
(* is mounted; the name "ram" is the array's in one directory, the random  *)
(* device's in the other, and in both a command's that may be added.       *)
(***************************************************************************)
EXTENDS UshFiles

DemoCommands == {"tool"}
DemoFiles == {"ram", "random", "hostname", "null", "led", "tool"}

DemoKinds == [f \in DemoFiles |-> CASE f = "hostname" -> "string" [] f = "tool" -> "none" [] OTHER -> f]

DemoTyped == {"ram", "/etc/hostname", "/dev/led"}
DemoDirs  == {"/dev", "/etc"}

DemoPathOf ==
  [f \in DemoFiles |-> CASE f = "tool" -> "ram" [] f = "ram" -> "/dev/ram" [] f = "random" -> "/etc/ram"
                         [] f = "led" -> "/dev/led" [] OTHER -> "/etc/hostname"]

DemoPathFrom ==
  [d \in DemoDirs |-> [n \in DemoTyped |->
     IF n # "ram" THEN n ELSE IF d = "/dev" THEN "/dev/ram" ELSE "/etc/ram"]]

DemoMounted == DemoFiles \ {"null", "tool"}
DemoHome == "/dev"
DemoRemovable == {"hostname", "null", "tool"}

\* Rows of xxd that are full and begun; bytes 0, and some that are printable.
DemoMemory ==
  [f \in DemoFiles \cup Levels |->
     CASE f = "random"   -> <<0>>
       [] f = "ram"      -> <<0, 49>>
       [] f = "hostname" -> <<49>>
       [] f = "high"     -> <<49, 13, 10>>
       [] f = "low"      -> <<48, 13, 10>>
       [] OTHER          -> << >>]

DemoBytes == {0, 49}

\* "1".
EchoArguments == {<<49>>}

\* What a state can still depend on: a command begins anew, and what the last
\* one came to is only shown.
Live == IF state = "OTHER" THEN <<memory, led, tree>>
        ELSE <<memory, led, tree, state, process, reading, shown>>

=============================================================================
