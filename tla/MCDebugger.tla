----------------------------- MODULE MCDebugger -----------------------------
(***************************************************************************)
(* Instances of the debugger for TLC: two addresses, pipes of one key and  *)
(* two bytes, lines of two characters.                                     *)
(***************************************************************************)
EXTENDS Debugger

MCKeys  == {"r", "s", "q", "nl"}
MCAddrs == {0, 1}

\* A breakpoint at 1 (9 is cut to it), one at 1 whose line has no newline
MCBreakFiles ==
  {[lines |-> <<5, 9>>, end |-> "newline"], [lines |-> <<1>>, end |-> "cut"],
   [lines |-> <<>>, end |-> "missing"]}
=============================================================================
