------------------------------ MODULE AbsStack ------------------------------
(***************************************************************************)
(* What a Stack promises the interpreter and the debugger's stack pane: a  *)
(* sequence of words whose head is the top, without nodes or a count.  A   *)
(* call outside its precondition ends the process; a dump is no change.    *)
(***************************************************************************)
EXTENDS Integers, Sequences

CONSTANTS Vals, NoVal

VARIABLES content, alive, returned

absVars == <<content, alive, returned>>

AbsInit == content = <<>> /\ alive = TRUE /\ returned = NoVal

AbsPush(v) == content' = <<v>> \o content /\ UNCHANGED returned

AbsPop ==
  /\ content # <<>>
  /\ returned' = Head(content) /\ content' = Tail(content)

AbsPeek == (\E i \in DOMAIN content : returned' = content[i]) /\ UNCHANGED content

\* An abort or a destroy; the elements are gone
AbsEnd == alive' = FALSE /\ content' = <<>> /\ UNCHANGED returned

AbsNext ==
  /\ alive
  /\ \/ alive' = TRUE /\ ((\E v \in Vals : AbsPush(v)) \/ AbsPop \/ AbsPeek)
     \/ AbsEnd

AbsSpec == AbsInit /\ [][AbsNext]_absVars
=============================================================================
