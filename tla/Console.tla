------------------------------ MODULE Console ------------------------------
(***************************************************************************)
(* Where the IN instruction gets its characters (src/src/exec.c, 303-415): *)
(* the line buffer of the VM, refilled from the fast-forward script while  *)
(* that is open and from the console otherwise.  A line is abstracted to   *)
(* the command the code recognises in it and its characters.               *)
(***************************************************************************)
EXTENDS Value, Sequences

CONSTANTS Lines,    \* the lines a user may type
          Script,   \* the lines of ../script/fastforward
          Chars,    \* char values converted to value_t (negative ones are wide)
          Newline,  \* '\n'
          SIZE_MAX  \* (size_t) -1, longer than every line and above every word

\* "text" is a line no strcmp matches, "_setreg" a well formed one with a
\* register of the VM, "_bad" one that lacks an argument of "_setreg", "_other"
\* any other line that starts with '_', "none" the NULL buffer
Commands == {"none", "text", "dump", "ff", "quit", "tele_hack",
             "_setreg", "_bad", "_other", "garbage"}
Line     == [cmd : Commands, text : Seq(Chars), reg : RegIds, val : Word]

LineOf(cmd, text) == [cmd |-> cmd, text |-> text, reg |-> 0, val |-> 0]
NoLine   == LineOf("none", <<>>)

ASSUME ConsoleAssumption ==
  /\ Chars \subseteq Word /\ Newline \in Chars /\ 0 \in Chars
  /\ SIZE_MAX \in Nat /\ SIZE_MAX > 2 * Modulus
  /\ Script \in Seq(Line) /\ Lines \subseteq Line
  /\ \A l \in Lines \cup {Script[i] : i \in DOMAIN Script} :
       l.cmd \notin {"none", "garbage"} /\ Len(l.text) \in 1 .. SIZE_MAX - 1

VARIABLES stdin_buf, stdin_idx, stdin_str_len,
          ff_flag,
          ff_script  \* the number of the script's next line; 0 when not open

consoleVars == <<stdin_buf, stdin_idx, stdin_str_len, ff_flag, ff_script>>

ConsoleTypeOK ==
  /\ stdin_buf \in Line /\ stdin_idx \in Nat /\ stdin_str_len \in Nat
  /\ ff_flag \in BOOLEAN /\ ff_script \in 0 .. Len(Script) + 1

ConsoleInit ==
  /\ stdin_buf = NoLine /\ stdin_idx = 1 /\ stdin_str_len = 0
  /\ ff_flag = FALSE /\ ff_script = 0

Unread == stdin_idx < stdin_str_len

\* getline on the script delivers a line; at its end the VM turns to the console
ScriptHasLine == ff_flag /\ ff_script \in DOMAIN Script

\* The console once IN has filled the buffer with line l
Filled(l, len, flag, script) ==
  [buf |-> l, idx |-> 0, len |-> len, flag |-> flag, script |-> script]

FromScript ==
  LET l == Script[ff_script] IN {Filled(l, Len(l.text), ff_flag, ff_script + 1)}

\* At the script's end the flag is lowered, the handle closed and dropped, and
\* the same IN reads the console
ClosedScript == IF ff_flag THEN 0 ELSE ff_script

\* A slip: the flag stays up after the script's end
FromUserFlagKept(mode) ==
  {Filled(l, Len(l.text), ff_flag, ClosedScript) : l \in Lines}

\* What the console may return: a line; at the end of the input getline leaves
\* an uninitialised buffer and the length -1; a read that fails on the pipe
\* leaves a zeroed buffer and the length 0
FromUser(mode) ==
  {Filled(l, Len(l.text), FALSE, ClosedScript) : l \in Lines} \cup
  (IF mode = "standalone"
   THEN {Filled(LineOf(c, <<>>), SIZE_MAX, FALSE, ClosedScript) :
           c \in {"garbage", "_other"}}
   ELSE {Filled(LineOf("text", <<0>>), 0, FALSE, ClosedScript)})

\* The buffer an IN works on
Buffers(mode) ==
  IF Unread THEN {[buf |-> stdin_buf, idx |-> stdin_idx, len |-> stdin_str_len,
                   flag |-> ff_flag, script |-> ff_script]}
  ELSE IF ScriptHasLine THEN FromScript ELSE FromUser(mode)

\* IN blocks on the user
AwaitsLine == ~Unread /\ ~ScriptHasLine

\* The characters IN may find at the buffer's index; a garbage buffer holds
\* any, and the index into it is not tracked
CharsAt(r) == IF r.buf.cmd = "garbage" THEN Chars ELSE {r.buf.text[r.idx + 1]}

\* IN has looked at buffer r and leaves the index at idx
Console(r, buf, idx, len) ==
  /\ stdin_buf' = buf /\ stdin_idx' = idx /\ stdin_str_len' = len
  /\ ff_flag' = (r.flag \/ r.buf.cmd = "ff")
  /\ ff_script' = IF r.buf.cmd = "ff" THEN 1 ELSE r.script

Deliver(r) ==
  Console(r, r.buf, IF r.buf.cmd = "garbage" THEN r.idx ELSE r.idx + 1, r.len)
Keep(r)    == Console(r, r.buf, r.idx, r.len)

\* A slip: the buffer is rewritten but not its length
SetregKeepsLength(r) == Console(r, LineOf("text", <<Newline>>), 0, r.len)

\* "_setreg" leaves a line of one character, '\n', in the buffer
Setreg(r)  == Console(r, LineOf("text", <<Newline>>), 0, 1)

\* The assertion of exec.c:312: the flag is up only while the script is open.
\* They are set in one place and cleared in another, once per line and handle.
FFConsistent == ff_flag <=> ff_script # 0

\* A character IN still has to deliver lies inside the buffer, whatever line,
\* script line or rewritten "_setreg" line is in it.  Only the buffer left by the
\* end of the input has no such bound, and a '_' line delivers nothing.
UnreadInBuffer ==
  Unread => \/ stdin_str_len <= Len(stdin_buf.text)
            \/ stdin_buf.cmd \in {"garbage", "_other"}
=============================================================================
