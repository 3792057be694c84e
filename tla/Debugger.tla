------------------------------ MODULE Debugger ------------------------------
(***************************************************************************)
(* synacor -d (src/src/debug.c): the process of the VM, the keyboard       *)
(* process that writes to it and the screen process that reads from it.    *)
(* They share two pipes, three flags and a mutex.  What an instruction     *)
(* computes is in Exec; here the next instruction is any, at any address.  *)
(* The control variables say what a process does next; a point named       *)
(* "...ing" is inside a critical section.                                  *)
(***************************************************************************)
EXTENDS Integers, Sequences

CONSTANTS Keys,       \* characters typed: includes "r", "s", "q", "nl"
          Addrs,      \* the addresses that instructions run from
          BreakFiles, \* what script/breakpoints may hold: the lines' numbers (atoi
                      \* of a blank line is 0) and how the file ends
          WordMod,    \* 2^16: a line's number is cut to a value_t
          InCap,      \* bytes the pipe to the VM holds
          OutCap,     \* bytes the pipe to the screen holds
          LineMax     \* 256: the greatest line IN takes from the pipe

ASSUME DebuggerAssumption ==
  /\ {"r", "s", "q", "nl"} \subseteq Keys /\ "nul" \notin Keys
  /\ WordMod \in Nat \ {0} /\ 0 \in Addrs /\ Addrs \subseteq 0 .. WordMod - 1
  /\ BreakFiles \subseteq [lines : Seq(Int), end : {"newline", "cut", "missing"}]
  /\ InCap \in Nat \ {0} /\ OutCap \in Nat \ {0, 1} /\ LineMax \in Nat \ {0}

VARIABLES
  setup, done, debug_input_mode, \* shared_data
  owner,     \* who holds the mutex
  in_pipe,   \* the keys on their way to the VM
  out_pipe,  \* how many bytes are on their way to the screen
  vm,        \* control of the VM's process
  after,     \* where refresh_windows returns to
  file,      \* script/breakpoints: does the last line have its newline?
  breakflag,
  debug_op,  \* what break_wait returned for this instruction: "none" if it was
             \* not called, "unset" if ret had no value
  addr, inst,\* the instruction inst_ptr points to
  line,      \* the part of a line IN has read so far
  unread,    \* how many characters of a line IN has still to deliver
  keyboard,  \* control of the keyboard process
  ch,        \* the key it got
  screen     \* control of the screen process

flags     == <<setup, done, debug_input_mode>>
vmData    == <<after, breakflag, debug_op, addr, inst, line, unread, file>>
vmVars    == <<vm, vmData>>
keyVars   == <<keyboard, ch>>
vars      == <<flags, owner, in_pipe, out_pipe, vmVars, keyVars, screen>>

Kinds     == {"op", "out", "in", "halt"}
Processes == {"vm", "keyboard", "screen"}

VmPoints ==
  {"spin", "spinning", "load", "loop", "break", "breaking", "refresh", "refreshing",
   "wait", "clear", "clearing", "decide", "run", "exec", "read", "finish",
   "finishing", "close_write", "close_read", "over", "dead"}

TypeOK ==
  /\ setup \in BOOLEAN /\ done \in BOOLEAN /\ debug_input_mode \in BOOLEAN
  /\ owner \in Processes \cup {"nobody"}
  /\ in_pipe \in Seq(Keys) /\ Len(in_pipe) <= InCap
  /\ out_pipe \in 0 .. OutCap
  /\ vm \in VmPoints /\ after \in {"wait", "decide", "exec"}
  /\ file \in BreakFiles
  /\ breakflag \in {-1, 0, 1} /\ debug_op \in {"none", "quit", "run", "step", "unset"}
  /\ addr \in Addrs /\ inst \in Kinds \cup {"none"}
  /\ line \in Seq(Keys) /\ Len(line) < LineMax /\ unread \in 0 .. LineMax - 1
  /\ keyboard \in {"unborn", "getch", "lock", "writing", "echoing", "ended", "killed"}
  /\ ch \in Keys \cup {"none"}
  /\ screen \in {"fork", "setup", "setting", "read", "lock", "printing", "ended", "exit"}

\* The VM's process starts with the first fork; the parent, which becomes the
\* screen process, has the second one before it
Init ==
  /\ setup = FALSE /\ done = FALSE /\ debug_input_mode = FALSE
  /\ owner = "nobody" /\ in_pipe = <<>> /\ out_pipe = 0
  /\ vm = "spin" /\ after = "wait" /\ file \in BreakFiles
  /\ breakflag = 0 /\ debug_op = "none"
  /\ addr = 0 /\ inst = "none" /\ line = <<>> /\ unread = 0
  /\ keyboard = "unborn" /\ ch = "none"
  /\ screen = "fork"

-----------------------------------------------------------------------------
(* The mutex and the pipes *)

\* A slip: a mutex that is not shared between processes
LockPrivate(p) == owner' = p

Lock(p)   == owner = "nobody" /\ owner' = p
Unlock(p) == owner' = "nobody"

\* A process that has ended or died has closed its descriptors.  The VM holds
\* the only write end of out_pipe and the only read end of in_pipe, the keyboard
\* process the only write end of in_pipe.

\* A slip: the keyboard process has a write end of out_pipe, too
OutEofShared ==
  /\ vm \in {"close_read", "over", "dead"} /\ keyboard \in {"ended", "killed"}
  /\ out_pipe = 0

OutEof   == vm \in {"close_read", "over", "dead"} /\ out_pipe = 0
InEof    == keyboard \in {"ended", "killed"} /\ in_pipe = <<>>
InBroken == vm \in {"over", "dead"}

-----------------------------------------------------------------------------
(* The process of the VM *)

VmGoto(point) == vm' = point

\* lock, then a body: the VM enters and leaves its short critical sections
VmEnter(from, to) ==
  /\ vm = from /\ Lock("vm") /\ VmGoto(to)
  /\ UNCHANGED <<flags, in_pipe, out_pipe, vmData, keyVars, screen>>

VmLock ==
  \/ VmEnter("spin", "spinning")   \/ VmEnter("break", "breaking")
  \/ VmEnter("clear", "clearing")  \/ VmEnter("refresh", "refreshing")
  \/ VmEnter("finish", "finishing")

\* A slip: the flag is read once, whatever it is
SpinOnce ==
  /\ vm = "spinning" /\ Unlock("vm") /\ VmGoto("load")
  /\ UNCHANGED <<flags, in_pipe, out_pipe, vmData, keyVars, screen>>

\* A slip: the copy of the flag is not read again
SpinStale ==
  /\ vm = "spinning" /\ Unlock("vm") /\ VmGoto("spin")
  /\ UNCHANGED <<flags, in_pipe, out_pipe, vmData, keyVars, screen>>

\* while(!setup_check)
Spin ==
  /\ vm = "spinning" /\ Unlock("vm")
  /\ VmGoto(IF setup THEN "load" ELSE "spin")
  /\ UNCHANGED <<flags, in_pipe, out_pipe, vmData, keyVars, screen>>

\* The table has room for the lines that end in a newline.  A last line without
\* one is written behind it; the heap may survive that or not.  Without a file,
\* or without a first instruction, the process ends here.
Load ==
  /\ vm = "load"
  /\ \/ file.end # "missing" /\ VmGoto("loop")
     \/ VmGoto("dead")
  /\ UNCHANGED <<flags, owner, in_pipe, out_pipe, vmData, keyVars, screen>>

\* breakpoint_count, and the table as far as the loop compares it
Count   == IF file.end = "newline" THEN Len(file.lines) ELSE Len(file.lines) - 1
IsBreak == \E i \in 1 .. Count : addr = file.lines[i] % WordMod

\* A slip: the last entry is not compared
CompareShort ==
  /\ vm = "loop"
  /\ LET flag == IF \E i \in 1 .. Count - 1 : addr = file.lines[i] % WordMod
                 THEN 1 ELSE breakflag
     IN  breakflag' = flag /\ VmGoto(IF flag # 0 THEN "break" ELSE "run")
  /\ UNCHANGED <<flags, owner, in_pipe, out_pipe, after, debug_op, addr, inst, line, unread, file,
                 keyVars, screen>>

Compare ==
  /\ vm = "loop"
  /\ LET flag == IF IsBreak THEN 1 ELSE breakflag
     IN  breakflag' = flag /\ VmGoto(IF flag # 0 THEN "break" ELSE "run")
  /\ UNCHANGED <<flags, owner, in_pipe, out_pipe, after, debug_op, addr, inst, line, unread, file,
                 keyVars, screen>>

\* break_wait raises the mode
BreakMode ==
  /\ vm = "breaking" /\ debug_input_mode' = TRUE /\ Unlock("vm")
  /\ VmGoto("refresh") /\ after' = "wait"
  /\ UNCHANGED <<setup, done, in_pipe, out_pipe, breakflag, debug_op, addr, inst, line,
                 unread, file, keyVars, screen>>

\* refresh_windows.  Its sweep over the instructions around pc may leave the
\* memory: it then dies, the mutex held (see Disasm).
Refresh ==
  /\ vm = "refreshing"
  /\ \/ Unlock("vm") /\ VmGoto(after)
     \/ VmGoto("dead") /\ UNCHANGED owner
  /\ UNCHANGED <<flags, in_pipe, out_pipe, vmData, keyVars, screen>>

Command(key) ==
  CASE key = "r" -> "run" [] key = "s" -> "step" [] key = "q" -> "quit" [] OTHER -> "none"

\* break_wait reads a byte.  A step leaves the mode as it is; other keys are
\* dropped; at the end of the pipe ret is returned without having been set.
WaitKey ==
  /\ vm = "wait" /\ in_pipe # <<>>
  /\ in_pipe' = Tail(in_pipe) /\ debug_op' = Command(Head(in_pipe))
  /\ CASE debug_op' = "none" -> UNCHANGED <<vm, after>>
       [] debug_op' = "step" -> VmGoto("refresh") /\ after' = "decide"
       [] OTHER              -> VmGoto("clear") /\ after' = "decide"
  /\ UNCHANGED <<flags, owner, out_pipe, breakflag, addr, inst, line, unread, file, keyVars,
                 screen>>

WaitEof ==
  /\ vm = "wait" /\ InEof
  /\ debug_op' = "unset"
  /\ VmGoto("refresh") /\ after' = "decide"
  /\ UNCHANGED <<flags, owner, in_pipe, out_pipe, breakflag, addr, inst, line, unread, file,
                 keyVars, screen>>

\* Slips: the mode stays up; the mutex is not unlocked
ClearNothing ==
  /\ vm = "clearing" /\ Unlock("vm") /\ VmGoto("refresh")
  /\ UNCHANGED <<flags, in_pipe, out_pipe, vmData, keyVars, screen>>

ClearLocked ==
  /\ vm = "clearing" /\ debug_input_mode' = FALSE /\ UNCHANGED owner /\ VmGoto("refresh")
  /\ UNCHANGED <<setup, done, in_pipe, out_pipe, vmData, keyVars, screen>>

\* r and q lower the mode
Clear ==
  /\ vm = "clearing" /\ debug_input_mode' = FALSE /\ Unlock("vm") /\ VmGoto("refresh")
  /\ UNCHANGED <<setup, done, in_pipe, out_pipe, vmData, keyVars, screen>>

\* A slip: a quit sets the flag and does not leave the loop
DecideStays ==
  /\ vm = "decide" /\ VmGoto("run")
  /\ breakflag' = CASE debug_op = "quit" -> -1 [] debug_op = "run" -> 0 [] OTHER -> breakflag
  /\ UNCHANGED <<flags, owner, in_pipe, out_pipe, after, debug_op, addr, inst, line, unread,
                 file, keyVars, screen>>

\* A ret without a value may be any of the three
Decide ==
  /\ vm = "decide"
  /\ \E op \in IF debug_op = "unset" THEN {"quit", "run", "step"} ELSE {debug_op} :
       CASE op = "quit" -> breakflag' = -1 /\ VmGoto("finish")
         [] op = "run"  -> breakflag' = 0 /\ VmGoto("run")
         [] OTHER       -> UNCHANGED breakflag /\ VmGoto("run")
  /\ UNCHANGED <<flags, owner, in_pipe, out_pipe, after, debug_op, addr, inst, line, unread, file,
                 keyVars, screen>>

\* The windows are drawn again before an IN
Run ==
  /\ vm = "run"
  /\ inst' \in Kinds
  /\ after' = "exec" /\ VmGoto(IF inst' = "in" THEN "refresh" ELSE "exec")
  /\ UNCHANGED <<flags, owner, in_pipe, out_pipe, breakflag, debug_op, addr, line, unread, file,
                 keyVars, screen>>

-----------------------------------------------------------------------------
(* exec_step in the VM's process *)

ExecuteEnds == breakflag' = -1 /\ VmGoto("finish") /\ UNCHANGED <<addr, debug_op, inst>>

\* exec_step returns the next cell, any one, or NULL
NextInstruction ==
  \/ /\ addr' \in Addrs /\ VmGoto("loop") /\ debug_op' = "none" /\ inst' = "none"
     /\ UNCHANGED breakflag
  \/ ExecuteEnds

ExecOp ==
  /\ vm = "exec" /\ inst = "op" /\ NextInstruction
  /\ UNCHANGED <<flags, owner, in_pipe, out_pipe, after, line, unread, file, keyVars, screen>>

\* A slip: the pipe is taken for endless
ExecOutEndless ==
  /\ vm = "exec" /\ inst = "out"
  /\ out_pipe' = out_pipe + 2 /\ NextInstruction
  /\ UNCHANGED <<flags, owner, in_pipe, after, line, unread, file, keyVars, screen>>

\* dprintf writes the two bytes of the value at once, and blocks without room
ExecOut ==
  /\ vm = "exec" /\ inst = "out" /\ out_pipe + 2 <= OutCap
  /\ out_pipe' = out_pipe + 2 /\ NextInstruction
  /\ UNCHANGED <<flags, owner, in_pipe, after, line, unread, file, keyVars, screen>>

ExecHalt ==
  /\ vm = "exec" /\ inst = "halt" /\ ExecuteEnds
  /\ UNCHANGED <<flags, owner, in_pipe, out_pipe, after, line, unread, file, keyVars, screen>>

ExecIn ==
  /\ vm = "exec" /\ inst = "in"
  /\ IF unread > 0
     THEN unread' = unread - 1 /\ NextInstruction
     ELSE VmGoto("read") /\ UNCHANGED <<unread, breakflag, debug_op, addr, inst>>
  /\ UNCHANGED <<flags, owner, in_pipe, out_pipe, after, line, file, keyVars, screen>>

\* The line is complete: "q" alone ends the VM, any other line is delivered
\* from its first character (at the end of the pipe that may be the NUL), or is
\* one that IN dies of: a command it cannot obey, no register to put a key in
LineRead(text) ==
  /\ line' = <<>>
  /\ \/ text = <<"q", "nl">> /\ ExecuteEnds /\ UNCHANGED unread
     \/ /\ text # <<"q", "nl">> /\ NextInstruction
        /\ unread' = IF text = <<>> THEN 0 ELSE Len(text) - 1
     \/ /\ text # <<"q", "nl">> /\ VmGoto("dead")
        /\ UNCHANGED <<breakflag, debug_op, addr, inst, unread>>

\* IN reads byte after byte until a newline or a full buffer
ReadKey ==
  /\ vm = "read" /\ in_pipe # <<>>
  /\ in_pipe' = Tail(in_pipe)
  /\ LET text == Append(line, Head(in_pipe))
     IN  IF Head(in_pipe) = "nl" \/ Len(text) = LineMax
         THEN LineRead(text)
         ELSE line' = text /\ UNCHANGED <<vm, breakflag, debug_op, addr, inst, unread>>
  /\ UNCHANGED <<flags, owner, out_pipe, after, file, keyVars, screen>>

ReadEof ==
  /\ vm = "read" /\ InEof /\ LineRead(line)
  /\ UNCHANGED <<flags, owner, in_pipe, out_pipe, after, file, keyVars, screen>>

\* A failed assertion or a NULL dereference in exec_step
ExecFault ==
  /\ vm = "exec" /\ VmGoto("dead")
  /\ UNCHANGED <<flags, owner, in_pipe, out_pipe, vmData, keyVars, screen>>

\* The end of the VM's process: done, then the two ends of the pipes
Finish ==
  /\ vm = "finishing" /\ done' = TRUE /\ Unlock("vm") /\ VmGoto("close_write")
  /\ UNCHANGED <<setup, debug_input_mode, in_pipe, out_pipe, vmData, keyVars, screen>>

Close ==
  /\ \/ vm = "close_write" /\ VmGoto("close_read")
     \/ vm = "close_read" /\ VmGoto("over")
  /\ UNCHANGED <<flags, owner, in_pipe, out_pipe, vmData, keyVars, screen>>

VmStep ==
  \/ Spin \/ Load \/ Compare \/ BreakMode \/ Refresh \/ WaitKey \/ WaitEof \/ Clear
  \/ Decide \/ Run \/ ExecOp \/ ExecOut \/ ExecHalt \/ ExecIn \/ ReadKey \/ ReadEof
  \/ ExecFault \/ Finish \/ Close

-----------------------------------------------------------------------------
(* The keyboard process *)

\* The user types.  A NUL (Ctrl-Space) ends the loop, and with it the pipe.
Getch ==
  /\ keyboard = "getch"
  /\ \/ \E k \in Keys : ch' = k /\ keyboard' = "lock"
     \/ keyboard' = "ended" /\ UNCHANGED ch
  /\ UNCHANGED <<flags, owner, in_pipe, out_pipe, vmVars, screen>>

KeyLock ==
  /\ keyboard = "lock" /\ Lock("keyboard") /\ keyboard' = "writing"
  /\ UNCHANGED <<flags, in_pipe, out_pipe, vmVars, ch, screen>>

\* The write blocks while the pipe is full; once the VM's process is gone it
\* raises SIGPIPE, which ends the process inside the critical section
Write ==
  /\ keyboard = "writing"
  /\ \/ /\ ~InBroken /\ Len(in_pipe) < InCap
        /\ in_pipe' = Append(in_pipe, ch) /\ keyboard' = "echoing"
     \/ InBroken /\ keyboard' = "killed" /\ UNCHANGED in_pipe
  /\ ch' = "none"
  /\ UNCHANGED <<flags, owner, out_pipe, vmVars, screen>>

\* addch unless debug_input_mode, unlock
Echo ==
  /\ keyboard = "echoing" /\ Unlock("keyboard") /\ keyboard' = "getch"
  /\ UNCHANGED <<flags, in_pipe, out_pipe, vmVars, ch, screen>>

-----------------------------------------------------------------------------
(* The screen process *)

\* The second fork; without it the parent exits and nobody raises setup
Fork ==
  /\ screen = "fork"
  /\ \/ screen' = "setup" /\ keyboard' = "getch"
     \/ screen' = "exit" /\ UNCHANGED keyboard
  /\ UNCHANGED <<flags, owner, in_pipe, out_pipe, vmVars, ch>>

ScreenLock ==
  /\ \/ screen = "setup" /\ screen' = "setting"
     \/ screen = "lock" /\ screen' = "printing"
  /\ Lock("screen")
  /\ UNCHANGED <<flags, in_pipe, out_pipe, vmVars, keyVars>>

Setup ==
  /\ screen = "setting" /\ setup' = TRUE /\ Unlock("screen") /\ screen' = "read"
  /\ UNCHANGED <<done, debug_input_mode, in_pipe, out_pipe, vmVars, keyVars>>

ReadByte ==
  /\ screen = "read"
  /\ \/ out_pipe > 0 /\ out_pipe' = out_pipe - 1 /\ screen' = "lock"
     \/ OutEof /\ screen' = "ended" /\ UNCHANGED out_pipe
  /\ UNCHANGED <<flags, owner, in_pipe, vmVars, keyVars>>

\* Slips: break comes before the unlock; the wrong flag is looked up
PrintByteKeeps ==
  /\ screen = "printing" /\ owner' = IF done THEN owner ELSE "nobody"
  /\ screen' = IF done THEN "ended" ELSE "read"
  /\ UNCHANGED <<flags, in_pipe, out_pipe, vmVars, keyVars>>

PrintByteSetup ==
  /\ screen = "printing" /\ Unlock("screen")
  /\ screen' = IF setup THEN "ended" ELSE "read"
  /\ UNCHANGED <<flags, in_pipe, out_pipe, vmVars, keyVars>>

\* The byte is printed; once the VM is done the loop ends with it
PrintByte ==
  /\ screen = "printing" /\ Unlock("screen")
  /\ screen' = IF done THEN "ended" ELSE "read"
  /\ UNCHANGED <<flags, in_pipe, out_pipe, vmVars, keyVars>>

KeyboardStep == Write \/ Echo
ScreenStep   == Fork \/ Setup \/ ReadByte \/ PrintByte

Next ==
  VmLock \/ VmStep \/ Getch \/ KeyLock \/ KeyboardStep \/ ScreenLock \/ ScreenStep

Spec == Init /\ [][Next]_vars

\* Every process runs on whenever it is not blocked, and the mutex, once free
\* again and again, is given to each process that waits for it (the VM takes it
\* over and over while it spins).  Nothing is assumed of the user.
FairSpec ==
  /\ Spec
  /\ WF_vars(VmStep) /\ WF_vars(KeyboardStep) /\ WF_vars(ScreenStep)
  /\ SF_vars(VmLock) /\ SF_vars(KeyLock) /\ SF_vars(ScreenLock)

-----------------------------------------------------------------------------
(* Properties *)

\* Who is between lock and unlock; a process killed there never unlocks
Inside(p) ==
  CASE p = "vm"       -> vm \in {"spinning", "breaking", "refreshing", "clearing", "finishing"}
    [] p = "keyboard" -> keyboard \in {"writing", "echoing", "killed"}
    [] p = "screen"   -> screen \in {"setting", "printing"}

\* debug.c:22, the mutex is "to synchronize writing to the GUI by multiple
\* processes": whoever is between lock and unlock holds it, on every path
\* (break_wait's switches, the early break of the screen process).  Not all that
\* draws is there: getch refreshes (debug.c:373) and endwin (418) restores the
\* terminal without the mutex.
OneInside == \A p \in Processes : Inside(p) => owner = p

\* Nobody walks away with the mutex: only a death inside a section keeps it.
MutexReturned == owner # "nobody" => Inside(owner) \/ (owner = "vm" /\ vm = "dead")

\* debug.c:25, setup is "true when all processes have been sucessfully forked
\* and execution may begin": no instruction before the other two processes run.
SetupGate ==
  vm \notin {"spin", "spinning"} => keyboard # "unborn" /\ screen \notin {"fork", "exit"}

\* While the keyboard process lives, [PAUSED] is shown only by a VM that stops
\* before each instruction: in break_wait the mode is up, and with the mode up
\* the flag is set and an instruction runs only on a step command.
PausedMode ==
  /\ vm = "wait" => debug_input_mode
  /\ debug_input_mode /\ keyboard # "ended" =>
       /\ breakflag # 0
       /\ vm \in {"run", "exec", "read"} => debug_op = "step"

\* README.md:35, "each line contains a memory location of a desired breakpoint",
\* and 39, on one "the debugger will pause execution and wait": while there is a
\* keyboard process to wait for, no instruction at an address in a line of the
\* file runs but on an r or an s read in break_wait for it.
EveryLineBreaks ==
  /\ \E i \in DOMAIN file.lines : addr = file.lines[i] % WordMod
  /\ vm \in {"run", "exec", "read"} /\ keyboard # "ended"
  => debug_op \in {"run", "step"}

\* That is so of a file whose last line ends in a newline, through any number of
\* runs, steps and keys typed ahead; the code passes over a line without one.
StopsAtBreakpoint == file.end = "newline" => EveryLineBreaks

\* An OUT never meets a pipe that the screen process has closed.
ScreenOutlivesVm == screen = "ended" => done \/ vm = "dead"

\* The mutex will not be unlocked: its holder was killed, or waits for room in
\* the pipe to the VM
Lost == \/ keyboard = "killed"
        \/ keyboard = "writing" /\ Len(in_pipe) = InCap
        \/ vm = "dead" /\ owner = "vm"

\* The mutex is free again and again, or it is lost for good in one of the three
\* ways of Lost: a holder blocked on a full pipe (debug.c:375), or one that died.
MutexFreed == []<>(owner = "nobody") \/ <>[]Lost

\* debug.c:25, with setup up "execution may begin": the VM then gets out of its
\* spin over the mutex the other two processes want, unless it is lost for good.
StartsOnceSetUp == (setup ~> vm \notin {"spin", "spinning"}) \/ <>[]Lost

\* Once the VM's process has closed its pipe or died, the screen process ends
\* and restores the terminal, unless the mutex is lost for good.
ScreenEnds ==
  (vm \in {"close_read", "over", "dead"} ~> screen = "ended") \/ <>[]Lost

\* README.md:45, q "shuts down the VM ...": a q that break_wait has read ends
\* the VM's process.
QuitAlwaysEndsVm == debug_op = "quit" ~> vm \in {"over", "dead"}

\* It does, through the fight for the mutex that follows, unless that is lost.
QuitEndsVm == QuitAlwaysEndsVm \/ <>[]Lost

\* README.md:45, q "shuts down the VM and debugger": once a q has ended the VM's
\* process in order, the other two end as well.
QuitEndsDebugger ==
  vm = "over" /\ debug_op = "quit" ~>
    screen = "ended" /\ keyboard \in {"ended", "killed"}

\* debug.c:27, debug_input_mode is "true when accepting input for the debugger
\* (not the VM)": IN does not wait for a key of the game while it is up.
ModeIsHonest == vm = "read" /\ keyboard # "ended" => ~debug_input_mode

\* arch-spec:75, OUT writes its character to the terminal: when the screen
\* process ends, the pipe holds at most the second byte of the last character.
OutputPrinted == screen = "ended" => out_pipe < 2
=============================================================================
