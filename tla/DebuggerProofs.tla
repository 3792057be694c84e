--------------------------- MODULE DebuggerProofs ---------------------------
(***************************************************************************)
(* Theorems about the three processes of the debugger, for every set of    *)
(* keys, addresses and breakpoint files and every capacity of the pipes.   *)
(***************************************************************************)
EXTENDS Debugger, TLAPS

USE DebuggerAssumption DEF DebuggerAssumption

LEMMA TakeKey ==
  ASSUME NEW S, NEW s \in Seq(S), s # <<>>
  PROVE  Head(s) \in S /\ Tail(s) \in Seq(S) /\ Len(Tail(s)) < Len(s)
OBVIOUS

LEMMA AddKey ==
  ASSUME NEW S, NEW s \in Seq(S), NEW e \in S
  PROVE  Append(s, e) \in Seq(S) /\ Len(Append(s, e)) = Len(s) + 1
OBVIOUS

-----------------------------------------------------------------------------
(* The inductive invariants *)

TypeInv == TypeOK /\ (keyboard \in {"lock", "writing"} => ch \in Keys)

\* OneInside and MutexReturned, process by process
Sections == {"spinning", "breaking", "refreshing", "clearing", "finishing"}

MutexInv ==
  /\ vm \in Sections => owner = "vm"
  /\ keyboard \in {"writing", "echoing", "killed"} => owner = "keyboard"
  /\ screen \in {"setting", "printing"} => owner = "screen"
  /\ owner = "vm" => vm \in Sections \/ vm = "dead"
  /\ owner = "keyboard" => keyboard \in {"writing", "echoing", "killed"}
  /\ owner = "screen" => screen \in {"setting", "printing"}
  /\ screen = "fork" => keyboard = "unborn"

\* setup is raised by the process that made the second fork
GateInv ==
  /\ SetupGate
  /\ setup => screen \notin {"fork", "exit"}
  /\ screen \notin {"fork", "exit"} => keyboard # "unborn"

\* done is raised before the pipe is closed
EndInv ==
  /\ ScreenOutlivesVm
  /\ vm \in {"close_write", "close_read", "over"} => done

\* The VM is at one of points, or in refresh_windows on the way to one
At(points) == vm \in points \/ (vm \in {"refresh", "refreshing"} /\ after \in points)

\* In break_wait the flag is up; with the mode up a way out of it to the next
\* instruction is a step
PauseInv ==
  /\ At({"wait"}) => debug_input_mode
  /\ At({"wait"}) \/ vm \in {"break", "breaking", "clear", "clearing"} => breakflag # 0
  /\ vm \in {"clear", "clearing"} => after = "decide"
  /\ debug_input_mode /\ keyboard # "ended" =>
       /\ breakflag # 0
       /\ At({"decide", "run", "exec", "read"}) => debug_op = "step"
  /\ keyboard = "killed" => InBroken
  /\ screen = "fork" => keyboard = "unborn"

\* The instruction at hand is at an address the file lists
Listed == file.end = "newline" /\ \E k \in DOMAIN file.lines : addr = file.lines[k] % WordMod

\* break_wait has returned a command before such an instruction is decided on,
\* and a quit leads no further than to the end of the loop
BreakInv ==
  /\ Listed /\ keyboard # "ended" /\ At({"decide", "run", "exec", "read"})
     => debug_op \in {"quit", "run", "step"}
  /\ vm \in {"clear", "clearing"} => debug_op \in {"quit", "run"} /\ after = "decide"
  /\ vm = "loop" \/ At({"wait", "run", "exec", "read"}) => debug_op # "quit"
  /\ vm \in {"spin", "spinning", "load", "break", "breaking"} => debug_op # "quit"
  /\ keyboard = "killed" => InBroken
  /\ screen = "fork" => keyboard = "unborn"

-----------------------------------------------------------------------------
\* Every step keeps the types.
LEMMA TypeStep == TypeInv /\ [Next]_vars => TypeInv'
<1> SUFFICES ASSUME TypeInv, [Next]_vars PROVE TypeInv'
  OBVIOUS
<1> USE DEF TypeInv, TypeOK, VmPoints, Processes, Kinds, flags, vmVars, vmData, keyVars
<1>1. CASE VmLock
  BY <1>1 DEF VmLock, VmEnter, Lock, VmGoto
<1>2. CASE Getch
  BY <1>2 DEF Getch
<1>3. CASE Write
  <2>1. ch \in Keys
    BY <1>3 DEF Write
  <2>2. CASE ~InBroken /\ Len(in_pipe) < InCap /\ in_pipe' = Append(in_pipe, ch) /\ keyboard' = "echoing"
    <3>1. in_pipe' \in Seq(Keys) /\ Len(in_pipe') <= InCap
      BY <2>1, <2>2, AddKey
    <3> QED
      BY <1>3, <2>2, <3>1 DEF Write
  <2>3. CASE keyboard' = "killed" /\ UNCHANGED in_pipe
    BY <1>3, <2>3 DEF Write
  <2> QED
    BY <1>3, <2>2, <2>3 DEF Write
<1>4. CASE Fork
  BY <1>4 DEF Fork
<1>5. CASE Setup
  BY <1>5 DEF Setup, Unlock
<1>6. CASE ReadByte
  BY <1>6 DEF ReadByte, OutEof
<1>7. CASE PrintByte
  BY <1>7 DEF PrintByte, Unlock
<1>8. CASE Compare
  BY <1>8 DEF Compare, VmGoto
<1>9. CASE BreakMode
  BY <1>9 DEF BreakMode, Unlock, VmGoto
<1>10. CASE Refresh
  BY <1>10 DEF Refresh, Unlock, VmGoto
<1>11. CASE WaitKey
  BY <1>11, TakeKey DEF WaitKey, VmGoto, Command
<1>12. CASE WaitEof
  BY <1>12 DEF WaitEof, VmGoto, InEof
<1>13. CASE Clear
  <2>1. debug_input_mode' \in BOOLEAN
    BY <1>13, Zenon DEF Clear
  <2>2. owner' = "nobody" /\ vm' = "refresh"
    BY <1>13 DEF Clear, Unlock, VmGoto
  <2>3. UNCHANGED <<setup, done, in_pipe, out_pipe, vmData, keyVars, screen>>
    BY <1>13 DEF Clear
  <2> QED
    BY <2>1, <2>2, <2>3
<1>14. CASE Run
  BY <1>14 DEF Run, VmGoto, Kinds
<1>15. CASE ExecOut
  BY <1>15 DEF ExecOut, NextInstruction, ExecuteEnds, VmGoto
<1>16. CASE ReadKey
  <2> DEFINE key == Head(in_pipe)
              text == Append(line, key)
  <2>1. vm = "read" /\ key \in Keys /\ in_pipe' \in Seq(Keys) /\ Len(in_pipe') <= InCap
    BY <1>16, TakeKey DEF ReadKey
  <2>2. text \in Seq(Keys) /\ Len(text) \in 1 .. LineMax
    BY <2>1, AddKey
  <2> HIDE DEF text, key
  <2>3. CASE LineRead(text)
    <3>1. UNCHANGED <<flags, owner, out_pipe, after, file, keyVars, screen>>
      BY <1>16 DEF ReadKey
    <3>2. unread' \in 0 .. LineMax - 1
      <4>1. unread' \in {unread, 0, Len(text) - 1}
        BY <2>3 DEF LineRead
      <4> QED BY <2>2, <4>1
    <3>3. /\ line' = <<>> /\ breakflag' \in {-1, 0, 1} /\ addr' \in Addrs
          /\ debug_op' \in {"none", "quit", "run", "step", "unset"}
          /\ inst' \in Kinds \cup {"none"} /\ vm' \in {"loop", "finish", "dead"}
      BY <2>3 DEF LineRead, NextInstruction, ExecuteEnds, VmGoto
    <3> QED BY <2>1, <3>1, <3>2, <3>3
  <2>4. CASE line' = text /\ Len(text) # LineMax /\ UNCHANGED <<vm, breakflag, debug_op, addr, inst, unread>>
    BY <1>16, <2>1, <2>2, <2>4 DEF ReadKey
  <2> QED
    BY <1>16, <2>3, <2>4 DEF ReadKey, text, key
<1>17. CASE ReadEof
  BY <1>17 DEF ReadEof, LineRead, InEof, NextInstruction, ExecuteEnds, VmGoto
<1>18. CASE ExecFault
  BY <1>18 DEF ExecFault, VmGoto
<1>19. CASE Finish
  BY <1>19 DEF Finish, Unlock, VmGoto
<1>20. CASE Close
  BY <1>20 DEF Close, VmGoto
<1>21. CASE ExecOp \/ ExecHalt \/ ExecIn
  <2>1. CASE ExecOp
    BY <2>1 DEF ExecOp, NextInstruction, ExecuteEnds, VmGoto
  <2>2. CASE ExecHalt
    BY <2>2 DEF ExecHalt, ExecuteEnds, VmGoto
  <2>3. CASE ExecIn
    <3>1. /\ unread' \in 0 .. LineMax - 1
          /\ breakflag' \in {-1, 0, 1} /\ addr' \in Addrs
          /\ debug_op' \in {"none", "quit", "run", "step", "unset"}
          /\ inst' \in Kinds \cup {"none"} /\ vm' \in {"loop", "finish", "read"}
      BY <2>3, DebuggerAssumption
      DEF ExecIn, NextInstruction, ExecuteEnds, VmGoto, DebuggerAssumption
    <3>2. UNCHANGED <<flags, owner, in_pipe, out_pipe, after, line, file, keyVars, screen>>
      BY <2>3 DEF ExecIn
    <3> QED BY <3>1, <3>2
  <2> QED BY <1>21, <2>1, <2>2, <2>3
<1>22. CASE Spin \/ Load \/ Decide
  BY <1>22 DEF Spin, Unlock, VmGoto, Load, Decide
<1>23. CASE KeyLock \/ ScreenLock \/ Echo
  BY <1>23 DEF KeyLock, Lock, ScreenLock, Echo, Unlock
<1>24. CASE UNCHANGED vars
  BY <1>24 DEF vars
<1> QED
  BY <1>1, <1>2, <1>3, <1>4, <1>5, <1>6, <1>7, <1>8, <1>9, <1>10, <1>11, <1>12,
     <1>13, <1>14, <1>15, <1>16, <1>17, <1>18, <1>19, <1>20, <1>21, <1>22, <1>23,
     <1>24 DEF Next, VmStep, KeyboardStep, ScreenStep

\* For all keys, files and capacities the variables keep their types: the pipes
\* and the line buffer stay within their capacities.
THEOREM TypeCorrect == Spec => []TypeOK
<1>1. Init => TypeInv
  <2> SUFFICES ASSUME Init PROVE TypeInv
    OBVIOUS
  <2>1. in_pipe \in Seq(Keys) /\ Len(in_pipe) <= InCap /\ line \in Seq(Keys) /\ Len(line) < LineMax
    BY DEF Init
  <2>2. addr \in Addrs /\ out_pipe \in 0 .. OutCap /\ unread \in 0 .. LineMax - 1
    BY DEF Init
  <2> QED
    BY <2>1, <2>2 DEF Init, TypeInv, TypeOK, VmPoints, Processes, Kinds
<1>2. TypeInv => TypeOK
  BY DEF TypeInv
<1> QED BY <1>1, <1>2, TypeStep, PTL DEF Spec

\* Every step keeps the owner and the control points together.
LEMMA MutexStep == TypeOK /\ MutexInv /\ [Next]_vars => MutexInv'
<1> SUFFICES ASSUME TypeOK, MutexInv, [Next]_vars PROVE MutexInv'
  OBVIOUS
<1> USE DEF MutexInv, Sections, flags, vmVars, vmData, keyVars
<1>1. CASE VmLock
  BY <1>1 DEF VmLock, VmEnter, Lock, VmGoto
<1>2. CASE KeyLock
  BY <1>2 DEF KeyLock, Lock
<1>3. CASE Write
  BY <1>3 DEF Write, InBroken
<1>4. CASE Echo
  BY <1>4 DEF Echo, Unlock
<1>5. CASE ScreenLock
  BY <1>5 DEF ScreenLock, Lock
<1>6. CASE Setup
  BY <1>6 DEF Setup, Unlock
<1>7. CASE PrintByte
  BY <1>7 DEF PrintByte, Unlock
<1>8. CASE Spin
  BY <1>8 DEF Spin, Unlock, VmGoto
<1>9. CASE BreakMode
  BY <1>9 DEF BreakMode, Unlock, VmGoto
<1>10. CASE Refresh
  BY <1>10 DEF Refresh, Unlock, VmGoto, TypeOK
<1>11. CASE Clear
  BY <1>11 DEF Clear, Unlock, VmGoto
<1>12. CASE Finish
  BY <1>12 DEF Finish, Unlock, VmGoto
<1>13. CASE Load \/ Compare \/ Decide \/ Run
  BY <1>13 DEF Load, VmGoto, Compare, Decide, Run, Kinds
<1>14. CASE WaitKey \/ WaitEof
  BY <1>14 DEF WaitKey, VmGoto, Command, WaitEof, InEof
<1>15. CASE ExecOp \/ ExecOut \/ ExecHalt \/ ExecIn
  BY <1>15 DEF ExecOp, NextInstruction, ExecuteEnds, VmGoto, ExecOut, ExecHalt,
     ExecIn
<1>16. CASE ReadKey \/ ReadEof
  BY <1>16 DEF ReadKey, LineRead, NextInstruction, ExecuteEnds, VmGoto, ReadEof,
     InEof
<1>17. CASE ExecFault \/ Close
  BY <1>17 DEF ExecFault, VmGoto, Close
<1>18. CASE Getch \/ Fork \/ ReadByte
  BY <1>18 DEF Getch, Fork, ReadByte, OutEof
<1>19. CASE UNCHANGED vars
  BY <1>19 DEF vars
<1> QED
  BY <1>1, <1>2, <1>3, <1>4, <1>5, <1>6, <1>7, <1>8, <1>9, <1>10, <1>11, <1>12,
     <1>13, <1>14, <1>15, <1>16, <1>17, <1>18, <1>19 DEF Next, VmStep, KeyboardStep,
     ScreenStep

\* The owner and the control points always agree.
LEMMA MutexInvariance == Spec => []MutexInv
<1>1. Init => MutexInv
  BY DEF Init, MutexInv, Sections
<1> QED BY <1>1, MutexStep, TypeCorrect, PTL DEF Spec

\* On every path of the three processes, the early break of the screen process
\* included, whoever is in a critical section holds the mutex: no two processes
\* are inside one at the same time.  (getch and endwin draw outside any section.)
THEOREM MutualExclusion == Spec => []OneInside
<1>1. TypeOK /\ MutexInv => OneInside
  BY DEF MutexInv, Sections, OneInside, Inside, Processes
<1> QED BY <1>1, MutexInvariance, TypeCorrect, PTL

\* Every path out of a critical section, the breaks of the loops included, gives
\* the mutex back: a process that lives and is in none does not hold it.
THEOREM MutexGivenBack == Spec => []MutexReturned
<1>1. TypeOK /\ MutexInv => MutexReturned
  BY DEF TypeOK, MutexInv, Sections, MutexReturned, Inside, Processes
<1> QED BY <1>1, MutexInvariance, TypeCorrect, PTL

\* The safety half of MutexFreed.  A process that has died inside a critical
\* section, the only way out of one that MutexReturned allows beside the unlock,
\* keeps the mutex for good ...
KeptByDead == keyboard = "killed" \/ (vm = "dead" /\ owner = "vm")

\* ... and of a living holder every step is the unlock, but the keyboard process's
\* write of the key before it (debug.c:375) and a death.
Control(p) ==
  CASE p = "vm" -> vm [] p = "keyboard" -> keyboard [] p = "screen" -> screen
HolderSteps ==
  owner # "nobody" /\ owner' = owner /\ Control(owner)' # Control(owner) =>
    \/ keyboard = "writing" /\ keyboard' = "echoing"
    \/ KeptByDead'

\* A dead holder keeps the mutex from everyone for ever (debug.c:374-375, 142-171).
THEOREM DeathKeepsMutex == Spec => [](KeptByDead => [](owner # "nobody"))
<1>1. ASSUME TypeOK, MutexInv, KeptByDead, [Next]_vars
      PROVE  KeptByDead'
  <2> USE <1>1 DEF MutexInv, Sections, KeptByDead, flags, vmVars, vmData, keyVars
  <2>0. owner \in {"vm", "keyboard"}
    OBVIOUS
  <2>1. CASE VmLock \/ KeyLock \/ ScreenLock
    BY <2>0, <2>1 DEF VmLock, VmEnter, Lock, VmGoto, KeyLock, ScreenLock
  <2>2. CASE Spin \/ Load \/ Compare \/ BreakMode \/ Refresh
    BY <2>0, <2>2 DEF Spin, Unlock, VmGoto, Load, Compare, BreakMode, Refresh
  <2>3. CASE WaitKey \/ WaitEof \/ Clear \/ Decide \/ Run
    BY <2>0, <2>3 DEF WaitKey, VmGoto, Command, WaitEof, InEof, Clear, Unlock,
       Decide, Run, Kinds
  <2>4. CASE ExecOp \/ ExecOut \/ ExecHalt \/ ExecIn \/ ReadKey \/ ReadEof
    BY <2>0, <2>4 DEF ExecOp, NextInstruction, ExecuteEnds, VmGoto, ExecOut, ExecHalt,
       ExecIn, ReadKey, LineRead, ReadEof, InEof
  <2>5. CASE ExecFault \/ Finish \/ Close
    BY <2>0, <2>5 DEF ExecFault, Finish, Unlock, Close, VmGoto
  <2>6. CASE Getch \/ Write \/ Echo
    BY <2>0, <2>6 DEF Getch, Write, InBroken, Echo, Unlock
  <2>7. CASE Fork \/ Setup \/ ReadByte \/ PrintByte
    BY <2>0, <2>7 DEF Fork, Setup, Unlock, ReadByte, OutEof, PrintByte
  <2>8. CASE UNCHANGED vars
    BY <2>8 DEF vars
  <2> QED BY <2>1, <2>2, <2>3, <2>4, <2>5, <2>6, <2>7, <2>8
          DEF Next, VmStep, KeyboardStep, ScreenStep
<1>2. TypeOK /\ MutexInv /\ KeptByDead /\ [Next]_vars => KeptByDead'
  BY <1>1
<1>3. MutexInv /\ KeptByDead => owner # "nobody"
  BY DEF MutexInv, KeptByDead
<1> QED BY <1>2, <1>3, MutexInvariance, TypeCorrect, PTL DEF Spec

\* A holder leaves its section by its next step, or by the one after it when it
\* has a key to write, unless it dies: no path through a section is longer.
THEOREM SectionsAreShort == Spec => [][HolderSteps]_vars
<1>1. ASSUME TypeOK, MutexInv, [Next]_vars
      PROVE  HolderSteps
  <2> SUFFICES ASSUME owner # "nobody", owner' = owner,
                      Control(owner)' # Control(owner)
               PROVE  \/ keyboard = "writing" /\ keyboard' = "echoing"
                      \/ KeptByDead'
    BY DEF HolderSteps
  <2> USE <1>1 DEF MutexInv, Sections, KeptByDead, flags, vmVars, vmData, keyVars
  <2>0. \/ owner = "vm" /\ vm' # vm /\ vm \in Sections \cup {"dead"}
        \/ owner = "keyboard" /\ keyboard' # keyboard
           /\ keyboard \in {"writing", "echoing", "killed"}
        \/ owner = "screen" /\ screen' # screen /\ screen \in {"setting", "printing"}
    BY DEF Control, TypeOK, Processes
  <2>1. CASE VmLock \/ KeyLock \/ ScreenLock
    BY <2>0, <2>1 DEF VmLock, VmEnter, Lock, VmGoto, KeyLock, ScreenLock
  <2>2. CASE Spin \/ Load \/ Compare \/ BreakMode \/ Refresh
    BY <2>0, <2>2 DEF Spin, Unlock, VmGoto, Load, Compare, BreakMode, Refresh
  <2>3. CASE WaitKey \/ WaitEof \/ Clear \/ Decide \/ Run
    BY <2>0, <2>3 DEF WaitKey, VmGoto, Command, WaitEof, InEof, Clear, Unlock,
       Decide, Run, Kinds
  <2>4. CASE ExecOp \/ ExecOut \/ ExecHalt \/ ExecIn \/ ReadKey \/ ReadEof
    BY <2>0, <2>4 DEF ExecOp, NextInstruction, ExecuteEnds, VmGoto, ExecOut, ExecHalt,
       ExecIn, ReadKey, LineRead, ReadEof, InEof
  <2>5. CASE ExecFault \/ Finish \/ Close
    BY <2>0, <2>5 DEF ExecFault, Finish, Unlock, Close, VmGoto
  <2>6. CASE Getch \/ Write \/ Echo
    BY <2>0, <2>6 DEF Getch, Write, InBroken, Echo, Unlock
  <2>7. CASE Fork \/ Setup \/ ReadByte \/ PrintByte
    BY <2>0, <2>7 DEF Fork, Setup, Unlock, ReadByte, OutEof, PrintByte
  <2>8. CASE UNCHANGED vars
    BY <2>0, <2>8 DEF vars
  <2> QED BY <2>1, <2>2, <2>3, <2>4, <2>5, <2>6, <2>7, <2>8
          DEF Next, VmStep, KeyboardStep, ScreenStep
<1>2. TypeOK /\ MutexInv /\ [Next]_vars => [HolderSteps]_vars
  BY <1>1
<1> QED BY <1>2, MutexInvariance, TypeCorrect, PTL DEF Spec

\* Every step keeps the order of the start.
LEMMA GateStep == GateInv /\ [Next]_vars => GateInv'
<1> SUFFICES ASSUME GateInv, [Next]_vars PROVE GateInv'
  OBVIOUS
<1> USE DEF GateInv, SetupGate, flags, vmVars, vmData, keyVars
<1>1. CASE Fork
  BY <1>1 DEF Fork
<1>2. CASE ScreenLock
  BY <1>2 DEF ScreenLock, Lock
<1>3. CASE Setup
  BY <1>3 DEF Setup, Unlock
<1>4. CASE ReadByte
  BY <1>4 DEF ReadByte, OutEof
<1>5. CASE PrintByte
  BY <1>5 DEF PrintByte, Unlock
<1>6. CASE Spin
  BY <1>6 DEF Spin, Unlock, VmGoto
<1>7. CASE VmLock \/ Load \/ Compare \/ BreakMode \/ Refresh \/ WaitKey \/ WaitEof \/ Clear \/ Decide \/ Run
  BY <1>7 DEF VmLock, VmEnter, Lock, VmGoto, Load, Compare, BreakMode, Unlock,
     Refresh, WaitKey, Command, WaitEof, InEof, Clear, Decide, Run, Kinds
<1>8. CASE ExecOp \/ ExecOut \/ ExecHalt \/ ExecIn \/ ReadKey \/ ReadEof \/ ExecFault \/ Finish \/ Close
  BY <1>8 DEF ExecOp, NextInstruction, ExecuteEnds, VmGoto, ExecOut, ExecHalt,
     ExecIn, ReadKey, LineRead, ReadEof, InEof, ExecFault, Finish, Unlock, Close
<1>9. CASE Getch \/ KeyLock \/ Write \/ Echo
  BY <1>9 DEF Getch, KeyLock, Lock, Write, InBroken, Echo, Unlock
<1>10. CASE UNCHANGED vars
  BY <1>10 DEF vars
<1> QED
  BY <1>1, <1>2, <1>3, <1>4, <1>5, <1>6, <1>7, <1>8, <1>9, <1>10 DEF Next, VmStep,
     KeyboardStep, ScreenStep

\* The VM executes nothing before both forks have succeeded.
THEOREM ExecutionGated == Spec => []SetupGate
<1>1. Init => GateInv
  BY DEF Init, GateInv, SetupGate
<1> QED BY <1>1, GateStep, PTL DEF Spec, GateInv

\* Every step keeps the order of the end.
LEMMA EndStep == TypeOK /\ EndInv /\ [Next]_vars => EndInv'
<1> SUFFICES ASSUME TypeOK, EndInv, [Next]_vars PROVE EndInv'
  OBVIOUS
<1> USE DEF EndInv, ScreenOutlivesVm, flags, vmVars, vmData, keyVars
<1>1. CASE VmLock
  BY <1>1 DEF VmLock, VmEnter, Lock, VmGoto
<1>2. CASE ReadByte
  BY <1>2 DEF ReadByte, OutEof
<1>3. CASE PrintByte
  BY <1>3 DEF PrintByte, Unlock
<1>4. CASE Refresh
  BY <1>4 DEF Refresh, Unlock, VmGoto, TypeOK
<1>5. CASE Finish
  BY <1>5 DEF Finish, Unlock, VmGoto
<1>6. CASE Close
  BY <1>6 DEF Close, VmGoto
<1>7. CASE Spin \/ Load \/ Compare \/ BreakMode
  BY <1>7 DEF Spin, Unlock, VmGoto, Load, Compare, BreakMode
<1>8. CASE WaitKey \/ WaitEof \/ Clear \/ Decide \/ Run
  BY <1>8 DEF WaitKey, VmGoto, Command, WaitEof, InEof, Clear, Unlock, Decide, Run,
     Kinds
<1>9. CASE ExecOp \/ ExecOut \/ ExecHalt \/ ExecIn \/ ReadKey \/ ReadEof \/ ExecFault
  BY <1>9 DEF ExecOp, NextInstruction, ExecuteEnds, VmGoto, ExecOut, ExecHalt,
     ExecIn, ReadKey, LineRead, ReadEof, InEof, ExecFault
<1>10. CASE Getch \/ KeyLock \/ Write \/ Echo \/ Fork \/ ScreenLock \/ Setup
  BY <1>10 DEF Getch, KeyLock, Lock, Write, InBroken, Echo, Unlock, Fork,
     ScreenLock, Setup
<1>11. CASE UNCHANGED vars
  BY <1>11 DEF vars
<1> QED
  BY <1>1, <1>2, <1>3, <1>4, <1>5, <1>6, <1>7, <1>8, <1>9, <1>10, <1>11 DEF Next,
     VmStep, KeyboardStep, ScreenStep

\* The screen process does not end before the VM is done with its output.
THEOREM ScreenLast == Spec => []ScreenOutlivesVm
<1>1. Init => EndInv
  BY DEF Init, EndInv, ScreenOutlivesVm
<1> QED BY <1>1, EndStep, TypeCorrect, PTL DEF Spec, EndInv

\* Every step keeps the mode and the flag together.
LEMMA PauseStep == TypeOK /\ PauseInv /\ [Next]_vars => PauseInv'
<1> SUFFICES ASSUME TypeOK, PauseInv, [Next]_vars PROVE PauseInv'
  OBVIOUS
<1> USE DEF PauseInv, PausedMode, At, InBroken, flags, vmVars, vmData, keyVars
<1>1. CASE VmLock
  BY <1>1 DEF VmLock, VmEnter, Lock, VmGoto
<1>2. CASE Getch
  BY <1>2 DEF Getch
<1>3. CASE Write
  BY <1>3 DEF Write, InBroken
<1>4. CASE Fork
  BY <1>4 DEF Fork
<1>5. CASE Spin
  BY <1>5 DEF Spin, Unlock, VmGoto
<1>6. CASE Load
  BY <1>6 DEF Load, VmGoto
<1>7. CASE Compare
  BY <1>7 DEF Compare, VmGoto
<1>8. CASE BreakMode
  BY <1>8 DEF BreakMode, Unlock, VmGoto
<1>9. CASE Refresh
  BY <1>9 DEF Refresh, Unlock, VmGoto, TypeOK
<1>10. CASE WaitKey
  BY <1>10 DEF WaitKey, VmGoto, Command
<1>11. CASE WaitEof
  BY <1>11 DEF WaitEof, VmGoto, InEof
<1>12. CASE Clear
  BY <1>12 DEF Clear, Unlock, VmGoto
<1>13. CASE Decide
  BY <1>13 DEF Decide, VmGoto
<1>14. CASE Run
  BY <1>14 DEF Run, VmGoto, Kinds
<1>15. CASE ExecOp
  BY <1>15 DEF ExecOp, NextInstruction, ExecuteEnds, VmGoto
<1>16. CASE ExecOut
  BY <1>16 DEF ExecOut, NextInstruction, ExecuteEnds, VmGoto
<1>17. CASE ExecHalt
  BY <1>17 DEF ExecHalt, ExecuteEnds, VmGoto
<1>18. CASE ExecIn
  BY <1>18 DEF ExecIn, NextInstruction, ExecuteEnds, VmGoto
<1>19. CASE ReadKey
  BY <1>19 DEF ReadKey, LineRead, NextInstruction, ExecuteEnds, VmGoto
<1>20. CASE ReadEof
  BY <1>20 DEF ReadEof, LineRead, InEof, NextInstruction, ExecuteEnds, VmGoto
<1>21. CASE ExecFault
  BY <1>21 DEF ExecFault, VmGoto
<1>22. CASE Finish
  BY <1>22 DEF Finish, Unlock, VmGoto
<1>23. CASE Close
  BY <1>23 DEF Close, VmGoto
<1>24. CASE KeyLock \/ Echo
  BY <1>24 DEF KeyLock, Lock, Echo, Unlock
<1>25. CASE ScreenLock \/ Setup \/ ReadByte \/ PrintByte
  BY <1>25 DEF ScreenLock, Lock, Setup, Unlock, ReadByte, OutEof, PrintByte
<1>26. CASE UNCHANGED vars
  BY <1>26 DEF vars
<1> QED
  BY <1>1, <1>2, <1>3, <1>4, <1>5, <1>6, <1>7, <1>8, <1>9, <1>10, <1>11, <1>12,
     <1>13, <1>14, <1>15, <1>16, <1>17, <1>18, <1>19, <1>20, <1>21, <1>22, <1>23,
     <1>24, <1>25, <1>26 DEF Next, VmStep, KeyboardStep, ScreenStep

\* While the keyboard process lives, the VM shows [PAUSED] only if it stops before
\* each instruction.
THEOREM PausesHonestly == Spec => []PausedMode
<1>1. Init => PauseInv
  BY DEF Init, PauseInv, At, InBroken
<1>2. PauseInv => PausedMode
  BY DEF PauseInv, PausedMode, At
<1> QED BY <1>1, <1>2, PauseStep, TypeCorrect, PTL DEF Spec

\* Every step that leads on to an instruction has asked for a command.
LEMMA BreakStep == TypeOK /\ BreakInv /\ [Next]_vars => BreakInv'
<1> SUFFICES ASSUME TypeOK, BreakInv, [Next]_vars PROVE BreakInv'
  OBVIOUS
<1> USE DEF BreakInv, At, Listed, InBroken, flags, vmVars, vmData, keyVars
<1>1. CASE VmLock
  BY <1>1 DEF VmLock, VmEnter, Lock, VmGoto
<1>2. CASE Spin
  BY <1>2 DEF Spin, Unlock, VmGoto
<1>3. CASE Load
  BY <1>3 DEF Load, VmGoto
<1>4. CASE Compare
  <2>1. Listed => IsBreak
    <3>1. file.lines \in Seq(Int)
      BY DEF TypeOK
    <3>2. DOMAIN file.lines = 1 .. Len(file.lines)
      BY <3>1
    <3> QED
      BY <3>2 DEF Listed, IsBreak, Count
  <2> QED
    BY <1>4, <2>1 DEF Compare, VmGoto
<1>5. CASE BreakMode
  BY <1>5 DEF BreakMode, Unlock, VmGoto
<1>6. CASE Refresh
  BY <1>6 DEF Refresh, Unlock, VmGoto, TypeOK
<1>7. CASE WaitKey
  BY <1>7 DEF WaitKey, VmGoto, Command
<1>8. CASE WaitEof
  BY <1>8 DEF WaitEof, VmGoto, InEof
<1>9. CASE Clear
  BY <1>9 DEF Clear, Unlock, VmGoto
<1>10. CASE Decide
  BY <1>10 DEF Decide, VmGoto
<1>11. CASE Run
  BY <1>11 DEF Run, VmGoto, Kinds
<1>12. CASE ExecOp
  BY <1>12 DEF ExecOp, NextInstruction, ExecuteEnds, VmGoto
<1>13. CASE ExecOut
  BY <1>13 DEF ExecOut, NextInstruction, ExecuteEnds, VmGoto
<1>14. CASE ExecHalt
  BY <1>14 DEF ExecHalt, ExecuteEnds, VmGoto
<1>15. CASE ExecIn
  BY <1>15 DEF ExecIn, NextInstruction, ExecuteEnds, VmGoto
<1>16. CASE ReadKey
  BY <1>16 DEF ReadKey, LineRead, NextInstruction, ExecuteEnds, VmGoto
<1>17. CASE ReadEof
  BY <1>17 DEF ReadEof, LineRead, InEof, NextInstruction, ExecuteEnds, VmGoto
<1>18. CASE ExecFault
  BY <1>18 DEF ExecFault, VmGoto
<1>19. CASE Finish
  BY <1>19 DEF Finish, Unlock, VmGoto
<1>20. CASE Close
  BY <1>20 DEF Close, VmGoto
<1>21. CASE Getch \/ KeyLock \/ Write \/ Echo \/ Fork \/ ScreenLock \/ Setup \/ ReadByte \/ PrintByte
  BY <1>21 DEF Getch, KeyLock, Lock, Write, Echo, Unlock, Fork,
     ScreenLock, Setup, ReadByte, OutEof, PrintByte
<1>22. CASE UNCHANGED vars
  BY <1>22 DEF vars
<1> QED
  BY <1>1, <1>2, <1>3, <1>4, <1>5, <1>6, <1>7, <1>8, <1>9, <1>10, <1>11, <1>12,
     <1>13, <1>14, <1>15, <1>16, <1>17, <1>18, <1>19, <1>20, <1>21, <1>22 DEF Next,
     VmStep, KeyboardStep, ScreenStep

\* While there is a keyboard process, no instruction at an address that a file of
\* complete lines lists runs but on a run or step command read for it.  (Of a last
\* line without a newline that is false, which the run lost_breakpoint shows.)
THEOREM BreakpointsStop == Spec => []StopsAtBreakpoint
<1>1. Init => BreakInv
  BY DEF Init, BreakInv, At, Listed, InBroken
<1>2. BreakInv => StopsAtBreakpoint
  BY DEF BreakInv, StopsAtBreakpoint, EveryLineBreaks, At, Listed
<1> QED BY <1>1, <1>2, BreakStep, TypeCorrect, PTL DEF Spec
=============================================================================
