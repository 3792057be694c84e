------------------------------ MODULE ExecArch ------------------------------
(***************************************************************************)
(* exec_step implements the architecture: the words of the cells are the   *)
(* memory, the low byte of the last OUT is the character printed, and a    *)
(* quit, the log limit, a process that dies and the return to main are     *)
(* stutters.  The README's console commands that write into the machine    *)
(* (_setreg, tele_hack) are outside the architecture, so this holds for    *)
(* the Lines that contain none.                                            *)
(***************************************************************************)
EXTENDS Exec

\* A quit has stepped past its IN, which stays so when the second fclose of the
\* trace, the one fault with the trace closed, then aborts the process.
HasQuit ==
  status = "quit" \/ (status = "fault" /\ Traced /\ ~log_open /\ DOMAIN mem # {})

Arch == INSTANCE ArchSpec WITH
  program   <- image,
  memory    <- [a \in DOMAIN mem |-> mem[a].value],
  registers <- regs,
  stack     <- stk,
  counter   <- IF HasQuit THEN pc - 1 ELSE pc,
  phase     <- IF status = "halt" THEN "halted"
               ELSE IF DOMAIN mem # {} THEN "on" ELSE "off",
  printed   <- IF out = <<>> THEN 0 - 1 ELSE out[1],
  MaxChar   <- ByteMod

\* Every instruction has the effect the architecture promises of it (the cells,
\* the buffer, the two bytes of OUT and the C arithmetic of exec_step included).
ImplementsArch == Arch!ArchSpecification
=============================================================================
