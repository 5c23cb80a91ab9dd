-------------------------------- MODULE Reg16 --------------------------------
(***************************************************************************)
(* utils/reg16/main.c: reads or writes one 16-bit register through         *)
(* /dev/mem.  A step is a system call or the access itself, and any call   *)
(* may fail.                                                               *)
(***************************************************************************)
EXTENDS Integers, Sequences

CONSTANTS MAP_SIZE,        \* bytes mapped, and the first index refused
          DATA_MAX         \* 0xFFFF

ASSUME Reg16Assumption == MAP_SIZE \in Nat /\ DATA_MAX \in Nat

VARIABLE prog              \* the invocation under way

\* An argument strtoul does not take to its end.
NotANumber == -1

\* args are argv[1] and argv[2], as far as they are given.
Called(args) ==
    [pc |-> "args", args |-> args, return_code |-> "0", data |-> 0]

Writes(p) == Len(p.args) = 2
reg_idx(p) == p.args[1]

Exit(code) == [prog EXCEPT !.pc = "exited", !.return_code = code]
Goto(label, code) == [prog EXCEPT !.pc = label, !.return_code = code]

Usage ==
    prog' = IF \/ Len(prog.args) \notin 1 .. 2
               \/ prog.args[1] \notin 0 .. MAP_SIZE - 1
            THEN Exit("EINVAL") ELSE Goto("open", "0")

Open(ok) == prog' = IF ok THEN Goto("mmap", "0") ELSE Exit("EBADF")

Mmap(ok) == prog' = IF ok THEN Goto("access", "0")
                          ELSE Goto("CLOSE_FD", "errno")

\* The page is half as long as the indexes let through: beyond it there is
\* nothing mapped, and the access kills the program.
Access ==
    prog' = IF Writes(prog) /\ prog.args[2] \notin 0 .. DATA_MAX
            THEN Goto("MUNMAP", "EINVAL")
            ELSE IF reg_idx(prog) * 2 >= MAP_SIZE THEN Exit("killed")
            ELSE Goto("bus", "0")

\* The processor has its answer.
Answered(value) == prog' = [prog EXCEPT !.pc = "MUNMAP", !.data = value]

Munmap(ok) == prog' = Goto("CLOSE_FD",
                           IF ok THEN prog.return_code ELSE "errno")

Close(ok) == prog' = Exit(IF ok THEN prog.return_code ELSE "EBADF")

\* One system call; ok says how it ends.
Call(ok) ==
    \/ prog.pc = "args" /\ ok /\ Usage
    \/ prog.pc = "open" /\ Open(ok)
    \/ prog.pc = "mmap" /\ Mmap(ok)
    \/ prog.pc = "access" /\ ok /\ Access
    \/ prog.pc = "MUNMAP" /\ Munmap(ok)
    \/ prog.pc = "CLOSE_FD" /\ Close(ok)
=============================================================================
