------------------------------ MODULE VmDebug -------------------------------
(***************************************************************************)
(* DebugState of the pure-Rust VM (catnip_vm/src/vm/debug.rs) and the      *)
(* dispatch loop's use of it: which instructions pause, and what a command *)
(* changes.  Operators on a state d, so that several machines can use them.*)
(* An instruction is [byte, line, depth, op]: its source byte, the line of *)
(* that byte, the number of frames when it runs, and whether it is the     *)
(* Breakpoint opcode.                                                      *)
(***************************************************************************)
EXTENDS Naturals

Commands == {"continue", "into", "over", "out"}
NoByte   == 0     \* u32::MAX: nothing has paused yet

DebugStates == [stepping : BOOLEAN, mode : Commands, depth : Nat, last : Nat]
NewDebug    == [stepping |-> FALSE, mode |-> "continue", depth |-> 0, last |-> NoByte]

\* check_step.
StepsDeep(d, depth)  == d.mode = "into" \/ d.mode = "over"      \* fault: step over enters calls
StepsAt(d, depth) == \/ d.mode = "into"
                     \/ d.mode = "over" /\ depth <= d.depth
                     \/ d.mode = "out"  /\ depth < d.depth

\* The check before every instruction: a stepping VM does not look at its breakpoints.
PausesBefore(d, instr, lines) ==
    /\ instr.byte # d.last
    /\ IF d.stepping THEN StepsAt(d, instr.depth) ELSE instr.line \in lines

\* pause, after the hook has answered.
Resumed(d, instr, cmd) ==
    IF cmd = "continue" THEN [d EXCEPT !.last = instr.byte, !.stepping = FALSE]
    ELSE [stepping |-> TRUE, mode |-> cmd, depth |-> instr.depth, last |-> instr.byte]
=============================================================================
