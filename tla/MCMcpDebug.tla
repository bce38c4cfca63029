----------------------------- MODULE MCMcpDebug -----------------------------
\* Two programs: a call from line 2 of a function on line 5, whose call site is run again
\* on the way back; and a loop through a Breakpoint opcode.
EXTENDS McpDebug

I(b, l, d, o) == [byte |-> b, line |-> l, depth |-> d, op |-> o]
CallProgram == <<I(1, 1, 1, "plain"), I(2, 2, 1, "plain"), I(5, 5, 2, "plain"), I(6, 5, 2, "plain"),
                 I(2, 2, 1, "plain"), I(3, 3, 1, "plain")>>
LoopProgram == <<I(1, 1, 1, "plain"), I(2, 2, 1, "breakpoint"), I(1, 1, 1, "plain"), I(2, 2, 1, "breakpoint")>>
TwoPrograms == {CallProgram, LoopProgram}
=============================================================================
