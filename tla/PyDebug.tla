------------------------------ MODULE PyDebug -------------------------------
(***************************************************************************)
(* The debugger of the Python VM (catnip_rs/src/debug): the VM thread with *)
(* its callback, and the frontend that drives it, either a DebugSession    *)
(* object in somebody's Python code or the console of run_debugger.  They  *)
(* share two unbounded channels and the interpreter lock, the GIL.  What a *)
(* thread does in one hold of the GIL is one step, which leaves gil as it  *)
(* finds it unless another thread could come to wait for it.               *)
(***************************************************************************)
EXTENDS Naturals, Sequences

CONSTANTS Frontends,   \* a subset of {"session", "console"}
          Programs,    \* what the debugged program executes: sequences of instructions
          Bytes,       \* source bytes a breakpoint may be on
          MaxRetries,  \* DEBUG_COMMAND_MAX_RETRIES
          MaxQueued    \* bound: commands a session has sent ahead

VARIABLES gil,         \* "free", or who holds it: "vm", "front"
          thread,      \* the VM thread
          program,     \* the instructions it executes
          breaks,      \* debug_breakpoints
          events,      \* event channel
          commands,    \* command channel; a command notes the pause it answers
          front,       \* the frontend: its kind, pc, the event got, the unanswered pause shown
          pauses,      \* history: pauses so far
          late,        \* history: the callback went on without its frontend
          ahead        \* history: a session sent a command without a pause to answer

vars == <<gil, thread, program, breaks, events, commands, front, pauses, late, ahead>>

\* Source bytes are numbered from 1: NoByte is the byte of no instruction.
NoByte    == 0
Instrs    == [byte : Nat \ {NoByte}, depth : Nat, op : {"plain", "breakpoint", "leaves"}]
ASSUME ProgramsAssumption == Programs \subseteq Seq(Instrs) \ {<<>>}

Commands  == {"continue", "into", "over", "out"}
None      == [kind |-> "none", no |-> 0]
Paused(n) == [kind |-> "paused", no |-> n]
Final(k)  == [kind |-> k, no |-> 0]

\* pc: "none", "attach" for the GIL, "run" the instruction at pos, "ready" to run it once it
\* has the GIL again, "hook" in the callback's recv, "back" from it, "end" with the result, "gone".
Init == /\ gil = "free" /\ program \in Programs
        /\ thread = [pc |-> "none", pos |-> 1, dbg |-> [mode |-> "off", depth |-> 0, last |-> NoByte],
                     tries |-> 0, answer |-> "continue", result |-> "finished"]
        /\ breaks = {} /\ events = <<>> /\ commands = <<>>
        /\ front \in [kind : Frontends, pc : {"idle"}, got : {None}, shown : {0}]
        /\ pauses = 0 /\ late = FALSE /\ ahead = FALSE

Instr    == program[thread.pos]
Sender   == front.pc \notin {"joining", "dropped", "leaving", "done"}    \* command_tx exists
Receiver == front.pc \notin {"dropped", "leaving", "done"}               \* event_rx exists
Borrowed == thread.pc \in {"run", "ready", "hook", "back"}               \* execute has the VM object
-----------------------------------------------------------------------------
\* The dispatch loop's decisions.  An instruction is [byte, depth, op]: its source byte, the
\* call stack's length, and whether it is a Breakpoint, a plain one, or one whose handler goes
\* to the next instruction itself and so never reaches the pause (calls, returns, name loads).

MovedNever(d, i) == d                                       \* fault: the last pause is not forgotten
Moved(d, i) == IF d.last = i.byte THEN d ELSE [d EXCEPT !.last = NoByte]

Stepping(d)   == d.mode \in {"into", "over", "out"}
StepsAt(d, i) == /\ d.mode = "over" => i.depth <= d.depth
                 /\ d.mode = "out"  => i.depth < d.depth
Stops(d, i)   == IF i.op = "plain" /\ Stepping(d) THEN StepsAt(d, i)
                 ELSE /\ d.last # i.byte
                      /\ i.op = "breakpoint" \/ (i.op = "plain" /\ i.byte \in breaks)

Answered(d, i, cmd) == [mode  |-> cmd, last |-> i.byte,
                        depth |-> IF cmd \in {"over", "out"} THEN i.depth ELSE d.depth]
-----------------------------------------------------------------------------
\* The VM thread.

VmSame == UNCHANGED <<program, breaks, front, ahead>>
Emit(e) == events' = IF Receiver THEN Append(events, e) ELSE events

\* Python::attach, then execute borrows the VM object.
Attach == /\ thread.pc = "attach" /\ gil = "free"
          /\ gil' = "vm" /\ thread' = [thread EXCEPT !.pc = "run"]
          /\ VmSame /\ UNCHANGED <<events, commands, pauses, late>>

\* An instruction that runs Python code lets others have the GIL.
Yields == /\ thread.pc = "run" /\ gil' = "free" /\ thread' = [thread EXCEPT !.pc = "ready"]
          /\ VmSame /\ UNCHANGED <<events, commands, pauses, late>>

Runs    == thread.pc = "run" \/ (thread.pc = "ready" /\ gil = "free")
Next1(t) == IF t.pos < Len(program) THEN [t EXCEPT !.pc = "run", !.pos = @ + 1] ELSE [t EXCEPT !.pc = "end"]

\* One instruction and the pause after it: the callback sends the event and releases the GIL.
Instruction ==
    /\ Runs
    /\ \E d \in {Moved(thread.dbg, Instr)} :
          IF Stops(d, Instr)
          THEN /\ pauses' = pauses + 1 /\ Emit(Paused(pauses + 1)) /\ gil' = "free"
               /\ thread' = [thread EXCEPT !.pc = "hook", !.dbg = d]
          ELSE /\ thread' = Next1([thread EXCEPT !.dbg = d]) /\ gil' = "vm"
               /\ UNCHANGED <<events, pauses>>
    /\ VmSame /\ UNCHANGED <<commands, late>>

Fails == /\ Runs /\ gil' = "vm" /\ thread' = [thread EXCEPT !.pc = "end", !.result = "error"]
         /\ VmSame /\ UNCHANGED <<events, commands, pauses, late>>

Wakes(cmd) == [thread EXCEPT !.pc = "back", !.answer = cmd, !.tries = 0]
HookReceives == /\ thread.pc = "hook" /\ commands # <<>>
                /\ thread' = Wakes(Head(commands).cmd) /\ commands' = Tail(commands)
                /\ VmSame /\ UNCHANGED <<gil, events, pauses, late>>

HookClosed == /\ thread.pc = "hook" /\ commands = <<>> /\ ~Sender
              /\ thread' = Wakes("continue")
              /\ VmSame /\ UNCHANGED <<gil, events, commands, pauses, late>>

\* recv_timeout once more, then the program goes on by itself.
TimesOutAgain == thread                                     \* fault: it waits for ever
TimesOut == IF thread.tries + 1 < MaxRetries THEN [thread EXCEPT !.tries = @ + 1] ELSE Wakes("continue")
HookTimesOut == /\ thread.pc = "hook" /\ commands = <<>> /\ Sender
                /\ thread' = TimesOut /\ late' = (late \/ thread'.pc = "back")
                /\ VmSame /\ UNCHANGED <<gil, events, commands, pauses>>

Back == /\ thread.pc = "back" /\ gil = "free" /\ gil' = "vm"
        /\ thread' = Next1([thread EXCEPT !.dbg = Answered(@, Instr, thread.answer), !.answer = "continue"])
        /\ VmSame /\ UNCHANGED <<events, commands, pauses, late>>

EndsUnheard == UNCHANGED events                           \* fault: nobody hears of the end
EndsWith == Emit(Final(thread.result))
End == /\ thread.pc = "end" /\ EndsWith
       /\ gil' = "free" /\ thread' = [thread EXCEPT !.pc = "gone"]
       /\ VmSame /\ UNCHANGED <<commands, pauses, late>>

VmStep == Attach \/ Yields \/ Instruction \/ Fails \/ HookReceives \/ HookClosed \/ HookTimesOut \/ Back \/ End
-----------------------------------------------------------------------------
\* What both frontends do.

FrontSame == UNCHANGED <<thread, program, pauses, late>>
Goes(pc)  == front' = [front EXCEPT !.pc = pc]

Start(bytes) == /\ front.pc = "idle" /\ breaks' = bytes
                /\ Goes(IF front.kind = "session" THEN "user" ELSE "waiting")
                /\ thread' = [thread EXCEPT !.pc = "attach"]
                /\ UNCHANGED <<gil, program, events, commands, pauses, late, ahead>>

Send(cmd, pc) == /\ commands' = Append(commands, [cmd |-> cmd, seen |-> front.shown])
                 /\ front' = [front EXCEPT !.pc = pc, !.shown = 0]

\* A breakpoint set or removed while the program runs reaches the VM only if nobody has borrowed it.
RuntimeBreak(b) == /\ front.pc \in {"user", "prompt"} /\ gil = "free" /\ ~Borrowed
                   /\ \E set \in {breaks \cup {b}, breaks \ {b}} : breaks' = set
                   /\ FrontSame /\ UNCHANGED <<gil, events, commands, front, ahead>>
-----------------------------------------------------------------------------
\* The session: calls of its methods, in any order.

SessionSend(cmd) == /\ front.kind = "session" /\ front.pc = "user" /\ gil = "free" /\ Len(commands) < MaxQueued
                    /\ Send(cmd, "user") /\ ahead' = (ahead \/ front.shown = 0)
                    /\ FrontSame /\ UNCHANGED <<gil, breaks, events>>

\* wait_for_event: recv_timeout without the GIL, then the result with it.
Wait == /\ front.pc = "user" /\ gil = "free" /\ Goes("waiting")
        /\ FrontSame /\ UNCHANGED <<gil, breaks, events, commands, ahead>>

WaitEnds == /\ front.kind = "session" /\ front.pc = "waiting"
            /\ front' = [front EXCEPT !.pc = "returning", !.got = IF events = <<>> THEN None ELSE Head(events)]
            /\ events' = IF events = <<>> THEN events ELSE Tail(events)
            /\ FrontSame /\ UNCHANGED <<gil, breaks, commands, ahead>>

WaitReturns == /\ front.pc = "returning" /\ gil = "free"
               /\ front' = [front EXCEPT !.pc = "user", !.got = None,
                                         !.shown = IF front.got.kind = "paused" THEN front.got.no ELSE @]
               /\ FrontSame /\ UNCHANGED <<gil, breaks, events, commands, ahead>>

\* Drop: the sender goes first, then the thread is joined without the GIL.
KeepsGil     == "front"                                     \* fault: joined with the GIL held
GilInJoin    == "free"
Drop == /\ front.pc = "user" /\ gil = "free" /\ Goes("joining") /\ gil' = GilInJoin
        /\ FrontSame /\ UNCHANGED <<breaks, events, commands, ahead>>

Joined == /\ front.pc = "joining" /\ thread.pc = "gone" /\ Goes("dropped") /\ gil' = "free"
          /\ FrontSame /\ UNCHANGED <<breaks, events, commands, ahead>>
-----------------------------------------------------------------------------
\* The console: its loop runs without the GIL.

ConsoleReceives ==
    /\ front.kind = "console" /\ front.pc = "waiting" /\ events # <<>>
    /\ events' = Tail(events)
    /\ front' = IF Head(events).kind = "paused" THEN [front EXCEPT !.pc = "prompt", !.shown = Head(events).no]
                ELSE [front EXCEPT !.pc = IF Head(events).kind = "finished" THEN "report" ELSE "leaving"]
    /\ FrontSame /\ UNCHANGED <<gil, breaks, commands, ahead>>

Prompt(cmd) == /\ front.pc = "prompt" /\ Send(cmd, "waiting")
               /\ FrontSame /\ UNCHANGED <<gil, breaks, events, ahead>>

\* The REPL reads its input with the GIL held.
EnterRepl == /\ front.pc = "prompt" /\ gil = "free" /\ gil' = "front" /\ Goes("repl")
             /\ FrontSame /\ UNCHANGED <<breaks, events, commands, ahead>>

BackToPrompt == "prompt"                                    \* fault: the prompt asks again
AfterRepl    == "waiting"
ReplResume(cmd) == /\ front.pc = "repl" /\ Send(cmd, AfterRepl) /\ gil' = "free"
                   /\ FrontSame /\ UNCHANGED <<breaks, events, ahead>>

ReplExit == /\ front.pc = "repl" /\ gil' = "free" /\ Goes("prompt")
            /\ FrontSame /\ UNCHANGED <<breaks, events, commands, ahead>>

\* The loop ends, and with it the console's ends of the channels; the thread is not joined.
Quit == /\ front.pc \in {"prompt", "repl"} /\ Goes("leaving") /\ gil' = IF front.pc = "repl" THEN "free" ELSE gil
        /\ FrontSame /\ UNCHANGED <<breaks, events, commands, ahead>>

\* The result is shown, or vm_mode restored: both need the GIL.
Report == /\ front.pc = "report" /\ gil = "free" /\ Goes("leaving")
          /\ FrontSame /\ UNCHANGED <<gil, breaks, events, commands, ahead>>
Leave  == /\ front.pc = "leaving" /\ gil = "free" /\ Goes("done")
          /\ FrontSame /\ UNCHANGED <<gil, breaks, events, commands, ahead>>

User == \/ Wait \/ Drop \/ EnterRepl \/ ReplExit \/ Quit
        \/ \E bytes \in SUBSET Bytes : Start(bytes)
        \/ \E b \in Bytes : RuntimeBreak(b)
        \/ \E cmd \in Commands : SessionSend(cmd) \/ Prompt(cmd) \/ ReplResume(cmd)
FrontStep == WaitEnds \/ WaitReturns \/ Joined \/ ConsoleReceives \/ Report \/ Leave

Next == VmStep \/ FrontStep \/ User
Spec == Init /\ [][Next]_vars

\* Threads that can run do, the GIL reaches who waits for it, deadlines pass; no user need act.
FairSpec == Spec /\ WF_vars(VmStep) /\ WF_vars(FrontStep)
-----------------------------------------------------------------------------
Threads == [pc : {"none", "attach", "run", "ready", "hook", "back", "end", "gone"},
            pos : 1 .. Len(program),
            dbg : [mode : Commands \cup {"off"}, depth : Nat, last : Nat],
            tries : Nat, answer : Commands, result : {"finished", "error"}]
Events  == [kind : {"paused"}, no : Nat \ {0}] \cup {Final("finished"), Final("error")}

TypeOK == /\ gil \in {"free", "vm", "front"} /\ program \in Programs /\ thread \in Threads
          /\ breaks \subseteq Bytes /\ events \in Seq(Events)
          /\ commands \in Seq([cmd : Commands, seen : Nat])
          /\ front \in [kind : Frontends, got : Events \cup {None}, shown : Nat,
                        pc : {"idle", "user", "waiting", "returning", "joining", "dropped",
                              "prompt", "repl", "report", "leaving", "done"}]
          /\ pauses \in Nat /\ late \in BOOLEAN /\ ahead \in BOOLEAN

\* Dropping a session ends, wherever the program is: the destructor and the thread do not wait
\* for each other.
SessionGoesAway == front.pc = "joining" ~> front.pc = "dropped"

\* A debugged program comes to its end, whatever its debugger does or fails to do, unless
\* somebody stays in the REPL, which keeps the GIL from the thread.
ProgramEnds == <>[](front.pc # "repl") => (thread.pc # "none" ~> thread.pc = "gone")

\* "Le debugger attend 300 secondes. Passé ce délai, il reprend l'exécution" (docs/tools/debug.md):
\* so it comes to its end when somebody stays in the REPL, too.
ProgramEndsInRepl == <>[](front.pc = "repl") => (thread.pc # "none" ~> thread.pc = "gone")

\* Once the program is over the console ends, or waits for an answer to a pause it still shows.
ConsoleSeesEnd == thread.pc = "gone" /\ front.kind = "console" ~> front.pc \in {"prompt", "repl", "done"}

\* As long as the callback has not gone on by itself, and nothing was sent without a pause to
\* answer, there is at most one command, and it is for the pause its sender was shown.
CommandIsForThisPause == ~late /\ ~ahead => \A i \in DOMAIN commands : i = 1 /\ commands[i].seen = pauses

\* Outside of stepping, a breakpoint pauses whenever the program comes to its source byte, by
\* the first instruction there that can pause, and once.
Fresh == \A p \in 1..(thread.pos - 1) :
            (\A q \in p..(thread.pos - 1) : program[q].byte = Instr.byte) => program[p].op = "leaves"
EveryVisitPauses == [][Instruction /\ Instr.op = "plain" /\ ~Stepping(thread.dbg) =>
    (pauses' # pauses <=> Instr.byte \in breaks /\ Fresh)]_vars
=============================================================================
