------------------------------ MODULE McpDebug ------------------------------
(***************************************************************************)
(* One debug session of the MCP server (catnip_mcp/src/debug_session.rs,   *)
(* tools/debug.rs): a thread that runs the program in a pure VM, the map   *)
(* entry that holds the session between two requests, and the requests of  *)
(* any number of callers.  Thread and session talk over two unbounded      *)
(* channels; every wait has a deadline.  Requests that only read the last  *)
(* pause (inspect, eval) change nothing and are no steps.                  *)
(***************************************************************************)
EXTENDS VmDebug, Sequences, FiniteSets

CONSTANTS Callers,    \* requests that may be under way at once
          Programs,   \* what the debugged program executes: sequences of instructions
          Lines       \* lines a caller may put a breakpoint on

\* Code that compiles has at least one instruction.
Instrs == [byte : Nat, line : Nat, depth : Nat, op : {"plain", "breakpoint"}]
ASSUME ProgramsAssumption == Programs \subseteq Seq(Instrs) \ {<<>>}

VARIABLES thread,     \* the VM thread: see Threads
          program,    \* the instructions it executes
          breaks,     \* breakpoint_lines, shared under a mutex
          events,     \* event channel
          commands,   \* command channel; a command notes the pause its caller had seen
          session,    \* "none", "starting", "stored" in the map, "held" by a request, "dropped"
          seen,       \* the number of the pause in last_paused, 0 if none
          request,    \* what each caller waits for
          pauses,     \* history: pauses so far
          resumed,    \* history: the last command, and the depth it was given at
          late,       \* history: a command came after the hook's deadline
          slow,       \* history: a request ended by its deadline
          delivered   \* history: a caller got the program's result

client == <<session, seen, request, slow, delivered>>
vars   == <<thread, program, breaks, events, commands, session, seen, request, pauses, resumed, late, slow, delivered>>

Paused(n) == [kind |-> "paused", no |-> n]
Final(k)  == [kind |-> k, no |-> 0]
Results   == {"finished", "error"}

\* pc: "none", "new", then "check", "op" for the instruction at pos, "hook" while on_pause
\* waits for a command, "end" with the result, "drop" before the channels close, "gone";
\* "failed" if there is no pipeline.
Thread(pc) == [pc |-> pc, pos |-> 1, dbg |-> NewDebug, then |-> "op", result |-> "finished"]

Init == /\ thread = Thread("none") /\ program \in Programs
        /\ breaks = {} /\ events = <<>> /\ commands = <<>>
        /\ session = "none" /\ seen = 0
        /\ request = [c \in Callers |-> "idle"]
        /\ pauses = 0 /\ resumed = [cmd |-> "continue", depth |-> 0] /\ late = FALSE /\ slow = FALSE /\ delivered = FALSE

Instr    == program[thread.pos]
Attached == session \notin {"none", "dropped"}      \* the session's ends of the channels exist
ThreadSame == UNCHANGED <<thread, program, pauses, resumed, late>>
-----------------------------------------------------------------------------
\* The VM thread.

\* event_tx.send: lost when the receiver is gone.
Emit(e) == events' = IF Attached THEN Append(events, e) ELSE events
Goes(pc) == thread' = [thread EXCEPT !.pc = pc]

\* PurePipeline::new, the breakpoints, the handle and the hook.
Begin == /\ thread.pc = "new" /\ Goes("check")
         /\ UNCHANGED <<program, breaks, events, commands, pauses, resumed, late, client>>

BeginFails == /\ thread.pc = "new" /\ Goes("failed") /\ Emit(Final("error"))
              /\ UNCHANGED <<program, breaks, commands, pauses, resumed, late, client>>

Advanced(t) == IF t.pos < Len(program) THEN [t EXCEPT !.pc = "check", !.pos = @ + 1]
               ELSE [t EXCEPT !.pc = "end"]
After(t, then) == IF then = "op" THEN [t EXCEPT !.pc = "op"] ELSE Advanced(t)

\* on_pause: without a listener the program just continues.
Pause(then) ==
    /\ pauses' = pauses + 1 /\ Emit(Paused(pauses + 1))
    /\ thread' = IF Attached THEN [thread EXCEPT !.pc = "hook", !.then = then]
                 ELSE After([thread EXCEPT !.dbg = Resumed(@, Instr, "continue")], then)
    /\ resumed' = IF Attached THEN resumed ELSE [cmd |-> "continue", depth |-> Instr.depth]

Check == /\ thread.pc = "check"
         /\ IF PausesBefore(thread.dbg, Instr, breaks) THEN Pause("op")
            ELSE Goes("op") /\ UNCHANGED <<events, pauses, resumed>>
         /\ UNCHANGED <<program, breaks, commands, late, client>>

\* The instruction itself; the Breakpoint opcode pauses whatever the mode.
Op == /\ thread.pc = "op"
      /\ IF Instr.op = "breakpoint" THEN Pause("next")
         ELSE thread' = Advanced(thread) /\ UNCHANGED <<events, pauses, resumed>>
      /\ UNCHANGED <<program, breaks, commands, late, client>>

OpFails == /\ thread.pc = "op" /\ thread' = [thread EXCEPT !.pc = "end", !.result = "error"]
           /\ UNCHANGED <<program, breaks, events, commands, pauses, resumed, late, client>>

Resume(cmd) == /\ thread' = After([thread EXCEPT !.dbg = Resumed(@, Instr, cmd)], thread.then)
               /\ resumed' = [cmd |-> cmd, depth |-> Instr.depth]

HookReceives == /\ thread.pc = "hook" /\ commands # <<>>
                /\ Resume(Head(commands).cmd) /\ commands' = Tail(commands)
                /\ UNCHANGED <<program, breaks, events, pauses, late, client>>

\* recv_timeout fails: 60 s without a command, or no sender any more.
GivesUpNever == FALSE                                       \* fault: the hook waits for ever
GivesUp == thread.pc = "hook" /\ commands = <<>>
HookGivesUp == /\ GivesUp /\ Resume("continue")
               /\ late' = (late \/ Attached)
               /\ UNCHANGED <<program, breaks, events, commands, pauses, client>>

\* The result is sent, then the pipeline with its hook is dropped.
EndErrorLost == Goes("drop") /\ IF thread.result = "error" THEN UNCHANGED events ELSE Emit(Final(thread.result))  \* fault
EndResult == Goes("drop") /\ Emit(Final(thread.result))
End == /\ thread.pc = "end" /\ EndResult
       /\ UNCHANGED <<program, breaks, commands, pauses, resumed, late, client>>

Exit == /\ thread.pc = "drop" /\ Goes("gone") /\ commands' = <<>>
        /\ UNCHANGED <<program, breaks, events, pauses, resumed, late, client>>

VmStep == Begin \/ BeginFails \/ Check \/ Op \/ OpFails \/ HookReceives \/ HookGivesUp \/ End \/ Exit
-----------------------------------------------------------------------------
\* Requests.

\* handle_start, up to the wait for the breakpoint handle.
Start(c, lines) ==
    /\ session = "none" /\ request[c] = "idle"
    /\ thread' = Thread("new") /\ breaks' = lines
    /\ session' = "starting" /\ request' = [request EXCEPT ![c] = "handle"]
    /\ UNCHANGED <<program, events, commands, seen, pauses, resumed, late, slow, delivered>>

\* The session goes, with its ends of the channels.
Loses(c) == session' = "dropped" /\ events' = <<>> /\ request' = [request EXCEPT ![c] = "idle"]

Handle(c) == /\ request[c] = "handle" /\ thread.pc \notin {"new", "failed"}
             /\ request' = [request EXCEPT ![c] = "first"]
             /\ UNCHANGED <<events, commands, breaks, session, seen, slow, delivered>> /\ ThreadSame

\* recv_timeout(5 s): no handle in time, or the thread has failed (whose error is not read).
NoHandle(c) == /\ request[c] = "handle" /\ thread.pc \in {"new", "failed"}
               /\ Loses(c) /\ slow' = TRUE
               /\ UNCHANGED <<commands, breaks, seen, delivered>> /\ ThreadSame

\* handle_continue and handle_step: the session leaves the map while a request has it.
TakenShared == "stored"     \* fault: the session stays in the map
Taken == "held"
Send(c, cmd) ==
    /\ session = "stored" /\ request[c] = "idle" /\ thread.pc # "gone"
    /\ commands' = Append(commands, [cmd |-> cmd, seen |-> seen])
    /\ session' = Taken /\ request' = [request EXCEPT ![c] = "reply"]
    /\ UNCHANGED <<events, breaks, seen, slow, delivered>> /\ ThreadSame

\* The thread has gone: "Debug session channel closed", and with it the session.
SendFails(c) ==
    /\ session = "stored" /\ request[c] = "idle" /\ thread.pc = "gone"
    /\ Loses(c)
    /\ UNCHANGED <<commands, breaks, seen, slow, delivered>> /\ ThreadSame

\* The next event: a pause puts the session (back) into the map, a result ends it.
NewestEvent == events[Len(events)]      \* fault: what happened before is skipped
NextEvent == Head(events)
Reply(c) ==
    /\ request[c] \in {"first", "reply"} /\ events # <<>>
    /\ IF NextEvent.kind = "paused"
       THEN /\ session' = "stored" /\ seen' = NextEvent.no /\ events' = Tail(events)
            /\ request' = [request EXCEPT ![c] = "idle"] /\ UNCHANGED delivered
       ELSE /\ Loses(c) /\ delivered' = TRUE /\ UNCHANGED seen
    /\ UNCHANGED <<commands, breaks, slow>> /\ ThreadSame

\* recv_timeout(10 s): no event, or the thread has gone without one.
NoReply(c) == /\ request[c] \in {"first", "reply"} /\ events = <<>>
              /\ Loses(c) /\ slow' = (slow \/ thread.pc # "gone")
              /\ UNCHANGED <<commands, breaks, seen, delivered>> /\ ThreadSame

\* handle_breakpoint, for a session in the map.
Breakpoint(l) ==
    /\ session = "stored"
    /\ \E set \in {breaks \cup {l}, breaks \ {l}} : breaks' = set
    /\ UNCHANGED <<events, commands, session, seen, request, slow, delivered>> /\ ThreadSame

Next == \/ VmStep
        \/ \E c \in Callers : \/ \E lines \in SUBSET Lines : Start(c, lines)
                              \/ Handle(c) \/ NoHandle(c) \/ SendFails(c) \/ Reply(c) \/ NoReply(c)
                              \/ \E cmd \in Commands : Send(c, cmd)
        \/ \E l \in Lines : Breakpoint(l)

Spec == Init /\ [][Next]_vars

\* A thread that can run does; a deadline passes.  Nobody need send anything.
FairSpec == Spec /\ WF_vars(VmStep)
                 /\ \A c \in Callers : WF_vars(Handle(c) \/ NoHandle(c) \/ Reply(c) \/ NoReply(c))
-----------------------------------------------------------------------------
Events == [kind : {"paused"} \cup Results, no : Nat]
TypeOK == /\ thread \in [pc : {"none", "new", "check", "op", "hook", "end", "drop", "gone", "failed"},
                         pos : 1..Len(program),
                         dbg : DebugStates, then : {"op", "next"}, result : Results]
          /\ program \in Programs /\ breaks \subseteq Lines /\ events \in Seq(Events)
          /\ commands \in Seq([cmd : Commands, seen : Nat])
          /\ session \in {"none", "starting", "stored", "held", "dropped"}
          /\ seen \in Nat /\ pauses \in Nat /\ resumed \in [cmd : Commands, depth : Nat]
          /\ request \in [Callers -> {"idle", "handle", "first", "reply"}]
          /\ late \in BOOLEAN /\ slow \in BOOLEAN /\ delivered \in BOOLEAN

\* One request at a time has the session, and it is in the map exactly when none has it.
OneOwner == LET busy == {c \in Callers : request[c] # "idle"}
            IN  Cardinality(busy) = IF session \in {"starting", "held"} THEN 1 ELSE 0

\* Callers are shown the pauses in order, each once, none left out: even those the hook
\* gave up on, and whoever asks.
NoPauseSkipped == [][seen' # seen => seen' = seen + 1]_vars

\* As long as no command came too late for the hook, a command is for the pause its caller
\* has seen, and there is at most one.
CommandIsForThisPause == ~late => \A i \in DOMAIN commands : i = 1 /\ commands[i].seen = pauses

\* A caller that answers every pause in time is given the program's result: the session does
\* not end without it.
ResultDelivered == session = "dropped" /\ ~late /\ ~slow => delivered

\* "Un timeout ne détruit pas la session : l'agent peut réessayer" (docs/tools/mcp.md): a request
\* that comes back without the result leaves the session to the next, while the program runs.
TimeoutKeepsSession == [][\A c \in Callers :
    request[c] \in {"first", "reply"} /\ request'[c] = "idle" /\ ~delivered' /\ thread.pc # "gone"
      => session' = "stored"]_vars

\* After "step over" the program does not stop in a call made meanwhile, after "step out"
\* only once the frame has been left.
StepStaysShallow == [][thread.pc = "check" /\ pauses' # pauses =>
    /\ resumed.cmd = "over" => Instr.depth <= resumed.depth
    /\ resumed.cmd = "out" => Instr.depth < resumed.depth]_vars

\* A program under debug comes to its end, whatever its callers do or fail to do.
ProgramEnds == thread.pc = "new" ~> thread.pc \in {"gone", "failed"}
=============================================================================
