--------------------------- MODULE McpDebugProofs ---------------------------
(***************************************************************************)
(* Theorems about McpDebug, for any number of callers and any programs.    *)
(***************************************************************************)
EXTENDS McpDebug, Facts, FiniteSetTheorems, TLAPS

Threads == [pc : {"none", "new", "check", "op", "hook", "end", "drop", "gone", "failed"},
            pos : 1 .. Len(program),
            dbg : DebugStates, then : {"op", "next"}, result : Results]

-----------------------------------------------------------------------------
(* What the model's operators return.                                      *)

\* The program has instructions, and the thread is at one of them.
LEMMA InstrTyped ==
    ASSUME TypeOK
    PROVE  /\ program \in Seq(Instrs) /\ Len(program) \in Nat \ {0}
           /\ Instr \in Instrs /\ thread \in Threads
<1>1. program \in Seq(Instrs) /\ program # <<>>
  BY ProgramsAssumption DEF TypeOK
<1>2. thread \in Threads
  BY DEF TypeOK, Threads
<1>3. thread.pos \in 1 .. Len(program)
  BY <1>2 DEF Threads
<1> QED BY <1>1, <1>2, <1>3 DEF Instr

\* What the thread goes on with after an instruction, or after a pause.
LEMMA AfterTyped ==
    ASSUME NEW t \in Threads, NEW then, Len(program) \in Nat \ {0}
    PROVE  /\ Advanced(t) \in Threads /\ Advanced(t).pc \in {"check", "end"}
           /\ Advanced(t).dbg = t.dbg
           /\ After(t, then) \in Threads /\ After(t, then).pc \in {"op", "check", "end"}
           /\ After(t, then).dbg = t.dbg
<1>1. t.pos \in 1 .. Len(program) /\ t.pos \in Nat
  BY DEF Threads
<1>2. /\ [t EXCEPT !.pc = "end"] \in Threads
      /\ [t EXCEPT !.pc = "end"].pc = "end" /\ [t EXCEPT !.pc = "end"].dbg = t.dbg
  BY DEF Threads
<1>3. /\ [t EXCEPT !.pc = "op"] \in Threads
      /\ [t EXCEPT !.pc = "op"].pc = "op" /\ [t EXCEPT !.pc = "op"].dbg = t.dbg
  BY DEF Threads
<1>4. ASSUME t.pos < Len(program)
      PROVE  /\ [t EXCEPT !.pc = "check", !.pos = @ + 1] \in Threads
             /\ [t EXCEPT !.pc = "check", !.pos = @ + 1].pc = "check"
             /\ [t EXCEPT !.pc = "check", !.pos = @ + 1].dbg = t.dbg
  <2>1. t.pos + 1 \in 1 .. Len(program)
    BY <1>1, <1>4
  <2> QED BY <2>1 DEF Threads
<1>5. Advanced(t) \in Threads /\ Advanced(t).pc \in {"check", "end"} /\ Advanced(t).dbg = t.dbg
  BY <1>2, <1>4 DEF Advanced
<1> QED BY <1>3, <1>5 DEF After

LEMMA ResumedTyped ==
    ASSUME NEW d \in DebugStates, NEW i \in Instrs, NEW cmd \in Commands
    PROVE  Resumed(d, i, cmd) \in DebugStates
  BY DEF Resumed, DebugStates, Instrs, Commands

LEMMA EventTypes ==
    /\ \A n \in Nat : Paused(n) \in Events
    /\ \A k \in Results : Final(k) \in Events
  BY DEF Paused, Final, Events, Results

LEMMA EmitTyped ==
    ASSUME TypeOK, NEW e \in Events, Emit(e)
    PROVE  events' \in Seq(Events)
  BY AppendFacts DEF Emit, TypeOK

\* A pause: either the hook waits, or the program goes on at once.
LEMMA PauseTyped ==
    ASSUME TypeOK, NEW then \in {"op", "next"}, Pause(then)
    PROVE  /\ thread' \in Threads /\ events' \in Seq(Events)
           /\ pauses' \in Nat /\ resumed' \in [cmd : Commands, depth : Nat]
<1>1. thread \in Threads /\ Instr \in Instrs /\ Len(program) \in Nat \ {0} /\ pauses \in Nat
  BY InstrTyped DEF TypeOK
<1>2. pauses' = pauses + 1 /\ events' \in Seq(Events)
  BY <1>1, EmitTyped, EventTypes DEF Pause
<1>3. thread' \in Threads
  <2>1. CASE Attached
    BY <1>1, <2>1 DEF Pause, Threads
  <2>2. CASE ~Attached
    <3>1. Resumed(thread.dbg, Instr, "continue") \in DebugStates
      BY <1>1, ResumedTyped DEF Threads, Commands
    <3>2. [thread EXCEPT !.dbg = Resumed(@, Instr, "continue")] \in Threads
      BY <1>1, <3>1 DEF Threads
    <3> QED BY <1>1, <2>2, <3>2, AfterTyped DEF Pause
  <2> QED BY <2>1, <2>2
<1>4. resumed' \in [cmd : Commands, depth : Nat]
  BY <1>1 DEF Pause, TypeOK, Instrs, Commands
<1> QED BY <1>1, <1>2, <1>3, <1>4

\* An answered pause: the thread goes on with the debug state the command made.
LEMMA ResumeTyped ==
    ASSUME TypeOK, NEW cmd \in Commands, Resume(cmd)
    PROVE  /\ thread' \in Threads /\ resumed' \in [cmd : Commands, depth : Nat]
           /\ thread'.pc \in {"op", "check", "end"}
           /\ thread'.dbg = Resumed(thread.dbg, Instr, cmd)
<1>1. thread \in Threads /\ Instr \in Instrs /\ Len(program) \in Nat \ {0}
  BY InstrTyped
<1>2. Resumed(thread.dbg, Instr, cmd) \in DebugStates
  BY <1>1, ResumedTyped DEF Threads
<1> DEFINE t == [thread EXCEPT !.dbg = Resumed(@, Instr, cmd)]
<1>3. t \in Threads /\ t.dbg = Resumed(thread.dbg, Instr, cmd)
  BY <1>1, <1>2 DEF Threads
<1>4. thread' = After(t, thread.then)
  BY DEF Resume
<1> HIDE DEF t
<1>5. resumed' \in [cmd : Commands, depth : Nat]
  BY <1>1 DEF Resume, Instrs
<1> QED BY <1>1, <1>3, <1>4, <1>5, AfterTyped

-----------------------------------------------------------------------------
\* Every variable keeps its type.
THEOREM TypeCorrect == Spec => []TypeOK
<1>1. Init => TypeOK
  <2> SUFFICES ASSUME Init PROVE TypeOK
    OBVIOUS
  <2>1. program \in Seq(Instrs) /\ program # <<>>
    BY ProgramsAssumption DEF Init
  <2>2. 1 \in 1 .. Len(program)
    BY <2>1
  <2>3. NewDebug \in DebugStates
    BY DEF NewDebug, DebugStates, Commands, NoByte
  <2>4. Thread("none") \in Threads
    BY <2>2, <2>3 DEF Thread, Threads, Results
  <2>5. thread \in Threads /\ resumed \in [cmd : Commands, depth : Nat]
    BY <2>4 DEF Init, Commands
  <2>6. events \in Seq(Events) /\ commands \in Seq([cmd : Commands, seen : Nat])
    BY DEF Init
  <2>7. /\ breaks \subseteq Lines /\ seen \in Nat /\ pauses \in Nat /\ program \in Programs
        /\ request \in [Callers -> {"idle", "handle", "first", "reply"}]
        /\ session \in {"none", "starting", "stored", "held", "dropped"}
        /\ late \in BOOLEAN /\ slow \in BOOLEAN /\ delivered \in BOOLEAN
    BY DEF Init
  <2> QED BY <2>5, <2>6, <2>7 DEF TypeOK, Threads
<1>2. TypeOK /\ [Next]_vars => TypeOK'
  <2> SUFFICES ASSUME TypeOK, [Next]_vars
               PROVE  TypeOK'
    OBVIOUS
  <2>a. /\ thread \in Threads /\ Instr \in Instrs /\ Len(program) \in Nat \ {0}
        /\ breaks \subseteq Lines
    BY InstrTyped DEF TypeOK
  <2>b. ASSUME UNCHANGED program, thread' \in Threads
        PROVE  thread' \in [pc : {"none", "new", "check", "op", "hook", "end", "drop", "gone", "failed"},
                            pos : 1..Len(program'),
                            dbg : DebugStates, then : {"op", "next"}, result : Results]
    BY <2>b DEF Threads
  <2>1. CASE Begin
    <3>1. thread' \in Threads
      BY <2>a, <2>1 DEF Begin, Goes, Threads
    <3> QED BY <2>1, <2>b, <3>1 DEF Begin, client, TypeOK
  <2>2. CASE BeginFails
    <3>1. thread' \in Threads
      BY <2>a, <2>2 DEF BeginFails, Goes, Threads
    <3>2. events' \in Seq(Events)
      BY <2>2, EmitTyped, EventTypes DEF BeginFails, Results
    <3> QED BY <2>2, <2>b, <3>1, <3>2 DEF BeginFails, client, TypeOK
  <2>3. CASE Check
    <3>1. CASE Pause("op")
      BY <2>3, <2>b, <3>1, PauseTyped DEF Check, client, TypeOK
    <3>2. CASE ~Pause("op")
      <4>1. thread' \in Threads
        BY <2>a, <2>3, <3>2 DEF Check, Goes, Threads
      <4> QED BY <2>3, <2>b, <3>2, <4>1 DEF Check, client, TypeOK
    <3> QED BY <3>1, <3>2
  <2>4. CASE Op
    <3>1. CASE Pause("next")
      BY <2>4, <2>b, <3>1, PauseTyped DEF Op, client, TypeOK
    <3>2. CASE ~Pause("next")
      <4>1. thread' \in Threads
        BY <2>a, <2>4, <3>2, AfterTyped DEF Op
      <4> QED BY <2>4, <2>b, <3>2, <4>1 DEF Op, client, TypeOK
    <3> QED BY <3>1, <3>2
  <2>5. CASE OpFails
    <3>1. thread' \in Threads
      BY <2>a, <2>5 DEF OpFails, Threads, Results
    <3> QED BY <2>5, <2>b, <3>1 DEF OpFails, client, TypeOK
  <2>6. CASE HookReceives
    <3>1. /\ Head(commands) \in [cmd : Commands, seen : Nat]
          /\ Tail(commands) \in Seq([cmd : Commands, seen : Nat])
      BY <2>6, TailFacts DEF HookReceives, TypeOK
    <3>2. thread' \in Threads /\ resumed' \in [cmd : Commands, depth : Nat]
      BY <2>6, <3>1, ResumeTyped DEF HookReceives
    <3> QED BY <2>6, <2>b, <3>1, <3>2 DEF HookReceives, client, TypeOK
  <2>7. CASE HookGivesUp
    <3>1. thread' \in Threads /\ resumed' \in [cmd : Commands, depth : Nat]
      BY <2>7, ResumeTyped DEF HookGivesUp, Commands
    <3>2. late' \in BOOLEAN
      BY <2>7 DEF HookGivesUp, Attached, TypeOK
    <3> QED BY <2>7, <2>b, <3>1, <3>2 DEF HookGivesUp, client, TypeOK
  <2>8. CASE End
    <3>1. thread' \in Threads /\ thread.result \in Results
      BY <2>a, <2>8 DEF End, EndResult, Goes, Threads
    <3>2. events' \in Seq(Events)
      BY <2>8, <3>1, EmitTyped, EventTypes DEF End, EndResult
    <3> QED BY <2>8, <2>b, <3>1, <3>2 DEF End, client, TypeOK
  <2>9. CASE Exit
    <3>1. thread' \in Threads
      BY <2>a, <2>9 DEF Exit, Goes, Threads
    <3> QED BY <2>9, <2>b, <3>1 DEF Exit, client, TypeOK
  <2>10. ASSUME NEW c \in Callers, NEW lines \in SUBSET Lines, Start(c, lines)
         PROVE  TypeOK'
    <3>1. Thread("new") \in Threads
      BY <2>a DEF Thread, Threads, NewDebug, DebugStates, Commands, NoByte, Results
    <3> QED BY <2>10, <2>b, <3>1 DEF Start, TypeOK
  <2>c. ASSUME NEW c \in Callers, Loses(c)
        PROVE  /\ session' \in {"none", "starting", "stored", "held", "dropped"}
               /\ events' \in Seq(Events)
               /\ request' \in [Callers -> {"idle", "handle", "first", "reply"}]
    BY <2>c DEF Loses, TypeOK
  <2>11. ASSUME NEW c \in Callers, Handle(c) \/ NoHandle(c) \/ SendFails(c)
         PROVE  TypeOK'
    <3>1. CASE Handle(c)
      BY <3>1 DEF Handle, ThreadSame, TypeOK
    <3>2. CASE NoHandle(c)
      BY <2>c, <3>2 DEF NoHandle, ThreadSame, TypeOK
    <3>3. CASE SendFails(c)
      BY <2>c, <3>3 DEF SendFails, ThreadSame, TypeOK
    <3> QED BY <2>11, <3>1, <3>2, <3>3
  <2>12. ASSUME NEW c \in Callers, NEW cmd \in Commands, Send(c, cmd)
         PROVE  TypeOK'
    <3>1. [cmd |-> cmd, seen |-> seen] \in [cmd : Commands, seen : Nat]
      BY DEF TypeOK
    <3>2. commands' \in Seq([cmd : Commands, seen : Nat])
      BY <2>12, <3>1, AppendFacts DEF Send, TypeOK
    <3>3. session' \in {"none", "starting", "stored", "held", "dropped"}
          /\ request' \in [Callers -> {"idle", "handle", "first", "reply"}]
      BY <2>12 DEF Send, Taken, TypeOK
    <3> QED BY <2>12, <3>2, <3>3 DEF Send, ThreadSame, TypeOK
  <2>13. ASSUME NEW c \in Callers, Reply(c) \/ NoReply(c)
         PROVE  TypeOK'
    <3>1. events # <<>> => Head(events) \in Events /\ Tail(events) \in Seq(Events)
      BY TailFacts DEF TypeOK
    <3>2. CASE Reply(c) /\ NextEvent.kind = "paused"
      BY <3>1, <3>2 DEF Reply, NextEvent, ThreadSame, Events, TypeOK
    <3>3. CASE Reply(c) /\ NextEvent.kind # "paused"
      BY <2>c, <3>3 DEF Reply, ThreadSame, TypeOK
    <3>4. CASE NoReply(c)
      <4>1. slow' \in BOOLEAN
        BY <3>4 DEF NoReply, TypeOK
      <4> QED BY <2>c, <3>4, <4>1 DEF NoReply, ThreadSame, TypeOK
    <3> QED BY <2>13, <3>2, <3>3, <3>4
  <2>14. ASSUME NEW l \in Lines, Breakpoint(l)
         PROVE  TypeOK'
    BY <2>14 DEF Breakpoint, ThreadSame, TypeOK
  <2>15. CASE UNCHANGED vars
    BY <2>15 DEF vars, client, TypeOK
  <2> QED
    BY <2>1, <2>2, <2>3, <2>4, <2>5, <2>6, <2>7, <2>8, <2>9, <2>10, <2>11, <2>12, <2>13, <2>14, <2>15
    DEF Next, VmStep
<1> QED BY <1>1, <1>2, PTL DEF Spec

-----------------------------------------------------------------------------
(* The invariant of a session.                                             *)

\* The thread has sent its result, or the error of a pipeline that could not be made.
Over == thread.pc \in {"drop", "gone", "failed"}

\* One request has the session while it is out of the map, and it waits for what the
\* session is out for.
Waits(c) == IF session = "starting" THEN request[c] \in {"handle", "first"} ELSE request[c] = "reply"
Ownership ==
    IF session \in {"starting", "held"}
    THEN \E c \in Callers : Waits(c) /\ \A b \in Callers \ {c} : request[b] = "idle"
    ELSE \A c \in Callers : request[c] = "idle"

\* The thread's part before there is a session.
Beginning == session = "none" => /\ thread = Thread("none") /\ seen = 0 /\ pauses = 0
                                 /\ events = <<>> /\ commands = <<>>

\* The events are the pauses after the last one shown, in order, and then the result.
EventsInOrder ==
    Attached =>
        /\ \A i \in 1 .. Len(events) :
              IF events[i].kind = "paused" THEN events[i].no = seen + i
              ELSE i = Len(events) /\ Over
        /\ Over => events # <<>> /\ events[Len(events)].kind # "paused"
        /\ seen + Len(events) = IF Over THEN pauses + 1 ELSE pauses

\* Until a command is late, thread and caller take turns: a stored session is one whose
\* thread is in the hook with nothing under way; the hook, when nobody has its session in the
\* map, waits for its event to be shown or has the one command; and a thread that
\* runs has had its last pause shown and answered.
TakeTurns ==
    ~late =>
        /\ commands # <<>> => /\ thread.pc = "hook" /\ Len(commands) = 1
                              /\ commands[1].seen = pauses
                              /\ Attached => session = "held" /\ events = <<>>
        /\ session = "stored" => thread.pc = "hook" /\ commands = <<>> /\ events = <<>>
        /\ Attached /\ thread.pc = "hook" /\ commands = <<>> /\ session # "stored" => Len(events) = 1
        /\ Attached /\ thread.pc # "hook" => seen = pauses

\* The debug state is what the last command made of it.
StepsAsTold == /\ thread.dbg.stepping = (resumed.cmd # "continue")
               /\ thread.dbg.stepping => /\ thread.dbg.mode = resumed.cmd
                                         /\ thread.dbg.depth = resumed.depth

SessionInv == /\ Ownership /\ Beginning /\ EventsInOrder /\ TakeTurns /\ StepsAsTold
              /\ ResultDelivered

-----------------------------------------------------------------------------
(* The steps, grouped by what they do to the channels.                     *)

Runs(pc) == pc \in {"check", "op", "end"}
Pauses   == /\ thread.pc \in {"check", "op"} /\ pauses' = pauses + 1 /\ Emit(Paused(pauses + 1))
            /\ IF Attached THEN thread'.pc = "hook" ELSE Runs(thread'.pc)
            /\ UNCHANGED <<commands, late>>
Answered == /\ thread.pc = "hook" /\ commands # <<>> /\ Runs(thread'.pc)
            /\ commands' = Tail(commands) /\ UNCHANGED <<events, pauses, late>>
Abandons == /\ thread.pc = "hook" /\ commands = <<>> /\ Runs(thread'.pc)
            /\ late' = (late \/ Attached) /\ UNCHANGED <<events, commands, pauses>>
Finishes == /\ thread.pc \in {"new", "end"} /\ thread'.pc \in {"drop", "failed"}
            /\ \E k \in Results : Emit(Final(k))
            /\ UNCHANGED <<commands, pauses, late>>
Closes   == /\ thread.pc = "drop" /\ thread'.pc = "gone" /\ commands' = <<>>
            /\ UNCHANGED <<events, pauses, late>>
Silent   == /\ thread.pc \in {"new", "check", "op"} /\ Runs(thread'.pc)
            /\ UNCHANGED <<events, commands, pauses, late>>

LEMMA ThreadSteps ==
    ASSUME TypeOK, VmStep
    PROVE  /\ Pauses \/ Answered \/ Abandons \/ Finishes \/ Closes \/ Silent
           /\ UNCHANGED client
<1> USE DEF Goes
<1>a. thread \in Threads /\ Len(program) \in Nat \ {0}
  BY InstrTyped
<1>b. UNCHANGED client
  BY DEF VmStep, Begin, BeginFails, Check, Op, OpFails, HookReceives, HookGivesUp, End, Exit
<1>p. ASSUME NEW then \in {"op", "next"}, Pause(then), thread.pc \in {"check", "op"},
             UNCHANGED <<commands, late>>
      PROVE  Pauses
  <2>1. CASE Attached
    BY <1>a, <1>p, <2>1 DEF Pause, Pauses, Threads
  <2>2. CASE ~Attached
    <3>1. Resumed(thread.dbg, Instr, "continue") \in DebugStates
      BY <1>a, InstrTyped, ResumedTyped DEF Threads, Commands
    <3>2. [thread EXCEPT !.dbg = Resumed(@, Instr, "continue")] \in Threads
      BY <1>a, <3>1 DEF Threads
    <3>3. thread'.pc \in {"op", "check", "end"}
      BY <1>a, <1>p, <2>2, <3>2, AfterTyped DEF Pause
    <3> QED BY <1>p, <2>2, <3>3 DEF Pause, Pauses, Runs
  <2> QED BY <2>1, <2>2
<1>1. CASE Begin
  BY <1>a, <1>1 DEF Begin, Silent, Runs, Threads
<1>2. CASE BeginFails
  BY <1>a, <1>2 DEF BeginFails, Finishes, Results, Threads
<1>3. CASE Check
  <2>1. CASE Pause("op")
    BY <1>p, <1>3, <2>1 DEF Check
  <2>2. CASE ~Pause("op")
    BY <1>a, <1>3, <2>2 DEF Check, Silent, Runs, Threads
  <2> QED BY <2>1, <2>2
<1>4. CASE Op
  <2>1. CASE Pause("next")
    BY <1>p, <1>4, <2>1 DEF Op
  <2>2. CASE ~Pause("next")
    <3>1. thread' = Advanced(thread)
      BY <1>4, <2>2 DEF Op
    <3>2. thread'.pc \in {"check", "end"}
      BY <1>a, <3>1, AfterTyped
    <3> QED BY <1>4, <2>2, <3>2 DEF Op, Silent, Runs
  <2> QED BY <2>1, <2>2
<1>5. CASE OpFails
  BY <1>a, <1>5 DEF OpFails, Silent, Runs, Threads
<1>6. CASE HookReceives
  <2>1. Head(commands).cmd \in Commands
    <3>1. Head(commands) \in [cmd : Commands, seen : Nat]
      BY <1>6, TailFacts DEF HookReceives, TypeOK
    <3> QED BY <3>1
  <2>2. thread'.pc \in {"op", "check", "end"}
    BY <1>6, <2>1, ResumeTyped DEF HookReceives
  <2> QED BY <1>6, <2>2 DEF HookReceives, Answered, Runs
<1>7. CASE HookGivesUp
  <2>1. thread'.pc \in {"op", "check", "end"}
    BY <1>7, ResumeTyped DEF HookGivesUp, Commands
  <2> QED BY <1>7, <2>1 DEF HookGivesUp, GivesUp, Abandons, Runs
<1>8. CASE End
  BY <1>a, <1>8 DEF End, EndResult, Finishes, Threads
<1>9. CASE Exit
  BY <1>a, <1>9 DEF Exit, Closes, Threads
<1> QED BY <1>b, <1>1, <1>2, <1>3, <1>4, <1>5, <1>6, <1>7, <1>8, <1>9 DEF VmStep

\* A request, or a change of the breakpoints.
ClientStep(c) ==
    \/ \E lines \in SUBSET Lines : Start(c, lines)
    \/ Handle(c) \/ NoHandle(c) \/ SendFails(c) \/ Reply(c) \/ NoReply(c)
    \/ \E cmd \in Commands : Send(c, cmd)

LEMMA NextSplit ==
    ASSUME [Next]_vars
    PROVE  \/ VmStep
           \/ \E c \in Callers : ClientStep(c)
           \/ UNCHANGED <<thread, events, commands, session, seen, request, pauses, resumed, late, slow, delivered>>
  BY DEF Next, ClientStep, Breakpoint, ThreadSame, vars, client

\* What a caller that waits knows of the session.
LEMMA WaiterOwns ==
    ASSUME TypeOK, Ownership, NEW c \in Callers, request[c] # "idle"
    PROVE  /\ session \in {"starting", "held"} /\ Attached
           /\ request[c] = "handle" => session = "starting"
           /\ \A b \in Callers \ {c} : request[b] = "idle"
  BY DEF Ownership, Waits, Attached, TypeOK

LEMMA OwnershipStep ==
    ASSUME TypeOK, Ownership, [Next]_vars
    PROVE  Ownership'
<1>1. CASE UNCHANGED <<session, request>>
  BY <1>1 DEF Ownership, Waits
<1>2. ASSUME NEW c \in Callers, ClientStep(c)
      PROVE  Ownership'
  <2>1. request \in [Callers -> {"idle", "handle", "first", "reply"}]
    BY DEF TypeOK
  <2>a. ASSUME request' = [request EXCEPT ![c] = "idle"], session' \in {"stored", "dropped"},
               \A b \in Callers \ {c} : request[b] = "idle"
        PROVE  Ownership'
    BY <2>1, <2>a DEF Ownership
  <2>2. ASSUME NEW lines \in SUBSET Lines, Start(c, lines)
        PROVE  Ownership'
    BY <2>1, <2>2 DEF Start, Ownership, Waits
  <2>3. CASE Handle(c)
    BY <2>1, <2>3, WaiterOwns DEF Handle, Ownership, Waits
  <2>4. CASE NoHandle(c)
    BY <2>a, <2>4, WaiterOwns DEF NoHandle, Loses
  <2>5. CASE SendFails(c)
    <3>1. \A b \in Callers : request[b] = "idle"
      BY <2>5 DEF SendFails, Ownership
    <3> QED BY <2>a, <2>5, <3>1 DEF SendFails, Loses
  <2>6. CASE Reply(c)
    BY <2>a, <2>6, WaiterOwns DEF Reply, Loses
  <2>7. CASE NoReply(c)
    BY <2>a, <2>7, WaiterOwns DEF NoReply, Loses
  <2>8. ASSUME NEW cmd \in Commands, Send(c, cmd)
        PROVE  Ownership'
    BY <2>1, <2>8 DEF Send, Taken, Ownership, Waits
  <2> QED BY <1>2, <2>2, <2>3, <2>4, <2>5, <2>6, <2>7, <2>8 DEF ClientStep
<1>3. CASE VmStep
  BY <1>1, <1>3, ThreadSteps DEF client
<1> QED BY <1>1, <1>2, <1>3, NextSplit

LEMMA BeginningStep ==
    ASSUME TypeOK, Ownership, Beginning, [Next]_vars
    PROVE  Beginning'
<1>1. CASE VmStep
  BY <1>1 DEF Beginning, VmStep, Begin, BeginFails, Check, Op, OpFails, HookReceives, HookGivesUp,
     GivesUp, End, Exit, client, Thread
<1>2. ASSUME NEW c \in Callers, ClientStep(c)
      PROVE  Beginning'
  <2>1. session' # "none"
    BY <1>2, WaiterOwns DEF ClientStep, Start, Handle, NoHandle, SendFails, Reply, NoReply, Send, Taken, Loses
  <2> QED BY <2>1 DEF Beginning
<1>3. CASE UNCHANGED <<thread, events, commands, session, seen, request, pauses, resumed, late, slow, delivered>>
  BY <1>3 DEF Beginning
<1> QED BY <1>1, <1>2, <1>3, NextSplit
\* The events stay in order: the thread appends to them, a reply takes the first.
LEMMA EventsInOrderStep ==
    ASSUME TypeOK, Ownership, Beginning, EventsInOrder, [Next]_vars
    PROVE  EventsInOrder'
<1> SUFFICES ASSUME Attached'
             PROVE  EventsInOrder'
  BY DEF EventsInOrder
<1>t. /\ events \in Seq(Events) /\ Len(events) \in Nat /\ seen \in Nat /\ pauses \in Nat
      /\ thread \in Threads
  BY InstrTyped DEF TypeOK
<1>1. CASE VmStep
  <2>1. UNCHANGED <<session, seen>> /\ Attached
    BY <1>1, ThreadSteps DEF client, Attached
  <2>2. CASE UNCHANGED <<events, pauses>> /\ (Over <=> Over')
    BY <2>1, <2>2 DEF EventsInOrder
  <2>3. CASE Pauses
    <3>1. Paused(pauses + 1) \in Events /\ events' = Append(events, Paused(pauses + 1))
      BY <1>t, <2>1, <2>3, EventTypes DEF Pauses, Emit
    <3>2. ~Over /\ ~Over'
      BY <2>1, <2>3 DEF Pauses, Over, Runs
    <3>3. seen + Len(events) = pauses
      BY <1>t, <2>1, <3>2 DEF EventsInOrder
    <3>4. /\ Len(events') = Len(events) + 1 /\ events'[Len(events) + 1] = Paused(seen + (Len(events) + 1))
          /\ \A i \in 1 .. Len(events) : events'[i] = events[i]
      BY <1>t, <3>1, <3>3, AppendFacts
    <3>5. ASSUME NEW i \in 1 .. Len(events')
          PROVE  events'[i].kind = "paused" /\ events'[i].no = seen' + i
      <4>1. CASE i = Len(events) + 1
        BY <2>1, <3>4, <4>1 DEF Paused
      <4>2. CASE i \in 1 .. Len(events)
        BY <2>1, <3>2, <3>4, <4>2 DEF EventsInOrder
      <4> QED BY <1>t, <3>4, <4>1, <4>2
    <3>6. seen' + Len(events') = pauses'
      BY <1>t, <2>1, <2>3, <3>3, <3>4 DEF Pauses
    <3> QED BY <3>2, <3>5, <3>6 DEF EventsInOrder
  <2>4. CASE Finishes
    <3>1. PICK k \in Results : events' = Append(events, Final(k))
      BY <2>1, <2>4 DEF Finishes, Emit
    <3>2. ~Over /\ Over'
      BY <2>4 DEF Finishes, Over
    <3>3. seen + Len(events) = pauses
      BY <1>t, <2>1, <3>2 DEF EventsInOrder
    <3>4. /\ Len(events') = Len(events) + 1 /\ events'[Len(events) + 1] = Final(k) /\ events' # <<>>
          /\ \A i \in 1 .. Len(events) : events'[i] = events[i]
      BY <1>t, <3>1, AppendFacts, EventTypes
    <3>5. Final(k).kind # "paused"
      BY DEF Final, Results
    <3>6. ASSUME NEW i \in 1 .. Len(events')
          PROVE  IF events'[i].kind = "paused" THEN events'[i].no = seen' + i
                 ELSE i = Len(events') /\ Over'
      <4>1. CASE i = Len(events) + 1
        BY <3>2, <3>4, <3>5, <4>1
      <4>2. CASE i \in 1 .. Len(events)
        BY <2>1, <3>2, <3>4, <4>2 DEF EventsInOrder
      <4> QED BY <1>t, <3>4, <4>1, <4>2
    <3>7. seen' + Len(events') = pauses' + 1
      BY <1>t, <2>1, <2>4, <3>3, <3>4 DEF Finishes
    <3>8. events' # <<>> /\ events'[Len(events')].kind # "paused"
      BY <1>t, <3>4, <3>5
    <3> QED BY <3>2, <3>6, <3>7, <3>8 DEF EventsInOrder, Over
  <2>5. CASE Answered \/ Abandons \/ Closes \/ Silent
    BY <2>2, <2>5 DEF Answered, Abandons, Closes, Silent, Over, Runs
  <2> QED BY <1>1, <2>3, <2>4, <2>5, ThreadSteps
<1>2. ASSUME NEW c \in Callers, ClientStep(c)
      PROVE  EventsInOrder'
  <2>1. ASSUME NEW lines \in SUBSET Lines, Start(c, lines)
        PROVE  EventsInOrder'
    <3>1. /\ thread' = Thread("new") /\ UNCHANGED <<events, seen, pauses>>
          /\ events = <<>> /\ seen = 0 /\ pauses = 0
      BY <2>1 DEF Start, Beginning
    <3>2. ~Over' /\ Len(events') = 0
      BY <3>1 DEF Over, Thread
    <3>3. 1 .. Len(events') = {} /\ seen' + Len(events') = pauses'
      BY <3>1, <3>2
    <3> QED BY <3>2, <3>3 DEF EventsInOrder
  <2>2. CASE Handle(c)
    <3>1. Attached /\ UNCHANGED <<thread, events, seen, pauses>>
      BY <2>2, WaiterOwns DEF Handle, ThreadSame
    <3> QED BY <3>1 DEF EventsInOrder, Over
  <2>3. CASE NoHandle(c) \/ SendFails(c) \/ NoReply(c)
    BY <2>3 DEF NoHandle, SendFails, NoReply, Loses, Attached
  <2>4. ASSUME NEW cmd \in Commands, Send(c, cmd)
        PROVE  EventsInOrder'
    <3>1. Attached /\ UNCHANGED <<thread, events, seen, pauses>>
      BY <2>4 DEF Send, ThreadSame, Attached
    <3> QED BY <3>1 DEF EventsInOrder, Over
  <2>5. CASE Reply(c)
    <3>1. Attached /\ events # <<>> /\ UNCHANGED <<thread, pauses>>
      BY <2>5, WaiterOwns DEF Reply, ThreadSame
    <3>2. /\ Head(events).kind = "paused" /\ seen' = Head(events).no /\ events' = Tail(events)
      BY <2>5 DEF Reply, NextEvent, Loses, Attached
    <3>3. /\ Len(events') = Len(events) - 1 /\ Head(events) = events[1] /\ Len(events) >= 1
          /\ \A i \in 1 .. Len(events') : i + 1 \in 1 .. Len(events) /\ events'[i] = events[i + 1]
      BY <1>t, <3>1, <3>2, TailFacts
    <3>4. seen' = seen + 1
      <4>1. 1 \in 1 .. Len(events) /\ events[1].kind = "paused" /\ seen' = events[1].no
        BY <1>t, <3>2, <3>3
      <4> QED BY <3>1, <4>1 DEF EventsInOrder
    <3>5. ASSUME NEW i \in 1 .. Len(events')
          PROVE  IF events'[i].kind = "paused" THEN events'[i].no = seen' + i
                 ELSE i = Len(events') /\ Over'
      BY <1>t, <3>1, <3>3, <3>4 DEF EventsInOrder, Over
    <3>6. ASSUME Over'
          PROVE  events' # <<>> /\ events'[Len(events')].kind # "paused"
      <4>1. Over /\ events[Len(events)].kind # "paused"
        BY <3>1, <3>6 DEF EventsInOrder, Over
      <4>2. Len(events) # 1 /\ Len(events') \in 1 .. Len(events')
        BY <1>t, <3>2, <3>3, <4>1
      <4> QED BY <1>t, <3>3, <4>1, <4>2
    <3>7. seen' + Len(events') = IF Over' THEN pauses' + 1 ELSE pauses'
      <4>1. /\ Over' <=> Over
            /\ seen + Len(events) = IF Over THEN pauses + 1 ELSE pauses
        BY <3>1 DEF EventsInOrder, Over
      <4>2. seen' + Len(events') = seen + Len(events) /\ pauses' = pauses
        BY <1>t, <3>1, <3>3, <3>4, OneTaken
      <4> QED BY <4>1, <4>2
    <3> QED BY <3>5, <3>6, <3>7 DEF EventsInOrder
  <2> QED BY <1>2, <2>1, <2>2, <2>3, <2>4, <2>5 DEF ClientStep
<1>3. CASE UNCHANGED <<thread, events, commands, session, seen, request, pauses, resumed, late, slow, delivered>>
  BY <1>3 DEF EventsInOrder, Attached, Over
<1> QED BY <1>1, <1>2, <1>3, NextSplit

\* The shape of the events, as the two sides' turns need it.
LEMMA EventsFacts ==
    ASSUME TypeOK, EventsInOrder, Attached
    PROVE  /\ Len(events) \in Nat /\ (Len(events) = 0 <=> events = <<>>)
           /\ ~Over => seen + Len(events) = pauses
           /\ Over => events # <<>>
           /\ events # <<>> /\ Head(events).kind # "paused" => Over /\ Len(events) = 1
           /\ events # <<>> /\ Head(events).kind = "paused" =>
                 Head(events).no = seen + 1 /\ (Over => Len(events) > 1)
<1>1. events \in Seq(Events) /\ Len(events) \in Nat /\ seen \in Nat /\ pauses \in Nat
  BY DEF TypeOK
<1>2. events # <<>> => Head(events) = events[1] /\ Len(events) \in Nat \ {0} /\ 1 \in 1 .. Len(events)
  BY <1>1, TailFacts
<1>3. Len(events) = 0 <=> events = <<>>
  BY <1>1
<1>4. ~Over => seen + Len(events) = pauses
  BY <1>1 DEF EventsInOrder
<1>5. Over => events # <<>> /\ events[Len(events)].kind # "paused"
  BY DEF EventsInOrder
<1>6. events # <<>> => IF events[1].kind = "paused" THEN events[1].no = seen + 1
                       ELSE 1 = Len(events) /\ Over
  BY <1>2 DEF EventsInOrder
<1>7. events # <<>> /\ Head(events).kind = "paused" /\ Over => Len(events) > 1
  <2> SUFFICES ASSUME events # <<>>, Head(events).kind = "paused", Over
               PROVE  Len(events) > 1
    OBVIOUS
  <2>1. events[Len(events)].kind # "paused" /\ events[1].kind = "paused"
    BY <1>2, <1>5
  <2>2. Len(events) # 1
    BY <2>1
  <2>3. Len(events) \in Nat /\ Len(events) # 0
    BY <1>1, <1>3
  <2> QED BY <2>2, <2>3, AtLeastTwo
<1> QED BY <1>1, <1>2, <1>3, <1>4, <1>5, <1>6, <1>7

LEMMA TakeTurnsStep ==
    ASSUME TypeOK, Ownership, Beginning, EventsInOrder, TakeTurns, [Next]_vars
    PROVE  TakeTurns'
<1> SUFFICES ASSUME ~late'
             PROVE  TakeTurns'
  BY DEF TakeTurns
<1>t. /\ commands \in Seq([cmd : Commands, seen : Nat]) /\ Len(commands) \in Nat
      /\ Len(events) \in Nat /\ seen \in Nat /\ pauses \in Nat /\ thread \in Threads
      /\ events \in Seq(Events)
  BY InstrTyped DEF TypeOK
<1>1. CASE VmStep
  <2>1. UNCHANGED <<session, seen>> /\ (Attached' <=> Attached)
    BY <1>1, ThreadSteps DEF client, Attached
  <2>2. CASE Pauses
    <3>1. ~late /\ thread.pc # "hook" /\ commands = <<>> /\ commands' = <<>> /\ session # "stored"
      BY <2>2 DEF Pauses, TakeTurns
    <3>2. CASE Attached
      <4>1. ~Over /\ seen = pauses
        BY <2>2, <3>1, <3>2 DEF Pauses, TakeTurns, Over
      <4>2. events = <<>>
        BY <1>t, <3>2, <4>1, EventsFacts
      <4>3. Len(events') = 1 /\ thread'.pc = "hook"
        BY <2>2, <3>2, <4>2, EventTypes, AppendFacts DEF Pauses, Emit
      <4> QED BY <2>1, <3>1, <3>2, <4>3 DEF TakeTurns
    <3>3. CASE ~Attached
      BY <2>1, <3>1, <3>3 DEF TakeTurns
    <3> QED BY <3>2, <3>3
  <2>3. CASE Answered
    <3>1. ~late /\ Len(commands) = 1 /\ thread.pc = "hook" /\ (Attached => session = "held" /\ events = <<>>)
      BY <2>3 DEF Answered, TakeTurns
    <3>2. commands' = <<>> /\ thread'.pc # "hook"
      BY <1>t, <2>3, <3>1 DEF Answered, Runs
    <3>3. Attached => seen' = pauses' /\ session' # "stored"
      BY <1>t, <2>1, <2>3, <3>1, EventsFacts DEF Answered, Over
    <3>4. session' = "stored" => Attached
      BY <2>1 DEF Attached
    <3> QED BY <2>1, <3>2, <3>3, <3>4 DEF TakeTurns
  <2>4. CASE Abandons
    <3>1. ~late /\ ~Attached /\ commands' = <<>> /\ thread'.pc # "hook"
      BY <2>4 DEF Abandons, Runs
    <3> QED BY <2>1, <3>1 DEF TakeTurns, Attached
  <2>5. CASE Finishes \/ Silent \/ Closes
    <3>1. /\ ~late /\ thread.pc # "hook" /\ thread'.pc # "hook"
          /\ commands = <<>> /\ commands' = <<>> /\ UNCHANGED pauses
      BY <2>5 DEF Finishes, Silent, Closes, Runs, TakeTurns
    <3> QED BY <2>1, <3>1 DEF TakeTurns
  <2> QED BY <1>1, <2>2, <2>3, <2>4, <2>5, ThreadSteps
<1>2. ASSUME NEW c \in Callers, ClientStep(c)
      PROVE  TakeTurns'
  <2>1. ASSUME NEW lines \in SUBSET Lines, Start(c, lines)
        PROVE  TakeTurns'
    BY <2>1 DEF Start, Beginning, TakeTurns, Thread
  <2>2. CASE Handle(c)
    <3>1. Attached /\ Attached' /\ UNCHANGED <<thread, events, commands, session, seen, pauses, late>>
      BY <2>2, WaiterOwns DEF Handle, ThreadSame, Attached
    <3> QED BY <3>1 DEF TakeTurns
  <2>3. CASE NoHandle(c) \/ SendFails(c) \/ NoReply(c) \/ (Reply(c) /\ NextEvent.kind # "paused")
    <3>1. session' = "dropped" /\ ~Attached' /\ UNCHANGED <<thread, commands, pauses, late>>
      BY <2>3 DEF NoHandle, SendFails, NoReply, Reply, Loses, ThreadSame, Attached
    <3> QED BY <3>1 DEF TakeTurns
  <2>4. ASSUME NEW cmd \in Commands, Send(c, cmd)
        PROVE  TakeTurns'
    <3>1. ~late /\ session = "stored" /\ Attached /\ session' = "held" /\ UNCHANGED <<thread, events, seen, pauses>>
      BY <2>4 DEF Send, Taken, ThreadSame, Attached
    <3>2. thread.pc = "hook" /\ commands = <<>> /\ events = <<>>
      BY <3>1 DEF TakeTurns
    <3>3. seen = pauses
      BY <1>t, <3>1, <3>2, EventsFacts DEF Over
    <3>4. [cmd |-> cmd, seen |-> seen] \in [cmd : Commands, seen : Nat]
      BY <1>t
    <3>5. Len(commands') = 1 /\ commands'[1].seen = seen /\ commands' # <<>>
      BY <1>t, <2>4, <3>2, <3>4, AppendFacts DEF Send
    <3> QED BY <3>1, <3>2, <3>3, <3>5 DEF TakeTurns
  <2>5. CASE Reply(c) /\ NextEvent.kind = "paused"
    <3>1. /\ Attached /\ session # "stored" /\ events # <<>> /\ ~late /\ Head(events).kind = "paused"
          /\ UNCHANGED <<thread, pauses, late, commands>>
          /\ session' = "stored" /\ events' = Tail(events)
      BY <2>5, WaiterOwns DEF Reply, ThreadSame, NextEvent
    <3>2. thread.pc = "hook"
      <4> SUFFICES ASSUME thread.pc # "hook" PROVE FALSE
        OBVIOUS
      <4>1. seen = pauses
        BY <3>1 DEF TakeTurns
      <4>2. seen + Len(events) = IF Over THEN pauses + 1 ELSE pauses
        BY <3>1 DEF EventsInOrder
      <4> QED BY <1>t, <3>1, <4>1, <4>2, EventsFacts
    <3>3. commands = <<>> /\ Len(events) = 1
      BY <3>1, <3>2 DEF TakeTurns
    <3>4. events' = <<>>
      BY <1>t, <3>1, <3>3
    <3> QED BY <3>1, <3>2, <3>3, <3>4 DEF TakeTurns
  <2> QED BY <1>2, <2>1, <2>2, <2>3, <2>4, <2>5 DEF ClientStep
<1>3. CASE UNCHANGED <<thread, events, commands, session, seen, request, pauses, resumed, late, slow, delivered>>
  BY <1>3 DEF TakeTurns, Attached
<1> QED BY <1>1, <1>2, <1>3, NextSplit

LEMMA ResultDeliveredStep ==
    ASSUME TypeOK, Ownership, EventsInOrder, TakeTurns, ResultDelivered, [Next]_vars
    PROVE  ResultDelivered'
<1>1. CASE VmStep
  <2>1. UNCHANGED <<session, slow, delivered>>
    BY <1>1, ThreadSteps DEF client
  <2>2. late => late'
    BY <1>1, ThreadSteps DEF Pauses, Answered, Abandons, Finishes, Closes, Silent
  <2> QED BY <2>1, <2>2 DEF ResultDelivered
<1>2. ASSUME NEW c \in Callers, ClientStep(c)
      PROVE  ResultDelivered'
  <2> SUFFICES ASSUME session' = "dropped", ~late', ~slow'
               PROVE  delivered'
    BY DEF ResultDelivered
  <2>1. session # "dropped"
    <3>1. (\E b \in Callers : request[b] # "idle") => session \in {"starting", "held"}
      BY WaiterOwns
    <3> QED BY <1>2, <3>1 DEF ClientStep, Start, Handle, NoHandle, SendFails, Reply, NoReply, Send
  <2>2. ~NoHandle(c)
    BY DEF NoHandle
  <2>3. ~SendFails(c)
    BY DEF SendFails, TakeTurns, ThreadSame
  <2>4. ~NoReply(c)
    <3> SUFFICES ASSUME NoReply(c) PROVE FALSE
      OBVIOUS
    <3>1. Attached /\ events = <<>> /\ thread.pc = "gone"
      BY WaiterOwns DEF NoReply
    <3> QED BY <3>1 DEF EventsInOrder, Over
  <2> QED BY <1>2, <2>1, <2>2, <2>3, <2>4
      DEF ClientStep, Start, Handle, Reply, Send, Taken
<1>3. CASE UNCHANGED <<thread, events, commands, session, seen, request, pauses, resumed, late, slow, delivered>>
  BY <1>3 DEF ResultDelivered
<1> QED BY <1>1, <1>2, <1>3, NextSplit

\* Only an answered pause, or one with nobody to answer, changes the debug state.
LEMMA StepsAsToldStep ==
    ASSUME TypeOK, Beginning, StepsAsTold, [Next]_vars
    PROVE  StepsAsTold'
<1>a. thread \in Threads /\ Instr \in Instrs /\ Len(program) \in Nat \ {0}
  BY InstrTyped
<1>b. CASE thread'.dbg = thread.dbg /\ UNCHANGED resumed
  BY <1>b DEF StepsAsTold
<1>c. ASSUME NEW cmd \in Commands, thread'.dbg = Resumed(thread.dbg, Instr, cmd),
             resumed' = [cmd |-> cmd, depth |-> Instr.depth]
      PROVE  StepsAsTold'
  <2>1. thread.dbg \in DebugStates
    BY <1>a DEF Threads
  <2>2. CASE cmd = "continue"
    <3>1. thread'.dbg.stepping = FALSE
      BY <1>c, <2>1, <2>2 DEF Resumed, DebugStates
    <3> QED BY <1>c, <2>2, <3>1 DEF StepsAsTold
  <2>3. CASE cmd # "continue"
    <3>1. thread'.dbg.stepping = TRUE /\ thread'.dbg.mode = cmd /\ thread'.dbg.depth = Instr.depth
      BY <1>c, <2>3 DEF Resumed
    <3> QED BY <1>c, <2>3, <3>1 DEF StepsAsTold
  <2> QED BY <2>2, <2>3
<1>p. ASSUME NEW then \in {"op", "next"}, Pause(then)
      PROVE  StepsAsTold'
  <2>1. CASE Attached
    BY <1>a, <1>b, <1>p, <2>1 DEF Pause, Threads
  <2>2. CASE ~Attached
    <3>1. Resumed(thread.dbg, Instr, "continue") \in DebugStates
      BY <1>a, ResumedTyped DEF Threads, Commands
    <3> DEFINE t == [thread EXCEPT !.dbg = Resumed(@, Instr, "continue")]
    <3>2. t \in Threads /\ t.dbg = Resumed(thread.dbg, Instr, "continue")
      BY <1>a, <3>1 DEF Threads
    <3>3. thread' = After(t, then) /\ resumed' = [cmd |-> "continue", depth |-> Instr.depth]
      BY <1>p, <2>2 DEF Pause
    <3> HIDE DEF t
    <3>4. thread'.dbg = Resumed(thread.dbg, Instr, "continue")
      BY <1>a, <3>2, <3>3, AfterTyped
    <3> QED BY <1>c, <3>3, <3>4 DEF Commands
  <2> QED BY <2>1, <2>2
<1>1. CASE Begin \/ BeginFails \/ OpFails \/ End \/ Exit
  BY <1>a, <1>b, <1>1 DEF Begin, BeginFails, OpFails, End, EndResult, Exit, Goes, Threads
<1>2. CASE Check
  <2>1. CASE ~Pause("op")
    BY <1>a, <1>b, <1>2, <2>1 DEF Check, Goes, Threads
  <2> QED BY <1>p, <2>1
<1>3. CASE Op
  <2>1. CASE ~Pause("next")
    BY <1>a, <1>b, <1>3, <2>1, AfterTyped DEF Op
  <2> QED BY <1>p, <2>1
<1>4. CASE HookReceives
  <2>1. Head(commands).cmd \in Commands
    <3>1. Head(commands) \in [cmd : Commands, seen : Nat]
      BY <1>4, TailFacts DEF HookReceives, TypeOK
    <3> QED BY <3>1
  <2> QED BY <1>c, <1>4, <2>1, ResumeTyped DEF HookReceives, Resume
<1>5. CASE HookGivesUp
  BY <1>c, <1>5, ResumeTyped DEF HookGivesUp, Resume, Commands
<1>6. ASSUME NEW c \in Callers, NEW lines \in SUBSET Lines, Start(c, lines)
      PROVE  StepsAsTold'
  BY <1>b, <1>6 DEF Start, Beginning, Thread
<1>7. ASSUME NEW c \in Callers, ClientStep(c)
      PROVE  StepsAsTold'
  <2>1. CASE UNCHANGED <<thread, resumed>>
    BY <2>1 DEF StepsAsTold
  <2> QED BY <1>6, <1>7, <2>1 DEF ClientStep, Handle, NoHandle, SendFails, Reply, NoReply, Send, ThreadSame
<1>8. CASE UNCHANGED <<thread, events, commands, session, seen, request, pauses, resumed, late, slow, delivered>>
  BY <1>8 DEF StepsAsTold
<1> QED BY <1>1, <1>2, <1>3, <1>4, <1>5, <1>7, <1>8, NextSplit DEF VmStep

-----------------------------------------------------------------------------
(* The theorems.                                                           *)

\* The inductive invariant: who has the session, what is in the channels, whose turn it is,
\* and how the VM steps.
THEOREM SessionCorrect == Spec => []SessionInv
<1>1. Init => SessionInv
  <2> SUFFICES ASSUME Init PROVE SessionInv
    OBVIOUS
  <2>1. Ownership
    BY DEF Init, Ownership
  <2>2. Beginning /\ EventsInOrder /\ TakeTurns /\ ResultDelivered
    BY DEF Init, Beginning, EventsInOrder, TakeTurns, ResultDelivered, Attached
  <2>3. StepsAsTold
    BY DEF Init, StepsAsTold, Thread, NewDebug
  <2> QED BY <2>1, <2>2, <2>3 DEF SessionInv
<1>2. TypeOK /\ SessionInv /\ [Next]_vars => SessionInv'
  BY OwnershipStep, BeginningStep, EventsInOrderStep, TakeTurnsStep, StepsAsToldStep, ResultDeliveredStep
  DEF SessionInv
<1> QED BY <1>1, <1>2, TypeCorrect, PTL DEF Spec

\* One request at a time has the session (tools/debug.rs takes it out of the map), for any
\* number of callers.
THEOREM OneOwnerCorrect == Spec => []OneOwner
<1>1. TypeOK /\ SessionInv => OneOwner
  <2> SUFFICES ASSUME SessionInv PROVE OneOwner
    OBVIOUS
  <2> DEFINE busy == {c \in Callers : request[c] # "idle"}
  <2>1. CASE session \in {"starting", "held"}
    <3>1. PICK c \in Callers : Waits(c) /\ \A b \in Callers \ {c} : request[b] = "idle"
      BY <2>1 DEF SessionInv, Ownership
    <3>2. busy = {c}
      BY <3>1 DEF Waits
    <3> QED BY <2>1, <3>2, FS_Singleton DEF OneOwner
  <2>2. CASE session \notin {"starting", "held"}
    <3>1. busy = {}
      BY <2>2 DEF SessionInv, Ownership
    <3> QED BY <2>2, <3>1, FS_EmptySet DEF OneOwner
  <2> QED BY <2>1, <2>2
<1> QED BY <1>1, TypeCorrect, SessionCorrect, PTL

\* As long as no command came too late for the hook, a command answers the pause its caller
\* was shown, and there is one at most.
THEOREM CommandsCorrect == Spec => []CommandIsForThisPause
<1>1. TypeOK /\ SessionInv => CommandIsForThisPause
  <2> SUFFICES ASSUME TypeOK, SessionInv, ~late, NEW i \in DOMAIN commands
               PROVE  i = 1 /\ commands[i].seen = pauses
    BY DEF CommandIsForThisPause
  <2>1. commands \in Seq([cmd : Commands, seen : Nat])
    BY DEF TypeOK
  <2>2. commands # <<>>
    BY <2>1
  <2>3. Len(commands) = 1 /\ commands[1].seen = pauses
    BY <2>2 DEF SessionInv, TakeTurns
  <2> QED BY <2>1, <2>3
<1> QED BY <1>1, TypeCorrect, SessionCorrect, PTL

\* A caller that answers every pause in time is given the program's result.
THEOREM ResultCorrect == Spec => []ResultDelivered
<1>1. SessionInv => ResultDelivered
  BY DEF SessionInv
<1> QED BY <1>1, SessionCorrect, PTL

\* Callers are shown every pause, in order.
THEOREM PausesInOrder == Spec => NoPauseSkipped
<1>1. TypeOK /\ SessionInv /\ [Next]_vars => [seen' # seen => seen' = seen + 1]_vars
  <2> SUFFICES ASSUME TypeOK, SessionInv, [Next]_vars, seen' # seen
               PROVE  seen' = seen + 1
    OBVIOUS
  <2>1. PICK c \in Callers : ClientStep(c)
    BY ThreadSteps, NextSplit DEF client
  <2>2. Reply(c)
    BY <2>1 DEF ClientStep, Start, Handle, NoHandle, SendFails, NoReply, Send
  <2>3. Attached /\ events # <<>> /\ Head(events).kind = "paused" /\ seen' = Head(events).no
    BY <2>2, WaiterOwns DEF Reply, NextEvent, SessionInv
  <2> QED BY <2>3, EventsFacts DEF SessionInv
<1> QED BY <1>1, TypeCorrect, SessionCorrect, PTL DEF Spec, NoPauseSkipped

\* A step over or out does not stop in a deeper frame than it was given in.
THEOREM StepsCorrect == Spec => StepStaysShallow
<1> DEFINE Shallow == thread.pc = "check" /\ pauses' # pauses =>
                        /\ resumed.cmd = "over" => Instr.depth <= resumed.depth
                        /\ resumed.cmd = "out" => Instr.depth < resumed.depth
<1>1. TypeOK /\ SessionInv /\ [Next]_vars => [Shallow]_vars
  <2> SUFFICES ASSUME TypeOK, SessionInv, [Next]_vars, thread.pc = "check", pauses' # pauses,
                      resumed.cmd \in {"over", "out"}
               PROVE  /\ resumed.cmd = "over" => Instr.depth <= resumed.depth
                      /\ resumed.cmd = "out" => Instr.depth < resumed.depth
    OBVIOUS
  <2>1. Check
    <3>1. VmStep
      BY NextSplit DEF ClientStep, Start, Handle, NoHandle, SendFails, Reply, NoReply, Send, ThreadSame
    <3> QED BY <3>1 DEF VmStep, Begin, BeginFails, Op, OpFails, HookReceives, HookGivesUp, GivesUp, End, Exit
  <2>2. PausesBefore(thread.dbg, Instr, breaks)
    BY <2>1 DEF Check
  <2>3. /\ thread.dbg.stepping /\ thread.dbg.mode = resumed.cmd /\ thread.dbg.depth = resumed.depth
    BY DEF SessionInv, StepsAsTold
  <2> QED BY <2>2, <2>3 DEF PausesBefore, StepsAt
<1> QED BY <1>1, TypeCorrect, SessionCorrect, PTL DEF Spec, StepStaysShallow
=============================================================================
