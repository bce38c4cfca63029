---------------------------- MODULE PyDebugProofs ----------------------------
(***************************************************************************)
(* Theorems about PyDebug, for any programs, any breakpoints and any       *)
(* number of commands sent ahead.                                          *)
(***************************************************************************)
EXTENDS PyDebug, Facts, TLAPS

-----------------------------------------------------------------------------
(* The inductive invariants.                                               *)

\* While the program runs, `last` is the byte of a pause that the program has not moved on from
\* since: a byte that some instruction of the current visit could pause at ...
Ahead     == thread.pc \in {"none", "attach", "run", "ready"}
Visit(p)  == \A q \in p .. (thread.pos - 1) : program[q].byte = program[p].byte
LastIsHere == Ahead /\ thread.dbg.last # NoByte =>
    \E p \in 1 .. (thread.pos - 1) :
       /\ program[p].op # "leaves" /\ program[p].byte = thread.dbg.last /\ Visit(p)

\* ... and outside of stepping no such visit of a byte with a breakpoint went without its pause.
VisitIsLast == Ahead /\ ~Stepping(thread.dbg) =>
    \A p \in 1 .. (thread.pos - 1) :
       program[p].op # "leaves" /\ program[p].byte \in breaks /\ Visit(p) =>
          thread.dbg.last = program[p].byte

\* The thread starts at the first instruction, and only stops where an instruction can pause.
Beginning == /\ thread.pc \in {"none", "attach"} => thread.pos = 1 /\ thread.dbg.last = NoByte
             /\ thread.pc \in {"hook", "back"} => Instr.op # "leaves"

NotStarted == front.pc = "idle" => thread.pc = "none"

VisitInv == LastIsHere /\ VisitIsLast /\ Beginning

\* The one pause that waits for its answer is in one place: an event, with the frontend, or a
\* command that answers it.  A frontend that is gone sends nothing any more.
PausedAt(i) == events[i].kind = "paused"
InEvents    == \E i \in DOMAIN events : PausedAt(i)
EventsTurn   == \A i \in DOMAIN events : PausedAt(i) => thread.pc = "hook" /\ events[i].no = pauses
OneEvent     == \A i, j \in DOMAIN events : PausedAt(i) /\ PausedAt(j) => i = j
GotTurn      == front.got.kind = "paused" => thread.pc = "hook" /\ front.got.no = pauses /\ ~InEvents
ShownTurn    == front.shown # 0 => /\ thread.pc = "hook" /\ front.shown = pauses
                                   /\ ~InEvents /\ front.got.kind # "paused"
CommandsTurn == commands # <<>> => /\ thread.pc = "hook" /\ Len(commands) = 1 /\ commands[1].seen = pauses
                                   /\ Sender => ~InEvents /\ front.got.kind # "paused" /\ front.shown = 0
TurnInv == ~late /\ ~ahead => /\ Sender => EventsTurn /\ OneEvent /\ GotTurn /\ ShownTurn
                              /\ CommandsTurn
PromptShows == front.pc \in {"prompt", "repl"} => front.shown # 0

-----------------------------------------------------------------------------
(* What the model's operators return.                                      *)

LEMMA InstrTyped ==
    ASSUME TypeOK
    PROVE  /\ program \in Seq(Instrs) /\ Len(program) \in Nat \ {0} /\ thread.pos \in 1 .. Len(program)
           /\ Instr \in Instrs /\ thread \in Threads
<1>1. program \in Seq(Instrs) /\ program # <<>>
  BY ProgramsAssumption DEF TypeOK
<1>2. thread \in Threads /\ thread.pos \in 1 .. Len(program)
  BY DEF TypeOK, Threads
<1> QED BY <1>1, <1>2 DEF Instr

LEMMA MovedTyped ==
    ASSUME NEW d \in [mode : Commands \cup {"off"}, depth : Nat, last : Nat], NEW i \in Instrs
    PROVE  /\ Moved(d, i) \in [mode : Commands \cup {"off"}, depth : Nat, last : Nat]
           /\ Moved(d, i).mode = d.mode
           /\ Moved(d, i).last = IF d.last = i.byte THEN i.byte ELSE NoByte
  BY DEF Moved, Instrs, NoByte

LEMMA AnsweredTyped ==
    ASSUME NEW d \in [mode : Commands \cup {"off"}, depth : Nat, last : Nat], NEW i \in Instrs, NEW cmd \in Commands
    PROVE  /\ Answered(d, i, cmd) \in [mode : Commands \cup {"off"}, depth : Nat, last : Nat]
           /\ Answered(d, i, cmd).last = i.byte
  BY DEF Answered, Instrs, NoByte

LEMMA NextTyped ==
    ASSUME NEW t \in Threads, Len(program) \in Nat \ {0}
    PROVE  /\ Next1(t) \in Threads /\ Next1(t).dbg = t.dbg
           /\ Next1(t).pc = "end" \/ (Next1(t).pc = "run" /\ Next1(t).pos = t.pos + 1)
<1>1. t.pos \in 1 .. Len(program) /\ t.pos \in Nat
  BY DEF Threads
<1>2. CASE t.pos < Len(program)
  <2>1. t.pos + 1 \in 1 .. Len(program)
    BY <1>1, <1>2
  <2> QED BY <1>2, <2>1 DEF Next1, Threads
<1>3. CASE ~(t.pos < Len(program))
  BY <1>3 DEF Next1, Threads
<1> QED BY <1>2, <1>3

LEMMA EmitTyped ==
    ASSUME TypeOK, NEW e \in Events, Emit(e)
    PROVE  events' \in Seq(Events)
  BY AppendFacts DEF Emit, TypeOK

LEMMA EventTypes ==
    /\ \A n \in Nat : Paused(n + 1) \in Events /\ Paused(n).kind = "paused" /\ Paused(n).no = n
    /\ \A k \in {"finished", "error"} : Final(k) \in Events /\ Final(k).kind = k
  BY DEF Paused, Final, Events

\* What the VM thread leaves of its own state, and of the channels.
LEMMA VmTyped ==
    ASSUME TypeOK, VmStep
    PROVE  /\ gil' \in {"free", "vm", "front"} /\ thread' \in Threads /\ events' \in Seq(Events)
           /\ commands' \in Seq([cmd : Commands, seen : Nat])
           /\ pauses' \in Nat /\ late' \in BOOLEAN
<1>a. /\ thread \in Threads /\ Instr \in Instrs /\ Len(program) \in Nat \ {0}
      /\ thread.dbg \in [mode : Commands \cup {"off"}, depth : Nat, last : Nat]
      /\ gil \in {"free", "vm", "front"} /\ events \in Seq(Events)
      /\ commands \in Seq([cmd : Commands, seen : Nat]) /\ pauses \in Nat /\ late \in BOOLEAN
  BY InstrTyped DEF TypeOK, Threads
<1>b. \A cmd \in Commands : Wakes(cmd) \in Threads
  BY <1>a DEF Wakes, Threads
<1>1. CASE Attach
  BY <1>a, <1>1 DEF Attach, Threads
<1>2. CASE Yields
  BY <1>a, <1>2 DEF Yields, Threads
<1>3. CASE Instruction
  <2>1. PICK d \in {Moved(thread.dbg, Instr)} :
          IF Stops(d, Instr)
          THEN /\ pauses' = pauses + 1 /\ Emit(Paused(pauses + 1)) /\ gil' = "free"
               /\ thread' = [thread EXCEPT !.pc = "hook", !.dbg = d]
          ELSE /\ thread' = Next1([thread EXCEPT !.dbg = d]) /\ gil' = "vm"
               /\ UNCHANGED <<events, pauses>>
    BY <1>3 DEF Instruction
  <2>2. d \in [mode : Commands \cup {"off"}, depth : Nat, last : Nat]
    BY <1>a, MovedTyped
  <2>3. [thread EXCEPT !.pc = "hook", !.dbg = d] \in Threads /\ [thread EXCEPT !.dbg = d] \in Threads
    BY <1>a, <2>2 DEF Threads
  <2>4. CASE Stops(d, Instr)
    BY <1>3, <1>a, <2>1, <2>3, <2>4, EmitTyped, EventTypes DEF Instruction
  <2>5. CASE ~Stops(d, Instr)
    BY <1>3, <1>a, <2>1, <2>3, <2>5, NextTyped DEF Instruction
  <2> QED BY <2>4, <2>5
<1>4. CASE Fails
  BY <1>a, <1>4 DEF Fails, Threads
<1>5. CASE HookReceives
  <2>1. /\ Head(commands) \in [cmd : Commands, seen : Nat]
        /\ Tail(commands) \in Seq([cmd : Commands, seen : Nat])
    BY <1>5, <1>a, TailFacts DEF HookReceives
  <2> QED BY <1>5, <1>a, <1>b, <2>1 DEF HookReceives
<1>6. CASE HookClosed
  BY <1>6, <1>a, <1>b DEF HookClosed, Commands
<1>7. CASE HookTimesOut
  <2>1. thread.tries + 1 \in Nat
    BY <1>a DEF Threads
  <2>2. [thread EXCEPT !.tries = @ + 1] \in Threads
    BY <1>a, <2>1 DEF Threads
  <2>3. TimesOut \in Threads
    BY <1>b, <2>2 DEF TimesOut, Commands
  <2> QED BY <1>7, <1>a, <2>3 DEF HookTimesOut
<1>8. CASE Back
  <2>1. thread.answer \in Commands
    BY <1>a DEF Threads
  <2> DEFINE d == Answered(thread.dbg, Instr, thread.answer)
  <2>2. d \in [mode : Commands \cup {"off"}, depth : Nat, last : Nat]
    BY <1>a, <2>1, AnsweredTyped
  <2>3. thread' = Next1([thread EXCEPT !.dbg = d, !.answer = "continue"])
    BY <1>8 DEF Back
  <2> HIDE DEF d
  <2>4. [thread EXCEPT !.dbg = d, !.answer = "continue"] \in Threads
    BY <1>a, <2>2 DEF Threads, Commands
  <2> QED BY <1>8, <1>a, <2>3, <2>4, NextTyped DEF Back
<1>9. CASE End
  <2>1. thread.result \in {"finished", "error"}
    BY <1>a DEF Threads
  <2>2. events' \in Seq(Events)
    BY <1>9, <2>1, EmitTyped, EventTypes DEF End, EndsWith
  <2> QED BY <1>9, <1>a, <2>2 DEF End, Threads
<1> QED BY <1>1, <1>2, <1>3, <1>4, <1>5, <1>6, <1>7, <1>8, <1>9 DEF VmStep

Fronts == [kind : Frontends, got : Events \cup {None}, shown : Nat,
           pc : {"idle", "user", "waiting", "returning", "joining", "dropped",
                 "prompt", "repl", "report", "leaving", "done"}]

\* What a frontend leaves.  Only Start touches the thread, which it starts.
LEMMA FrontTyped ==
    ASSUME TypeOK, FrontStep \/ User
    PROVE  /\ gil' \in {"free", "vm", "front"} /\ front' \in Fronts /\ breaks' \subseteq Bytes
           /\ events' \in Seq(Events) /\ commands' \in Seq([cmd : Commands, seen : Nat])
           /\ ahead' \in BOOLEAN /\ UNCHANGED <<program, pauses, late>>
           /\ thread' = thread \/ (thread' = [thread EXCEPT !.pc = "attach"] /\ front.pc = "idle")
<1>a. /\ front \in Fronts /\ gil \in {"free", "vm", "front"} /\ breaks \subseteq Bytes
      /\ events \in Seq(Events) /\ commands \in Seq([cmd : Commands, seen : Nat]) /\ ahead \in BOOLEAN
  BY DEF TypeOK, Fronts
<1>b. \A pc \in {"user", "waiting", "joining", "dropped", "prompt", "repl", "leaving", "done"} :
         [front EXCEPT !.pc = pc] \in Fronts
  BY <1>a DEF Fronts
<1>c. ASSUME NEW cmd \in Commands, NEW pc \in {"user", "waiting"}, Send(cmd, pc)
      PROVE  front' \in Fronts /\ commands' \in Seq([cmd : Commands, seen : Nat])
  <2>1. front' \in Fronts
    BY <1>a, <1>c DEF Send, Fronts
  <2>2. [cmd |-> cmd, seen |-> front.shown] \in [cmd : Commands, seen : Nat]
    BY <1>a DEF Fronts
  <2> QED BY <1>a, <1>c, <2>1, <2>2, AppendFacts DEF Send
<1>1. CASE \E bytes \in SUBSET Bytes : Start(bytes)
  BY <1>1, <1>a, <1>b DEF Start, Goes
<1>2. CASE \E b \in Bytes : RuntimeBreak(b)
  BY <1>2, <1>a DEF RuntimeBreak, FrontSame
<1>3. CASE \E cmd \in Commands : SessionSend(cmd) \/ Prompt(cmd) \/ ReplResume(cmd)
  <2>1. CASE \E cmd \in Commands : SessionSend(cmd)
    BY <2>1, <1>a, <1>c DEF SessionSend, FrontSame
  <2>2. CASE \E cmd \in Commands : Prompt(cmd)
    BY <2>2, <1>a, <1>c DEF Prompt, FrontSame
  <2>3. CASE \E cmd \in Commands : ReplResume(cmd)
    BY <2>3, <1>a, <1>c DEF ReplResume, AfterRepl, FrontSame
  <2> QED BY <1>3, <2>1, <2>2, <2>3
<1>4. CASE Wait \/ Drop \/ EnterRepl \/ ReplExit \/ Joined \/ Leave \/ Report
  BY <1>4, <1>a, <1>b DEF Wait, Drop, EnterRepl, ReplExit, Joined, Leave, Report, Goes, GilInJoin, FrontSame
<1>5. CASE Quit
  BY <1>5, <1>a, <1>b DEF Quit, Goes, FrontSame
<1>6. CASE WaitEnds
  <2>1. events' \in Seq(Events) /\ (events # <<>> => Head(events) \in Events)
    BY <1>6, <1>a, TailFacts DEF WaitEnds
  <2>2. front' \in Fronts
    BY <1>6, <1>a, <2>1 DEF WaitEnds, Fronts
  <2> QED BY <1>6, <1>a, <2>1, <2>2 DEF WaitEnds, FrontSame
<1>7. CASE WaitReturns
  <2>1. front.got.kind = "paused" => front.got.no \in Nat
    BY <1>a DEF Fronts, Events, Final, None
  <2>2. front' \in Fronts
    BY <1>7, <1>a, <2>1 DEF WaitReturns, Fronts
  <2> QED BY <1>7, <1>a, <2>2 DEF WaitReturns, FrontSame
<1>8. CASE ConsoleReceives
  <2>1. events' \in Seq(Events) /\ Head(events) \in Events
    BY <1>8, <1>a, TailFacts DEF ConsoleReceives
  <2>2. Head(events).kind = "paused" => Head(events).no \in Nat
    BY <2>1 DEF Events, Final
  <2>3. front' \in Fronts
    BY <1>8, <1>a, <2>2 DEF ConsoleReceives, Fronts
  <2> QED BY <1>8, <1>a, <2>1, <2>3 DEF ConsoleReceives, FrontSame
<1> QED BY <1>1, <1>2, <1>3, <1>4, <1>5, <1>6, <1>7, <1>8 DEF FrontStep, User

\* Every variable keeps its type.
THEOREM TypeCorrect == Spec => []TypeOK
<1>1. Init => TypeOK
  <2> SUFFICES ASSUME Init PROVE TypeOK
    OBVIOUS
  <2>1. program \in Seq(Instrs) /\ program # <<>>
    BY ProgramsAssumption DEF Init
  <2>2. 1 \in 1 .. Len(program)
    BY <2>1
  <2>3. thread \in Threads
    BY <2>2 DEF Init, Threads, Commands, NoByte
  <2>4. front \in Fronts
    BY DEF Init, Fronts
  <2>5. events \in Seq(Events) /\ commands \in Seq([cmd : Commands, seen : Nat])
    BY DEF Init
  <2>6. /\ gil = "free" /\ program \in Programs /\ breaks = {} /\ pauses = 0
        /\ late = FALSE /\ ahead = FALSE
    BY DEF Init
  <2> QED BY <2>3, <2>4, <2>5, <2>6 DEF TypeOK, Fronts
<1>2. TypeOK /\ [Next]_vars => TypeOK'
  <2> SUFFICES ASSUME TypeOK, [Next]_vars PROVE TypeOK'
    OBVIOUS
  <2>b. ASSUME UNCHANGED program, thread' \in Threads
        PROVE  (thread \in Threads)'
    BY <2>b DEF Threads
  <2>1. CASE VmStep
    <3>1. UNCHANGED <<program, breaks, front, ahead>>
      BY <2>1 DEF VmStep, Attach, Yields, Instruction, Fails, HookReceives, HookClosed, HookTimesOut,
                  Back, End, VmSame
    <3>2. (thread \in Threads)'
      BY <2>1, <2>b, <3>1, VmTyped
    <3> QED BY <2>1, <3>1, <3>2, VmTyped DEF TypeOK
  <2>2. CASE FrontStep \/ User
    <3>1. thread' \in Threads
      BY <2>2, InstrTyped, FrontTyped DEF Threads
    <3>2. (thread \in Threads)'
      BY <2>2, <2>b, <3>1, FrontTyped
    <3>3. front' \in Fronts
      BY <2>2, FrontTyped
    <3> QED BY <2>2, <3>2, <3>3, FrontTyped DEF TypeOK, Fronts
  <2>3. CASE UNCHANGED vars
    BY <2>3 DEF vars, TypeOK, Threads
  <2> QED BY <2>1, <2>2, <2>3 DEF Next
<1> QED BY <1>1, <1>2, PTL DEF Spec

-----------------------------------------------------------------------------
(* Breakpoints outside of stepping.                                        *)

\* One instruction further, a visit of its byte is one that reaches it.
LEMMA VisitGrows ==
    ASSUME NEW n \in Nat, NEW p \in 1 .. n,
           \A q \in p .. n : program[q].byte = program[p].byte
    PROVE  /\ program[n].byte = program[p].byte
           /\ p # n => p \in 1 .. (n - 1) /\ \A q \in p .. (n - 1) : program[q].byte = program[p].byte
  OBVIOUS

LEMMA OneOfMany ==
    ASSUME NEW n \in Nat, NEW p \in 1 .. n
    PROVE  p \in Nat /\ p \in 1 .. p
  OBVIOUS

LEMMA Intervals ==
    ASSUME NEW n \in Nat
    PROVE  /\ (n + 1) - 1 = n
           /\ \A q \in n .. n : q = n
           /\ \A p \in 1 .. (n - 1) : p \in 1 .. n /\ \A q \in p .. n : q \in p .. (n - 1) \/ q = n
  OBVIOUS

\* What the thread finds one instruction further on, with `d` as its debug state.
LEMMA OnwardSteps ==
    ASSUME TypeOK, VisitInv, NEW d \in [mode : Commands \cup {"off"}, depth : Nat, last : Nat],
           thread' = Next1([thread EXCEPT !.dbg = d]) \/
             (\E a \in Commands : thread' = Next1([thread EXCEPT !.dbg = d, !.answer = a])),
           UNCHANGED <<program, breaks>>,
           d.last = NoByte \/ d.last = Instr.byte,
           d.last # NoByte => Instr.op # "leaves" \/ (Ahead /\ thread.dbg.last = Instr.byte),
           ~Stepping(d) /\ Instr.byte \in breaks /\ Instr.op # "leaves" => d.last = Instr.byte,
           d.last = Instr.byte \/ (Ahead /\ thread.dbg.last # Instr.byte /\ d.mode = thread.dbg.mode)
    PROVE  VisitInv'
<1>a. /\ thread \in Threads /\ Instr \in Instrs /\ Len(program) \in Nat \ {0}
      /\ thread.pos \in Nat /\ thread.pos \in 1 .. Len(program) /\ Instr = program[thread.pos]
      /\ thread.pos \in 1 .. thread.pos
  <2>1. /\ thread \in Threads /\ Instr \in Instrs /\ Len(program) \in Nat \ {0}
        /\ thread.pos \in 1 .. Len(program)
    BY InstrTyped
  <2>2. thread.pos \in Nat /\ thread.pos \in 1 .. thread.pos
    BY <2>1, OneOfMany
  <2> QED BY <2>1, <2>2 DEF Instr
<1>1. thread'.dbg = d /\ (thread'.pc = "end" \/ (thread'.pc = "run" /\ thread'.pos = thread.pos + 1))
  <2>1. /\ [thread EXCEPT !.dbg = d] \in Threads
        /\ [thread EXCEPT !.dbg = d].dbg = d /\ [thread EXCEPT !.dbg = d].pos = thread.pos
    BY <1>a DEF Threads
  <2>2. \A a \in Commands : /\ [thread EXCEPT !.dbg = d, !.answer = a] \in Threads
                           /\ [thread EXCEPT !.dbg = d, !.answer = a].dbg = d
                           /\ [thread EXCEPT !.dbg = d, !.answer = a].pos = thread.pos
    BY <1>a DEF Threads
  <2>3. CASE thread' = Next1([thread EXCEPT !.dbg = d])
    BY <1>a, <2>1, <2>3, NextTyped
  <2>4. CASE \E a \in Commands : thread' = Next1([thread EXCEPT !.dbg = d, !.answer = a])
    <3>1. PICK a \in Commands : thread' = Next1([thread EXCEPT !.dbg = d, !.answer = a])
      BY <2>4
    <3> DEFINE t == [thread EXCEPT !.dbg = d, !.answer = a]
    <3>2. t \in Threads /\ t.dbg = d /\ t.pos = thread.pos /\ thread' = Next1(t)
      BY <2>2, <3>1
    <3> HIDE DEF t
    <3> QED BY <1>a, <3>2, NextTyped
  <2> QED BY <2>3, <2>4
<1>2. CASE thread'.pc = "end"
  BY <1>2 DEF VisitInv, LastIsHere, VisitIsLast, Beginning, Ahead
<1>3. CASE thread'.pc = "run" /\ thread'.pos = thread.pos + 1
  <2>0. thread'.pos - 1 = thread.pos
    <3>1. PICK n \in Nat : n = thread.pos
      BY <1>a
    <3>2. thread'.pos = n + 1
      BY <1>3, <3>1
    <3> QED BY <3>1, <3>2, Intervals
  <2>1. Beginning'
    BY <1>3 DEF Beginning
  <2>2. ASSUME d.last # NoByte
        PROVE  \E p \in 1 .. thread.pos :
                  /\ program[p].op # "leaves" /\ program[p].byte = d.last
                  /\ \A q \in p .. thread.pos : program[q].byte = program[p].byte
    <3>1. CASE Instr.op # "leaves"
      <4>1. \A q \in thread.pos .. thread.pos : q = thread.pos
        BY <1>a, Intervals
      <4> QED BY <1>a, <2>2, <3>1, <4>1
    <3>2. CASE Ahead /\ thread.dbg.last = Instr.byte
      <4>1. PICK p \in 1 .. (thread.pos - 1) :
               program[p].op # "leaves" /\ program[p].byte = thread.dbg.last /\ Visit(p)
        BY <1>a, <3>2 DEF VisitInv, LastIsHere, Instrs
      <4>2. p \in 1 .. thread.pos
        BY <1>a, Intervals
      <4>3. \A q \in p .. thread.pos : q \in p .. (thread.pos - 1) \/ q = thread.pos
        BY <1>a, Intervals
      <4> QED BY <1>a, <2>2, <3>2, <4>1, <4>2, <4>3 DEF Visit
    <3> QED BY <2>2, <3>1, <3>2
  <2>3. ASSUME ~Stepping(d), NEW p \in 1 .. thread.pos, program[p].op # "leaves", program[p].byte \in breaks,
               \A q \in p .. thread.pos : program[q].byte = program[p].byte
        PROVE  d.last = program[p].byte
    <3>1. program[p].byte = Instr.byte
      BY <1>a, <2>3, VisitGrows
    <3>2. CASE p = thread.pos
      BY <1>a, <2>3, <3>2
    <3>3. CASE p # thread.pos /\ d.last # Instr.byte
      <4>1. p \in 1 .. (thread.pos - 1) /\ Visit(p)
        BY <1>a, <2>3, <3>3, VisitGrows DEF Visit
      <4>2. Ahead /\ ~Stepping(thread.dbg) /\ thread.dbg.last # Instr.byte
        BY <2>3, <3>3 DEF Stepping
      <4> QED BY <2>3, <3>1, <4>1, <4>2 DEF VisitInv, VisitIsLast
    <3> QED BY <3>1, <3>2, <3>3
  <2>4. LastIsHere'
    BY <1>1, <2>0, <2>2 DEF LastIsHere, Visit
  <2>5. VisitIsLast'
    BY <1>1, <2>0, <2>3 DEF VisitIsLast, Visit
  <2> QED BY <2>1, <2>4, <2>5 DEF VisitInv
<1> QED BY <1>1, <1>2, <1>3

LEMMA NoVisitYet ==
    \A p : p \notin 1 .. (1 - 1)
  OBVIOUS

LEMMA VisitStep ==
    ASSUME TypeOK, NotStarted, VisitInv, Next
    PROVE  VisitInv'
<1>a. /\ thread \in Threads /\ Instr \in Instrs /\ Len(program) \in Nat \ {0}
      /\ thread.dbg \in [mode : Commands \cup {"off"}, depth : Nat, last : Nat]
  BY InstrTyped DEF Threads
<1>1. CASE Instruction
  <2> DEFINE d == Moved(thread.dbg, Instr)
  <2>1. /\ d \in [mode : Commands \cup {"off"}, depth : Nat, last : Nat] /\ d.mode = thread.dbg.mode
        /\ d.last = IF thread.dbg.last = Instr.byte THEN Instr.byte ELSE NoByte
    BY <1>a, MovedTyped
  <2>2. Ahead /\ UNCHANGED <<program, breaks>> /\ Instr.byte # NoByte
    BY <1>1, <1>a DEF Instruction, Runs, Ahead, VmSame, Instrs
  <2>3. CASE Stops(d, Instr)
    <3>1. thread' = [thread EXCEPT !.pc = "hook", !.dbg = d]
      BY <1>1, <2>3 DEF Instruction
    <3>2. thread'.pc = "hook" /\ Instr' = Instr
      BY <1>a, <2>2, <3>1 DEF Instr, Threads
    <3>3. Instr.op # "leaves"
      BY <2>3 DEF Stops
    <3> QED BY <3>2, <3>3 DEF VisitInv, LastIsHere, VisitIsLast, Beginning, Ahead
  <2>4. CASE ~Stops(d, Instr)
    <3>1. thread' = Next1([thread EXCEPT !.dbg = d])
      BY <1>1, <2>4 DEF Instruction
    <3>2. ~Stepping(d) /\ Instr.byte \in breaks /\ Instr.op # "leaves" => d.last = Instr.byte
      BY <1>a, <2>4 DEF Stops, Instrs
    <3> HIDE DEF d
    <3> QED BY <2>1, <2>2, <3>1, <3>2, OnwardSteps
  <2> QED BY <2>3, <2>4
<1>2. CASE Back
  <2> DEFINE d == Answered(thread.dbg, Instr, thread.answer)
  <2>1. d \in [mode : Commands \cup {"off"}, depth : Nat, last : Nat] /\ d.last = Instr.byte
    BY <1>a, AnsweredTyped DEF Threads
  <2>2. thread' = Next1([thread EXCEPT !.dbg = d, !.answer = "continue"]) /\ "continue" \in Commands
    BY <1>2 DEF Back, Commands
  <2>3. UNCHANGED <<program, breaks>> /\ Instr.op # "leaves"
    BY <1>2 DEF Back, VmSame, VisitInv, Beginning
  <2> HIDE DEF d
  <2> QED BY <2>1, <2>2, <2>3, OnwardSteps
<1>3. CASE Attach \/ Yields
  <2>1. UNCHANGED <<program, breaks>> /\ Ahead /\ thread'.pc \in {"run", "ready"}
    BY <1>3, <1>a DEF Attach, Yields, VmSame, Ahead, Threads
  <2>2. thread'.pos = thread.pos /\ thread'.dbg = thread.dbg
    BY <1>3, <1>a DEF Attach, Yields, Threads
  <2> QED BY <2>1, <2>2 DEF VisitInv, LastIsHere, VisitIsLast, Beginning, Ahead, Visit
<1>4. CASE HookReceives \/ HookClosed \/ HookTimesOut
  <2>1. thread'.pc \in {"hook", "back"} /\ thread'.pos = thread.pos /\ thread.pc = "hook" /\ program' = program
    BY <1>4, <1>a DEF HookReceives, HookClosed, HookTimesOut, TimesOut, Wakes, VmSame, Threads
  <2> QED BY <2>1 DEF VisitInv, LastIsHere, VisitIsLast, Beginning, Ahead, Instr
<1>5. CASE Fails \/ End
  <2>1. thread'.pc \in {"end", "gone"}
    BY <1>5, <1>a DEF Fails, End, Threads
  <2> QED BY <2>1 DEF VisitInv, LastIsHere, VisitIsLast, Beginning, Ahead
<1>6. CASE FrontStep \/ User
  <2>1. program' = program /\ (thread' = thread \/ (thread' = [thread EXCEPT !.pc = "attach"] /\ front.pc = "idle"))
    BY <1>6, FrontTyped
  <2>2. CASE breaks' = breaks /\ thread' = thread
    BY <2>1, <2>2 DEF VisitInv, LastIsHere, VisitIsLast, Beginning, Ahead, Visit, Instr
  <2>3. CASE breaks' # breaks \/ thread' # thread
    <3>1. (\E bytes \in SUBSET Bytes : Start(bytes)) \/ ((\E b \in Bytes : RuntimeBreak(b)) /\ thread' = thread)
      BY <1>6, <2>3 DEF FrontStep, User, SessionSend, Prompt, ReplResume, Wait, Drop, EnterRepl, ReplExit,
                        Quit, WaitEnds, WaitReturns, Joined, ConsoleReceives, Report, Leave, FrontSame,
                        Start, RuntimeBreak
    <3>2. CASE (\E b \in Bytes : RuntimeBreak(b)) /\ thread' = thread
      <4>1. thread.pc \in {"none", "attach", "end", "gone"}
        BY <3>2, <1>a DEF RuntimeBreak, Borrowed, Threads
      <4> QED BY <2>1, <3>2, <4>1, NoVisitYet DEF VisitInv, LastIsHere, VisitIsLast, Beginning, Ahead, Visit
    <3>3. CASE \E bytes \in SUBSET Bytes : Start(bytes)
      <4>1. thread' = [thread EXCEPT !.pc = "attach"] /\ thread.pc = "none"
        BY <3>3 DEF Start, NotStarted
      <4>2. thread'.pos = 1 /\ thread'.dbg.last = NoByte /\ thread'.pc = "attach"
        BY <4>1, <1>a DEF VisitInv, Beginning, Threads
      <4> QED BY <4>1, <4>2, NoVisitYet DEF VisitInv, LastIsHere, VisitIsLast, Beginning, Ahead, Visit
    <3> QED BY <3>1, <3>2, <3>3
  <2> QED BY <2>2, <2>3
<1> QED BY <1>1, <1>2, <1>3, <1>4, <1>5, <1>6 DEF Next, VmStep

LEMMA NotStartedStep ==
    ASSUME TypeOK, NotStarted, Next
    PROVE  NotStarted'
<1>1. CASE VmStep
  <2>1. front' = front /\ thread.pc # "none"
    BY <1>1 DEF VmStep, Attach, Yields, Instruction, Fails, HookReceives, HookClosed, HookTimesOut,
                Back, End, VmSame, Runs
  <2> QED BY <2>1 DEF NotStarted
<1>2. CASE FrontStep \/ User
  <2>1. CASE front'.pc # "idle"
    BY <2>1 DEF NotStarted
  <2>2. CASE front'.pc = "idle"
    <3>1. front.pc = "idle" /\ ~\E bytes \in SUBSET Bytes : Start(bytes)
      <4>1. front \in Fronts
        BY DEF TypeOK, Fronts
      <4> QED BY <1>2, <2>2, <4>1
              DEF FrontStep, User, SessionSend, Prompt, ReplResume, Wait, Drop, EnterRepl, ReplExit,
                  Quit, WaitEnds, WaitReturns, Joined, ConsoleReceives, Report, Leave, Start,
                  RuntimeBreak, Goes, Send, AfterRepl, Fronts
    <3>2. thread' = thread
      BY <1>2, <3>1 DEF FrontStep, User, SessionSend, Prompt, ReplResume, Wait, Drop, EnterRepl, ReplExit,
                        Quit, WaitEnds, WaitReturns, Joined, ConsoleReceives, Report, Leave, FrontSame,
                        RuntimeBreak
    <3> QED BY <3>1, <3>2 DEF NotStarted
  <2> QED BY <2>1, <2>2
<1> QED BY <1>1, <1>2 DEF Next

\* The inductive invariant behind EveryVisitPauses.
THEOREM VisitCorrect == Spec => [](NotStarted /\ VisitInv)
<1>1. Init => NotStarted /\ VisitInv
  <2> SUFFICES ASSUME Init PROVE NotStarted /\ VisitInv
    OBVIOUS
  <2>1. thread.pc = "none" /\ thread.pos = 1 /\ thread.dbg.last = NoByte
    BY DEF Init
  <2> QED BY <2>1, NoVisitYet DEF NotStarted, VisitInv, LastIsHere, VisitIsLast, Beginning
<1>2. TypeOK /\ NotStarted /\ VisitInv /\ [Next]_vars => (NotStarted /\ VisitInv)'
  <2> SUFFICES ASSUME TypeOK, NotStarted, VisitInv, [Next]_vars PROVE (NotStarted /\ VisitInv)'
    OBVIOUS
  <2>1. CASE Next
    BY <2>1, NotStartedStep, VisitStep
  <2>2. CASE UNCHANGED vars
    BY <2>2 DEF vars, NotStarted, VisitInv, LastIsHere, VisitIsLast, Beginning, Ahead, Visit, Instr
  <2> QED BY <2>1, <2>2
<1> QED BY <1>1, <1>2, TypeCorrect, PTL DEF Spec

\* Outside of stepping, a breakpoint pauses whenever the program comes to its byte, and once.
THEOREM VisitsCorrect == Spec => EveryVisitPauses
<1> DEFINE Once == Instruction /\ Instr.op = "plain" /\ ~Stepping(thread.dbg) =>
                      (pauses' # pauses <=> Instr.byte \in breaks /\ Fresh)
<1>1. TypeOK /\ VisitInv => Once
  <2> SUFFICES ASSUME TypeOK, VisitInv, Instruction, Instr.op = "plain", ~Stepping(thread.dbg)
               PROVE  pauses' # pauses <=> Instr.byte \in breaks /\ Fresh
    OBVIOUS
  <2>a. /\ Instr \in Instrs /\ Instr = program[thread.pos] /\ Instr.byte # NoByte /\ pauses \in Nat
        /\ thread.dbg \in [mode : Commands \cup {"off"}, depth : Nat, last : Nat]
        /\ thread.pos \in Nat
    <3>1. /\ thread.pos \in 1 .. Len(program) /\ Len(program) \in Nat /\ Instr \in Instrs
          /\ thread \in Threads
      BY InstrTyped
    <3>2. thread.pos \in Nat
      BY <3>1, OneOfMany
    <3> QED BY <3>1, <3>2 DEF Instr, Instrs, Threads, TypeOK
  <2>b. Ahead
    BY DEF Instruction, Runs, Ahead
  <2> DEFINE d == Moved(thread.dbg, Instr)
  <2>1. /\ d.mode = thread.dbg.mode
        /\ d.last = IF thread.dbg.last = Instr.byte THEN Instr.byte ELSE NoByte
    BY <2>a, MovedTyped
  <2>2. Stops(d, Instr) <=> thread.dbg.last # Instr.byte /\ Instr.byte \in breaks
    BY <2>a, <2>1 DEF Stops, Stepping
  <2>3. pauses' # pauses <=> Stops(d, Instr)
    <3> HIDE DEF d
    <3>1. IF Stops(d, Instr) THEN pauses' = pauses + 1 ELSE pauses' = pauses
      BY DEF Instruction, d
    <3> QED BY <2>a, <3>1
  <2>4. ASSUME Fresh PROVE thread.dbg.last # Instr.byte
    <3> SUFFICES ASSUME thread.dbg.last = Instr.byte PROVE FALSE
      OBVIOUS
    <3>1. PICK p \in 1 .. (thread.pos - 1) :
            program[p].op # "leaves" /\ program[p].byte = thread.dbg.last /\ Visit(p)
      BY <2>a, <2>b DEF VisitInv, LastIsHere
    <3> QED BY <2>4, <3>1 DEF Fresh, Visit
  <2>5. ASSUME ~Fresh, Instr.byte \in breaks PROVE thread.dbg.last = Instr.byte
    <3>1. PICK p \in 1 .. (thread.pos - 1) :
            (\A q \in p .. (thread.pos - 1) : program[q].byte = Instr.byte) /\ program[p].op # "leaves"
      BY <2>5 DEF Fresh
    <3>2. p \in p .. (thread.pos - 1)
      BY <2>a
    <3>3. program[p].byte = Instr.byte /\ Visit(p)
      BY <3>1, <3>2 DEF Visit
    <3> QED BY <2>b, <2>5, <3>1, <3>3 DEF VisitInv, VisitIsLast
  <2> QED BY <2>2, <2>3, <2>4, <2>5
<1>2. TypeOK /\ VisitInv => [Once]_vars
  BY <1>1
<1> QED BY <1>2, TypeCorrect, VisitCorrect, PTL DEF EveryVisitPauses

-----------------------------------------------------------------------------
(* Commands and pauses.                                                    *)

\* The steps of the VM thread, by what they do to the channels.
LEMMA VmSteps ==
    ASSUME TypeOK, VmStep
    PROVE  /\ front' = front /\ ahead' = ahead /\ (late => late')
           /\ \/ UNCHANGED <<events, commands, pauses>> /\ (thread.pc = "hook" => thread'.pc = "hook")
              \/ UNCHANGED <<events, commands, pauses>> /\ commands = <<>> /\ ~Sender
              \/ late'
              \/ /\ thread.pc # "hook" /\ thread'.pc = "hook" /\ pauses' = pauses + 1
                 /\ Emit(Paused(pauses + 1)) /\ commands' = commands
              \/ /\ thread.pc = "hook" /\ commands # <<>> /\ commands' = Tail(commands)
                 /\ UNCHANGED <<events, pauses>>
              \/ /\ thread.pc # "hook" /\ Emit(Final(thread.result)) /\ UNCHANGED <<commands, pauses>>
<1>a. thread \in Threads /\ thread' \in Threads
  BY InstrTyped, VmTyped
<1>1. front' = front /\ ahead' = ahead
  BY DEF VmStep, Attach, Yields, Instruction, Fails, HookReceives, HookClosed, HookTimesOut, Back, End, VmSame
<1>2. late => late'
  BY DEF VmStep, Attach, Yields, Instruction, Fails, HookReceives, HookClosed, HookTimesOut, Back, End
<1>3. CASE Attach \/ Yields \/ Fails \/ Back
  BY <1>1, <1>2, <1>3 DEF Attach, Yields, Fails, Back, Runs
<1>4. CASE Instruction
  <2> DEFINE d == Moved(thread.dbg, Instr)
  <2>1. thread.pc # "hook" /\ commands' = commands
    BY <1>4 DEF Instruction, Runs
  <2>2. CASE Stops(d, Instr)
    <3>1. /\ thread' = [thread EXCEPT !.pc = "hook", !.dbg = d]
          /\ pauses' = pauses + 1 /\ Emit(Paused(pauses + 1))
      BY <1>4, <2>2 DEF Instruction
    <3>2. thread'.pc = "hook"
      BY <1>a, <3>1 DEF Threads
    <3> QED BY <1>1, <1>2, <2>1, <3>1, <3>2
  <2>3. CASE ~Stops(d, Instr)
    <3>1. UNCHANGED <<events, pauses>>
      BY <1>4, <2>3 DEF Instruction
    <3> QED BY <1>1, <1>2, <2>1, <3>1
  <2> QED BY <2>2, <2>3
<1>5. CASE HookReceives
  BY <1>1, <1>2, <1>5 DEF HookReceives
<1>6. CASE HookClosed
  BY <1>1, <1>2, <1>6 DEF HookClosed
<1>7. CASE HookTimesOut
  <2>1. thread' = [thread EXCEPT !.tries = @ + 1] \/ thread'.pc = "back"
    BY <1>7, <1>a DEF HookTimesOut, TimesOut, Wakes, Threads
  <2>2. [thread EXCEPT !.tries = @ + 1].pc = thread.pc
    BY <1>a DEF Threads
  <2> QED BY <1>1, <1>2, <1>7, <2>1, <2>2 DEF HookTimesOut
<1>8. CASE End
  BY <1>1, <1>2, <1>8 DEF End, EndsWith
<1> QED BY <1>3, <1>4, <1>5, <1>6, <1>7, <1>8 DEF VmStep

\* The steps of the frontend, by what they do to the events, the commands and the pause shown.
LEMMA FrontSteps ==
    ASSUME TypeOK, PromptShows, FrontStep \/ User
    PROVE  /\ pauses' = pauses /\ late' = late /\ (ahead => ahead')
           /\ Sender' => Sender
           /\ \/ UNCHANGED <<events, commands>> /\ front'.got = front.got /\ front'.shown = front.shown
              \/ /\ \E cmd \in Commands : commands' = Append(commands, [cmd |-> cmd, seen |-> front.shown])
                 /\ Sender /\ events' = events /\ front'.got = front.got /\ front'.shown = 0
                 /\ front.shown # 0 \/ ahead'
              \/ /\ front'.shown = front.shown /\ commands' = commands
                 /\ \/ events = <<>> /\ events' = events /\ front'.got = None
                    \/ events # <<>> /\ events' = Tail(events) /\ front'.got = Head(events)
              \/ /\ UNCHANGED <<events, commands>> /\ front'.got = None
                 /\ front'.shown = IF front.got.kind = "paused" THEN front.got.no ELSE front.shown
              \/ /\ events # <<>> /\ events' = Tail(events) /\ commands' = commands /\ front'.got = front.got
                 /\ front'.shown = IF Head(events).kind = "paused" THEN Head(events).no ELSE front.shown
<1>a. front \in Fronts /\ front' \in Fronts /\ pauses' = pauses /\ late' = late
  BY FrontTyped DEF TypeOK, Fronts
<1>1. CASE \E bytes \in SUBSET Bytes : Start(bytes)
  BY <1>1, <1>a DEF Start, Goes, Sender, Fronts
<1>2. CASE \E b \in Bytes : RuntimeBreak(b)
  BY <1>2, <1>a DEF RuntimeBreak, FrontSame, Sender
<1>3. CASE \E cmd \in Commands : SessionSend(cmd) \/ Prompt(cmd) \/ ReplResume(cmd)
  <2>1. PICK cmd \in Commands : SessionSend(cmd) \/ Prompt(cmd) \/ ReplResume(cmd)
    BY <1>3
  <2>2. /\ commands' = Append(commands, [cmd |-> cmd, seen |-> front.shown])
        /\ events' = events /\ front'.got = front.got /\ front'.shown = 0
        /\ front'.pc \in {"user", "waiting"} /\ front.pc \in {"user", "prompt", "repl"}
    BY <2>1, <1>a DEF SessionSend, Prompt, ReplResume, Send, AfterRepl, Fronts
  <2>3. front.shown # 0 \/ ahead'
    BY <2>1 DEF SessionSend, Prompt, ReplResume, PromptShows
  <2>4. ahead => ahead'
    BY <2>1 DEF SessionSend, Prompt, ReplResume
  <2> QED BY <1>a, <2>2, <2>3, <2>4 DEF Sender
<1>4. CASE Wait \/ Drop \/ EnterRepl \/ ReplExit \/ Joined \/ Leave \/ Report \/ Quit
  <2>1. UNCHANGED <<events, commands, ahead>> /\ \E pc : Goes(pc)
    BY <1>4 DEF Wait, Drop, EnterRepl, ReplExit, Joined, Leave, Report, Quit
  <2>2. front'.got = front.got /\ front'.shown = front.shown
    BY <2>1, <1>a DEF Goes, Fronts
  <2>3. Sender' => Sender
    BY <1>4, <1>a DEF Wait, Drop, EnterRepl, ReplExit, Joined, Leave, Report, Quit, Goes, Sender, Fronts
  <2> QED BY <1>a, <2>1, <2>2, <2>3
<1>5. CASE WaitEnds
  <2>1. /\ front'.pc = "returning" /\ front'.shown = front.shown
        /\ front'.got = IF events = <<>> THEN None ELSE Head(events)
    BY <1>5, <1>a DEF WaitEnds, Fronts
  <2> QED BY <1>5, <1>a, <2>1 DEF WaitEnds, Sender
<1>6. CASE WaitReturns
  <2>1. /\ front'.pc = "user" /\ front'.got = None
        /\ front'.shown = IF front.got.kind = "paused" THEN front.got.no ELSE front.shown
    BY <1>6, <1>a DEF WaitReturns, Fronts
  <2> QED BY <1>6, <1>a, <2>1 DEF WaitReturns, Sender
<1>7. CASE ConsoleReceives
  <2>1. /\ front'.got = front.got
        /\ front'.shown = IF Head(events).kind = "paused" THEN Head(events).no ELSE front.shown
    BY <1>7, <1>a DEF ConsoleReceives, Fronts
  <2> QED BY <1>7, <1>a, <2>1 DEF ConsoleReceives, Sender
<1> QED BY <1>1, <1>2, <1>3, <1>4, <1>5, <1>6, <1>7 DEF FrontStep, User

LEMMA PromptShowsStep ==
    ASSUME TypeOK, PromptShows, Next
    PROVE  PromptShows'
<1>a. front \in Fronts
  BY DEF TypeOK, Fronts
<1>1. CASE VmStep
  BY <1>1, VmSteps DEF PromptShows
<1>2. CASE ConsoleReceives
  <2>1. Head(events) \in Events
    BY <1>2, TailFacts DEF ConsoleReceives, TypeOK
  <2>2. Head(events).kind = "paused" => Head(events).no # 0
    BY <2>1 DEF Events, Final
  <2> QED BY <1>2, <1>a, <2>2 DEF ConsoleReceives, PromptShows, Fronts
<1>3. CASE (FrontStep \/ User) /\ ~ConsoleReceives
  <2> SUFFICES ASSUME front'.pc \in {"prompt", "repl"} PROVE front'.shown # 0
    BY DEF PromptShows
  <2>1. front' = front \/ (front.pc \in {"prompt", "repl"} /\ \E pc : Goes(pc))
    BY <1>3, <1>a DEF FrontStep, User, SessionSend, Prompt, ReplResume, Wait, Drop, EnterRepl, ReplExit,
                      Quit, WaitEnds, WaitReturns, Joined, Report, Leave, Start,
                      RuntimeBreak, Goes, Send, AfterRepl, Fronts
  <2> QED BY <2>1, <1>a DEF PromptShows, Goes, Fronts
<1> QED BY <1>1, <1>2, <1>3 DEF Next

\* An event that is put into the channel, or taken out of it.
LEMMA EmitFacts ==
    ASSUME TypeOK, NEW e \in Events, Emit(e)
    PROVE  \/ events' = events
           \/ /\ \A i \in DOMAIN events' : i \in DOMAIN events \/ i = Len(events) + 1
              /\ \A i \in DOMAIN events : i \in DOMAIN events' /\ events'[i] = events[i]
              /\ events'[Len(events) + 1] = e /\ Len(events) + 1 \notin DOMAIN events
<1>1. CASE Receiver
  <2>1. events \in Seq(Events) /\ events' = Append(events, e)
    BY <1>1 DEF Emit, TypeOK
  <2> QED BY <2>1, AppendFacts
<1>2. CASE ~Receiver
  BY <1>2 DEF Emit
<1> QED BY <1>1, <1>2

LEMMA TakenFacts ==
    ASSUME TypeOK, events # <<>>, events' = Tail(events)
    PROVE  /\ \A i \in DOMAIN events' : i + 1 \in DOMAIN events /\ events'[i] = events[i + 1] /\ i + 1 # 1
           /\ 1 \in DOMAIN events /\ Head(events) = events[1]
           /\ \A i, j \in DOMAIN events' : i + 1 = j + 1 => i = j
  BY TailFacts DEF TypeOK

LEMMA VmTurn ==
    ASSUME TypeOK, TurnInv, VmStep
    PROVE  TurnInv'
<1> SUFFICES ASSUME ~late', ~ahead'
             PROVE  (Sender => EventsTurn /\ OneEvent /\ GotTurn /\ ShownTurn)' /\ CommandsTurn'
  BY DEF TurnInv
<1>a. front' = front /\ ~late /\ ~ahead /\ Sender' = Sender /\ Receiver' = Receiver
  BY VmSteps DEF Sender, Receiver
<1>b. (Sender => EventsTurn /\ OneEvent /\ GotTurn /\ ShownTurn) /\ CommandsTurn
  BY <1>a DEF TurnInv
<1>1. CASE UNCHANGED <<events, commands, pauses>> /\ (thread.pc = "hook" => thread'.pc = "hook")
  BY <1>1, <1>a, <1>b DEF EventsTurn, OneEvent, GotTurn, ShownTurn, CommandsTurn, InEvents, PausedAt
<1>2. CASE UNCHANGED <<events, commands, pauses>> /\ commands = <<>> /\ ~Sender
  BY <1>2, <1>a DEF CommandsTurn
<1>3. CASE /\ thread.pc # "hook" /\ thread'.pc = "hook" /\ pauses' = pauses + 1
           /\ Emit(Paused(pauses + 1)) /\ commands' = commands
  <2>1. commands' = <<>>
    BY <1>3, <1>b DEF CommandsTurn
  <2>2. CASE ~Sender
    BY <1>a, <2>1, <2>2 DEF CommandsTurn
  <2>3. CASE Sender
    <3>1. /\ \A i \in DOMAIN events : ~PausedAt(i)
          /\ front.got.kind # "paused" /\ front.shown = 0
      BY <1>b, <1>3, <2>3 DEF EventsTurn, GotTurn, ShownTurn
    <3>2. Paused(pauses + 1) \in Events /\ Paused(pauses + 1).no = pauses + 1
      <4>1. pauses \in Nat /\ pauses + 1 \in Nat
        BY DEF TypeOK
      <4> QED BY <4>1, EventTypes
    <3>3. \A i \in DOMAIN events' : PausedAt(i)' => i = Len(events) + 1 /\ events'[i].no = pauses'
      BY <1>3, <3>1, <3>2, EmitFacts DEF PausedAt
    <3> QED BY <1>a, <1>3, <2>1, <3>1, <3>3 DEF EventsTurn, OneEvent, GotTurn, ShownTurn, CommandsTurn
  <2> QED BY <2>2, <2>3
<1>4. CASE /\ thread.pc = "hook" /\ commands # <<>> /\ commands' = Tail(commands)
           /\ UNCHANGED <<events, pauses>>
  <2>1. commands' = <<>>
    <3>1. Len(commands) = 1 /\ commands \in Seq([cmd : Commands, seen : Nat])
      BY <1>4, <1>b DEF CommandsTurn, TypeOK
    <3> QED BY <1>4, <3>1, TailOfOne, LengthZero
  <2>2. Sender => ~InEvents /\ front.got.kind # "paused" /\ front.shown = 0
    BY <1>4, <1>b DEF CommandsTurn
  <2> QED BY <1>a, <1>4, <2>1, <2>2
          DEF EventsTurn, OneEvent, GotTurn, ShownTurn, CommandsTurn, InEvents, PausedAt
<1>5. CASE thread.pc # "hook" /\ Emit(Final(thread.result)) /\ UNCHANGED <<commands, pauses>>
  <2>1. commands' = <<>>
    BY <1>5, <1>b DEF CommandsTurn
  <2>2. CASE ~Sender
    BY <1>a, <2>1, <2>2 DEF CommandsTurn
  <2>3. CASE Sender
    <3>1. /\ \A i \in DOMAIN events : ~PausedAt(i)
          /\ front.got.kind # "paused" /\ front.shown = 0
      BY <1>b, <1>5, <2>3 DEF EventsTurn, GotTurn, ShownTurn
    <3>2. Final(thread.result) \in Events /\ Final(thread.result).kind # "paused"
      BY InstrTyped, EventTypes DEF Threads
    <3>3. \A i \in DOMAIN events' : ~PausedAt(i)'
      BY <1>5, <3>1, <3>2, EmitFacts DEF PausedAt
    <3> QED BY <1>a, <2>1, <3>1, <3>3 DEF EventsTurn, OneEvent, GotTurn, ShownTurn, CommandsTurn
  <2> QED BY <2>2, <2>3
<1> QED BY <1>1, <1>2, <1>3, <1>4, <1>5, VmSteps

LEMMA FrontTurn ==
    ASSUME TypeOK, NotStarted, PromptShows, TurnInv, FrontStep \/ User
    PROVE  TurnInv'
<1> SUFFICES ASSUME ~late', ~ahead'
             PROVE  (Sender => EventsTurn /\ OneEvent /\ GotTurn /\ ShownTurn)' /\ CommandsTurn'
  BY DEF TurnInv
<1>a. ~late /\ ~ahead /\ (Sender' => Sender) /\ pauses' = pauses
  BY FrontSteps
<1>b. (Sender => EventsTurn /\ OneEvent /\ GotTurn /\ ShownTurn) /\ CommandsTurn
  BY <1>a DEF TurnInv
<1>c. thread'.pc = thread.pc \/ (thread.pc # "hook" /\ thread'.pc # "hook")
  <2>1. thread \in Threads
    BY InstrTyped
  <2> QED BY <2>1, FrontTyped DEF NotStarted, Threads
<1>1. CASE UNCHANGED <<events, commands>> /\ front'.got = front.got /\ front'.shown = front.shown
  BY <1>1, <1>a, <1>b, <1>c DEF EventsTurn, OneEvent, GotTurn, ShownTurn, CommandsTurn, InEvents, PausedAt
<1>2. CASE /\ \E cmd \in Commands : commands' = Append(commands, [cmd |-> cmd, seen |-> front.shown])
           /\ Sender /\ events' = events /\ front'.got = front.got /\ front'.shown = 0
           /\ front.shown # 0 \/ ahead'
  <2>1. /\ front.shown = pauses /\ front.shown # 0 /\ thread.pc = "hook" /\ commands = <<>>
        /\ ~InEvents /\ front.got.kind # "paused"
    BY <1>2, <1>b DEF ShownTurn, CommandsTurn
  <2>2. PICK cmd \in Commands : commands' = Append(commands, [cmd |-> cmd, seen |-> front.shown])
    BY <1>2
  <2>3. Len(commands') = 1 /\ commands'[1].seen = pauses
    BY <2>1, <2>2
  <2> QED BY <1>2, <1>a, <1>c, <2>1, <2>3
          DEF EventsTurn, OneEvent, GotTurn, ShownTurn, CommandsTurn, InEvents, PausedAt
<1>3. CASE /\ front'.shown = front.shown /\ commands' = commands
           /\ events = <<>> /\ events' = events /\ front'.got = None
  <2>1. None.kind # "paused"
    BY DEF None
  <2> QED BY <1>3, <1>a, <1>b, <1>c, <2>1
          DEF EventsTurn, OneEvent, GotTurn, ShownTurn, CommandsTurn, InEvents, PausedAt
<1>4. CASE /\ front'.shown = front.shown /\ commands' = commands
           /\ events # <<>> /\ events' = Tail(events) /\ front'.got = Head(events)
  <2>1. /\ \A i \in DOMAIN events' : i + 1 \in DOMAIN events /\ events'[i] = events[i + 1] /\ i + 1 # 1
        /\ 1 \in DOMAIN events /\ Head(events) = events[1]
        /\ \A i, j \in DOMAIN events' : i + 1 = j + 1 => i = j
    BY <1>4, TakenFacts
  <2>2. front'.got.kind = "paused" <=> PausedAt(1)
    BY <1>4, <2>1 DEF PausedAt
  <2>3. \A i \in DOMAIN events' : PausedAt(i)' => PausedAt(i + 1)
    BY <2>1 DEF PausedAt
  <2>4. InEvents' => InEvents
    BY <2>1, <2>3 DEF InEvents
  <2>5. CASE ~Sender
    BY <1>4, <1>a, <1>b, <1>c, <2>5 DEF CommandsTurn
  <2>6. CASE Sender
    <3>1. EventsTurn' /\ OneEvent'
      BY <1>a, <1>b, <1>c, <2>1, <2>3, <2>6 DEF EventsTurn, OneEvent, PausedAt
    <3>2. GotTurn'
      <4>1. PausedAt(1) => ~InEvents'
        BY <1>b, <2>1, <2>3, <2>6 DEF OneEvent, InEvents
      <4> QED BY <1>4, <1>a, <1>b, <1>c, <2>1, <2>2, <2>6, <4>1 DEF GotTurn, EventsTurn
    <3>3. ShownTurn'
      BY <1>4, <1>a, <1>b, <1>c, <2>1, <2>2, <2>4, <2>6 DEF ShownTurn, InEvents
    <3>4. CommandsTurn'
      BY <1>4, <1>a, <1>b, <1>c, <2>1, <2>2, <2>4, <2>6 DEF CommandsTurn, InEvents
    <3> QED BY <3>1, <3>2, <3>3, <3>4
  <2> QED BY <2>5, <2>6
<1>5. CASE /\ UNCHANGED <<events, commands>> /\ front'.got = None
           /\ front'.shown = IF front.got.kind = "paused" THEN front.got.no ELSE front.shown
  <2>1. None.kind # "paused"
    BY DEF None
  <2>2. CASE ~Sender
    BY <1>5, <1>a, <1>b, <1>c, <2>2 DEF CommandsTurn
  <2>3. CASE Sender
    BY <1>5, <1>a, <1>b, <1>c, <2>1, <2>3
       DEF EventsTurn, OneEvent, GotTurn, ShownTurn, CommandsTurn, InEvents, PausedAt
  <2> QED BY <2>2, <2>3
<1>6. CASE /\ events # <<>> /\ events' = Tail(events) /\ commands' = commands /\ front'.got = front.got
           /\ front'.shown = IF Head(events).kind = "paused" THEN Head(events).no ELSE front.shown
  <2>1. /\ \A i \in DOMAIN events' : i + 1 \in DOMAIN events /\ events'[i] = events[i + 1] /\ i + 1 # 1
        /\ 1 \in DOMAIN events /\ Head(events) = events[1]
        /\ \A i, j \in DOMAIN events' : i + 1 = j + 1 => i = j
    BY <1>6, TakenFacts
  <2>2. front'.shown = IF PausedAt(1) THEN events[1].no ELSE front.shown
    BY <1>6, <2>1 DEF PausedAt
  <2>3. \A i \in DOMAIN events' : PausedAt(i)' => PausedAt(i + 1)
    BY <2>1 DEF PausedAt
  <2>4. InEvents' => InEvents
    BY <2>1, <2>3 DEF InEvents
  <2>5. CASE ~Sender
    BY <1>6, <1>a, <1>b, <1>c, <2>5 DEF CommandsTurn
  <2>6. CASE Sender
    <3>1. EventsTurn' /\ OneEvent'
      BY <1>a, <1>b, <1>c, <2>1, <2>3, <2>6 DEF EventsTurn, OneEvent, PausedAt
    <3>2. PausedAt(1) => ~InEvents'
      BY <1>b, <2>1, <2>3, <2>6 DEF OneEvent, InEvents
    <3>3. GotTurn'
      BY <1>6, <1>a, <1>b, <1>c, <2>4, <2>6 DEF GotTurn
    <3>4. ShownTurn'
      <4>1. CASE PausedAt(1)
        BY <1>6, <1>a, <1>b, <1>c, <2>1, <2>2, <2>6, <3>2, <4>1 DEF ShownTurn, EventsTurn, GotTurn, InEvents
      <4>2. CASE ~PausedAt(1)
        BY <1>6, <1>a, <1>b, <1>c, <2>2, <2>4, <2>6, <4>2 DEF ShownTurn
      <4> QED BY <4>1, <4>2
    <3>5. CommandsTurn'
      BY <1>6, <1>a, <1>b, <1>c, <2>1, <2>2, <2>4, <2>6 DEF CommandsTurn, InEvents
    <3> QED BY <3>1, <3>3, <3>4, <3>5
  <2> QED BY <2>5, <2>6
<1> QED BY <1>1, <1>2, <1>3, <1>4, <1>5, <1>6, FrontSteps

\* The inductive invariant behind CommandIsForThisPause.
THEOREM TurnCorrect == Spec => [](PromptShows /\ TurnInv)
<1>1. Init => PromptShows /\ TurnInv
  <2> SUFFICES ASSUME Init PROVE PromptShows /\ TurnInv
    OBVIOUS
  <2>1. /\ events = <<>> /\ commands = <<>> /\ front.pc = "idle" /\ front.shown = 0
        /\ front.got.kind # "paused"
    BY DEF Init, None
  <2> QED BY <2>1 DEF PromptShows, TurnInv, EventsTurn, OneEvent, GotTurn, ShownTurn, CommandsTurn, InEvents
<1>2. TypeOK /\ NotStarted /\ PromptShows /\ TurnInv /\ [Next]_vars => (PromptShows /\ TurnInv)'
  <2> SUFFICES ASSUME TypeOK, NotStarted, PromptShows, TurnInv, [Next]_vars
               PROVE  (PromptShows /\ TurnInv)'
    OBVIOUS
  <2>1. CASE Next
    BY <2>1, PromptShowsStep, VmTurn, FrontTurn DEF Next
  <2>2. CASE UNCHANGED vars
    BY <2>2 DEF vars, PromptShows, TurnInv, EventsTurn, OneEvent, GotTurn, ShownTurn, CommandsTurn,
                InEvents, PausedAt, Sender
  <2> QED BY <2>1, <2>2
<1> QED BY <1>1, <1>2, TypeCorrect, VisitCorrect, PTL DEF Spec

\* Unless the callback went on by itself or a command was sent ahead, the one command in the
\* channel is for the pause its sender was shown.
THEOREM CommandsCorrect == Spec => []CommandIsForThisPause
<1>1. TypeOK /\ TurnInv => CommandIsForThisPause
  <2> SUFFICES ASSUME TypeOK, TurnInv, ~late, ~ahead, NEW i \in DOMAIN commands
               PROVE  i = 1 /\ commands[i].seen = pauses
    BY DEF CommandIsForThisPause
  <2>1. commands # <<>> /\ commands \in Seq([cmd : Commands, seen : Nat])
    BY DEF TypeOK
  <2>2. Len(commands) = 1 /\ commands[1].seen = pauses
    BY <2>1 DEF TurnInv, CommandsTurn
  <2>3. DOMAIN commands = 1 .. 1
    BY <2>1, <2>2
  <2> QED BY <2>2, <2>3
<1> QED BY <1>1, TypeCorrect, TurnCorrect, PTL
=============================================================================
