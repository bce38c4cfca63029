------------------------------- MODULE IrCfg --------------------------------
(***************************************************************************)
(* The control-flow graph of a program: IRCFGBuilder                       *)
(* (catnip_core/src/cfg/builder_ir.rs) and what the passes read off the    *)
(* graph (analysis.rs, ssa_builder.rs).  A program is a sequence of        *)
(* statements; consecutive instructions are one statement, Straight,       *)
(* whose text is filled in later, block by block.  Blocks are numbered in  *)
(* the order create_block makes them.                                      *)
(***************************************************************************)
EXTENDS Integers, SequencesExt

Straight == [k |-> "straight"]
If(c, then, else) == [k |-> "if", c |-> c, then |-> then, else |-> else]
While(c, body) == [k |-> "while", c |-> c, body |-> body]
For(v, body) == [k |-> "for", v |-> v, body |-> body]      \* over a literal sequence
Match(v) == [k |-> "match", v |-> v]      \* of two arms, blocks: one sets v, one does not
Break    == [k |-> "break"]
Continue == [k |-> "continue"]
Ret      == [k |-> "return"]

Entry == 1
Exit  == 2
NoBlock == 0
NoCond == "none"
Nothing == "nothing"

\* cond: the condition a block ends with.  op: the operation kept as its last instruction,
\* and name: the variable it sets.  cur: current_block.  inside: the blocks made for the
\* body of a loop.
Empty == [n |-> 2, cond |-> <<NoCond, NoCond>>, op |-> <<"none", "none">>,
          name |-> <<Nothing, Nothing>>, edges |-> <<>>, straight |-> {}, cur |-> Entry,
          brk |-> <<>>, cont |-> <<>>, inside |-> <<>>]

Grow(g, m) == [g EXCEPT !.n = @ + m, !.cond = @ \o [i \in 1..m |-> NoCond],
                        !.op = @ \o [i \in 1..m |-> "none"],
                        !.name = @ \o [i \in 1..m |-> Nothing]]
Edge(g, s, t) == [g EXCEPT !.edges = Append(@, <<s, t>>)]
Succs(g, b) == LET from == SelectSeq(g.edges, LAMBDA e : e[1] = b)
               IN [i \in DOMAIN from |-> from[i][2]]
PredSeq(g, b) == LET into == SelectSeq(g.edges, LAMBDA e : e[2] = b)
                 IN [i \in DOMAIN into |-> into[i][1]]
Preds(g, b) == Range(PredSeq(g, b))
Blocks(g) == 1..g.n

\* "Connect ... if no successors".
Close(g, t) == IF g.cur # NoBlock /\ Succs(g, g.cur) = <<>> THEN Edge(g, g.cur, t) ELSE g
Leave(g, op, t) == [Edge(g, g.cur, t) EXCEPT !.op[g.cur] = op, !.cur = NoBlock]

RECURSIVE Stmts(_, _)
IfBlocks(g, s) ==
  LET then == g.n + 1  else == g.n + 2  merge == g.n + 3
      forked == Edge(Edge([Grow(g, 3) EXCEPT !.cond[g.cur] = s.c], g.cur, then), g.cur, else)
      left  == Close(Stmts([forked EXCEPT !.cur = then], s.then), merge)
      right == Close(Stmts([left EXCEPT !.cur = else], s.else), merge)
  IN [right EXCEPT !.cur = merge]

\* process_while and process_for, which differ in what the header keeps.
LoopBlocks(g, s, cond, name) ==
  LET header == g.n + 1  body == g.n + 2  exit == g.n + 3
      entered == Edge(Grow(g, 3), g.cur, header)
      tested  == Edge(Edge([entered EXCEPT !.cond[header] = cond, !.op[header] = s.k,
                                           !.name[header] = name],
                           header, body), header, exit)
      inner   == Close(Stmts([tested EXCEPT !.cur = body, !.brk = Append(@, exit),
                                            !.cont = Append(@, header)], s.body), header)
  IN [inner EXCEPT !.brk = g.brk, !.cont = g.cont, !.cur = exit,
                   !.inside = Append(@, [header |-> header,
                                         blocks |-> {body} \cup (exit + 1)..inner.n])]

\* The match is kept whole in the block before it; an arm's block holds the arm, unread.
MatchBlocks(g, s) ==
  LET merge == g.n + 1  setting == g.n + 2  other == g.n + 3
      kept == [Grow(g, 3) EXCEPT !.op[g.cur] = "match", !.name[g.cur] = s.v,
                                 !.op[setting] = "arm", !.name[setting] = s.v, !.op[other] = "arm"]
      Arm(h, b) == Edge(Edge(h, g.cur, b), b, merge)
  IN [Arm(Arm(kept, setting), other) EXCEPT !.cur = merge]

Stmt(g, s) == CASE s.k = "straight" -> [g EXCEPT !.straight = @ \cup {g.cur}]
                [] s.k = "if"       -> IfBlocks(g, s)
                [] s.k = "while"    -> LoopBlocks(g, s, s.c, Nothing)
                [] s.k = "for"      -> LoopBlocks(g, s, NoCond, s.v)
                [] s.k = "match"    -> MatchBlocks(g, s)
                [] s.k = "break"    -> Leave(g, "break", Last(g.brk))
                [] s.k = "continue" -> Leave(g, "continue", Last(g.cont))
                [] s.k = "return"   -> Leave(g, "return", Exit)

\* Statements after one that leaves are dropped.
Stmts(g, ss) == IF ss = <<>> \/ g.cur = NoBlock THEN g ELSE Stmts(Stmt(g, Head(ss)), Tail(ss))

Build(ss) == Close(Stmts(Empty, ss), Exit)
-----------------------------------------------------------------------------
\* reverse_postorder: the depth-first search follows the successors in edge order.
RECURSIVE Visit(_, _, _)
Visit(g, b, seen) ==      \* seen: the postorder so far, with the open blocks in .open
  IF b \in seen.open THEN seen
  ELSE LET inner == FoldLeft(LAMBDA acc, t : Visit(g, t, acc),
                             [seen EXCEPT !.open = @ \cup {b}], Succs(g, b))
       IN [inner EXCEPT !.post = Append(@, b)]
ReversePostorder(g) == Reverse(Visit(g, Entry, [open |-> {}, post |-> <<>>]).post)

\* compute_dominators, the new set of one block under the sets of its predecessors.
Lowered(g, dom, b) == {b} \cup {d \in Blocks(g) : \A p \in Preds(g, b) : d \in dom[p]}

\* A back edge is one whose target is in its source's dominators.
BackEdges(g, dom) == SelectSeq(g.edges, LAMBDA e : e[2] \in dom[e[1]])
Headers(g, dom)   == {e[2] : e \in Range(BackEdges(g, dom))}

\* detect_loops: one loop per header, from all its back edges, in the order the first of
\* them has among the edges.
RECURSIVE Upwards(_, _, _)
Upwards(g, h, bs) == LET more == UNION {Preds(g, b) : b \in bs \ {h}} \cup bs
                     IN IF more = bs THEN bs ELSE Upwards(g, h, more)
Loop(g, dom, h) ==
  Upwards(g, h, {h} \cup {e[1] : e \in {f \in Range(BackEdges(g, dom)) : f[2] = h}})
LoopOrder(g, dom) ==
  FoldLeft(LAMBDA hs, e : IF e[2] \in Range(hs) THEN hs ELSE Append(hs, e[2]),
           <<>>, BackEdges(g, dom))
=============================================================================
