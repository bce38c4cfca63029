----------------------------- MODULE CfgPasses ------------------------------
(***************************************************************************)
(* The passes of cfg_roundtrip (catnip_core/src/pipeline/semantic/mod.rs): *)
(* loop-invariant code motion (ssa_licm.rs), dead store elimination        *)
(* (ssa_dse.rs) and value numbering (ssa_gvn.rs), over dominators computed *)
(* by iteration (analysis.rs) and the SSA form of BraunSsa.  A program is  *)
(* chosen, its dominators lowered to a fixpoint block by block, its blocks *)
(* filled with instructions and one pass applied; then the program before  *)
(* and after the pass run side by side, along every path, and are compared *)
(* wherever something can tell their variables apart.                      *)
(***************************************************************************)
EXTENDS BraunSsa

CONSTANTS Vars,        \* variables
          Programs,    \* sequences of statements (IrCfg)
          Texts        \* sequences of instructions: what a Straight may hold

VARIABLES g, dom, prog, run
vars == <<g, dom, prog, run>>

\* Instructions.  to: the single target of a SetLocals.  of: the variables read.
Lit(v)     == [op |-> "lit",  to |-> v, of |-> {}]
Copy(v, u) == [op |-> "copy", to |-> v, of |-> {u}]
Pure(v, u) == [op |-> "pure", to |-> v, of |-> {u}]        \* v = u + 1
Call       == [op |-> "call", to |-> Nothing, of |-> {}]   \* reads any variable by name
Expr(u)    == [op |-> "expr", to |-> Nothing, of |-> {u}]  \* a statement u + 1
CondReads(c) == Vars \cap {c}      \* a variable, "literal", or "compare": an operation

Passes == {"licm", "dse", "gvn", "both"}      \* "both": dse, then gvn

\* native: the values are such that operations and conditions neither fail nor run code of
\* the user's.  kept: the variables have values from before (the REPL keeps its scope).
Unwritten == [code |-> <<>>, pass |-> "none", ssa |-> <<>>, cut |-> {}, hoist |-> {}, alias |-> {},
              native |-> FALSE, kept |-> FALSE]
Unbound == <<Unset, 0>>
Unassigned == [v \in Vars |-> Unbound]
FromBefore == LET names == SetToSeq(Vars)       \* a value of its own to each
              IN [v \in Vars |-> <<<<Entry, -(CHOOSE i \in DOMAIN names : names[i] = v)>>, 0>>]
NotTold == NoBlock
NoError == "none"

\* cur: the block about to run.  old, new: the variables before and after the pass.  ok: so
\* far nothing told them apart.  told: what the guard of the loop being entered found.
\* snap: the snapshots value numbering took.  outer: for a `for` being run, its variable's
\* old and new value before it, which come back after it.  raised: the kind of instruction,
\* "cond", or "cut" for one the pass took away, that read a variable not assigned and ended
\* the program by NameError.
Init == /\ g \in {Build(p) : p \in Programs}
        /\ dom = [b \in Blocks(g) |-> IF b = Entry THEN {Entry} ELSE Blocks(g)]
        /\ prog = Unwritten
        /\ run = [cur |-> Entry, old |-> Unassigned, new |-> Unassigned, ok |-> TRUE,
                  told |-> NotTold, snap |-> <<>>, outer |-> <<>>, raised |-> NoError]

\* compute_dominators visits the blocks in the order of a HashMap, until none changes.
Lower(b) == /\ prog = Unwritten /\ b # Entry /\ dom[b] # Lowered(g, dom, b)
            /\ dom' = [dom EXCEPT ![b] = Lowered(g, dom, b)]
            /\ UNCHANGED <<g, prog, run>>
Settled == \A b \in Blocks(g) \ {Entry} : dom[b] = Lowered(g, dom, b)
-----------------------------------------------------------------------------
Live == Range(ReversePostorder(g))         \* the blocks the builder of SSA visits
Names(code, bs) == UNION {{e.to} \cup e.of : e \in UNION {Range(code[b]) : b \in bs}} \cap Vars

\* The instructions of a block.  A loop's header ends with the whole loop, kept as one
\* instruction that mentions every name in it, its targets too; so do a match and an arm.
Inside(b) == UNION {l.blocks : l \in {m \in Range(g.inside) : m.header = b}}
Text(code, b) ==
  LET loop == g.op[b] \in {"while", "for"}
      bs   == Inside(b) \cup {b}
      refs == Vars \cap ({g.name[b]} \cup
                IF loop THEN Names(code, Inside(b)) \cup {g.cond[d] : d \in bs} \cup {g.name[d] : d \in bs}
                ELSE {})
  IN code[b] \o IF g.op[b] = "none" THEN <<>> ELSE <<[op |-> g.op[b], to |-> Nothing, of |-> refs]>>

Assigned(code) == {v \in Vars : \E b \in Blocks(g) : \E e \in Range(code[b]) : e.to = v}
SsaOf(code, v) ==
  BuildSsa(g, Headers(g, dom),
           [b \in Blocks(g) |-> [i \in DOMAIN Text(code, b) |->
                                   v \in Text(code, b)[i].of /\ v \in Assigned(code)]],
           [b \in Blocks(g) |-> [i \in DOMAIN Text(code, b) |-> v = Text(code, b)[i].to]])

Sites(code, v, bs) == UNION {{<<b, i>> : i \in {j \in DOMAIN code[b] : code[b][j].to = v}} : b \in bs}
-----------------------------------------------------------------------------
\* LICM, for the loop l of header h.
BackSources(l, h) == {b \in l : h \in Range(Succs(g, b))}
RunsSometimes(l, h, b) == \E s \in BackSources(l, h) : b \in dom[s]   \* fault: on one way round
RunsEveryTime(l, h, b) == \A s \in BackSources(l, h) : b \in dom[s]

\* guarded: the loops before it that got a guard, which leaves the block ahead of their
\* header with an edge to a block that is in no loop.
EarlyExit(l, h, guarded) ==
  \E b \in l \ {h} :
    \/ ~(Range(Succs(g, b)) \subseteq l)
    \/ \E h2 \in guarded \ {h} : h2 \in Range(Succs(g, b)) /\ b \notin Loop(g, dom, h2)
BodyCall(code, l) == \E b \in l : \E e \in Range(code[b]) : e.op = "call"
SingleDef(code, l, v) == Cardinality(Sites(code, v, l \cap Live)) = 1

Resolved(ssa, v, val) == Resolve(ssa[v], val, 64)
Invariant(ssa, l, e, b, i) ==
  LET read == {v \in e.of : <<b, i>> \in DOMAIN ssa[v].uses}
  IN read # {} /\ \A v \in read : Resolved(ssa, v, ssa[v].uses[<<b, i>>])[1] \notin l

\* value_reaches_all_loop_uses, for the value of <<b, i>>.
ReachesAllUses(ssa, l, v, b, i) ==
  \A d \in l :
    /\ g.op[d] \notin {"while", "for"} =>
         \A u \in DOMAIN ssa[v].uses : u[1] = d => Resolved(ssa, v, ssa[v].uses[u]) = <<b, i>>
    /\ v \in CondReads(g.cond[d]) =>
         ssa[v].cur[d] # Unset /\ Resolved(ssa, v, ssa[v].cur[d]) = <<b, i>>

\* Names assigned in the arms of a match, which SSA does not see.
OpaqueDefs(l) == {g.name[b] : b \in {d \in l : g.op[d] = "match"}}

Hoistable(code, ssa, l, h, b, i) ==
  LET e == code[b][i]
  IN /\ e.op = "pure"
     /\ RunsEveryTime(l, h, b)
     /\ SingleDef(code, l, e.to)
     /\ Invariant(ssa, l, e, b, i)
     /\ ({e.to} \cup e.of) \cap OpaqueDefs(l) = {}
     /\ ReachesAllUses(ssa, l, e.to, b, i)

\* One loop: the triples <<header, block, instruction>> it moves.
LoopHoists(code, ssa, h, hoist) ==
  LET l == Loop(g, dom, h)
      at == UNION {{<<b, i>> : i \in DOMAIN code[b]} : b \in l \ {h}}
  IN IF g.op[h] # "while" \/ EarlyExit(l, h, {t[1] : t \in hoist}) \/ BodyCall(code, l) THEN {}
     ELSE {<<h, s[1], s[2]>> : s \in {p \in at \ {<<t[2], t[3]>> : t \in hoist} :
                                        Hoistable(code, ssa, l, h, p[1], p[2])}}
Licm(code, ssa) == FoldLeft(LAMBDA hoist, h : hoist \cup LoopHoists(code, ssa, h, hoist),
                            {}, LoopOrder(g, dom))
-----------------------------------------------------------------------------
\* DSE.
Transparent(code, e) == e.op = "lit" \/ (e.op = "copy" /\ e.of \subseteq Assigned(code))
\* Only ever set to literals, and never inside an instruction kept whole.
ScalarNames(code) ==
  LET nested == UNION {{e.to : e \in Range(code[b])} : b \in UNION {Inside(h) : h \in Blocks(g)}}
                \cup OpaqueDefs(Blocks(g))
  IN {v \in Assigned(code) \ nested :
        \A b \in Blocks(g) : \A e \in Range(code[b]) : e.to = v => e.op = "lit"}
CondTransparent(code, c) == c \in {NoCond, "literal"} \cup ScalarNames(code)

\* all_paths_killed: no path from the instructions `from` the given block meets anything but
\* transparent stores before one of v, and none ends.
Window(code, v, b, from) ==
  LET stop == {i \in from..Len(Text(code, b)) :
                 ~Transparent(code, Text(code, b)[i]) \/ Text(code, b)[i].to = v}
  IN IF stop = {} THEN "open"
     ELSE IF Transparent(code, Text(code, b)[Min(stop)]) THEN "killed" ELSE "barrier"

RECURSIVE AllKilled(_, _, _, _)
AllKilled(code, v, todo, seen) ==        \* todo: pairs <<block, first instruction>>
  IF todo = {} THEN TRUE
  ELSE LET at == CHOOSE t \in todo : TRUE
           w  == Window(code, v, at[1], at[2])
           next == Range(Succs(g, at[1]))
       IN CASE w = "barrier" -> FALSE
            [] w = "killed" -> AllKilled(code, v, todo \ {at}, seen)
            [] OTHER -> /\ CondTransparent(code, g.cond[at[1]])
                        /\ next # {} /\ Exit \notin next
                        /\ AllKilled(code, v, (todo \ {at}) \cup {<<t, 1>> : t \in next \ seen},
                                     seen \cup next)

\* The use counts of global_dse, as the set of values with one.
CountedInText(s, dead) == {s.uses[u] : u \in DOMAIN s.uses \ dead}     \* fault: not by phis
Counted(s, dead) == UNION {Range(s.inc[b]) : b \in LivePhis(s)}
                    \cup {s.uses[u] : u \in DOMAIN s.uses \ dead} \cup {s.cur[Exit]}
RECURSIVE Dse(_, _, _)
Dse(code, ssa, dead) ==
  LET more == {p \in UNION {Sites(code, v, Live) : v \in Vars} \ dead :
                 LET e == code[p[1]][p[2]]
                 IN /\ Transparent(code, e)
                    /\ p \notin Counted(ssa[e.to], dead)
                    /\ AllKilled(code, e.to, {<<p[1], p[2] + 1>>}, {})}
  IN IF more = {} THEN dead ELSE Dse(code, ssa, dead \cup more)
-----------------------------------------------------------------------------
\* GVN, over the definitions <<variable, site>> in the order of the blocks' numbers: the
\* entry comes out as every block's immediate dominator, so that is dominator_preorder.
\* known: what an operand's number was first used to compute.  num: the number of a
\* definition, itself unless it computes what another did.  scalar: proven immutable.
NoNumbers == [known |-> <<>>, num |-> <<>>, scalar |-> {}, alias |-> {}]

\* dominates_use
DominatesUse(c, b) == c[2][1] \in dom[b] \cup {b}

Number(code, ssa, acc, p) ==
  LET e    == code[p[1]][p[2]]
      me   == <<e.to, p>>
      used == {<<u, ssa[u].uses[p]>> : u \in {w \in e.of : p \in DOMAIN ssa[w].uses}}
      arg  == CHOOSE x \in used : TRUE
      key  == <<IF arg \in DOMAIN acc.num THEN acc.num[arg] ELSE arg, arg \in acc.scalar>>
      first == IF key \in DOMAIN acc.known THEN acc.known[key] ELSE me
      scalar == used # {} /\ arg \in acc.scalar
  IN CASE e.op = "lit" -> [acc EXCEPT !.scalar = @ \cup {me}]
       [] e.op = "pure" /\ used # {} ->
            [known |-> acc.known @@ (key :> first), num |-> (me :> first) @@ acc.num,
             scalar |-> IF scalar THEN acc.scalar \cup {me} ELSE acc.scalar,
             alias |-> IF scalar /\ first # me /\ DominatesUse(first, p[1])
                       THEN acc.alias \cup {<<p, first>>} ELSE acc.alias]
       [] OTHER -> acc

\* The pairs <<site, definition it becomes a copy of>>.
Gvn(code, ssa) ==
  LET Block(acc, b) == IF b \notin Live THEN acc
                       ELSE FoldLeft(LAMBDA x, i : Number(code, ssa, x, <<b, i>>), acc,
                                     [i \in DOMAIN code[b] |-> i])
  IN FoldLeft(Block, NoNumbers, [b \in Blocks(g) |-> b]).alias

\* materialize_gvn: a variable with one definition is read itself, else a snapshot of it.
ReadsAlways(code, v) == TRUE     \* fault: no snapshot
ReadsName(code, v)   == Cardinality(Sites(code, v, Live)) = 1
-----------------------------------------------------------------------------
\* What each pass does to a program.  Value numbering comes after dead store elimination, on
\* the SSA form built before it, and takes a removed literal for one all the same.
Apply(same, hoist, pass) ==
  LET dead == Dse(same.code, same.ssa, {})  alias == Gvn(same.code, same.ssa)
  IN CASE pass = "licm" -> [same EXCEPT !.hoist = hoist, !.cut = {<<t[2], t[3]>> : t \in hoist}]
       [] pass = "dse"  -> [same EXCEPT !.cut = dead]
       [] pass = "gvn"  -> [same EXCEPT !.alias = alias]
       [] pass = "both" -> IF {} \in {dead, alias} THEN same
                           ELSE [same EXCEPT !.cut = dead, !.alias = alias]
Marked(same, after, pass, native, kept) ==
  IF after = same THEN same ELSE [after EXCEPT !.pass = pass, !.native = native, !.kept = kept]

\* compile_for saves the target and brings it back: it is taken to exist before the loop.
ForNames == {g.name[b] : b \in {c \in Blocks(g) : g.op[c] = "for"}}

\* The rest of cfg_roundtrip up to the pass.  A program it leaves alone is not run.
Filled(text) == [b \in Blocks(g) |-> IF b \in g.straight THEN text[b] ELSE <<>>]
Built(code)  == [Unwritten EXCEPT !.code = code, !.ssa = [v \in Vars |-> SsaOf(code, v)]]
Write == /\ prog = Unwritten /\ Settled
         /\ \E text \in [g.straight -> Texts] : \E same \in {Built(Filled(text))} :
            \E hoist \in {Licm(same.code, same.ssa)}, pass \in Passes :
            \E after \in {Apply(same, hoist, pass)}, native \in BOOLEAN, kept \in {TRUE, ForNames # {}} :
               /\ prog' = Marked(same, after, pass, native, kept)
               /\ run' = IF prog'.kept THEN [run EXCEPT !.old = FromBefore, !.new = FromBefore]
                         ELSE run
         /\ UNCHANGED <<g, dom>>

\* A value: the literal, element or call it comes from, and how often 1 was added, modulo
\* the bound Turns.
Turns == 4
Value(e, at, env) ==
  LET arg == env[CHOOSE u \in e.of : TRUE]
  IN CASE e.op = "lit"  -> <<at, 0>>
       [] e.op = "copy" -> arg
       [] e.op = "pure" -> <<arg[1], (arg[2] + 1) % Turns>>
Store(e, at, env) == IF e.to = Nothing THEN env ELSE [env EXCEPT ![e.to] = Value(e, at, env)]
Literal(val) == val[1][2] > 0 /\ prog.code[val[1][1]][val[1][2]].op = "lit"

\* The definition a copy of value numbering reads, and its value.
Source(p) == (CHOOSE t \in prog.alias : t[1] = p)[2]
Aliased(p) == \E t \in prog.alias : t[1] = p
Stored(r, p) ==
  LET e == prog.code[p[1]][p[2]]  c == Source(p)
  IN IF ~Aliased(p) THEN Store(e, p, r.new)
     ELSE [r.new EXCEPT ![e.to] = IF ReadsName(prog.code, c[1]) THEN r.new[c[1]] ELSE r.snap[c[2]]]

\* What sees every variable, whatever the pass: a call; an operation that may fail or run a
\* user's operator; the truth of such an operation, or of a value that is not a literal.
SeesAll(e) == e.op = "call" \/ (~prog.native /\ e.op \in {"pure", "expr"})
CondSeesAll(r, c) == /\ ~prog.native /\ c \notin {NoCond, "literal"}
                     /\ \A v \in CondReads(c) : ~Literal(r.old[v])

\* An instruction or a condition of the program before the pass reads its variables, in both.
\* To read one not assigned ends the program, whose variables the REPL then shows.
Raises(env, reads) == \E v \in reads : env[v] = Unbound
Evaluate(r, reads, all, kind) ==
  LET raises == Raises(r.old, reads)
  IN IF r.raised # NoError THEN r
     ELSE [r EXCEPT !.raised = IF raises THEN kind ELSE NoError,
                    !.ok = @ /\ (raises \/ all => r.old = r.new)
                             /\ \A v \in reads : r.old[v] = r.new[v]]
Test(r, c) == Evaluate(r, CondReads(c), CondSeesAll(r, c), "cond")

\* An instruction, of which the program after the pass may have nothing left.
Instr(r, b, i) ==
  LET e == prog.code[b][i]
      cut == <<b, i>> \in prog.cut
      read == Evaluate(r, e.of, SeesAll(e), e.op)
  IN IF r.raised # NoError THEN r
     ELSE IF read.raised # NoError THEN IF cut THEN [r EXCEPT !.raised = "cut", !.ok = FALSE] ELSE read
     ELSE [r EXCEPT !.old = Store(e, <<b, i>>, @),
                    !.new = IF cut THEN @ ELSE Stored(r, <<b, i>>),
                    !.snap = IF \E t \in prog.alias : t[2] = <<e.to, <<b, i>>>>
                             THEN (<<b, i>> :> Stored(r, <<b, i>>)[e.to]) @@ @ ELSE @,
                    !.ok = IF cut THEN @ ELSE read.ok]
Set(r, v, val) == [r EXCEPT !.old[v] = val, !.new[v] = val]
RunText(r, b) ==
  LET ran == FoldLeft(LAMBDA q, i : Instr(q, b, i), r, [i \in DOMAIN prog.code[b] |-> i])
  IN IF ran.raised = NoError /\ g.op[b] = "arm" /\ g.name[b] # Nothing THEN Set(ran, g.name[b], <<Phi(b), 0>>)
     ELSE Test(ran, g.cond[b])

\* compile_for: into a `for`, to its body, out of it.  The target is a variable that exists
\* before the loop.
IsFor(b) == b \in Blocks(g) /\ g.op[b] = "for"
Through(r, b, t) ==
  LET v == g.name[b]  h == t - 2
  IN CASE IsFor(t) /\ b \notin Loop(g, dom, t) ->
            [r EXCEPT !.outer = (t :> <<r.old[g.name[t]], r.new[g.name[t]]>>) @@ @]
       [] IsFor(b) /\ t = b + 1 -> Set(r, v, <<Phi(b), 0>>)
       [] IsFor(h) -> [r EXCEPT !.old[g.name[h]] = r.outer[h][1], !.new[g.name[h]] = r.outer[h][2]]
       [] OTHER -> r

\* insert_guarded_hoist: the copy of the condition, and what it guards.  One that raises ends
\* the program here.
HoistsOf(h) == {<<t[2], t[3]>> : t \in {u \in prog.hoist : u[1] = h}}
Guarded(b, h) == HoistsOf(h) # {} /\ b \notin Loop(g, dom, h)
RunHoisted(r, h) ==
  LET Of(p) == prog.code[p[1]][p[2]]
      at(v) == {p \in HoistsOf(h) : Of(p).to = v}
  IN IF \E p \in HoistsOf(h) : Raises(r.new, Of(p).of) THEN [r EXCEPT !.raised = "pure"]
     ELSE [r EXCEPT !.new = [v \in Vars |-> IF at(v) = {} THEN @[v]
                                             ELSE LET p == CHOOSE q \in at(v) : TRUE
                                                  IN Value(Of(p), p, @)]]

Step == /\ prog.pass # "none" /\ run.cur # Exit
        /\ LET b == run.cur
               r == RunText(run, b)
               next == Succs(g, b)
           IN \E i \in DOMAIN next :
                /\ run.told = NotTold \/ run.told = next[i]
                /\ LET t == next[i]
                       moved == [Through(r, b, t) EXCEPT !.cur = t, !.told = NotTold]
                       ended == [moved EXCEPT !.ok = @ /\ r.old = r.new]
                   IN IF r.raised # NoError THEN run' = [r EXCEPT !.cur = Exit, !.told = NotTold]
                      ELSE IF t = Exit THEN run' = ended
                      ELSE IF ~Guarded(b, t) THEN run' = moved
                      ELSE \E j \in DOMAIN Succs(g, t) :
                             LET tested == [Test(moved, g.cond[t]) EXCEPT !.told = Succs(g, t)[j]]
                             IN run' = IF j = 1 THEN RunHoisted(tested, t) ELSE tested
        /\ UNCHANGED <<g, dom, prog>>

Next == (\E b \in Blocks(g) : Lower(b)) \/ Write \/ Step
Spec == Init /\ [][Next]_vars
-----------------------------------------------------------------------------
\* The definitions of v that reach instruction i of b: the last on some path from the entry,
\* or Unset if there is none on some path.
LastIn(v, b, i) == LET at == {j \in 1..(i - 1) \cap DOMAIN prog.code[b] : prog.code[b][j].to = v}
                   IN IF at = {} THEN {} ELSE {<<b, Max(at)>>}
RECURSIVE ReachFrom(_, _, _)
ReachFrom(v, bs, seen) ==        \* from the ends of the blocks bs
  LET Ends(b) == LastIn(v, b, Len(prog.code[b]) + 1)
      pass == {b \in bs : Ends(b) = {}}
      next == (UNION {Preds(g, b) : b \in pass} \cap Live) \ seen
  IN UNION {Ends(b) : b \in bs} \cup (IF Entry \in pass THEN {Unset} ELSE {})
     \cup (IF next = {} THEN {} ELSE ReachFrom(v, next, seen \cup next))
Reaching(v, b, i) ==
  IF LastIn(v, b, i) # {} THEN LastIn(v, b, i)
  ELSE (IF b = Entry THEN {Unset} ELSE {}) \cup ReachFrom(v, Preds(g, b) \cap Live, Preds(g, b) \cap Live)

\* The instructions an SSA value stands for, through its operands.
RECURSIVE Roots(_, _, _)
Roots(s, vals, seen) ==
  LET phis == {x \in vals : x[2] = 0 /\ x # Unset}
      next == UNION {Range(s.inc[x[1]]) : x \in phis} \ seen
  IN {x \in vals : x[2] # 0} \cup (IF Phi(Entry) \in phis THEN {Unset} ELSE {})
     \cup (IF next = {} THEN {} ELSE Roots(s, next, seen \cup next))

\* SSA construction gives every read the definitions that reach it: what its value stands for,
\* through the phis, is the last assignments on the paths from the entry.
UsesReachDefs ==
  \A v \in DOMAIN prog.ssa : \A u \in DOMAIN prog.ssa[v].uses :
    LET val == prog.ssa[v].uses[u]
    IN Roots(prog.ssa[v], {val}, {val}) = Reaching(v, u[1], u[2])

\* Hoisting out of a loop changes no value an instruction, a condition or a call reads, nor
\* what is left at the end, for values whose operations neither fail nor run user code, and
\* until a variable that is not assigned is read.
HoistPreserves == prog.pass = "licm" /\ prog.native /\ run.raised = NoError => run.ok

\* Nor what a user's operator finds (violated: only a call bars the hoisting).
HoistHiddenFromOperators == prog.pass = "licm" /\ run.raised = NoError => run.ok

\* What dead store elimination does not see.  Uncounted: variables with a read the use counts
\* of global_dse miss, by a condition or through the phi of a block that later assigns the
\* variable.  A condition on the target of a `for` passes for one on the literals the
\* variable is set to elsewhere.
CondNames == UNION {CondReads(g.cond[b]) : b \in Blocks(g)}
Uncounted ==
  CondNames \cup {v \in DOMAIN prog.ssa : \E b \in DOMAIN prog.ssa[v].inc :
                    prog.ssa[v].cur[b][1] = b /\ prog.ssa[v].cur[b][2] > 0}
CutNames == {prog.code[p[1]][p[2]].to : p \in prog.cut}
Miscounted == prog.cut # {} /\ (CutNames \cap Uncounted # {} \/ CondNames \cap ForNames # {})

\* What it takes from the text alone.  A name assigned somewhere may not be assigned on the
\* way taken, and a condition on a name only set to literals may find a value from before.
Unforeseen == prog.cut # {} /\ (\/ run.raised \in {"copy", "cond", "cut"}
                                \/ prog.kept /\ ~prog.native /\ CondNames # {})

\* Removing stores changes no value that is read, nor what a call, an operation that may fail
\* or run user code, or the end of the program finds; but for what Miscounted and Unforeseen
\* name.
DsePreserves == prog.pass = "dse" /\ ~Miscounted /\ ~Unforeseen => run.ok

\* "Evaluating such a store cannot fault" (transparent_store_target): a copy that raises finds
\* the variables as they were (violated: the store that it was to kill is gone).
DseHiddenFromErrors == prog.pass = "dse" /\ ~Miscounted /\ run.raised = "copy" => run.ok

\* A store is removed only when nothing reads it (violated: by a condition between it and the
\* next store).
DseCountsEveryRead == prog.pass = "dse" /\ ~Unforeseen => run.ok

\* The variables value numbering relies on to keep their values.
Numbered == UNION {{t[2][1]} \cup prog.code[t[1][1]][t[1][2]].of
                   \cup prog.code[t[2][2][1]][t[2][2][2]].of : t \in prog.alias}

\* Nor does reusing a value computed before change anything, alone or after stores were
\* removed, but for variables the arms of a match assign, and as for DsePreserves.
GvnPreserves ==
  /\ prog.pass \in {"gvn", "both"} /\ ~Miscounted /\ ~Unforeseen
  /\ Numbered \cap OpaqueDefs(Blocks(g)) = {}
  => run.ok

\* Whatever the arms of a match assign (violated: a name one of them sets is read in place of
\* the value computed before the match).
GvnSeesArms == prog.pass = "gvn" => run.ok
=============================================================================
