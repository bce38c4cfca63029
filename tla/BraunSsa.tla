------------------------------ MODULE BraunSsa ------------------------------
(***************************************************************************)
(* SSA construction (catnip_core/src/cfg/ssa.rs, ssa_builder.rs: Braun et  *)
(* al. 2013) for one variable: no step of it for a variable reads or       *)
(* changes what it holds for another, except whether a block is sealed,    *)
(* which does not depend on variables.  A value is named by where it is    *)
(* defined: <<b, i>> by instruction i of block b, <<b, 0>> by the block    *)
(* parameter (phi) of b; a block gets at most one for a variable.          *)
(*                                                                         *)
(* g is a graph of IrCfg.  s is what an SSAContext holds of the variable:  *)
(*   cur[b]     current_defs of b                                          *)
(*   inc[b][p]  the operand of b's phi from p, for the blocks with a phi   *)
(*   sealed     the sealed blocks                                          *)
(*   open       the blocks whose phi is incomplete                         *)
(*   uses       instruction_uses: <<b, i>> -> the value it reads           *)
(***************************************************************************)
EXTENDS IrCfg

Unset  == <<0, 0>>
Phi(b) == <<b, 0>>
NewSsa(g) == [cur |-> [b \in Blocks(g) |-> Unset], inc |-> <<>>, sealed |-> {},
              open |-> {}, uses |-> <<>>]

AddBlockParam(g, s, b) ==
  [s EXCEPT !.inc = (b :> [p \in Preds(g, b) |-> Unset]) @@ @, !.cur[b] = Phi(b)]

\* try_remove_trivial_phi on the phi of b.  Other phis that read it read its replacement, and
\* are tried in turn, in the order of the blocks (a HashMap's, in the code).  current_defs of
\* other blocks and uses already recorded keep the old value.
RECURSIVE TryRemove(_, _, _)
TryRemove(g, s, b) ==
  LET same == Range(s.inc[b]) \ {Unset, Phi(b)}
      rep  == CHOOSE v \in same : TRUE
      here == [s EXCEPT !.cur[b] = IF @ = Phi(b) THEN rep ELSE @]
      User(t, o) ==
        IF o \notin DOMAIN t.inc \/ Phi(b) \notin Range(t.inc[o]) THEN t
        ELSE LET t2 == [t EXCEPT !.inc[o] = [p \in DOMAIN @ |->
                                               IF @[p] = Phi(b) THEN rep ELSE @[p]]]
             IN IF o = b \/ Phi(o) = rep THEN t2 ELSE TryRemove(g, t2, o).s
  IN IF Cardinality(same) # 1 THEN [s |-> s, v |-> Phi(b)]
     ELSE [s |-> FoldLeft(User, here, [o \in Blocks(g) |-> o]), v |-> rep]

\* use_var_by_id, and through it fill_phi_operands: the phi is written before its operands
\* are read, which is what ends a cycle.
RECURSIVE UseVar(_, _, _)
FillOperands(g, s, b) ==
  FoldLeft(LAMBDA t, p : LET r == UseVar(g, t, p) IN [r.s EXCEPT !.inc[b][p] = r.v],
           s, PredSeq(g, b))
UseVar(g, s, b) ==
  IF s.cur[b] # Unset THEN [s |-> s, v |-> s.cur[b]]
  ELSE IF b \notin s.sealed
  THEN [s |-> [AddBlockParam(g, s, b) EXCEPT !.open = @ \cup {b}], v |-> Phi(b)]
  ELSE LET r == IF Cardinality(Preds(g, b)) = 1
                THEN UseVar(g, s, CHOOSE p \in Preds(g, b) : TRUE)
                ELSE TryRemove(g, FillOperands(g, AddBlockParam(g, s, b), b), b)
       IN [s |-> [r.s EXCEPT !.cur[b] = r.v], v |-> r.v]

SealBlock(g, s, b) ==
  LET filled == IF b \in s.open THEN FillOperands(g, s, b) ELSE s
      sealed == [filled EXCEPT !.sealed = @ \cup {b}, !.open = @ \ {b}]
  IN IF b \in s.open /\ sealed.cur[b] = Phi(b) THEN TryRemove(g, sealed, b).s ELSE sealed

\* process_block: reads[i] and defs[i] say whether instruction i reads, defines the variable.
ProcessBlock(g, s, b, reads, defs) ==
  LET Instr(t, i) ==
        LET r == UseVar(g, t, b)
            used == IF reads[i] THEN [r.s EXCEPT !.uses = (<<b, i>> :> r.v) @@ @] ELSE t
        IN IF defs[i] THEN [used EXCEPT !.cur[b] = <<b, i>>] ELSE used
  IN FoldLeft(Instr, s, [i \in DOMAIN reads |-> i])

\* A loop header is sealed when all its predecessors have been processed.
SealedAll(headers, b)   == TRUE                      \* fault: headers are not held back
SealedFirst(headers, b) == b \notin headers

\* SSABuilder::build.  reads, defs: block -> what process_block is told of it.
BuildSsa(g, headers, reads, defs) ==
  LET rpo == ReversePostorder(g)
      Walk(s, b) == ProcessBlock(g, IF SealedFirst(headers, b) THEN SealBlock(g, s, b) ELSE s,
                                 b, reads[b], defs[b])
  IN FoldLeft(LAMBDA s, b : SealBlock(g, s, b), FoldLeft(Walk, NewSsa(g), rpo),
              SelectSeq(rpo, LAMBDA b : b \in headers))

LivePhis(s) == {b \in DOMAIN s.inc : s.cur[b] = Phi(b)}

\* resolve_trivial
RECURSIVE Resolve(_, _, _)
Resolve(s, v, fuel) ==
  IF fuel = 0 \/ v[2] # 0 \/ s.cur[v[1]] \in {Unset, v} THEN v
  ELSE Resolve(s, s.cur[v[1]], fuel - 1)
=============================================================================
