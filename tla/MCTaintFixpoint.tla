---------------------------- MODULE MCTaintFixpoint ----------------------------
(***************************************************************************)
(* A small program for the taint fixpoint:                                 *)
(*                                                                         *)
(*   class A:     def g(self): return f(self)    # f and g are recursive   *)
(*   class B(A):  def g(self): ...               # h below, in a stub      *)
(*   def f(a: A): return a.g()                                             *)
(*                                                                         *)
(* f calls the override target og (the forward and the backward analysis   *)
(* read its model separately), og joins the models of g and of the         *)
(* overriding oh, oh stands for h, which has a model but is not analyzed.  *)
(***************************************************************************)
EXTENDS TaintFixpoint, TLC

CONSTANTS f, g, h, og, oh, w1, w2

MCTarget == {f, g, h, og, oh}
MCOverrideTarget == {og, oh}
MCCallablesToAnalyze == MCTarget \ {h}
MCLabel == {"source", "tito"}
MCModel == TaintModel
MCInitialModels == [c \in MCTarget |-> CASE c = h -> {"source"} [] c = f -> {"tito"} [] OTHER -> {}]

MCWorker == {w1, w2}

(* A query: the call site and the target it asks for. *)
MCQuery == {<<"fwd", og>>, <<"bwd", og>>, <<"override", oh>>, <<"direct", g>>,
            <<"direct", h>>, <<"call", f>>}
MCCallee(q) == q[2]
MCDirectMethod(c) == IF c = og THEN g ELSE h
MCSites ==
  [c \in MCTarget |->
     CASE c = f  -> {<<"fwd", og>>, <<"bwd", og>>}
       [] c = g  -> {<<"call", f>>}
       [] c = og -> {<<"direct", g>>, <<"override", oh>>}
       [] c = oh -> {<<"direct", h>>}
       [] OTHER  -> {}]
MCInitialGraph == {<<og, f>>, <<f, g>>, <<g, og>>, <<oh, og>>, <<h, oh>>}
MCOwnTaint == [c \in MCTarget |-> IF c = g THEN {"tito"} ELSE {}]
MCKills == [c \in MCTarget |-> IF c = f THEN {"tito"} ELSE {}]

MCSymmetry == Permutations(MCWorker)

=============================================================================
