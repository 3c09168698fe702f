-------------------------- MODULE MCCallGraphFixpoint --------------------------
(***************************************************************************)
(* Two small programs for the higher order call graph fixpoint.  basep is  *)
(* the parameterized target base[cb=x] of the first, base[cb=y] of the     *)
(* second; y has a definition in the second only.                          *)
(*                                                                         *)
(*   def g1(): return y                  class A: def g(self): return y    *)
(*   def g(): return g1()                                                  *)
(*   def base(cb): g()()                 def base(cb): cb()                *)
(*   def k(): return x                                                     *)
(*   def main(): base(k())               def main(a: A): base(a.g())       *)
(*                                                                         *)
(* In the second, g1 is the method A.g and g its override target.          *)
(***************************************************************************)
EXTENDS CallGraphFixpoint, TLC

CONSTANTS main, k, g, g1, base, basep, x, y, w1, w2

MCTarget == {main, k, g, g1, base, basep, x, y}
MCWorker == {w1, w2}
MCSymmetry == Permutations(MCWorker)
MCStripParameters == [c \in MCTarget |-> IF c = basep THEN base ELSE c]

MCCallablesToAnalyze1 == {main, k, g, g1, base}
MCCallablesToAnalyze2 == {main, g, g1, base}
MCStubLike1 == {x, y}
MCStubLike2 == {x}
MCParameterized1 == <<base, x>> :> basep
MCParameterized2 == <<base, y>> :> basep
MCArgumentOf1 == [c \in MCTarget |-> IF c = basep THEN {x} ELSE {}]
MCArgumentOf2 == [c \in MCTarget |-> IF c = basep THEN {y} ELSE {}]

Nothing == [direct |-> {}, applied |-> {}, callsResult |-> FALSE,
            callsParameter |-> FALSE, returns |-> {}, returnsResult |-> FALSE]
MCBody1 ==
  [c \in MCTarget |->
     CASE c = k    -> [Nothing EXCEPT !.returns = {x}]
       [] c = main -> [Nothing EXCEPT !.direct = {k}, !.applied = {base}]
       [] c = g1   -> [Nothing EXCEPT !.returns = {y}]
       [] c = g    -> [Nothing EXCEPT !.direct = {g1}, !.returnsResult = TRUE]
       [] c = base -> [Nothing EXCEPT !.direct = {g}, !.callsResult = TRUE]
       [] OTHER    -> Nothing]
MCBody2 ==
  [MCBody1 EXCEPT ![base] = [Nothing EXCEPT !.callsParameter = TRUE],
                  ![main].direct = {g},
                  ![g].returnsResult = FALSE]

MCQuery == ({"direct"} \X {k, g1, g}) \cup ({"indirect"} \X {base, basep, x, y})
MCCallee(q) == q[2]
MCOverrideTarget2 == {g}
MCDirectMethod(c) == IF c = g THEN g1 ELSE c

(* initial_models_for_callables_with_call_graphs *)
MCInitialModels ==
  [c \in MCTarget |-> IF c \in CallablesToAnalyze
                      THEN [EmptyModel EXCEPT !.calls = DefineCallGraph(c)]
                      ELSE NoModel]
MCInitialGraph ==
  {e \in MCTarget \X MCTarget :
     /\ e[2] \in CallablesToAnalyze
     /\ e[1] \in DefineCallGraph(e[2]) \cup (IF e[2] \in OverrideTarget THEN {DirectMethod(e[2])} ELSE {})}

=============================================================================
