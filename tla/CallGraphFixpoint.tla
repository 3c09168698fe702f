--------------------------- MODULE CallGraphFixpoint ---------------------------
(***************************************************************************)
(* The fixpoint as source/interprocedural/callGraphFixpoint.ml             *)
(* instantiates it, to build higher order call graphs.  The model of a     *)
(* callable is its call graph (the targets it calls) and the callables it  *)
(* returns; the analysis discovers dependencies, and parameterized targets *)
(* (a callable together with the callables given to it as arguments), as   *)
(* it goes.                                                                *)
(***************************************************************************)
EXTENDS FixpointAnalysis

CONSTANTS
  StripParameters,  \* Target.strip_parameters
  Parameterized,    \* <<target, argument>> -> the parameterized target
  ArgumentOf,       \* the callable arguments of a parameterized target
  StubLike,         \* targets without a body
  Body              \* what the source of a regular target does; the direct
                    \* calls of an override target are what it stands for

CallGraphModel == [returned : SUBSET Target, calls : SUBSET Target]

EmptyModel == [returned |-> {}, calls |-> {}]

(* define_call_graph: the targets known before the fixpoint *)
DefineCallGraph(c) ==
  IF c \in StubLike \cup OverrideTarget THEN {} ELSE Body[c].direct \cup Body[c].applied

BodyOf(c) == Body[StripParameters[c]]

Ask(site, targets) == {site} \X targets

(* The callables returned at the call sites in Q. *)
ReturnedBy(s, Q) ==
  UNION {s[q].returned : q \in {r \in Q : s[r] \notin {Unread, NoModel}}}

DirectQueries(c) == Ask("direct", BodyOf(c).direct)

(***************************************************************************)
(* Calls of a function that takes a callable: the call goes to the         *)
(* parameterized target for each callable the argument may be, and to the  *)
(* plain target when none is known.                                        *)
(***************************************************************************)
AppliedTargets(c, s) ==
  LET arguments == ReturnedBy(s, DirectQueries(c)) IN
  IF arguments = {} THEN BodyOf(c).applied
  ELSE {Parameterized[<<t, a>>] : t \in BodyOf(c).applied, a \in arguments}

(* Calls of a value: the result of a direct call, or a parameter. *)
IndirectTargets(c, s) ==
  (IF BodyOf(c).callsResult THEN ReturnedBy(s, DirectQueries(c)) ELSE {})
    \cup (IF BodyOf(c).callsParameter THEN ArgumentOf[c] ELSE {})

IndirectQueries(c, s) == Ask("indirect", AppliedTargets(c, s) \cup IndirectTargets(c, s))

(* get_callee_model is called once the callees at a call site are known. *)
CallGraphQueries(c, s) ==
  IF c \in StubLike THEN {}
  ELSE IF \E q \in DirectQueries(c) : s[q] = Unread THEN DirectQueries(c)
  ELSE DirectQueries(c) \cup IndirectQueries(c, s)

(***************************************************************************)
(* analyze_define, and higher_order_call_graph_of_define that it calls; an *)
(* override target returns what its methods return and has no call graph   *)
(* (for_override_model).                                                   *)
(***************************************************************************)
CallGraphAnalyze(c, previous, s) ==
  IF c \in StubLike THEN EmptyModel
  ELSE IF c \in OverrideTarget THEN [returned |-> ReturnedBy(s, DirectQueries(c)), calls |-> {}]
  ELSE [returned |-> BodyOf(c).returns
                       \cup (IF BodyOf(c).returnsResult
                             THEN ReturnedBy(s, DirectQueries(c)) ELSE {}),
        calls |-> BodyOf(c).direct \cup AppliedTargets(c, s) \cup IndirectTargets(c, s)]

(***************************************************************************)
(* Dependencies that the original call graph of the stripped target does   *)
(* not have, except on targets without a definition.                       *)
(***************************************************************************)
CallGraphAdditionalDependencies(c, model) ==
  {t \in model.calls \ DefineCallGraph(StripParameters[c]) : StripParameters[t] \notin StubLike}

(* "it is fine to only check the equality" *)
CallGraphLessOrEqual(left, right) == left = right

(* "we only return the right hand side" *)
CallGraphWiden(i, previous, next) == next

CallGraphForNewDependency(c, models) ==
  IF models[StripParameters[c]] # NoModel THEN models[StripParameters[c]] ELSE EmptyModel

=============================================================================
