----------------------------- MODULE TaintFixpoint -----------------------------
(***************************************************************************)
(* The fixpoint as the taint analysis instantiates it: a model is a set of *)
(* taint labels, ordered by inclusion, widening is a join, and the         *)
(* dependency graph is complete before the fixpoint starts.                *)
(***************************************************************************)
EXTENDS FixpointAnalysis

CONSTANTS
  Label,            \* taint kinds
  OwnTaint,         \* what the body of a callable contributes by itself
  Kills,            \* labels that the body of a callable sanitizes
  Sites             \* the call sites of a callable, overriding targets too

TaintModel == {Label \ clean : clean \in SUBSET Label}

TaintQueries(c, s) == Sites[c]

Found(s) == {q \in Query : s[q] \notin {Unread, NoModel}}

(* join of what the callees contribute and of the previous model *)
TaintAnalyze(c, previous, s) ==
  LET callees == UNION {s[q] : q \in Found(s)} IN
  IF c \in OverrideTarget THEN callees ELSE OwnTaint[c] \cup (callees \ Kills[c])

TaintLessOrEqual(left, right) == left \subseteq right

(* mutant: the next model replaces the previous one *)
TaintReplace(i, previous, next) == next

TaintWiden(i, previous, next) == previous \cup next

(* `additional_dependencies = []` *)
TaintAdditionalDependencies(c, model) == {}

(* fails with "Not expecting new dependencies": never reached, there are none *)
TaintForNewDependency(c, models) == {}

=============================================================================
