----------------------------- MODULE Environments -----------------------------
(***************************************************************************)
(* Four of the environments, as arguments of EnvironmentStack:             *)
(* 1 the module components (unannotatedGlobalEnvironment.ml),              *)
(* 2 the attribute table (attributeResolution.ml), the lazy one,           *)
(* 3 the function definitions (functionDefinitionEnvironment.ml),          *)
(* 4 the check results (typeEnvironment.ml).                               *)
(*                                                                         *)
(* A file is abstracted to its interface, its body, the modules it imports *)
(* with a wildcard and those whose classes it uses.  A source is processed *)
(* together with the sources of its wildcard imports, and with theirs.     *)
(***************************************************************************)
EXTENDS SavedState

Interface(c) == IF c = None THEN None ELSE c.interface
Wildcards(c) == IF c = None THEN {} ELSE c.wildcards
Uses(c) == IF c = None THEN {} ELSE c.uses

(* expand_wildcard_imports: the modules that are visited, as far as their  *)
(* sources are there.                                                      *)
Visited(m, t) ==
  LET Found(n) == IF t[Source(n)] = NULL THEN {} ELSE Wildcards(t[Source(n)])
      visited[i \in 0 .. Cardinality(Modules)] ==
        IF i = 0 THEN Found(m) ELSE LET sofar == visited[i - 1] IN sofar \cup UNION {Found(n) : n \in sofar}
  IN visited[Cardinality(Modules)]

(* source_of_qualifier: the source, and the names its wildcard imports stand for. *)
SourcesRead(m, t) == {Source(n) : n \in {m} \cup Visited(m, t)}
Names(m, t) == [n \in Visited(m, t) |-> Interface(t[Source(n)])]

EnvironmentReads(k, t) ==
  LET m == k[2] IN
  CASE k[1] \in {1, 3} -> SourcesRead(m, t)
    [] k[1] = 2 -> {<<1, m>>}
    [] k[1] = 4 -> {<<3, m>>} \cup
         (IF t[<<3, m>>] \in {NULL, None} THEN {} ELSE {<<2, n>> : n \in Uses(t[<<3, m>>].source)})

EnvironmentValue(k, t) ==
  LET m == k[2] IN
  CASE k[1] = 1 -> IF t[Source(m)] = None THEN None
                   ELSE [interface |-> Interface(t[Source(m)]), names |-> Names(m, t)]
    [] k[1] = 2 -> [attributes |-> t[<<1, m>>]]
    [] k[1] = 3 -> IF t[Source(m)] = None THEN None ELSE [source |-> t[Source(m)], names |-> Names(m, t)]
    [] k[1] = 4 -> IF t[<<3, m>>] = None THEN None
                   ELSE [checked |-> t[<<3, m>>],
                         types |-> [n \in Uses(t[<<3, m>>].source) |-> t[<<2, n>>]]]

===============================================================================
