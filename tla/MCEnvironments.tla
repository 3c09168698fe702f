---------------------------- MODULE MCEnvironments ----------------------------
(* Small instances of Environments: m uses the classes of the library n and  *)
(* may import it with a wildcard; o uses its classes; n may be missing, or   *)
(* import o with a wildcard.                                                 *)
EXTENDS Environments, TLC

File(i, b, w, u) == [interface |-> i, body |-> b, wildcards |-> w, uses |-> u]

MCContents(x) ==
  CASE x = "m" -> {File(1, 1, {"n"}, {"n"}), File(1, 2, {}, {"n"})}
    [] x = "n" -> {None, File(1, 1, {}, {}), File(2, 1, {"o"}, {})}
    [] x = "o" -> {File(1, 1, {}, {"n"})}

\* The function definitions of m and the check results of o collide.
MCHash(k) == IF k = <<4, "o">> THEN <<3, "m">> ELSE k

Symmetry == Permutations(Workers)

===============================================================================
