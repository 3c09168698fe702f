---------------------------- MODULE MCModuleTracker ----------------------------
(* Small instances of ModuleTracker: a package p with a module p.m, which has *)
(* a stub in one version of TARGETS and another source in the other.          *)
EXTENDS ModuleTracker

Order == <<"p/__init__.py", "p/m.py", "p/m.pyi">>

MCTargets(v) ==
  CASE v = 1 -> ("p/__init__.py" :> "init" @@ "p/m.py" :> "m")
    [] v = 2 -> ("p/m.py" :> "init" @@ "p/m.pyi" :> "m")
    [] OTHER -> <<>>

MCQualifier(a) == IF a = "p/__init__.py" THEN "p" ELSE "p.m"
MCParent(a) == IF a = "p/__init__.py" THEN NULL ELSE "p"
MCPriority(a) == IF a = "p/m.pyi" THEN 1 ELSE 2

(* m is external, and so is the link tree. *)
MCInternal(x) == x = "init"

================================================================================
