------------------------------- MODULE MCRole -------------------------------
(***************************************************************************)
(* Instances of RoleReconciler for TLC.  Each set of specs is chosen for   *)
(* one question.                                                           *)
(***************************************************************************)
EXTENDS RoleProperties

MCOptions == {"inherit", "login"}
MCInherit == {"inherit"}

Plain == [opts |-> {"inherit"}, groups |-> {}, keep |-> FALSE,
          reassign |-> FALSE, source |-> FALSE, export |-> FALSE,
          override |-> FALSE, mine |-> TRUE]

RoleWith(opts, p, groups, owns) ==
    [here |-> TRUE, opts |-> opts, pw |-> p, groups |-> groups, owns |-> owns,
     privs |-> FALSE]

(* Where the password comes from, and what is reported.                    *)
PasswordSpecs ==
    {[Plain EXCEPT !.export = TRUE],
     [Plain EXCEPT !.source = TRUE, !.export = TRUE, !.groups = {"g1"}]}
ExportSpecs ==
    {[Plain EXCEPT !.export = TRUE],
     [Plain EXCEPT !.export = TRUE, !.opts = {"login"}, !.groups = {"g1"}]}
SourceSpecs == {[Plain EXCEPT !.source = TRUE]}
OverrideSpecs == {[Plain EXCEPT !.export = TRUE, !.override = TRUE]}

(* Who may drop, keep or forget the role, and what a live role and a       *)
(* deletion come to.                                                       *)
SettlingPreExisting == {RoleWith({"inherit"}, None, {}, {})}
SettlingSpecs ==
    {Plain, [Plain EXCEPT !.mine = FALSE],
     [Plain EXCEPT !.opts = {"login"}, !.groups = {"g1"}, !.reassign = TRUE],
     [Plain EXCEPT !.groups = {"g2"}, !.source = TRUE, !.keep = TRUE]}
SettlingAdminRoles ==
    {RoleWith({"inherit"}, "p1", {"g1", "g2"}, {"db1", "db2"})}

NoRoles == {}
Same == [p \in Values |-> p]
Salted == [p \in Values |-> IF p = "p1" THEN "p2" ELSE "p1"]

=============================================================================
