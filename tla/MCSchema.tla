------------------------------ MODULE MCSchema ------------------------------
(***************************************************************************)
(* Instances of SchemaReconciler for TLC.                                  *)
(***************************************************************************)
EXTENDS SchemaProperties

NoPrivs == [r \in {} |-> {}]
Privs(role, set) == [r \in {role} |-> set]

Plain == [owner |-> "none", keep |-> FALSE, privs |-> NoPrivs, mine |-> TRUE]

SchemaOf(owner, grants, public) ==
    [here |-> TRUE, owner |-> owner, grants |-> grants, public |-> public,
     used |-> FALSE]

(* What a live schema and a deletion come to.                              *)
SettlingSpecs ==
    {[Plain EXCEPT !.owner = "r1", !.privs = Privs("r1", {"USAGE"})],
     [Plain EXCEPT !.privs = Privs("r1", {"CREATE"})],
     [Plain EXCEPT !.keep = TRUE],
     [Plain EXCEPT !.mine = FALSE]}
SettlingPreExisting == {SchemaOf("op", NoGrants, {})}
SettlingAdminSchemas ==
    {SchemaOf("op", [NoGrants EXCEPT !["r1"] = Privileges], {"USAGE"})}

(* Owners that the operator is no member of.                               *)
UnseenSpecs ==
    {[Plain EXCEPT !.owner = "r1"],
     [Plain EXCEPT !.owner = "r1", !.privs = Privs("r2", {"CREATE"})],
     [Plain EXCEPT !.owner = "r1", !.keep = TRUE]}

(* Seen and not the operator's to drop; seen and to drop.                  *)
UnseenPreExisting ==
    {SchemaOf("r1", [NoGrants EXCEPT !["r2"] = {"USAGE"}], {}),
     SchemaOf("r2", NoGrants, {})}
UnseenAdminSchemas == {SchemaOf("r1", NoGrants, {})}

=============================================================================
