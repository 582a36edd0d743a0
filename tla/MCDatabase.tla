----------------------------- MODULE MCDatabase -----------------------------
(***************************************************************************)
(* Instances of DatabaseReconciler for TLC.                                *)
(***************************************************************************)
EXTENDS DatabaseProperties

NoPrivs == [r \in {} |-> {}]
Privs(role, set) == [r \in {role} |-> set]

Plain == [owner |-> "none", exts |-> <<>>, keep |-> FALSE, preserve |-> FALSE,
          privs |-> NoPrivs, mine |-> TRUE]

NoRequires == [e \in Extensions |-> {}]
Distance == [e \in Extensions |-> IF e = "distance" THEN {"cube"} ELSE {}]

DatabaseWith(owner, exts, grants, public) ==
    [here |-> TRUE, owner |-> owner, exts |-> exts, grants |-> grants,
     public |-> public]

(* Owner, extensions and privileges.                                       *)
AccessSpecs ==
    {[Plain EXCEPT !.owner = "r1", !.exts = <<"cube", "distance">>,
                   !.privs = Privs("r1", {"CONNECT"})],
     [Plain EXCEPT !.owner = "r2", !.exts = <<"cube">>,
                   !.privs = Privs("r1", {"CREATE"})],
     [Plain EXCEPT !.exts = <<"plpgsql">>,
                   !.privs = [r \in {"r1", "r2"} |-> {"CREATE", "CONNECT"}]]}
AccessPreExisting ==
    {DatabaseWith("r2", {"cube"}, [NoGrants EXCEPT !["r1"] = {"CONNECT"}], {})}

(* Who may drop or keep the database, and throw clients out of it, and     *)
(* what a live database and a deletion come to.                            *)
SettlingPreExisting == {DatabaseWith("op", {}, NoGrants, {})}
SettlingSpecs ==
    {[Plain EXCEPT !.mine = FALSE],
     [Plain EXCEPT !.owner = "r1", !.exts = <<"cube", "distance">>,
                   !.privs = Privs("r1", {"CONNECT"})],
     [Plain EXCEPT !.exts = <<>>, !.preserve = TRUE,
                   !.privs = Privs("r1", {"CREATE"})],
     [Plain EXCEPT !.exts = <<"distance", "cube">>, !.keep = TRUE,
                   !.preserve = TRUE]}
SettlingAdminDatabases ==
    {DatabaseWith("op", {"distance", "cube"},
                  [NoGrants EXCEPT !["r1"] = Privileges], {})}

PlainSpecs == {Plain}

NoDatabases == {}

=============================================================================
