--------------------------- MODULE ManagedObject ---------------------------
(***************************************************************************)
(* What each of the three reconcilers (PostgresRole, PostgresDatabase,     *)
(* PostgresSchema) promises about one custom resource and the one          *)
(* PostgreSQL object it stands for, with no reconciler in sight: no        *)
(* informer, no run, no cache, no retry.                                   *)
(*                                                                         *)
(*   object   "none"     the resource is not in the API server             *)
(*            "plain"    it is, without the operator's finalizer           *)
(*            "held"     it is, and the finalizer is on it                 *)
(*            "leaving"  it is being deleted and the finalizer holds it    *)
(*   keep     the resource's keepOnDelete                                  *)
(*   remote   the PostgreSQL object exists                                 *)
(*   outside  how often users and administrators have acted                *)
(***************************************************************************)
EXTENDS Naturals

VARIABLES object, keep, remote, outside

absVars == <<object, keep, remote, outside>>

ObjectInit ==
    /\ object = "none"
    /\ keep \in BOOLEAN
    /\ remote \in BOOLEAN
    /\ outside = 0

(* Users and administrators.                                               *)
Act == outside' = outside + 1

Submit ==
    /\ Act
    /\ object = "none"
    /\ object' = "plain"
    /\ keep' \in BOOLEAN
    /\ UNCHANGED remote

(* Nobody reads the keepOnDelete of a resource that is not there.          *)
Edit ==
    /\ Act
    /\ keep' \in BOOLEAN
    /\ UNCHANGED <<object, remote>>

Delete ==
    /\ Act
    /\ \/ object = "plain" /\ object' = "none"
       \/ object = "held"  /\ object' = "leaving"
    /\ UNCHANGED <<keep, remote>>

(* Somebody else drops the PostgreSQL object. *)
Vanish ==
    /\ Act
    /\ remote
    /\ remote' = FALSE
    /\ UNCHANGED <<object, keep>>

(* The operator. *)
Hold ==
    /\ object = "plain"
    /\ object' = "held"
    /\ UNCHANGED <<keep, remote, outside>>

(* The finalizer was put on the resource first.  The user may have asked   *)
(* for the deletion while the statement was under way.                     *)
Provision ==
    /\ object \in {"held", "leaving"}
    /\ ~remote
    /\ remote' = TRUE
    /\ UNCHANGED <<object, keep, outside>>

Drop ==
    /\ object = "leaving"
    /\ remote
    /\ remote' = FALSE
    /\ UNCHANGED <<object, keep, outside>>

(* The resource is let go only when nothing is left behind, or when the    *)
(* version of the resource that is let go says so.                         *)
Release ==
    /\ object = "leaving"
    /\ ~remote \/ keep
    /\ object' = "none"
    /\ UNCHANGED <<keep, remote, outside>>

ObjectNext ==
    \/ Submit \/ Edit \/ Delete \/ Vanish
    \/ Hold \/ Provision \/ Drop \/ Release

ObjectSpec == ObjectInit /\ [][ObjectNext]_absVars

=============================================================================
