-------------------------- MODULE SchemaReconciler --------------------------
(***************************************************************************)
(* internal/controller/postgresschema_controller.go with the statements of *)
(* internal/postgresql/schema.go, for one PostgresSchema resource.  As in  *)
(* DatabaseReconciler, one action is one call that leaves the process; all *)
(* statements go through the pool of the schema's database, which module   *)
(* Operators is about.                                                     *)
(*                                                                         *)
(* Abstractions.                                                           *)
(*  - The has_schema_privilege queries about a role are one read.          *)
(*  - Roles are not members of one another, and those listed in            *)
(*    privilegesByRole are no superusers.  The operator's own role is a    *)
(*    member of some; a superuser is as good as a member of all.           *)
(***************************************************************************)
EXTENDS Resource

CONSTANTS
    Roles,        \* PostgreSQL roles, the operator's aside
    Operator,     \* the operator's role
    NoOwner,      \* spec.owner is not given
    Members,      \* the roles whose privileges the operator has
    Settable,     \* the roles that the operator may make an owner
    PreExisting,  \* schemas that may be there before the resource
    AdminSchemas, \* what administrators may make of the schema
    AdminDrops,   \* administrators drop the schema and its database
    RolesChange,  \* administrators create and drop roles
    LostReplies,  \* a statement may take effect though its reply is lost
    MaxFaults     \* bound on failed calls and crashes

Owners == Roles \union {Operator}

(* ListSchemaAvailablePrivileges. *)
Privileges == {"CREATE", "USAGE"}

SchemaRecords ==
    [here   : BOOLEAN,
     owner  : Owners,
     grants : [Owners -> SUBSET Privileges],  \* nspacl, PUBLIC aside
     public : SUBSET Privileges,
     used   : BOOLEAN]                        \* there are objects in it

ASSUME SpecsAssumption ==
    \A s \in Specs :
      /\ s.owner \in Roles \union {NoOwner}
      /\ s.mine \in BOOLEAN              \* IsManagedByOperatorInstance holds
      /\ DOMAIN s.privs \subseteq Roles  \* privilegesByRole
      /\ \A r \in DOMAIN s.privs : s.privs[r] \subseteq Privileges
ASSUME NamesAssumption ==
    /\ Operator \notin Roles
    /\ NoOwner \notin Owners
    /\ Members \subseteq Roles
    /\ Settable \subseteq Roles
ASSUME SchemasAssumption ==
    /\ PreExisting \subseteq {s \in SchemaRecords : s.here}
    /\ AdminSchemas \subseteq {s \in SchemaRecords : s.here}
ASSUME BoundsAssumption ==
    /\ MaxFaults \in Nat
    /\ {AdminDrops, RolesChange, LostReplies} \subseteq BOOLEAN

PCs == {"idle", "query", "finalizer", "drop", "release", "create", "owner",
        "status", "privileges", "edges"}

VARIABLES
    \* PostgreSQL
    database,  \* the schema's database is there
    schema,
    roles,     \* the roles there are
    \* the operator's process
    pc,        \* the call the run makes next
    res,       \* the run's copy of the resource
    seen,      \* what GetSchema returned
    todo,      \* roles of privilegesByRole that the run has not finished
    who,       \* the one it is at
    adds, removes, \* the role's privileges to add and to remove
    \* bookkeeping
    kept,      \* as in RoleReconciler
    faults

runVars    == <<pc, res, seen, todo, who, adds, removes>>
apiVars    == <<api, view, news, kept, edits>>
serverVars == <<database, schema, roles>>
vars       == <<apiVars, serverVars, runVars, faults>>

NoGrants == [r \in Owners |-> {}]

NoSchema == [here |-> FALSE, owner |-> Operator, grants |-> NoGrants,
             public |-> {}, used |-> FALSE]

(* CREATE SCHEMA.                                                          *)
NewSchema == [here |-> TRUE, owner |-> Operator,
              grants |-> [NoGrants EXCEPT ![Operator] = Privileges],
              public |-> {}, used |-> FALSE]

Unread == [here |-> FALSE, owner |-> Operator]

TypeOK ==
    /\ ResourceTypeOK
    /\ res \in ObjectRecords
    /\ database \in BOOLEAN
    /\ schema \in SchemaRecords
    /\ schema.here => database
    /\ roles \in SUBSET Roles
    /\ pc \in PCs
    /\ seen \in [here : BOOLEAN, owner : Owners]
    /\ todo \in SUBSET Roles
    /\ pc \in {"privileges", "edges"} => todo \subseteq DOMAIN res.spec.privs
    /\ who \in Roles \union {NoOwner}
    /\ adds \in SUBSET Privileges
    /\ removes \in SUBSET Privileges
    /\ kept \in BOOLEAN
    /\ faults \in Nat

Idle ==
    /\ pc = "idle"
    /\ res = NoObject
    /\ seen = Unread
    /\ todo = {} /\ who = NoOwner
    /\ adds = {} /\ removes = {}

Init ==
    /\ ResourceInit
    /\ Idle
    /\ database \in BOOLEAN
    /\ schema \in PreExisting \union {NoSchema}
    /\ schema.here => database
    /\ kept = schema.here
    /\ roles = Roles
    /\ faults = 0

-----------------------------------------------------------------------------
(* What PostgreSQL lets the operator do.                                   *)

(* The operator counts as the owner.                                       *)
Rights == schema.owner \in Members \union {Operator}

(* information_schema.schemata lists a schema to its owner and to a role   *)
(* that may do something in it.                                            *)
Visible ==
    /\ schema.here
    /\ \/ Rights
       \/ schema.public # {}
       \/ \E r \in Members \union {Operator} : schema.grants[r] # {}

-----------------------------------------------------------------------------
(* Users and administrators.                                               *)

OperatorIdle == UNCHANGED <<view, runVars, kept, faults>>

Change ==
    /\ ChangeResource
    /\ UNCHANGED serverVars
    /\ OperatorIdle

(* Somebody creates the first object in the schema, or drops the last.     *)
UseSchema ==
    /\ Elsewhere
    /\ schema.here
    /\ schema' = [schema EXCEPT !.used = ~@]
    /\ UNCHANGED <<database, roles>>
    /\ OperatorIdle

AdminAlterSchema ==
    /\ Elsewhere
    /\ schema.here
    /\ schema' \in AdminSchemas \ {schema}
    /\ UNCHANGED <<database, roles>>
    /\ OperatorIdle

AdminDropSchema ==
    /\ Elsewhere
    /\ AdminDrops
    /\ schema.here
    /\ schema' = NoSchema
    /\ UNCHANGED <<database, roles>>
    /\ OperatorIdle

(* The database goes with everything in it, whoever drops it.              *)
DropDatabase ==
    /\ Elsewhere
    /\ AdminDrops
    /\ database
    /\ database' = FALSE
    /\ schema' = NoSchema
    /\ UNCHANGED roles
    /\ OperatorIdle

CreateDatabase ==
    /\ Elsewhere
    /\ ~database
    /\ database' = TRUE
    /\ UNCHANGED <<schema, roles>>
    /\ OperatorIdle

(* PostgreSQL refuses to drop a role that owns or may do something.        *)
AdminChangeRoles ==
    /\ Elsewhere
    /\ RolesChange
    /\ \E r \in Roles :
         \/ r \notin roles /\ roles' = roles \union {r}
         \/ /\ r \in roles /\ schema.owner # r /\ schema.grants[r] = {}
            /\ roles' = roles \ {r}
    /\ UNCHANGED <<database, schema>>
    /\ OperatorIdle

Environment ==
    \/ Change
    \/ UseSchema \/ AdminAlterSchema \/ AdminDropSchema
    \/ DropDatabase \/ CreateDatabase \/ AdminChangeRoles

-----------------------------------------------------------------------------
Deliver ==
    /\ DeliverResource
    /\ UNCHANGED <<serverVars, runVars, kept, faults>>

-----------------------------------------------------------------------------
(* How a run ends.                                                         *)

Result ==
    /\ pc' = "idle"
    /\ res' = NoObject
    /\ seen' = Unread
    /\ todo' = {} /\ who' = NoOwner
    /\ adds' = {} /\ removes' = {}

Fault == faults < MaxFaults /\ faults' = faults + 1

(* The call has had its effect; the run goes on as it says, or the reply   *)
(* is lost and the run ends with an error.                                 *)
Reply(step) == \/ step /\ UNCHANGED faults
               \/ LostReplies /\ Fault /\ Result

Goto(label) ==
    /\ pc' = label
    /\ UNCHANGED <<res, seen, todo, who, adds, removes>>

Fetch ==
    /\ pc = "idle"
    /\ view.here /\ view.spec.mine
    /\ res' = view
    /\ pc' = "query"
    /\ UNCHANGED <<apiVars, serverVars, seen, todo, who, adds, removes, faults>>

(* Mutants of AfterQuery: the schema is created before the finalizer is    *)
(* put; a schema that is gone is dropped again.                            *)
FinalizerSkipped ==
    IF ~res.del THEN "create"
    ELSE IF ~Visible \/ res.spec.keep THEN "release"
    ELSE "drop"

DroppedTwice ==
    IF ~res.del THEN (IF res.fin THEN "create" ELSE "finalizer")
    ELSE IF res.spec.keep THEN "release"
    ELSE "drop"

(* GetSchema, and the branch on deletionTimestamp, the finalizer and       *)
(* reconcileOnDeletion's early returns.                                    *)
AfterQuery ==
    IF ~res.del THEN (IF res.fin THEN "create" ELSE "finalizer")
    ELSE IF ~Visible \/ res.spec.keep THEN "release"
    ELSE "drop"

(* Mutant: deletion goes ahead for a resource that was never ours.         *)
ForeignDropped ==
    /\ pc = "query"
    /\ database
    /\ pc' = AfterQuery
    /\ seen' = IF Visible THEN [here |-> TRUE, owner |-> schema.owner]
                          ELSE Unread
    /\ UNCHANGED <<apiVars, serverVars, res, todo, who, adds, removes, faults>>

QuerySchema ==
    /\ pc = "query"
    /\ database
    /\ ~res.del \/ res.fin
    /\ pc' = AfterQuery
    /\ seen' = IF Visible THEN [here |-> TRUE, owner |-> schema.owner]
                          ELSE Unread
    /\ UNCHANGED <<apiVars, serverVars, res, todo, who, adds, removes, faults>>

(* Somebody else's finalizer holds the resource: nothing to do.            *)
AlreadyReleased ==
    /\ pc = "query"
    /\ database
    /\ res.del /\ ~res.fin
    /\ Result
    /\ UNCHANGED <<apiVars, serverVars, faults>>

AddFinalizer ==
    /\ pc = "finalizer"
    /\ Current(res)
    /\ WriteFinalizer
    /\ kept' = FALSE
    /\ Reply(/\ pc' = "create"
             /\ res' = api'
             /\ UNCHANGED <<seen, todo, who, adds, removes>>)
    /\ UNCHANGED <<view, edits, serverVars>>

-----------------------------------------------------------------------------
(* reconcileOnDeletion.                                                    *)

(* DROP SCHEMA without CASCADE. *)
DropSchema ==
    /\ pc = "drop"
    /\ schema.here /\ Rights /\ ~schema.used
    /\ schema' = NoSchema
    /\ Reply(Goto("release"))
    /\ UNCHANGED <<apiVars, database, roles>>

RemoveFinalizer ==
    /\ pc = "release"
    /\ Current(res)
    /\ WriteRelease
    /\ kept' = res.spec.keep
    /\ Reply(Result)
    /\ UNCHANGED <<view, edits, serverVars>>

-----------------------------------------------------------------------------
(* reconcileOnCreation.                                                    *)

CreateSchema ==
    /\ pc = "create"
    /\ ~seen.here
    /\ database /\ ~schema.here
    /\ schema' = NewSchema
    /\ Reply(Goto("owner"))
    /\ UNCHANGED <<apiVars, database, roles>>

AlreadyCreated ==
    /\ pc = "create"
    /\ seen.here
    /\ Goto("owner")
    /\ UNCHANGED <<apiVars, serverVars, faults>>

(* Mutant: the owner is only set when the schema is created.               *)
OwnerOnce == ~seen.here /\ res.spec.owner # NoOwner

AlterOwner ==
    /\ ~seen.here \/ seen.owner # res.spec.owner
    /\ res.spec.owner # NoOwner

(* PostgreSQL hands the old owner's privileges to the new one, and asks    *)
(* for no right at all when they are the same.                             *)
AlterSchemaOwner ==
    LET new == res.spec.owner
        old == schema.owner
    IN  /\ pc = "owner"
        /\ AlterOwner
        /\ schema.here /\ new \in roles
        /\ \/ new = old /\ UNCHANGED schema
           \/ /\ new # old /\ Rights /\ new \in Settable
              /\ schema' = [schema EXCEPT !.owner = new,
                              !.grants = [r \in Owners |->
                                 IF r = old THEN {}
                                 ELSE IF r = new THEN schema.grants[new]
                                                        \union schema.grants[old]
                                 ELSE schema.grants[r]]]
        /\ Reply(Goto("status"))
        /\ UNCHANGED <<apiVars, database, roles>>

OwnerKept ==
    /\ pc = "owner"
    /\ ~AlterOwner
    /\ Goto("status")
    /\ UNCHANGED <<apiVars, serverVars, faults>>

-----------------------------------------------------------------------------
(* The status comes before the privileges.                                 *)

(* Mutant: the privileges of roles that nobody lists are looked at too.    *)
AllRoles ==
    /\ pc' = "privileges"
    /\ todo' = roles
    /\ UNCHANGED <<seen, who, adds, removes>>

StartPrivileges ==
    /\ pc' = "privileges"
    /\ todo' = DOMAIN res'.spec.privs
    /\ UNCHANGED <<seen, who, adds, removes>>

UpdateStatus ==
    /\ pc = "status"
    /\ ~res.ok
    /\ Current(res)
    /\ WriteStatus
    /\ Reply(res' = api' /\ StartPrivileges)
    /\ UNCHANGED <<view, edits, kept, serverVars>>

AlreadySucceeded ==
    /\ pc = "status"
    /\ res.ok
    /\ UNCHANGED res
    /\ StartPrivileges
    /\ UNCHANGED <<apiVars, serverVars, faults>>

-----------------------------------------------------------------------------
(* reconcilePrivileges, for one role after another in any order.           *)

(* has_schema_privilege counts what PUBLIC may do.                         *)
Allowed(role) == schema.grants[role] \union schema.public

(* Mutant: privileges that nobody lists stay.                              *)
NeverRevoked(role) ==
    /\ adds' = res.spec.privs[role] \ Allowed(role)
    /\ removes' = {}

(* Mutant: what the role may do is revoked after the rest is granted.      *)
AllRevoked(role) ==
    /\ adds' = res.spec.privs[role] \ Allowed(role)
    /\ removes' = Allowed(role)

Compare(role) ==
    /\ adds' = res.spec.privs[role] \ Allowed(role)
    /\ removes' = Allowed(role) \ res.spec.privs[role]

ReadPrivileges ==
    /\ pc = "privileges"
    /\ schema.here
    /\ \E r \in todo \intersect roles : who' = r /\ Compare(r)
    /\ pc' = "edges"
    /\ UNCHANGED <<apiVars, serverVars, res, seen, todo, faults>>

(* GRANT and REVOKE by somebody who is not the owner, but may do something *)
(* in the schema, have no effect and are no error (only a warning).        *)
SetGrants(privs) ==
    /\ schema.here /\ Visible /\ who \in roles
    /\ schema' = IF Rights THEN [schema EXCEPT !.grants[who] = privs]
                           ELSE schema

GrantPrivilege ==
    /\ pc = "edges"
    /\ \E p \in adds :
         /\ SetGrants(schema.grants[who] \union {p})
         /\ Reply(/\ adds' = adds \ {p}
                  /\ UNCHANGED <<pc, res, seen, todo, who, removes>>)
    /\ UNCHANGED <<apiVars, database, roles>>

(* REVOKE takes what the role was granted, not what PUBLIC has.            *)
RevokePrivilege ==
    /\ pc = "edges"
    /\ adds = {}
    /\ \E p \in removes :
         /\ SetGrants(schema.grants[who] \ {p})
         /\ Reply(/\ removes' = removes \ {p}
                  /\ UNCHANGED <<pc, res, seen, todo, who, adds>>)
    /\ UNCHANGED <<apiVars, database, roles>>

RoleDone ==
    /\ pc = "edges"
    /\ adds = {} /\ removes = {}
    /\ pc' = "privileges"
    /\ todo' = todo \ {who}
    /\ who' = NoOwner
    /\ UNCHANGED <<apiVars, serverVars, res, seen, adds, removes, faults>>

PrivilegesDone ==
    /\ pc = "privileges"
    /\ todo = {}
    /\ Result
    /\ UNCHANGED <<apiVars, serverVars, faults>>

-----------------------------------------------------------------------------
(* Runs that end early.                                                    *)

(* The server or the API refuses the call, whenever it would be made again *)
(* in this state.                                                          *)
Refused ==
    \/ pc = "query" /\ ~database
    \/ pc \in {"finalizer", "release"} /\ ~Current(res)
    \/ pc = "status" /\ ~res.ok /\ ~Current(res)
    \/ pc = "drop" /\ ~(schema.here /\ Rights /\ ~schema.used)
    \/ pc = "create" /\ ~seen.here /\ (~database \/ schema.here)
    \/ /\ pc = "owner" /\ AlterOwner
       /\ LET new == res.spec.owner
          IN  ~ /\ schema.here /\ new \in roles
                /\ new = schema.owner \/ (Rights /\ new \in Settable)
    \/ pc = "privileges" /\ todo # {} /\ ~(schema.here /\ todo \subseteq roles)
    \/ /\ pc = "edges" /\ adds \union removes # {}
       /\ ~(Visible /\ who \in roles)

Refuse ==
    /\ Refused
    /\ Result
    /\ UNCHANGED <<apiVars, serverVars, faults>>

(* Any call may fail without effect, once it is under way.                 *)
CallFails ==
    /\ pc # "idle"
    /\ Fault
    /\ Result
    /\ UNCHANGED <<apiVars, serverVars>>

Crash ==
    /\ Fault
    /\ Relist
    /\ Result
    /\ UNCHANGED <<api, kept, edits, serverVars>>

-----------------------------------------------------------------------------
Deletion == DropSchema \/ RemoveFinalizer
Creation == CreateSchema \/ AlreadyCreated \/ AlterSchemaOwner \/ OwnerKept
ReconcilePrivileges ==
    \/ ReadPrivileges \/ GrantPrivilege \/ RevokePrivilege
    \/ RoleDone \/ PrivilegesDone

(* What the operator does of its own accord.                               *)
Reconcile ==
    \/ Fetch \/ QuerySchema \/ AlreadyReleased \/ AddFinalizer
    \/ Deletion \/ Creation \/ UpdateStatus \/ AlreadySucceeded
    \/ ReconcilePrivileges \/ Refuse

Next ==
    \/ Environment
    \/ Deliver
    \/ Reconcile
    \/ CallFails \/ Crash

Spec == Init /\ [][Next]_vars

(* The work queue calls Reconcile again after every run, with or without   *)
(* an error, and the informer delivers.                                    *)
FairSpec == Spec /\ WF_vars(Reconcile) /\ WF_vars(Deliver)

=============================================================================
