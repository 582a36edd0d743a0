------------------------- MODULE DatabaseReconciler -------------------------
(***************************************************************************)
(* internal/controller/postgresdatabase_controller.go with the statements  *)
(* of internal/postgresql/database.go and the pools of pool.go, for one    *)
(* PostgresDatabase resource.  As in RoleReconciler, one action is one     *)
(* call that leaves the process.                                           *)
(*                                                                         *)
(* Abstractions.                                                           *)
(*  - The three has_database_privilege queries about a role are one read.  *)
(*  - pg_extension lists an extension after those it requires, which were  *)
(*    there first, and otherwise in any order.                             *)
(*  - Roles are not members of one another, and those listed in            *)
(*    privilegesByRole are no superusers.                                  *)
(*  - Other clients' connections to the database are one flag, those of    *)
(*    the operator's pool for it (PGPools.Databases) another.              *)
(***************************************************************************)
EXTENDS Resource

CONSTANTS
    Roles,           \* PostgreSQL roles, the operator's aside
    Operator,        \* the operator's role
    NoOwner,         \* spec.owner is not given
    Extensions,
    Requires,        \* the extensions that an extension requires
    TemplateExts,    \* those of a new database
    Privileges,
    PublicPrivs,     \* those that PUBLIC has on a new database
    PreExisting,     \* databases that may be there before the resource
    AdminDatabases,  \* what administrators may make of the database
    AdminDrops,      \* administrators drop the database
    RolesChange,     \* administrators create and drop roles
    MaxConns,        \* size of the default pool (PGPools.Default)
    TruncatedReads,  \* a connection may break while rows are being read
    LostReplies,     \* a statement may take effect though its reply is lost
    MaxFaults        \* bound on failed calls and crashes

Owners == Roles \union {Operator}

Listed(spec) == {spec.exts[i] : i \in DOMAIN spec.exts}

DatabaseRecords ==
    [here   : BOOLEAN,
     owner  : Owners,
     exts   : SUBSET Extensions,
     grants : [Owners -> SUBSET Privileges],  \* datacl, PUBLIC aside
     public : SUBSET Privileges]

ASSUME SpecsAssumption ==
    \A s \in Specs :
      /\ s.owner \in Roles \union {NoOwner}
      /\ Listed(s) \subseteq Extensions
      /\ s.preserve \in BOOLEAN  \* preserveConnectionsOnDelete
      /\ s.mine \in BOOLEAN      \* IsManagedByOperatorInstance holds
      /\ DOMAIN s.privs \subseteq Roles  \* privilegesByRole
      /\ \A r \in DOMAIN s.privs : s.privs[r] \subseteq Privileges
ASSUME NamesAssumption ==
    /\ Operator \notin Roles
    /\ NoOwner \notin Owners
    /\ Requires \in [Extensions -> SUBSET Extensions]
    /\ TemplateExts \subseteq Extensions
    /\ PublicPrivs \subseteq Privileges
ASSUME DatabasesAssumption ==
    /\ PreExisting \subseteq {d \in DatabaseRecords : d.here}
    /\ AdminDatabases \subseteq {d \in DatabaseRecords : d.here}
ASSUME BoundsAssumption ==
    /\ MaxConns \in Nat
    /\ MaxFaults \in Nat
    /\ {AdminDrops, RolesChange, TruncatedReads, LostReplies} \subseteq BOOLEAN

PCs == {"idle", "query", "finalizer", "connections", "drop", "release",
        "create", "owner", "extensions", "exts", "privileges", "edges",
        "status"}

VARIABLES
    \* PostgreSQL
    db,
    roles,     \* the roles there are
    sessions,  \* other clients are connected to the database
    pool,      \* the operator's own pool is
    \* the operator's process
    leaked,    \* connections of the default pool that are never given back
    pc,        \* the call the run makes next
    res,       \* the run's copy of the resource
    seen,      \* what GetDatabase returned
    todo,      \* roles of privilegesByRole that the run has not finished
    who,       \* the one it is at
    adds, removes, \* extensions, or the role's privileges, to add and remove
    \* bookkeeping
    kept,      \* as in RoleReconciler
    faults

runVars    == <<pc, res, seen, todo, who, adds, removes>>
apiVars    == <<api, view, news, kept, edits>>
serverVars == <<db, roles, sessions, pool>>
vars       == <<apiVars, serverVars, leaked, runVars, faults>>

NoGrants == [r \in Owners |-> {}]

NoDatabase == [here |-> FALSE, owner |-> Operator, exts |-> {},
               grants |-> NoGrants, public |-> {}]

(* CREATE DATABASE.                                                        *)
NewDatabase == [here |-> TRUE, owner |-> Operator, exts |-> TemplateExts,
                grants |-> [NoGrants EXCEPT ![Operator] = Privileges],
                public |-> PublicPrivs]

Unread == [here |-> FALSE, owner |-> Operator]

TypeOK ==
    /\ ResourceTypeOK
    /\ res \in ObjectRecords
    /\ db \in DatabaseRecords
    /\ roles \in SUBSET Roles
    /\ sessions \in BOOLEAN
    /\ pool \in BOOLEAN
    /\ leaked \in 0..MaxConns
    /\ pc \in PCs
    /\ seen \in [here : BOOLEAN, owner : Owners]
    /\ todo \in SUBSET Roles
    /\ pc \in {"privileges", "edges"} => todo \subseteq DOMAIN res.spec.privs
    /\ who \in Roles \union {NoOwner}
    /\ adds \in SUBSET (Extensions \union Privileges)
    /\ removes \in SUBSET (Extensions \union Privileges)
    /\ kept \in BOOLEAN
    /\ faults \in Nat

Idle ==
    /\ pc = "idle"
    /\ res = NoObject
    /\ seen = Unread
    /\ todo = {} /\ who = NoOwner
    /\ adds = {} /\ removes = {}

Init ==
    /\ ResourceInit
    /\ Idle
    /\ db \in PreExisting \union {NoDatabase}
    /\ kept = db.here
    /\ roles = Roles
    /\ sessions = FALSE
    /\ pool = FALSE
    /\ leaked = 0
    /\ faults = 0

-----------------------------------------------------------------------------
(* Users and administrators.                                               *)

OperatorIdle == UNCHANGED <<view, leaked, runVars, kept, faults>>

Change ==
    /\ ChangeResource
    /\ UNCHANGED serverVars
    /\ OperatorIdle

(* Clients come and go.                                                    *)
OpenSession ==
    /\ Elsewhere
    /\ db.here /\ ~sessions
    /\ sessions' = TRUE
    /\ UNCHANGED <<db, roles, pool>>
    /\ OperatorIdle

CloseSession ==
    /\ Elsewhere
    /\ sessions
    /\ sessions' = FALSE
    /\ UNCHANGED <<db, roles, pool>>
    /\ OperatorIdle

AdminAlterDatabase ==
    /\ Elsewhere
    /\ db.here
    /\ db' \in AdminDatabases \ {db}
    /\ UNCHANGED <<roles, sessions, pool>>
    /\ OperatorIdle

(* PostgreSQL refuses to drop a database that somebody is connected to.    *)
Unused == ~sessions /\ ~pool

AdminDropDatabase ==
    /\ Elsewhere
    /\ AdminDrops
    /\ db.here /\ Unused
    /\ db' = NoDatabase
    /\ UNCHANGED <<roles, sessions, pool>>
    /\ OperatorIdle

(* PostgreSQL refuses to drop a role that owns or may do something.        *)
AdminChangeRoles ==
    /\ Elsewhere
    /\ RolesChange
    /\ \E r \in Roles :
         \/ r \notin roles /\ roles' = roles \union {r}
         \/ /\ r \in roles /\ db.owner # r /\ db.grants[r] = {}
            /\ roles' = roles \ {r}
    /\ UNCHANGED <<db, sessions, pool>>
    /\ OperatorIdle

Environment ==
    \/ Change
    \/ OpenSession \/ CloseSession
    \/ AdminAlterDatabase \/ AdminDropDatabase \/ AdminChangeRoles

-----------------------------------------------------------------------------
Deliver ==
    /\ DeliverResource
    /\ UNCHANGED <<serverVars, leaked, runVars, kept, faults>>

(* pgxpool closes the database pool's idle connections.                    *)
PoolIdles ==
    /\ pool
    /\ pool' = FALSE
    /\ UNCHANGED <<apiVars, db, roles, sessions, leaked, runVars, faults>>

-----------------------------------------------------------------------------
(* How a run ends.                                                         *)

Result ==
    /\ pc' = "idle"
    /\ res' = NoObject
    /\ seen' = Unread
    /\ todo' = {} /\ who' = NoOwner
    /\ adds' = {} /\ removes' = {}

Fault == faults < MaxFaults /\ faults' = faults + 1

(* The call has had its effect; the run goes on as it says, or the reply   *)
(* is lost and the run ends with an error.                                 *)
Reply(step) == \/ step /\ UNCHANGED faults
               \/ LostReplies /\ Fault /\ Result

(* A statement on the default pool needs one of its connections, and waits *)
(* for one without a limit.                                                *)
Free == leaked < MaxConns

Goto(label) ==
    /\ pc' = label
    /\ UNCHANGED <<res, seen, todo, who, adds, removes>>

Fetch ==
    /\ pc = "idle"
    /\ view.here /\ view.spec.mine
    /\ res' = view
    /\ pc' = "query"
    /\ UNCHANGED <<apiVars, serverVars, leaked, seen, todo, who, adds,
                   removes, faults>>

(* Mutants of AfterQuery: the database is created before the finalizer is  *)
(* put; a database that is gone is dropped again.                          *)
FinalizerSkipped ==
    IF ~res.del THEN "create"
    ELSE IF ~db.here \/ res.spec.keep THEN "release"
    ELSE IF res.spec.preserve THEN "drop"
    ELSE "connections"

DroppedTwice ==
    IF ~res.del THEN (IF res.fin THEN "create" ELSE "finalizer")
    ELSE IF res.spec.keep THEN "release"
    ELSE IF res.spec.preserve THEN "drop"
    ELSE "connections"

(* GetDatabase, and the branch on deletionTimestamp, the finalizer and     *)
(* reconcileOnDeletion's early returns.                                    *)
AfterQuery ==
    IF ~res.del THEN (IF res.fin THEN "create" ELSE "finalizer")
    ELSE IF ~db.here \/ res.spec.keep THEN "release"
    ELSE IF res.spec.preserve THEN "drop"
    ELSE "connections"

(* Mutant: deletion goes ahead for a resource that was never ours.         *)
ForeignDropped ==
    /\ pc = "query" /\ Free
    /\ pc' = AfterQuery
    /\ seen' = [here |-> db.here, owner |-> db.owner]
    /\ UNCHANGED <<apiVars, serverVars, leaked, res, todo, who, adds, removes,
                   faults>>

QueryDatabase ==
    /\ pc = "query" /\ Free
    /\ ~res.del \/ res.fin
    /\ pc' = AfterQuery
    /\ seen' = [here |-> db.here, owner |-> db.owner]
    /\ UNCHANGED <<apiVars, serverVars, leaked, res, todo, who, adds, removes,
                   faults>>

(* Somebody else's finalizer holds the resource: nothing to do.            *)
AlreadyReleased ==
    /\ pc = "query" /\ Free
    /\ res.del /\ ~res.fin
    /\ Result
    /\ UNCHANGED <<apiVars, serverVars, leaked, faults>>

AddFinalizer ==
    /\ pc = "finalizer"
    /\ Current(res)
    /\ WriteFinalizer
    /\ kept' = FALSE
    /\ Reply(/\ pc' = "create"
             /\ res' = api'
             /\ UNCHANGED <<seen, todo, who, adds, removes>>)
    /\ UNCHANGED <<view, edits, serverVars, leaked>>

-----------------------------------------------------------------------------
(* reconcileOnDeletion.                                                    *)

(* DropDatabaseConnections never reads or closes the rows of its query: it *)
(* does not learn of an error, and the connection stays checked out.       *)
DropConnections ==
    /\ pc = "connections" /\ Free
    /\ leaked' = leaked + 1
    /\ \/ sessions' = FALSE /\ pool' = FALSE /\ UNCHANGED faults
       \/ UNCHANGED <<sessions, pool>> /\ Fault
    /\ Goto("drop")
    /\ UNCHANGED <<apiVars, db, roles>>

DropDatabase ==
    /\ pc = "drop" /\ Free
    /\ db.here /\ Unused
    /\ db' = NoDatabase
    /\ Reply(Goto("release"))
    /\ UNCHANGED <<apiVars, roles, sessions, pool, leaked>>

(* Only keepOnDelete leaves a database behind.                             *)
RemoveFinalizer ==
    /\ pc = "release"
    /\ Current(res)
    /\ WriteRelease
    /\ kept' = res.spec.keep
    /\ Reply(Result)
    /\ UNCHANGED <<view, edits, serverVars, leaked>>

-----------------------------------------------------------------------------
(* reconcileOnCreation.                                                    *)

CreateDatabase ==
    /\ pc = "create" /\ Free
    /\ ~seen.here /\ ~db.here
    /\ db' = NewDatabase
    /\ Reply(Goto("owner"))
    /\ UNCHANGED <<apiVars, roles, sessions, pool, leaked>>

AlreadyCreated ==
    /\ pc = "create"
    /\ seen.here
    /\ Goto("owner")
    /\ UNCHANGED <<apiVars, serverVars, leaked, faults>>

(* Mutant: the owner is only set when the database is created.             *)
OwnerOnce == ~seen.here /\ res.spec.owner # NoOwner

AlterOwner ==
    /\ ~seen.here \/ seen.owner # res.spec.owner
    /\ res.spec.owner # NoOwner

(* ALTER DATABASE OWNER hands the old owner's privileges to the new one.   *)
AlterDatabaseOwner ==
    /\ pc = "owner" /\ Free
    /\ AlterOwner
    /\ db.here /\ res.spec.owner \in roles
    /\ LET new == res.spec.owner
           old == db.owner
       IN  db' = IF new = old THEN db
                 ELSE [db EXCEPT !.owner = new,
                         !.grants = [r \in Owners |->
                            IF r = old THEN {}
                            ELSE IF r = new THEN db.grants[new]
                                                   \union db.grants[old]
                            ELSE db.grants[r]]]
    /\ Reply(Goto("extensions"))
    /\ UNCHANGED <<apiVars, roles, sessions, pool, leaked>>

OwnerKept ==
    /\ pc = "owner"
    /\ ~AlterOwner
    /\ Goto("extensions")
    /\ UNCHANGED <<apiVars, serverVars, leaked, faults>>

-----------------------------------------------------------------------------
(* reconcileExtensions, on the database's own pool.                        *)

(* Mutant: extensions that nobody lists stay.                              *)
NeverRemoved(read) ==
    /\ adds' = Listed(res.spec) \ read
    /\ removes' = {}

(* Mutant: those that are there are removed before the rest is installed.  *)
AllRemoved(read) ==
    /\ adds' = Listed(res.spec) \ read
    /\ removes' = read

Compare(read) ==
    /\ adds' = Listed(res.spec) \ read
    /\ removes' = read \ Listed(res.spec)

(* EnsurePGPoolExists and GetExtensions, which takes a connection that     *)
(* breaks between two rows (rows.Err) for the end of the list.             *)
ReadExtensions ==
    /\ pc = "extensions"
    /\ db.here
    /\ \/ Compare(db.exts) /\ UNCHANGED faults
       \/ /\ TruncatedReads /\ Fault
          /\ \E read \in SUBSET db.exts : Compare(read)
    /\ pc' = "exts"
    /\ pool' = TRUE
    /\ UNCHANGED <<apiVars, db, roles, sessions, leaked, res, seen, todo, who>>

NextRemoved(e) == e \in removes /\ Requires[e] \intersect (removes \ {e}) = {}

Removable(e) == e \in db.exts /\ \A f \in db.exts \ {e} : e \notin Requires[f]

DropExtension ==
    /\ pc = "exts"
    /\ db.here
    /\ \E e \in removes :
         /\ NextRemoved(e) /\ Removable(e)
         /\ db' = [db EXCEPT !.exts = @ \ {e}]
         /\ Reply(/\ removes' = removes \ {e}
                  /\ UNCHANGED <<pc, res, seen, todo, who, adds>>)
    /\ pool' = TRUE
    /\ UNCHANGED <<apiVars, roles, sessions, leaked>>

(* In the order of the list.                                               *)
NextAdded(e) ==
    \E i \in DOMAIN res.spec.exts :
      /\ e = res.spec.exts[i]
      /\ \A j \in DOMAIN res.spec.exts :
           res.spec.exts[j] \in adds \ {e} => i < j

Addable(e) == e \notin db.exts /\ Requires[e] \subseteq db.exts

CreateExtension ==
    /\ pc = "exts"
    /\ removes = {}
    /\ db.here
    /\ \E e \in adds \intersect Extensions :
         /\ NextAdded(e) /\ Addable(e)
         /\ db' = [db EXCEPT !.exts = @ \union {e}]
         /\ Reply(/\ adds' = adds \ {e}
                  /\ UNCHANGED <<pc, res, seen, todo, who, removes>>)
    /\ pool' = TRUE
    /\ UNCHANGED <<apiVars, roles, sessions, leaked>>

(* Mutant: all roles are gone through, whether listed or not.              *)
AllRoles ==
    /\ pc = "exts"
    /\ adds = {} /\ removes = {}
    /\ pc' = "privileges"
    /\ todo' = Roles
    /\ UNCHANGED <<apiVars, serverVars, leaked, res, seen, who, adds, removes,
                   faults>>

ExtensionsDone ==
    /\ pc = "exts"
    /\ adds = {} /\ removes = {}
    /\ pc' = "privileges"
    /\ todo' = DOMAIN res.spec.privs
    /\ UNCHANGED <<apiVars, serverVars, leaked, res, seen, who, adds, removes,
                   faults>>

-----------------------------------------------------------------------------
(* reconcilePrivileges, for one role after another in any order.           *)

(* has_database_privilege counts what PUBLIC may do.                       *)
Allowed(role) == db.grants[role] \union db.public

ReadPrivileges ==
    /\ pc = "privileges" /\ Free
    /\ db.here
    /\ \E r \in todo \intersect roles :
         /\ who' = r
         /\ adds' = res.spec.privs[r] \ Allowed(r)
         /\ removes' = Allowed(r) \ res.spec.privs[r]
    /\ pc' = "edges"
    /\ UNCHANGED <<apiVars, serverVars, leaked, res, seen, todo, faults>>

GrantPrivilege ==
    /\ pc = "edges" /\ Free
    /\ db.here /\ who \in roles
    /\ \E p \in adds \intersect Privileges :
         /\ db' = [db EXCEPT !.grants[who] = @ \union {p}]
         /\ Reply(/\ adds' = adds \ {p}
                  /\ UNCHANGED <<pc, res, seen, todo, who, removes>>)
    /\ UNCHANGED <<apiVars, roles, sessions, pool, leaked>>

(* REVOKE takes what the role was granted, not what PUBLIC has.            *)
RevokePrivilege ==
    /\ pc = "edges" /\ Free
    /\ adds = {}
    /\ db.here /\ who \in roles
    /\ \E p \in removes :
         /\ db' = [db EXCEPT !.grants[who] = @ \ {p}]
         /\ Reply(/\ removes' = removes \ {p}
                  /\ UNCHANGED <<pc, res, seen, todo, who, adds>>)
    /\ UNCHANGED <<apiVars, roles, sessions, pool, leaked>>

RoleDone ==
    /\ pc = "edges"
    /\ adds = {} /\ removes = {}
    /\ pc' = "privileges"
    /\ todo' = todo \ {who}
    /\ who' = NoOwner
    /\ UNCHANGED <<apiVars, serverVars, leaked, res, seen, adds, removes,
                   faults>>

PrivilegesDone ==
    /\ pc = "privileges"
    /\ todo = {}
    /\ Goto("status")
    /\ UNCHANGED <<apiVars, serverVars, leaked, faults>>

-----------------------------------------------------------------------------
UpdateStatus ==
    /\ pc = "status"
    /\ ~res.ok
    /\ Current(res)
    /\ WriteStatus
    /\ Reply(Result)
    /\ UNCHANGED <<view, edits, kept, serverVars, leaked>>

AlreadySucceeded ==
    /\ pc = "status"
    /\ res.ok
    /\ Result
    /\ UNCHANGED <<apiVars, serverVars, leaked, faults>>

-----------------------------------------------------------------------------
(* Runs that end early.                                                    *)

(* The next statement is on the default pool.                              *)
OnDefaultPool ==
    \/ pc \in {"query", "connections", "drop", "privileges", "edges"}
    \/ pc = "create" /\ ~seen.here
    \/ pc = "owner" /\ AlterOwner

(* The server or the API refuses the call, whenever it would be made again *)
(* in this state.                                                          *)
Refused ==
    \/ pc \in {"finalizer", "release"} /\ ~Current(res)
    \/ pc = "status" /\ ~res.ok /\ ~Current(res)
    \/ pc = "drop" /\ ~(db.here /\ Unused)
    \/ pc = "create" /\ ~seen.here /\ db.here
    \/ pc = "owner" /\ AlterOwner /\ ~(db.here /\ res.spec.owner \in roles)
    \/ pc = "extensions" /\ ~db.here
    \/ pc = "exts" /\ adds \union removes # {}
         /\ \/ ~db.here
            \/ \E e \in removes : NextRemoved(e) /\ ~Removable(e)
            \/ removes = {} /\ \E e \in adds : NextAdded(e) /\ ~Addable(e)
    \/ pc = "privileges" /\ todo # {} /\ ~(db.here /\ todo \subseteq roles)
    \/ pc = "edges" /\ adds \union removes # {} /\ ~(db.here /\ who \in roles)

Refuse ==
    /\ Refused
    /\ OnDefaultPool => Free
    /\ Result
    /\ UNCHANGED <<apiVars, serverVars, leaked, faults>>

(* Any call may fail without effect, once it is under way.                 *)
CallFails ==
    /\ pc # "idle"
    /\ OnDefaultPool => Free
    /\ Fault
    /\ Result
    /\ UNCHANGED <<apiVars, serverVars, leaked>>

(* The process dies, and its connections with it.                          *)
Crash ==
    /\ Fault
    /\ Relist
    /\ Result
    /\ leaked' = 0
    /\ pool' = FALSE
    /\ UNCHANGED <<api, kept, edits, db, roles, sessions>>

-----------------------------------------------------------------------------
Deletion == DropConnections \/ DropDatabase \/ RemoveFinalizer
Creation ==
    CreateDatabase \/ AlreadyCreated \/ AlterDatabaseOwner \/ OwnerKept
ReconcileExtensions ==
    ReadExtensions \/ DropExtension \/ CreateExtension \/ ExtensionsDone
ReconcilePrivileges ==
    \/ ReadPrivileges \/ GrantPrivilege \/ RevokePrivilege
    \/ RoleDone \/ PrivilegesDone

(* What the operator does of its own accord.                               *)
Reconcile ==
    \/ Fetch \/ QueryDatabase \/ AlreadyReleased \/ AddFinalizer
    \/ Deletion \/ Creation \/ ReconcileExtensions \/ ReconcilePrivileges
    \/ UpdateStatus \/ AlreadySucceeded \/ Refuse

Next ==
    \/ Environment
    \/ Deliver \/ PoolIdles
    \/ Reconcile
    \/ CallFails \/ Crash

Spec == Init /\ [][Next]_vars

(* The work queue calls Reconcile again after every run, with or without   *)
(* an error, the informer delivers, and idle connections are closed.       *)
FairSpec ==
    /\ Spec
    /\ WF_vars(Reconcile)
    /\ WF_vars(Deliver)
    /\ WF_vars(PoolIdles)

=============================================================================
