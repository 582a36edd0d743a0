--------------------------- MODULE DatabaseProofs ---------------------------
(***************************************************************************)
(* Theorems about DatabaseReconciler, for every value of its constants.    *)
(***************************************************************************)
EXTENDS DatabaseProperties, ResourceProofs

-----------------------------------------------------------------------------
(* Type correctness.                                                       *)

(* What the specs are made of.                                             *)
LEMMA SpecType ==
  ASSUME NEW object \in ObjectRecords
  PROVE  /\ object.spec.owner \in Roles \union {NoOwner}
         /\ Listed(object.spec) \subseteq Extensions
         /\ object.spec.keep \in BOOLEAN
         /\ DOMAIN object.spec.privs \subseteq Roles
         /\ \A r \in DOMAIN object.spec.privs :
              object.spec.privs[r] \subseteq Privileges
  BY SpecsAssumption, KeepAssumption DEF ObjectRecords

(* The database that is not there, and the one CREATE DATABASE makes.      *)
LEMMA DatabaseType ==
  NoDatabase \in DatabaseRecords /\ NewDatabase \in DatabaseRecords
  <1>1. NoGrants \in [Owners -> SUBSET Privileges] /\ Operator \in Owners
    BY DEF NoGrants, Owners
  <1>2. [NoGrants EXCEPT ![Operator] = Privileges]
          \in [Owners -> SUBSET Privileges]
    BY <1>1
  <1> QED
    BY <1>1, <1>2, NamesAssumption
    DEF NoDatabase, NewDatabase, DatabaseRecords

(* The end of a run leaves its variables in their types.                   *)
LEMMA ResultType ==
  Result => /\ pc' \in PCs /\ pc' = "idle"
            /\ res' \in ObjectRecords
            /\ seen' \in [here : BOOLEAN, owner : Owners]
            /\ todo' \in SUBSET Roles
            /\ who' \in Roles \union {NoOwner}
            /\ adds' \in SUBSET (Extensions \union Privileges)
            /\ removes' \in SUBSET (Extensions \union Privileges)
  BY NoObjectType DEF Result, PCs, Unread, Owners

(* A run that ends leaves everything else as the call made it.             *)
LEMMA EndedType ==
  ASSUME TypeOK, Result, ResourceTypeOK', kept' \in BOOLEAN,
         db' \in DatabaseRecords, leaked' \in 0..MaxConns,
         UNCHANGED <<roles, sessions>>, pool' \in BOOLEAN,
         UNCHANGED faults \/ Fault
  PROVE  TypeOK'
  BY ResultType DEF TypeOK, Fault

(* The initial values have their types.                                    *)
LEMMA TypeInit == Init => TypeOK
  <1> SUFFICES ASSUME Init PROVE TypeOK
    OBVIOUS
  <1>1. db \in DatabaseRecords /\ kept \in BOOLEAN
    BY DatabaseType, DatabasesAssumption DEF Init, DatabaseRecords
  <1>2. ResourceTypeOK
    BY NoObjectType DEF Init, ResourceInit, ResourceTypeOK
  <1>3. seen \in [here : BOOLEAN, owner : Owners]
    BY DEF Init, Idle, Unread, Owners
  <1>4. pc \in PCs /\ res \in ObjectRecords
    BY NoObjectType DEF Init, Idle, PCs
  <1>5. /\ todo \in SUBSET Roles /\ who \in Roles \union {NoOwner}
        /\ adds \in SUBSET (Extensions \union Privileges)
        /\ removes \in SUBSET (Extensions \union Privileges)
    BY DEF Init, Idle
  <1>6. sessions \in BOOLEAN /\ pool \in BOOLEAN
    BY DEF Init
  <1>7. leaked \in 0..MaxConns /\ faults \in Nat
    <2>1. leaked = 0 /\ faults = 0
      BY DEF Init
    <2> QED
      BY <2>1, BoundsAssumption
  <1>8. roles \in SUBSET Roles /\ pc = "idle"
    BY DEF Init, Idle
  <1> QED
    BY <1>1, <1>2, <1>3, <1>4, <1>5, <1>6, <1>7, <1>8 DEF TypeOK

(* What users and administrators do keeps the types.                       *)
LEMMA EnvironmentType ==
  ASSUME TypeOK, Environment
  PROVE  TypeOK'
  <1> USE DEF TypeOK
  <1>1. CASE Change
    BY <1>1, ChangeType DEF Change, OperatorIdle, runVars, serverVars
  <1>2. CASE OpenSession \/ CloseSession
    <2>1. sessions' \in BOOLEAN
      BY <1>2 DEF OpenSession, CloseSession
    <2> QED
      BY <1>2, <2>1, ElsewhereType
      DEF OpenSession, CloseSession, OperatorIdle, runVars
  <1>3. CASE AdminAlterDatabase
    BY <1>3, ElsewhereType, DatabasesAssumption
    DEF AdminAlterDatabase, OperatorIdle, runVars
  <1>4. CASE AdminDropDatabase
    BY <1>4, ElsewhereType, DatabaseType
    DEF AdminDropDatabase, OperatorIdle, runVars
  <1>5. CASE AdminChangeRoles
    <2>1. roles' \in SUBSET Roles
      BY <1>5 DEF AdminChangeRoles
    <2> QED
      BY <1>5, <2>1, ElsewhereType DEF AdminChangeRoles, OperatorIdle, runVars
  <1> QED
    BY <1>1, <1>2, <1>3, <1>4, <1>5 DEF Environment

(* The writes to the resource keep the types.                              *)
LEMMA ResourceWriteType ==
  ASSUME TypeOK, AddFinalizer \/ RemoveFinalizer \/ UpdateStatus
  PROVE  TypeOK'
  <1>1. ResourceTypeOK' /\ api' \in ObjectRecords
    BY OperatorWriteType DEF TypeOK, AddFinalizer, RemoveFinalizer, UpdateStatus
  <1>2. UNCHANGED <<serverVars, leaked>>
    BY DEF AddFinalizer, RemoveFinalizer, UpdateStatus
  <1>3. kept' \in BOOLEAN
    BY SpecType DEF TypeOK, AddFinalizer, RemoveFinalizer, UpdateStatus
  <1>4. CASE Result /\ (UNCHANGED faults \/ Fault)
    BY <1>1, <1>2, <1>3, <1>4, EndedType DEF TypeOK, serverVars
  <1>5. CASE /\ pc' = "create" /\ res' = api'
             /\ UNCHANGED <<seen, todo, who, adds, removes, faults>>
    BY <1>1, <1>2, <1>3, <1>5 DEF TypeOK, serverVars, PCs
  <1> QED
    BY <1>4, <1>5 DEF AddFinalizer, RemoveFinalizer, UpdateStatus, Reply

(* The statements that end at most the run keep the types: what they make  *)
(* of the database is a database.                                          *)
Statement ==
    \/ DropDatabase \/ CreateDatabase \/ AlterDatabaseOwner
    \/ DropExtension \/ CreateExtension \/ GrantPrivilege \/ RevokePrivilege

LEMMA StatementType ==
  ASSUME TypeOK, Statement
  PROVE  db' \in DatabaseRecords
  <1> USE DEF TypeOK
  <1>1. CASE DropDatabase \/ CreateDatabase
    BY <1>1, DatabaseType DEF DropDatabase, CreateDatabase
  <1>2. CASE AlterDatabaseOwner
    <2> DEFINE new == res.spec.owner
               moved == [r \in Owners |->
                           IF r = db.owner THEN {}
                           ELSE IF r = new THEN db.grants[new]
                                                  \union db.grants[db.owner]
                           ELSE db.grants[r]]
    <2>1. db' = db \/ db' = [db EXCEPT !.owner = new, !.grants = moved]
      BY <1>2 DEF AlterDatabaseOwner
    <2>2. new \in Owners
      BY <1>2, SpecType DEF AlterDatabaseOwner, AlterOwner, Owners
    <2>3. moved \in [Owners -> SUBSET Privileges]
      BY <2>2 DEF DatabaseRecords
    <2> HIDE DEF moved, new
    <2> QED
      BY <2>1, <2>2, <2>3 DEF DatabaseRecords
  <1>3. CASE DropExtension \/ CreateExtension
    <2>1. PICK e \in Extensions \union removes :
            \/ db' = [db EXCEPT !.exts = db.exts \ {e}]
            \/ e \in Extensions /\ db' = [db EXCEPT !.exts = db.exts \union {e}]
      BY <1>3 DEF DropExtension, CreateExtension
    <2> QED
      BY <2>1 DEF DatabaseRecords
  <1>4. CASE GrantPrivilege \/ RevokePrivilege
    <2>1. PICK p \in Privileges \union removes :
            \/ db' = [db EXCEPT !.grants[who] = db.grants[who] \ {p}]
            \/ /\ p \in Privileges
               /\ db' = [db EXCEPT !.grants[who] = db.grants[who] \union {p}]
      BY <1>4 DEF GrantPrivilege, RevokePrivilege
    <2>2. who \in Owners
      BY <1>4 DEF GrantPrivilege, RevokePrivilege, Owners
    <2>3. /\ [db.grants EXCEPT ![who] = db.grants[who] \ {p}]
               \in [Owners -> SUBSET Privileges]
          /\ p \in Privileges =>
               [db.grants EXCEPT ![who] = db.grants[who] \union {p}]
                 \in [Owners -> SUBSET Privileges]
      BY <2>2 DEF DatabaseRecords
    <2> QED
      BY <2>1, <2>3 DEF DatabaseRecords
  <1> QED
    BY <1>1, <1>2, <1>3, <1>4 DEF Statement

(* The runs that they leave have their types too.                          *)
LEMMA StatementsType ==
  ASSUME TypeOK, Statement
  PROVE  TypeOK'
  <1>1. db' \in DatabaseRecords
    BY StatementType
  <1>2. /\ UNCHANGED <<apiVars, roles, sessions, leaked>>
        /\ pool' \in BOOLEAN
    BY DEF Statement, DropDatabase, CreateDatabase, AlterDatabaseOwner,
           DropExtension, CreateExtension, GrantPrivilege, RevokePrivilege,
           TypeOK
  <1>3. ResourceTypeOK' /\ kept' \in BOOLEAN
    BY <1>2 DEF TypeOK, ResourceTypeOK, apiVars
  <1>4. CASE Result /\ Fault
    BY <1>1, <1>2, <1>3, <1>4, EndedType DEF TypeOK
  <1>5. CASE /\ pc' \in PCs
             /\ pc' \in {"privileges", "edges"} => pc = pc'
             /\ UNCHANGED <<res, seen, todo, who, faults>>
             /\ adds' \subseteq adds /\ removes' \subseteq removes
    BY <1>1, <1>2, <1>3, <1>5 DEF TypeOK
  <1> QED
    BY <1>4, <1>5
    DEF Statement, DropDatabase, CreateDatabase, AlterDatabaseOwner,
        DropExtension, CreateExtension, GrantPrivilege, RevokePrivilege,
        Reply, Goto, PCs, TypeOK

(* Every step keeps the types.                                             *)
LEMMA TypeStep == TypeOK /\ [Next]_vars => TypeOK'
  <1> SUFFICES ASSUME TypeOK, [Next]_vars PROVE TypeOK'
    OBVIOUS
  <1> USE DEF TypeOK
  <1>1. CASE Environment
    BY <1>1, EnvironmentType
  <1>2. CASE Deliver
    BY <1>2, DeliverType DEF Deliver, serverVars, runVars
  <1>3. CASE PoolIdles
    BY <1>3 DEF PoolIdles, apiVars, runVars, ResourceTypeOK
  <1>4. CASE AddFinalizer \/ RemoveFinalizer \/ UpdateStatus
    BY <1>4, ResourceWriteType
  <1>5. CASE Statement
    BY <1>5, StatementsType
  <1>6. CASE Fetch
    BY <1>6 DEF Fetch, apiVars, serverVars, PCs, ResourceTypeOK
  <1>7. CASE QueryDatabase
    BY <1>7
    DEF QueryDatabase, AfterQuery, apiVars, serverVars, PCs, ResourceTypeOK,
        DatabaseRecords
  <1>8. CASE DropConnections
    <2>1. leaked' \in 0..MaxConns
      BY <1>8, BoundsAssumption DEF DropConnections, Free
    <2>2. sessions' \in BOOLEAN /\ pool' \in BOOLEAN
      <3>1. (sessions' = FALSE /\ pool' = FALSE) \/ UNCHANGED <<sessions, pool>>
        BY <1>8 DEF DropConnections
      <3> QED
        BY <3>1
    <2>4. faults' \in Nat
      <3>1. faults' = faults \/ faults' = faults + 1
        BY <1>8 DEF DropConnections, Fault
      <3> QED
        BY <3>1
    <2>3. /\ UNCHANGED <<apiVars, db, roles, res, seen, todo, who, adds,
                         removes>>
          /\ pc' = "drop"
      BY <1>8 DEF DropConnections, Goto
    <2> QED
      BY <2>1, <2>2, <2>3, <2>4 DEF apiVars, PCs, ResourceTypeOK
  <1>9. CASE AlreadyCreated \/ OwnerKept \/ PrivilegesDone
    BY <1>9
    DEF AlreadyCreated, OwnerKept, PrivilegesDone, Goto, apiVars, serverVars,
        PCs, ResourceTypeOK
  <1>10. CASE ReadExtensions
    <2>1. PICK read \in SUBSET db.exts : Compare(read)
      BY <1>10 DEF ReadExtensions
    <2>2. /\ adds' \in SUBSET (Extensions \union Privileges)
          /\ removes' \in SUBSET (Extensions \union Privileges)
      BY <2>1, SpecType DEF Compare, DatabaseRecords
    <2>3. faults' \in Nat /\ pool' \in BOOLEAN /\ pc' \in PCs
      BY <1>10 DEF ReadExtensions, Fault, PCs
    <2> QED
      BY <1>10, <2>2, <2>3 DEF ReadExtensions, apiVars, ResourceTypeOK
  <1>11. CASE ExtensionsDone
    BY <1>11, SpecType
    DEF ExtensionsDone, apiVars, serverVars, PCs, ResourceTypeOK
  <1>12. CASE ReadPrivileges
    <2>1. PICK r \in todo \intersect roles :
            /\ who' = r
            /\ adds' = res.spec.privs[r] \ Allowed(r)
            /\ removes' = Allowed(r) \ res.spec.privs[r]
      BY <1>12 DEF ReadPrivileges
    <2>2. Allowed(r) \subseteq Privileges
      BY DEF Allowed, DatabaseRecords, Owners
    <2>3. r \in DOMAIN res.spec.privs
             => res.spec.privs[r] \subseteq Privileges
      BY SpecType
    <2>4. todo \subseteq DOMAIN res.spec.privs
      BY <1>12 DEF ReadPrivileges
    <2>5. /\ adds' \in SUBSET (Extensions \union Privileges)
          /\ removes' \in SUBSET (Extensions \union Privileges)
      BY <2>1, <2>2, <2>3, <2>4
    <2>6. /\ UNCHANGED <<apiVars, serverVars, leaked, res, seen, todo, faults>>
          /\ pc' = "edges"
      BY <1>12 DEF ReadPrivileges
    <2>7. todo' \subseteq DOMAIN res'.spec.privs
      BY <2>4, <2>6
    <2>8. who' \in Roles \union {NoOwner}
      BY <2>1
    <2> QED
      BY <2>5, <2>6, <2>7, <2>8 DEF apiVars, serverVars, PCs, ResourceTypeOK
  <1>13. CASE RoleDone
    BY <1>13 DEF RoleDone, apiVars, serverVars, PCs, ResourceTypeOK
  <1>14. CASE AlreadyReleased \/ AlreadySucceeded \/ Refuse \/ CallFails
    <2>1. /\ UNCHANGED <<apiVars, serverVars, leaked>> /\ Result
          /\ UNCHANGED faults \/ Fault
      BY <1>14 DEF AlreadyReleased, AlreadySucceeded, Refuse, CallFails
    <2> QED
      BY <2>1, EndedType DEF apiVars, serverVars, ResourceTypeOK
  <1>15. CASE Crash
    <2>1. ResourceTypeOK' /\ 0 \in 0..MaxConns
      BY <1>15, BoundsAssumption DEF Crash, Relist, ResourceTypeOK
    <2> QED
      BY <1>15, <2>1, EndedType DEF Crash
  <1>16. CASE UNCHANGED vars
    BY <1>16 DEF vars, apiVars, serverVars, runVars, ResourceTypeOK
  <1> QED
    BY <1>1, <1>2, <1>3, <1>4, <1>5, <1>6, <1>7, <1>8, <1>9, <1>10, <1>11,
       <1>12, <1>13, <1>14, <1>15, <1>16
    DEF Next, Reconcile, Deletion, Creation, ReconcileExtensions,
        ReconcilePrivileges, Statement

(* Type correctness of every variable of DatabaseReconciler; the default   *)
(* pool never hands out more connections than it has.                      *)
THEOREM TypeCorrect == Spec => []TypeOK
  BY TypeInit, TypeStep, PTL DEF Spec

-----------------------------------------------------------------------------
(* DatabaseReconciler implements HeldResource: every step is a step of one *)
(* of its actions, seen through Stage, or changes nothing there.           *)

(* Both modules have the same resource.                                    *)
LEMMA SameResource ==
  /\ ChangeResource => Held!ChangeResource
  /\ Elsewhere => Held!Elsewhere
  /\ DeliverResource => Held!DeliverResource
  /\ Relist => Held!Relist
  /\ WriteFinalizer => Held!WriteFinalizer
  /\ WriteRelease => Held!WriteRelease
  /\ WriteStatus => Held!WriteStatus
  /\ Current(res) => Held!Current(res)
  BY DEF ChangeResource, SubmitResource, EditResource, DeleteResource,
         ReleaseOther, Elsewhere, Spend, DeliverResource, Relist,
         WriteFinalizer, WriteRelease, WriteStatus, Current, Write, Removed,
         NextVersion, NextUid,
         Held!ChangeResource, Held!SubmitResource, Held!EditResource,
         Held!DeleteResource, Held!ReleaseOther, Held!Elsewhere, Held!Spend,
         Held!DeliverResource, Held!Relist, Held!WriteFinalizer,
         Held!WriteRelease, Held!WriteStatus, Held!Current, Held!Write,
         Held!Removed, Held!NextVersion, Held!NextUid

HeldStep == [Held!HeldNext]_(Held!heldVars)

(* A run that ends for whatever reason, a crash aside.                     *)
LEMMA EndStep ==
  ASSUME Result, UNCHANGED apiVars, db'.here = db.here, pc # "idle"
  PROVE  HeldStep
  <1>1. Stage # "idle" /\ Stage' = "idle" /\ res' = NoObject
    BY DEF Stage, Result
  <1>2. Held!EndRun
    BY <1>1 DEF apiVars, Held!EndRun, Held!End, NoObject, Held!NoObject
  <1> QED
    BY <1>2 DEF HeldStep, Held!HeldNext

(* A run that goes on within its stage, whatever it does to an existing    *)
(* database.                                                               *)
LEMMA QuietHeldStep ==
  ASSUME UNCHANGED <<apiVars, res>>, db'.here = db.here, Stage' = Stage
  PROVE  HeldStep
  BY DEF HeldStep, Held!heldVars, apiVars

(* What others do.                                                         *)
LEMMA EnvironmentStep ==
  ASSUME TypeOK, Environment
  PROVE  HeldStep
  <1>1. UNCHANGED <<view, res, kept, Stage>>
    BY DEF Environment, Change, OpenSession, CloseSession, AdminAlterDatabase,
           AdminDropDatabase, AdminChangeRoles, OperatorIdle, runVars, Stage
  <1>2. CASE Change
    BY <1>1, <1>2, SameResource
    DEF Change, serverVars, HeldStep, Held!HeldNext, Held!Change
  <1>3. CASE OpenSession \/ CloseSession \/ AdminAlterDatabase
               \/ AdminChangeRoles
    <2>1. db'.here = db.here /\ Elsewhere
      BY <1>3, DatabasesAssumption
      DEF OpenSession, CloseSession, AdminAlterDatabase, AdminChangeRoles
    <2> QED
      BY <1>1, <2>1, SameResource DEF HeldStep, Held!HeldNext, Held!Other
  <1>4. CASE AdminDropDatabase
    <2>1. db.here /\ db'.here = FALSE /\ Elsewhere
      BY <1>4 DEF AdminDropDatabase, NoDatabase
    <2> QED
      BY <1>1, <2>1, SameResource DEF HeldStep, Held!HeldNext, Held!Disappear
  <1> QED
    BY <1>2, <1>3, <1>4 DEF Environment

(* The operator's writes to the resource.                                  *)
LEMMA ResourceWriteStep ==
  ASSUME AddFinalizer \/ RemoveFinalizer \/ UpdateStatus
  PROVE  HeldStep
  <1>1. NoObject = Held!NoObject
    BY DEF NoObject, Held!NoObject
  <1>2. Result => Stage' = "idle" /\ res' = NoObject
    BY DEF Result, Stage
  <1>3. CASE AddFinalizer
    <2>1. /\ Stage = "finalizer" /\ db' = db
          /\ (Stage' = "live" /\ res' = api')
                \/ (Stage' = "idle" /\ res' = NoObject)
      BY <1>2, <1>3 DEF AddFinalizer, Reply, Stage, serverVars
    <2>2. Held!AddFinalizer
      BY <1>1, <1>3, <2>1, SameResource
      DEF AddFinalizer, Held!AddFinalizer, Held!End
    <2> QED
      BY <2>2 DEF HeldStep, Held!HeldNext
  <1>4. CASE RemoveFinalizer
    <2>1. /\ Stage = "release" /\ db' = db
          /\ Stage' = "idle" /\ res' = NoObject
      BY <1>2, <1>4 DEF RemoveFinalizer, Reply, Stage, serverVars
    <2>2. Held!RemoveFinalizer
      BY <1>1, <1>4, <2>1, SameResource
      DEF RemoveFinalizer, Held!RemoveFinalizer, Held!End
    <2> QED
      BY <2>2 DEF HeldStep, Held!HeldNext
  <1>5. CASE UpdateStatus
    <2>1. /\ Stage = "live" /\ db' = db
          /\ Stage' = "idle" /\ res' = NoObject
      BY <1>2, <1>5 DEF UpdateStatus, Reply, Stage, serverVars
    <2>2. Held!UpdateStatus
      BY <1>1, <1>5, <2>1, SameResource
      DEF UpdateStatus, Held!UpdateStatus, Held!End
    <2> QED
      BY <2>2 DEF HeldStep, Held!HeldNext
  <1> QED
    BY <1>3, <1>4, <1>5

(* The statements.                                                         *)
LEMMA StatementStep ==
  ASSUME TypeOK, Statement
  PROVE  HeldStep
  <1>1. NoObject = Held!NoObject
    BY DEF NoObject, Held!NoObject
  <1>2. UNCHANGED apiVars
    BY DEF Statement, DropDatabase, CreateDatabase, AlterDatabaseOwner,
           DropExtension, CreateExtension, GrantPrivilege, RevokePrivilege
  <1>3. Result => Stage' = "idle" /\ res' = NoObject
    BY DEF Result, Stage
  <1>4. CASE CreateDatabase
    <2>1. /\ Stage = "live" /\ ~db.here /\ db'.here = TRUE
          /\ (Stage' = "live" /\ res' = res)
                \/ (Stage' = "idle" /\ res' = NoObject)
      BY <1>3, <1>4 DEF CreateDatabase, NewDatabase, Reply, Goto, Stage
    <2> QED
      BY <1>1, <1>2, <2>1
      DEF apiVars, HeldStep, Held!HeldNext, Held!Provision, Held!GoOnOrEnd,
          Held!End
  <1>5. CASE DropDatabase
    <2>1. /\ Stage = "leaving" /\ db.here /\ db'.here = FALSE
          /\ (Stage' = "release" /\ res' = res)
                \/ (Stage' = "idle" /\ res' = NoObject)
      BY <1>3, <1>5 DEF DropDatabase, NoDatabase, Reply, Goto, Stage
    <2> QED
      BY <1>1, <1>2, <2>1
      DEF apiVars, HeldStep, Held!HeldNext, Held!Drop, Held!GoOnOrEnd,
          Held!End
  <1>6. CASE AlterDatabaseOwner \/ DropExtension \/ CreateExtension
               \/ GrantPrivilege \/ RevokePrivilege
    <2>1. db'.here = db.here
      BY <1>6
      DEF AlterDatabaseOwner, DropExtension, CreateExtension, GrantPrivilege,
          RevokePrivilege, TypeOK, DatabaseRecords
    <2>2. (Stage' = Stage /\ res' = res) \/ Result
      BY <1>6
      DEF AlterDatabaseOwner, DropExtension, CreateExtension, GrantPrivilege,
          RevokePrivilege, Reply, Goto, Stage
    <2>3. pc # "idle"
      BY <1>6
      DEF AlterDatabaseOwner, DropExtension, CreateExtension, GrantPrivilege,
          RevokePrivilege
    <2> QED
      BY <1>2, <2>1, <2>2, <2>3, EndStep, QuietHeldStep
  <1> QED
    BY <1>4, <1>5, <1>6 DEF Statement

(* Every step of the system.                                               *)
LEMMA HeldStepHolds ==
  ASSUME TypeOK, [Next]_vars
  PROVE  HeldStep
  <1>1. CASE Environment
    BY <1>1, EnvironmentStep
  <1>2. CASE Deliver
    BY <1>2, SameResource
    DEF Deliver, serverVars, runVars, Stage, HeldStep, Held!HeldNext,
        Held!Deliver
  <1>3. CASE Fetch
    <2>1. Stage = "idle" /\ Stage' = "query"
      BY <1>3 DEF Fetch, Stage
    <2> QED
      BY <1>3, <2>1
      DEF Fetch, apiVars, serverVars, HeldStep, Held!HeldNext, Held!Fetch
  <1>4. CASE QueryDatabase
    <2>1. Stage = "query" /\ Stage' = Held!AfterQuery
      BY <1>4 DEF QueryDatabase, AfterQuery, Held!AfterQuery, Stage
    <2> QED
      BY <1>4, <2>1
      DEF QueryDatabase, apiVars, serverVars, HeldStep, Held!HeldNext,
          Held!Query
  <1>5. CASE AddFinalizer \/ RemoveFinalizer \/ UpdateStatus
    BY <1>5, ResourceWriteStep
  <1>6. CASE Statement
    BY <1>6, StatementStep
  <1>7. CASE DropConnections \/ AlreadyCreated \/ OwnerKept
               \/ ReadExtensions \/ ExtensionsDone
    BY <1>7, QuietHeldStep
    DEF DropConnections, AlreadyCreated, OwnerKept, ReadExtensions,
        ExtensionsDone, Goto, serverVars, Stage
  <1>8. CASE ReadPrivileges \/ RoleDone \/ PrivilegesDone
    BY <1>8, QuietHeldStep
    DEF ReadPrivileges, RoleDone, PrivilegesDone, Goto, serverVars, Stage
  <1>9. CASE AlreadyReleased \/ AlreadySucceeded \/ Refuse \/ CallFails
    <2>1. UNCHANGED <<apiVars, db>> /\ Result /\ pc # "idle"
      BY <1>9
      DEF AlreadyReleased, AlreadySucceeded, Refuse, Refused, CallFails,
          serverVars
    <2> QED
      BY <2>1, EndStep
  <1>10. CASE Crash
    <2>1. Stage' = "idle" /\ res' = Held!NoObject
      BY <1>10 DEF Crash, Result, Stage, NoObject, Held!NoObject
    <2> QED
      BY <1>10, <2>1, SameResource
      DEF Crash, HeldStep, Held!HeldNext, Held!Restart, Held!End
  <1>11. CASE PoolIdles \/ UNCHANGED vars
    BY <1>11, QuietHeldStep
    DEF PoolIdles, vars, serverVars, runVars, Stage
  <1> QED
    BY <1>1, <1>2, <1>3, <1>4, <1>5, <1>6, <1>7, <1>8, <1>9, <1>10, <1>11
    DEF Next, Reconcile, Deletion, Creation, ReconcileExtensions,
        ReconcilePrivileges, Statement

(* Whatever a run does to the database and wherever it fails, the          *)
(* reconciler stays within the frame, for every set of specs, extensions   *)
(* and roles, number of edits, crashes and failures.                       *)
THEOREM DatabaseImplementsHeld == Spec => ImplementsHeldResource
  <1>1. Init => Held!HeldInit
    <2> SUFFICES ASSUME Init PROVE Held!HeldInit
      OBVIOUS
    <2>1. db.here \in BOOLEAN
      BY TypeInit DEF TypeOK, DatabaseRecords
    <2> QED
      BY <2>1
      DEF Init, Idle, ResourceInit, NoObject, Stage, Held!HeldInit,
          Held!ResourceInit, Held!NoObject
  <1>2. TypeOK /\ [Next]_vars => [Held!HeldNext]_(Held!heldVars)
    BY HeldStepHolds DEF HeldStep
  <1> QED
    BY TypeCorrect, <1>1, <1>2, PTL
    DEF Spec, ImplementsHeldResource, Held!HeldSpec

-----------------------------------------------------------------------------
(* Clients are thrown out only on a pending deletion.                      *)

SessionsInUse == sessions => db.here

(* A database that clients are connected to is there.                      *)
LEMMA InUseStep ==
  ASSUME TypeOK, SessionsInUse, [Next]_vars
  PROVE  SessionsInUse'
  <1> SUFFICES ASSUME sessions' PROVE db'.here
    BY DEF SessionsInUse
  <1>1. CASE Statement
    <2>1. sessions /\ db.here
      BY <1>1
      DEF Statement, DropDatabase, CreateDatabase, AlterDatabaseOwner,
          DropExtension, CreateExtension, GrantPrivilege, RevokePrivilege,
          SessionsInUse
    <2> QED
      BY <1>1, <2>1
      DEF Statement, DropDatabase, CreateDatabase, AlterDatabaseOwner,
          DropExtension, CreateExtension, GrantPrivilege, RevokePrivilege,
          Unused, TypeOK, DatabaseRecords
  <1>2. CASE Environment
    BY <1>2, DatabasesAssumption
    DEF Environment, Change, OpenSession, CloseSession, AdminAlterDatabase,
        AdminDropDatabase, AdminChangeRoles, serverVars, Unused, SessionsInUse
  <1>3. CASE DropConnections
    BY <1>3 DEF DropConnections, SessionsInUse
  <1>4. CASE UNCHANGED <<db, sessions>>
    BY <1>4 DEF SessionsInUse
  <1> QED
    BY <1>1, <1>2, <1>3, <1>4
    DEF Next, Reconcile, Deletion, Creation, ReconcileExtensions,
        ReconcilePrivileges, Statement, Deliver, PoolIdles, Fetch,
        QueryDatabase, AlreadyReleased, AddFinalizer, RemoveFinalizer,
        AlreadyCreated, OwnerKept, ReadExtensions, ExtensionsDone,
        ReadPrivileges, RoleDone, PrivilegesDone, UpdateStatus,
        AlreadySucceeded, Refuse, CallFails, Crash, vars, serverVars

(* Only clients themselves and DropDatabaseConnections end sessions.       *)
LEMMA WhoEndsSessions ==
  ASSUME TypeOK, [Next]_vars, sessions, ~sessions', edits' = edits
  PROVE  DropConnections
  <1>1. ~Elsewhere
    BY DEF Elsewhere, Spend, TypeOK, ResourceTypeOK
  <1>2. ~UNCHANGED sessions
    OBVIOUS
  <1> QED
    BY <1>1, <1>2
    DEF Next, Environment, Change, OpenSession, CloseSession,
        AdminAlterDatabase, AdminDropDatabase, AdminChangeRoles, Reconcile,
        Deletion, Creation, ReconcileExtensions, ReconcilePrivileges, Deliver,
        PoolIdles, Fetch, QueryDatabase, AlreadyReleased, AddFinalizer,
        RemoveFinalizer, DropDatabase, CreateDatabase, AlreadyCreated,
        AlterDatabaseOwner, OwnerKept, ReadExtensions, DropExtension,
        CreateExtension, ExtensionsDone, ReadPrivileges, GrantPrivilege,
        RevokePrivilege, RoleDone, PrivilegesDone, UpdateStatus,
        AlreadySucceeded, Refuse, CallFails, Crash, vars, serverVars

(* Clients are thrown out of a database only while the deletion of the     *)
(* resource that holds it is pending.                                      *)
THEOREM SessionsAreSafe == Spec => SessionsSafe
  <1>1. Held!HeldSpec => [](Held!HeldTypeOK /\ Held!HoldInv)
    BY KeepAssumption, SpecsNotEmpty, EditsAssumption, Held!HeldInvariance
  <1>2. Init => SessionsInUse
    BY DEF Init, SessionsInUse
  <1>3. TypeOK /\ SessionsInUse /\ [Next]_vars => SessionsInUse'
    BY InUseStep
  <1>4. TypeOK /\ Held!HoldInv /\ SessionsInUse /\ [Next]_vars
          => [sessions /\ ~sessions' =>
                \/ edits' # edits
                \/ api.here /\ api.del /\ api.fin /\ ~kept]_vars
    <2> SUFFICES ASSUME TypeOK, Held!HoldInv, SessionsInUse, [Next]_vars,
                        sessions, ~sessions', edits' = edits
                 PROVE  api.here /\ api.del /\ api.fin /\ ~kept
      OBVIOUS
    <2>1. DropConnections
      BY WhoEndsSessions
    <2>2. Stage = "leaving" /\ db.here
      BY <2>1 DEF DropConnections, Stage, SessionsInUse
    <2> QED
      BY <2>2, KeepAssumption, SpecsNotEmpty, EditsAssumption,
         Held!LeavingIsWanted
  <1> QED
    BY TypeCorrect, DatabaseImplementsHeld, <1>1, <1>2, <1>3, <1>4, PTL
    DEF Spec, ImplementsHeldResource, SessionsSafe

-----------------------------------------------------------------------------
(* What the frame gives.                                                   *)

(* The operator drops neither a database that belongs to nobody nor one    *)
(* whose resource nobody asked to delete.                                  *)
THEOREM WantedDatabasesSurvive == Spec => Held!KeptSurvives /\ Held!NoLiveDrop
  <1>1. Held!HeldSpec => Held!KeptSurvives
    BY KeepAssumption, SpecsNotEmpty, EditsAssumption,
       Held!KeptObjectsSurvive
  <1>2. Held!HeldSpec => Held!NoLiveDrop
    BY KeepAssumption, SpecsNotEmpty, EditsAssumption,
       Held!LiveObjectsSurvive
  <1> QED
    BY DatabaseImplementsHeld, <1>1, <1>2, PTL DEF ImplementsHeldResource

(* Through the frame, the reconciler keeps the promise of ManagedObject.   *)
THEOREM DatabaseIsManaged == Spec => Held!ImplementsManagedObject
  <1>1. Held!HeldSpec => Held!ImplementsManagedObject
    BY KeepAssumption, SpecsNotEmpty, EditsAssumption, Held!HeldImplements
  <1> QED
    BY DatabaseImplementsHeld, <1>1, PTL DEF ImplementsHeldResource

-----------------------------------------------------------------------------
(* What status.succeeded says.                                             *)

(* What the run has done so far is there.                                  *)
OwnerSet == db.here /\ res.spec.owner \in {NoOwner, db.owner}
ExtensionsSet == db.exts = Listed(res.spec)
GrantedTo(rs) == \A r \in rs : Granted(r, res.spec.privs[r])

(* The differences that reconcilePrivileges still has to remove.           *)
Narrowing ==
    /\ who \in todo
    /\ removes \intersect res.spec.privs[who] = {}
    /\ res.spec.privs[who] \subseteq Allowed(who) \union adds
    /\ adds \subseteq res.spec.privs[who]
    /\ db.grants[who] \subseteq res.spec.privs[who] \union removes

(* What the run has read is still so, and what it has done is there.       *)
RunKnows ==
    /\ pc \in {"finalizer", "create"} =>
         seen.here = db.here /\ (db.here => seen.owner = db.owner)
    /\ pc = "owner" => db.here /\ (seen.here => seen.owner = db.owner)
    /\ pc \in {"extensions", "exts", "privileges", "edges", "status"} =>
         OwnerSet
    /\ pc = "exts" => /\ removes = db.exts \ Listed(res.spec)
                      /\ adds = Listed(res.spec) \ db.exts
    /\ pc \in {"privileges", "edges", "status"} => ExtensionsSet
    /\ pc \in {"privileges", "edges"} =>
         GrantedTo(DOMAIN res.spec.privs \ todo)
    /\ pc = "edges" => Narrowing
    /\ pc = "status" => GrantedTo(DOMAIN res.spec.privs)

(* A run that ends forgets what it knows.                                  *)
LEMMA EndKnows == pc' = "idle" => RunKnows'
  BY DEF RunKnows

(* The statements that create the database and set its owner.              *)
LEMMA OwnerKnown ==
  ASSUME TypeOK, RunKnows, Creation
  PROVE  RunKnows'
  <1>1. CASE CreateDatabase
    <2>1. pc' = "idle" \/ (pc' = "owner" /\ UNCHANGED seen /\ ~seen.here)
      BY <1>1 DEF CreateDatabase, Reply, Result, Goto
    <2>2. db'.here
      BY <1>1 DEF CreateDatabase, NewDatabase
    <2> QED
      BY <2>1, <2>2, EndKnows DEF RunKnows
  <1>2. CASE AlreadyCreated
    BY <1>2
    DEF AlreadyCreated, Goto, serverVars, RunKnows, OwnerSet
  <1>3. CASE AlterDatabaseOwner
    <2>1. pc' = "idle" \/ (pc' = "extensions" /\ UNCHANGED res)
      BY <1>3 DEF AlterDatabaseOwner, Reply, Result, Goto
    <2>2. db'.here /\ db'.owner = res.spec.owner
      BY <1>3 DEF AlterDatabaseOwner, TypeOK, DatabaseRecords
    <2> QED
      BY <2>1, <2>2, EndKnows DEF RunKnows, OwnerSet
  <1>4. CASE OwnerKept
    BY <1>4
    DEF OwnerKept, AlterOwner, Goto, serverVars, RunKnows, OwnerSet
  <1> QED
    BY <1>1, <1>2, <1>3, <1>4 DEF Creation

(* The statements about extensions.                                        *)
LEMMA ExtensionsKnown ==
  ASSUME TypeOK, RunKnows, ReconcileExtensions, ~TruncatedReads
  PROVE  RunKnows'
  <1>1. CASE ReadExtensions
    BY <1>1 DEF ReadExtensions, Compare, RunKnows, OwnerSet
  <1>2. CASE DropExtension
    <2>1. PICK e \in removes :
            /\ db' = [db EXCEPT !.exts = @ \ {e}]
            /\ \/ pc' = "idle"
               \/ removes' = removes \ {e} /\ UNCHANGED <<pc, res, adds>>
      BY <1>2 DEF DropExtension, Reply, Result
    <2>2. /\ db'.here = db.here /\ db'.owner = db.owner
          /\ db'.exts = db.exts \ {e} /\ pc = "exts"
      BY <1>2, <2>1 DEF DropExtension, TypeOK, DatabaseRecords
    <2> QED
      BY <2>1, <2>2, EndKnows DEF RunKnows, OwnerSet
  <1>3. CASE CreateExtension
    <2>1. PICK e \in adds :
            /\ db' = [db EXCEPT !.exts = @ \union {e}]
            /\ \/ pc' = "idle"
               \/ adds' = adds \ {e} /\ UNCHANGED <<pc, res, removes>>
      BY <1>3 DEF CreateExtension, Reply, Result
    <2>2. /\ db'.here = db.here /\ db'.owner = db.owner
          /\ db'.exts = db.exts \union {e} /\ pc = "exts"
      BY <1>3, <2>1 DEF CreateExtension, TypeOK, DatabaseRecords
    <2> QED
      BY <2>1, <2>2, EndKnows DEF RunKnows, OwnerSet
  <1>4. CASE ExtensionsDone
    <2>1. /\ pc = "exts" /\ adds = {} /\ removes = {}
          /\ pc' = "privileges" /\ todo' = DOMAIN res.spec.privs
          /\ UNCHANGED <<db, res>>
      BY <1>4 DEF ExtensionsDone, serverVars
    <2>2. ExtensionsSet
      BY <2>1 DEF RunKnows, ExtensionsSet
    <2> QED
      BY <2>1, <2>2 DEF RunKnows, OwnerSet, ExtensionsSet, GrantedTo
  <1> QED
    BY <1>1, <1>2, <1>3, <1>4 DEF ReconcileExtensions

(* GRANT and REVOKE change the privileges of one role only.                *)
LEMMA OneRolesPrivileges ==
  ASSUME TypeOK, RunKnows, pc = "edges", NEW set \in SUBSET Privileges,
         db' = [db EXCEPT !.grants[who] = set], UNCHANGED <<res, todo, who>>
  PROVE  /\ OwnerSet' /\ ExtensionsSet'
         /\ GrantedTo(DOMAIN res.spec.privs \ todo)'
         /\ db'.grants[who] = set /\ db'.public = db.public
  <1>1. who \in todo /\ todo \subseteq DOMAIN res.spec.privs
        /\ DOMAIN res.spec.privs \subseteq Roles
    BY SpecType DEF RunKnows, Narrowing, TypeOK
  <1>2. /\ db'.here = db.here /\ db'.owner = db.owner
        /\ db'.exts = db.exts /\ db'.public = db.public
        /\ db'.grants = [db.grants EXCEPT ![who] = set]
        /\ db.grants \in [Owners -> SUBSET Privileges]
    BY DEF TypeOK, DatabaseRecords
  <1>3. /\ db'.grants[who] = set
        /\ \A r \in Roles \ {who} : db'.grants[r] = db.grants[r]
    BY <1>1, <1>2 DEF Owners
  <1>4. \A r \in DOMAIN res.spec.privs \ todo : Granted(r, res.spec.privs[r])'
    BY <1>1, <1>2, <1>3 DEF RunKnows, GrantedTo, Granted, Allowed
  <1> QED
    BY <1>2, <1>3, <1>4 DEF RunKnows, OwnerSet, ExtensionsSet, GrantedTo

(* The statements about privileges.                                        *)
LEMMA PrivilegesKnown ==
  ASSUME TypeOK, RunKnows, ReconcilePrivileges
  PROVE  RunKnows'
  <1>1. CASE ReadPrivileges
    <2>1. /\ pc = "privileges" /\ pc' = "edges"
          /\ UNCHANGED <<db, res, todo>>
      BY <1>1 DEF ReadPrivileges, serverVars
    <2>2. Narrowing'
      BY <1>1, <2>1 DEF ReadPrivileges, Narrowing, Allowed
    <2> QED
      BY <2>1, <2>2
      DEF RunKnows, OwnerSet, ExtensionsSet, GrantedTo, Granted, Allowed
  <1>2. CASE GrantPrivilege
    <2>1. PICK p \in adds \intersect Privileges :
            /\ db' = [db EXCEPT !.grants[who] = @ \union {p}]
            /\ \/ pc' = "idle"
               \/ /\ adds' = adds \ {p}
                  /\ UNCHANGED <<pc, res, todo, who, removes>>
      BY <1>2 DEF GrantPrivilege, Reply, Result
    <2>2. SUFFICES ASSUME adds' = adds \ {p},
                          UNCHANGED <<pc, res, todo, who, removes>>
                   PROVE  RunKnows'
      BY <2>1, EndKnows
    <2>3. pc = "edges" /\ Narrowing
      BY <1>2 DEF GrantPrivilege, RunKnows
    <2>4. who \in Owners
      BY <2>3, SpecType DEF Narrowing, TypeOK, Owners
    <2>5. db.grants[who] \union {p} \in SUBSET Privileges
      BY <2>4 DEF TypeOK, DatabaseRecords
    <2>6. /\ OwnerSet' /\ ExtensionsSet'
          /\ GrantedTo(DOMAIN res.spec.privs \ todo)'
          /\ db'.grants[who] = db.grants[who] \union {p}
          /\ db'.public = db.public
      BY <2>1, <2>2, <2>3, <2>5, OneRolesPrivileges
    <2>7. Narrowing'
      BY <2>1, <2>2, <2>3, <2>6 DEF Narrowing, Allowed
    <2> QED
      BY <2>2, <2>3, <2>6, <2>7 DEF RunKnows
  <1>3. CASE RevokePrivilege
    <2>1. PICK p \in removes :
            /\ db' = [db EXCEPT !.grants[who] = @ \ {p}]
            /\ \/ pc' = "idle"
               \/ /\ removes' = removes \ {p}
                  /\ UNCHANGED <<pc, res, todo, who, adds>>
      BY <1>3 DEF RevokePrivilege, Reply, Result
    <2>2. SUFFICES ASSUME removes' = removes \ {p},
                          UNCHANGED <<pc, res, todo, who, adds>>
                   PROVE  RunKnows'
      BY <2>1, EndKnows
    <2>3. pc = "edges" /\ Narrowing
      BY <1>3 DEF RevokePrivilege, RunKnows
    <2>4. who \in Owners
      BY <2>3, SpecType DEF Narrowing, TypeOK, Owners
    <2>5. db.grants[who] \ {p} \in SUBSET Privileges
      BY <2>4 DEF TypeOK, DatabaseRecords
    <2>6. /\ OwnerSet' /\ ExtensionsSet'
          /\ GrantedTo(DOMAIN res.spec.privs \ todo)'
          /\ db'.grants[who] = db.grants[who] \ {p}
          /\ db'.public = db.public
      BY <2>1, <2>2, <2>3, <2>5, OneRolesPrivileges
    <2>7. Narrowing'
      BY <2>1, <2>2, <2>3, <2>6 DEF Narrowing, Allowed
    <2> QED
      BY <2>2, <2>3, <2>6, <2>7 DEF RunKnows
  <1>4. CASE RoleDone
    <2>1. /\ pc = "edges" /\ adds = {} /\ removes = {}
          /\ pc' = "privileges" /\ todo' = todo \ {who}
          /\ UNCHANGED <<db, res>>
      BY <1>4 DEF RoleDone, serverVars
    <2>2. Granted(who, res.spec.privs[who])
      BY <2>1 DEF RunKnows, Narrowing, Granted
    <2>3. GrantedTo(DOMAIN res.spec.privs \ todo')
      BY <2>1, <2>2 DEF RunKnows, GrantedTo
    <2> QED
      BY <2>1, <2>3
      DEF RunKnows, OwnerSet, ExtensionsSet, GrantedTo, Granted, Allowed
  <1>5. CASE PrivilegesDone
    <2>1. /\ pc = "privileges" /\ todo = {} /\ pc' = "status"
          /\ UNCHANGED <<db, res>>
      BY <1>5 DEF PrivilegesDone, Goto, serverVars
    <2> QED
      BY <2>1
      DEF RunKnows, OwnerSet, ExtensionsSet, GrantedTo, Granted, Allowed
  <1> QED
    BY <1>1, <1>2, <1>3, <1>4, <1>5 DEF ReconcilePrivileges

(* What the run knows stays true, step by step.                            *)
LEMMA RunKnowsStep ==
  ASSUME TypeOK, RunKnows, [Next]_vars,
         ~AdminDrops, AdminDatabases = {}, ~TruncatedReads
  PROVE  RunKnows'
  <1>1. CASE Creation
    BY <1>1, OwnerKnown
  <1>2. CASE ReconcileExtensions
    BY <1>2, ExtensionsKnown
  <1>3. CASE ReconcilePrivileges
    BY <1>3, PrivilegesKnown
  <1>4. CASE Environment \/ Deliver \/ PoolIdles \/ UNCHANGED vars
    <2>1. UNCHANGED <<db, pc, res, seen, todo, who, adds, removes>>
      BY <1>4
      DEF Environment, Change, OpenSession, CloseSession, AdminAlterDatabase,
          AdminDropDatabase, AdminChangeRoles, OperatorIdle, Deliver,
          PoolIdles, vars, runVars, serverVars
    <2> QED
      BY <2>1
      DEF RunKnows, OwnerSet, ExtensionsSet, GrantedTo, Granted, Allowed,
          Narrowing
  <1>5. CASE QueryDatabase
    <2>1. pc' \in {"finalizer", "create", "release", "drop", "connections"}
      BY <1>5 DEF QueryDatabase, AfterQuery
    <2>2. UNCHANGED db /\ seen' = [here |-> db.here, owner |-> db.owner]
      BY <1>5 DEF QueryDatabase, serverVars
    <2> QED
      BY <2>1, <2>2 DEF RunKnows
  <1>6. CASE AddFinalizer
    <2>1. pc' = "idle" \/ (pc' = "create" /\ UNCHANGED <<db, seen>>)
      BY <1>6 DEF AddFinalizer, Reply, Result, serverVars
    <2> QED
      BY <1>6, <2>1, EndKnows DEF AddFinalizer, RunKnows
  <1>7. CASE Fetch \/ Deletion
    <2>1. pc' \in {"idle", "query", "drop", "release"}
      BY <1>7
      DEF Fetch, Deletion, DropConnections, DropDatabase, RemoveFinalizer,
          Reply, Goto, Result
    <2> QED
      BY <2>1 DEF RunKnows
  <1>8. CASE \/ AlreadyReleased \/ UpdateStatus \/ AlreadySucceeded
             \/ Refuse \/ CallFails \/ Crash
    <2>1. pc' = "idle"
      BY <1>8
      DEF AlreadyReleased, UpdateStatus, AlreadySucceeded, Refuse, CallFails,
          Crash, Reply, Result
    <2> QED
      BY <2>1, EndKnows
  <1> QED
    BY <1>1, <1>2, <1>3, <1>4, <1>5, <1>6, <1>7, <1>8 DEF Next, Reconcile

(* Only a run that reports sets status.succeeded.                          *)
LEMMA WhoReports ==
  ASSUME TypeOK, [Next]_vars, api'.ok /\ ~api.ok
  PROVE  UpdateStatus
  <1>1. api' # api
    OBVIOUS
  <1>2. CASE Environment
    <2>1. Change
      BY <1>1, <1>2
      DEF Environment, OpenSession, CloseSession, AdminAlterDatabase,
          AdminDropDatabase, AdminChangeRoles, Elsewhere
    <2>2. api \in ObjectRecords /\ ChangeResource
      BY <2>1 DEF Change, TypeOK, ResourceTypeOK
    <2>3. CASE SubmitResource
      BY <2>3 DEF SubmitResource, Write
    <2>4. CASE EditResource
      BY <1>1, <2>2, <2>4 DEF EditResource, Write, ObjectRecords
    <2>5. CASE DeleteResource \/ ReleaseOther
      BY <2>2, <2>5
      DEF DeleteResource, ReleaseOther, Write, Removed, ObjectRecords
    <2> QED
      BY <2>2, <2>3, <2>4, <2>5 DEF ChangeResource
  <1>3. CASE AddFinalizer \/ RemoveFinalizer
    <2>1. ~api'.ok
      BY <1>3
      DEF AddFinalizer, RemoveFinalizer, WriteFinalizer, WriteRelease, Write,
          Removed, TypeOK, ResourceTypeOK, ObjectRecords
    <2> QED
      BY <2>1
  <1>4. CASE ReconcileExtensions \/ ReconcilePrivileges \/ Creation
    <2>1. UNCHANGED api
      BY <1>4
      DEF ReconcileExtensions, ReconcilePrivileges, Creation, CreateDatabase,
          AlreadyCreated, AlterDatabaseOwner, OwnerKept, ReadExtensions,
          DropExtension, CreateExtension, ExtensionsDone, ReadPrivileges,
          GrantPrivilege, RevokePrivilege, RoleDone, PrivilegesDone, apiVars
    <2> QED
      BY <1>1, <2>1
  <1>5. CASE \/ Deliver \/ PoolIdles \/ Fetch \/ QueryDatabase
             \/ AlreadyReleased \/ DropConnections \/ DropDatabase
             \/ AlreadySucceeded \/ Refuse \/ CallFails \/ Crash
             \/ UNCHANGED vars
    <2>1. UNCHANGED api
      BY <1>5
      DEF Deliver, DeliverResource, PoolIdles, Fetch, QueryDatabase,
          AlreadyReleased, DropConnections, DropDatabase, AlreadySucceeded,
          Refuse, CallFails, Crash, apiVars, vars
    <2> QED
      BY <1>1, <2>1
  <1> QED
    BY <1>2, <1>3, <1>4, <1>5 DEF Next, Reconcile, Deletion

(* Where no administrator changes the database and no list of extensions   *)
(* is cut short, status.succeeded is only ever set for a version of the    *)
(* spec that PostgreSQL has: owner, extensions and every role's access,    *)
(* though each is read and written one statement at a time.                *)
THEOREM StatusIsTruthful ==
  ASSUME ~AdminDrops, AdminDatabases = {}, ~TruncatedReads
  PROVE  Spec => StatusTruthful
  <1>1. Init => RunKnows
    BY DEF Init, Idle, RunKnows
  <1>2. TypeOK /\ RunKnows /\ [Next]_vars => RunKnows'
    BY RunKnowsStep
  <1>3. Held!HeldSpec => [](Held!HeldTypeOK /\ Held!HoldInv)
    BY KeepAssumption, SpecsNotEmpty, EditsAssumption, Held!HeldInvariance
  <1>4. ASSUME TypeOK, RunKnows, Held!HoldInv, [Next]_vars,
               api'.ok /\ ~api.ok
        PROVE  AsAsked(api.spec)
    <2>1. UpdateStatus
      BY <1>4, WhoReports
    <2>2. Current(res) /\ pc = "status"
      BY <2>1 DEF UpdateStatus
    <2>3. res = api
      BY <1>4, <2>2
      DEF Held!HoldInv, Held!CopiesInv, Held!VersionsAgree, Stage,
          Current
    <2> QED
      BY <1>4, <2>2, <2>3
      DEF RunKnows, OwnerSet, ExtensionsSet, GrantedTo, AsAsked
  <1>5. TypeOK /\ RunKnows /\ Held!HoldInv /\ [Next]_vars
          => [api'.ok /\ ~api.ok => AsAsked(api.spec)]_vars
    BY <1>4
  <1> QED
    BY TypeCorrect, DatabaseImplementsHeld, <1>1, <1>2, <1>3, <1>5, PTL
    DEF Spec, ImplementsHeldResource, StatusTruthful

-----------------------------------------------------------------------------
(* Every statement takes the database nearer to the spec.                  *)

(* What is left to do is what the spec asks for, and nothing it asks for   *)
(* is left to be undone, however little of the list of extensions was      *)
(* read.                                                                   *)
DiffsWanted ==
    /\ pc = "exts" => /\ adds \subseteq Listed(res.spec)
                      /\ removes \intersect Listed(res.spec) = {}
    /\ pc = "edges" => /\ who \in DOMAIN res.spec.privs
                       /\ adds \subseteq res.spec.privs[who]
                       /\ removes \intersect res.spec.privs[who] = {}

LEMMA DiffsStep ==
  ASSUME TypeOK, DiffsWanted, [Next]_vars
  PROVE  DiffsWanted'
  <1>1. CASE ReadExtensions
    <2>1. PICK read \in SUBSET db.exts : Compare(read)
      BY <1>1 DEF ReadExtensions
    <2> QED
      BY <1>1, <2>1 DEF ReadExtensions, Compare, DiffsWanted, Listed
  <1>2. CASE ReadPrivileges
    <2>1. PICK r \in todo \intersect roles :
            /\ who' = r
            /\ adds' = res.spec.privs[r] \ Allowed(r)
            /\ removes' = Allowed(r) \ res.spec.privs[r]
      BY <1>2 DEF ReadPrivileges
    <2>2. /\ pc = "privileges" /\ pc' = "edges" /\ UNCHANGED res
          /\ r \in DOMAIN res.spec.privs
      BY <1>2 DEF ReadPrivileges, TypeOK
    <2> QED
      BY <2>1, <2>2 DEF DiffsWanted
  <1>3. CASE DropExtension \/ CreateExtension \/ GrantPrivilege
               \/ RevokePrivilege
    <2>1. \/ pc' = "idle"
          \/ /\ UNCHANGED <<pc, res, who>>
             /\ adds' \subseteq adds /\ removes' \subseteq removes
      BY <1>3 DEF DropExtension, CreateExtension, GrantPrivilege,
                  RevokePrivilege, Reply, Result
    <2> QED
      BY <2>1 DEF DiffsWanted, Listed
  <1>4. CASE Environment \/ Deliver \/ PoolIdles \/ UNCHANGED vars
    <2>1. UNCHANGED <<pc, res, who, adds, removes>>
      BY <1>4
      DEF Environment, Change, OpenSession, CloseSession, AdminAlterDatabase,
          AdminDropDatabase, AdminChangeRoles, OperatorIdle, Deliver,
          PoolIdles, vars, runVars
    <2> QED
      BY <2>1 DEF DiffsWanted, Listed
  <1>5. CASE \/ Fetch \/ QueryDatabase \/ AlreadyReleased \/ AddFinalizer
             \/ Deletion \/ Creation \/ ExtensionsDone \/ RoleDone
             \/ PrivilegesDone \/ UpdateStatus \/ AlreadySucceeded \/ Refuse
             \/ CallFails \/ Crash
    <2>1. pc' \notin {"exts", "edges"}
      BY <1>5
      DEF Fetch, QueryDatabase, AfterQuery, AlreadyReleased, AddFinalizer,
          Deletion, DropConnections, DropDatabase, RemoveFinalizer, Creation,
          CreateDatabase, AlreadyCreated, AlterDatabaseOwner, OwnerKept,
          ExtensionsDone, RoleDone, PrivilegesDone, UpdateStatus,
          AlreadySucceeded, Refuse, CallFails, Crash, Reply, Result, Goto
    <2> QED
      BY <2>1 DEF DiffsWanted
  <1> QED
    BY <1>1, <1>2, <1>3, <1>4, <1>5
    DEF Next, Reconcile, ReconcileExtensions, ReconcilePrivileges

(* The statements that change a database that stays.                       *)
LEMMA WhoAlters ==
  ASSUME TypeOK, [Next]_vars, edits' = edits, db.here, db'.here
  PROVE  \/ UNCHANGED db
         \/ AlterDatabaseOwner \/ DropExtension \/ CreateExtension
         \/ GrantPrivilege \/ RevokePrivilege
  <1>1. ~Elsewhere
    BY DEF Elsewhere, Spend, TypeOK, ResourceTypeOK
  <1>2. ~DropDatabase
    BY DEF DropDatabase, NoDatabase
  <1>3. ~CreateDatabase
    BY DEF CreateDatabase
  <1>4. CASE UNCHANGED serverVars
    BY <1>4 DEF serverVars
  <1> QED
    BY <1>1, <1>2, <1>3, <1>4
    DEF Next, Environment, Change, OpenSession, CloseSession,
        AdminAlterDatabase, AdminDropDatabase, AdminChangeRoles, Deliver,
        PoolIdles, Reconcile, Fetch, QueryDatabase, AlreadyReleased,
        AddFinalizer, Deletion, DropConnections, RemoveFinalizer, Creation,
        AlreadyCreated, OwnerKept, ReconcileExtensions, ReadExtensions,
        ExtensionsDone, ReconcilePrivileges, ReadPrivileges, RoleDone,
        PrivilegesDone, UpdateStatus, AlreadySucceeded, Refuse, CallFails,
        Crash, vars, serverVars

(* What one of them may do to the database.                                *)
Nearer ==
    /\ db'.owner \in {db.owner, res.spec.owner}
    /\ Towards(Listed(res.spec), db.exts, db'.exts)
    /\ db'.owner = db.owner =>
         \A r \in Owners : Towards(WantedOf(r), db.grants[r], db'.grants[r])

(* Whatever administrators make of the database while a run is under way,  *)
(* the run's statements take it nearer to the spec it acts on, or leave it *)
(* as near: no assumption on administrators, faults or lists cut short.    *)
THEOREM StatementsGoTowardsSpec == Spec => OnlyTowardsSpec
  <1>1. Init => DiffsWanted
    BY DEF Init, Idle, DiffsWanted
  <1>2. TypeOK /\ DiffsWanted /\ [Next]_vars => DiffsWanted'
    BY DiffsStep
  <1>3. ASSUME TypeOK, DiffsWanted, [Next]_vars, edits' = edits,
               db.here, db'.here
        PROVE  Nearer
    <2>1. CASE UNCHANGED db
      BY <2>1 DEF Nearer, Towards
    <2>2. CASE AlterDatabaseOwner
      <3>1. \/ db' = db
            \/ /\ res.spec.owner # db.owner
               /\ \E moved : db' = [db EXCEPT !.owner = res.spec.owner,
                                              !.grants = moved]
        BY <2>2 DEF AlterDatabaseOwner
      <3>2. \/ db' = db
            \/ /\ db'.owner = res.spec.owner /\ db'.owner # db.owner
               /\ db'.exts = db.exts
        BY <1>3, <3>1 DEF TypeOK, DatabaseRecords
      <3> QED
        BY <2>1, <3>2 DEF Nearer, Towards
    <2>3. CASE DropExtension \/ CreateExtension
      <3>1. pc = "exts"
        BY <2>3 DEF DropExtension, CreateExtension
      <3>2. \/ \E e \in removes : db' = [db EXCEPT !.exts = @ \ {e}]
            \/ \E e \in adds : db' = [db EXCEPT !.exts = @ \union {e}]
        BY <2>3 DEF DropExtension, CreateExtension
      <3>3. /\ db'.owner = db.owner /\ db'.grants = db.grants
            /\ \/ \E e \in removes : db'.exts = db.exts \ {e}
               \/ \E e \in adds : db'.exts = db.exts \union {e}
        BY <1>3, <3>2 DEF TypeOK, DatabaseRecords
      <3>4. /\ adds \subseteq Listed(res.spec)
            /\ removes \intersect Listed(res.spec) = {}
        BY <1>3, <3>1 DEF DiffsWanted
      <3> QED
        BY <3>3, <3>4 DEF Nearer, Towards
    <2>4. CASE GrantPrivilege \/ RevokePrivilege
      <3>1. /\ who \in DOMAIN res.spec.privs
            /\ adds \subseteq res.spec.privs[who]
            /\ removes \intersect res.spec.privs[who] = {}
        BY <1>3, <2>4 DEF GrantPrivilege, RevokePrivilege, DiffsWanted
      <3>2. \/ \E p \in adds : db' = [db EXCEPT !.grants[who] = @ \union {p}]
            \/ \E p \in removes : db' = [db EXCEPT !.grants[who] = @ \ {p}]
        BY <2>4 DEF GrantPrivilege, RevokePrivilege
      <3>3. /\ db'.owner = db.owner /\ db'.exts = db.exts
            /\ \A r \in Owners \ {who} : db'.grants[r] = db.grants[r]
            /\ who \in Owners =>
                 \/ \E p \in adds :
                      db'.grants[who] = db.grants[who] \union {p}
                 \/ \E p \in removes : db'.grants[who] = db.grants[who] \ {p}
        BY <1>3, <3>2 DEF TypeOK, DatabaseRecords
      <3>4. WantedOf(who) = res.spec.privs[who]
        BY <3>1 DEF WantedOf
      <3>5. \A r \in Owners :
              Towards(WantedOf(r), db.grants[r], db'.grants[r])
        <4> SUFFICES ASSUME NEW r \in Owners
                     PROVE  Towards(WantedOf(r), db.grants[r], db'.grants[r])
          OBVIOUS
        <4>1. CASE r = who
          BY <3>1, <3>3, <3>4, <4>1 DEF Towards
        <4>2. CASE r # who
          BY <3>3, <4>2 DEF Towards
        <4> QED
          BY <4>1, <4>2
      <3> QED
        BY <3>3, <3>5 DEF Nearer, Towards
    <2> QED
      BY <1>3, <2>1, <2>2, <2>3, <2>4, WhoAlters
  <1>4. TypeOK /\ DiffsWanted /\ [Next]_vars
          => [db.here /\ db'.here /\ edits' = edits => Nearer]_vars
    BY <1>3
  <1> QED
    BY TypeCorrect, <1>1, <1>2, <1>4, PTL DEF Spec, OnlyTowardsSpec, Nearer

=============================================================================
