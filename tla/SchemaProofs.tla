---------------------------- MODULE SchemaProofs ----------------------------
(***************************************************************************)
(* Theorems about SchemaReconciler, for every value of its constants.      *)
(* Where the operator is a member of every role, as a superuser is, it     *)
(* sees every schema and implements HeldResource.  Where it is not, a      *)
(* schema may be left behind unseen, and what then still holds is proved   *)
(* from the copies of the resource alone (CopiesAgree), with no            *)
(* refinement: the frame's statements about the object are false there.    *)
(***************************************************************************)
EXTENDS SchemaProperties, ResourceProofs

-----------------------------------------------------------------------------
(* Type correctness.                                                       *)

(* What the specs are made of.                                             *)
LEMMA SpecType ==
  ASSUME NEW object \in ObjectRecords
  PROVE  /\ object.spec.owner \in Roles \union {NoOwner}
         /\ object.spec.keep \in BOOLEAN
         /\ DOMAIN object.spec.privs \subseteq Roles
         /\ \A r \in DOMAIN object.spec.privs :
              object.spec.privs[r] \subseteq Privileges
  BY SpecsAssumption, KeepAssumption DEF ObjectRecords

(* The schema that is not there, and the one CREATE SCHEMA makes.          *)
LEMMA SchemaType ==
  NoSchema \in SchemaRecords /\ NewSchema \in SchemaRecords
  <1>1. NoGrants \in [Owners -> SUBSET Privileges] /\ Operator \in Owners
    BY DEF NoGrants, Owners
  <1>2. [NoGrants EXCEPT ![Operator] = Privileges]
          \in [Owners -> SUBSET Privileges]
    BY <1>1
  <1> QED
    BY <1>1, <1>2 DEF NoSchema, NewSchema, SchemaRecords

(* The types of the variables that a run keeps for itself.                 *)
RunTypeOK ==
    /\ pc \in PCs
    /\ res \in ObjectRecords
    /\ seen \in [here : BOOLEAN, owner : Owners]
    /\ todo \in SUBSET Roles
    /\ pc \in {"privileges", "edges"} => todo \subseteq DOMAIN res.spec.privs
    /\ who \in Roles \union {NoOwner}
    /\ adds \in SUBSET Privileges
    /\ removes \in SUBSET Privileges

(* The types of what the server keeps.                                     *)
ServerTypeOK ==
    /\ database \in BOOLEAN
    /\ schema \in SchemaRecords
    /\ schema.here => database
    /\ roles \in SUBSET Roles

(* The four parts of the type invariant.                                   *)
LEMMA TypeParts ==
  /\ TypeOK <=> /\ ResourceTypeOK /\ RunTypeOK /\ ServerTypeOK
                /\ kept \in BOOLEAN /\ faults \in Nat
  /\ TypeOK' <=> /\ ResourceTypeOK' /\ RunTypeOK' /\ ServerTypeOK'
                 /\ kept' \in BOOLEAN /\ faults' \in Nat
  BY DEF TypeOK, RunTypeOK, ServerTypeOK

(* The end of a run leaves its variables in their types.                   *)
LEMMA ResultType == Result => RunTypeOK'
  BY NoObjectType DEF Result, RunTypeOK, PCs, Unread, Owners

(* A call counts at most one fault.                                        *)
LEMMA FaultType ==
  ASSUME faults \in Nat, UNCHANGED faults \/ Fault
  PROVE  faults' \in Nat
  BY DEF Fault

(* The initial values have their types.                                    *)
LEMMA TypeInit == Init => TypeOK
  <1> SUFFICES ASSUME Init PROVE TypeOK
    OBVIOUS
  <1>1. ResourceTypeOK
    BY NoObjectType DEF Init, ResourceInit, ResourceTypeOK
  <1>2. RunTypeOK
    BY NoObjectType DEF Init, Idle, RunTypeOK, PCs, Unread, Owners
  <1>3. ServerTypeOK
    BY SchemaType, SchemasAssumption DEF Init, ServerTypeOK
  <1>4. kept \in BOOLEAN /\ faults \in Nat
    BY <1>3 DEF Init, ServerTypeOK, SchemaRecords
  <1> QED
    BY <1>1, <1>2, <1>3, <1>4, TypeParts

(* What users and administrators do keeps the types.                       *)
LEMMA EnvironmentType ==
  ASSUME TypeOK, Environment
  PROVE  TypeOK'
  <1>1. ResourceTypeOK /\ RunTypeOK /\ ServerTypeOK
    BY TypeParts
  <1>2. UNCHANGED <<view, runVars, kept, faults>>
    BY DEF Environment, Change, UseSchema, AdminAlterSchema, AdminDropSchema,
           DropDatabase, CreateDatabase, AdminChangeRoles, OperatorIdle
  <1>3. ResourceTypeOK'
    BY <1>1, <1>2, ChangeType, ElsewhereType
    DEF Environment, Change, UseSchema, AdminAlterSchema, AdminDropSchema,
        DropDatabase, CreateDatabase, AdminChangeRoles
  <1>4. ServerTypeOK'
    <2> USE <1>1 DEF ServerTypeOK
    <2>1. CASE Change
      BY <2>1 DEF Change, serverVars
    <2>2. CASE UseSchema
      BY <2>2 DEF UseSchema, SchemaRecords
    <2>3. CASE AdminAlterSchema
      BY <2>3, SchemasAssumption DEF AdminAlterSchema
    <2>4. CASE AdminDropSchema \/ DropDatabase
      <3>1. schema' \in SchemaRecords /\ ~schema'.here
        <4>1. ~NoSchema.here
          BY DEF NoSchema
        <4> QED
          BY <2>4, <4>1, SchemaType DEF AdminDropSchema, DropDatabase
      <3> QED
        BY <2>4, <3>1 DEF AdminDropSchema, DropDatabase
    <2>6. CASE CreateDatabase
      BY <2>6 DEF CreateDatabase
    <2>5. CASE AdminChangeRoles
      BY <2>5 DEF AdminChangeRoles
    <2> QED
      BY <2>1, <2>2, <2>3, <2>4, <2>5, <2>6 DEF Environment
  <1>5. RunTypeOK' /\ kept' \in BOOLEAN /\ faults' \in Nat
    BY <1>1, <1>2 DEF RunTypeOK, runVars, TypeOK
  <1> QED
    BY <1>3, <1>4, <1>5, TypeParts

(* The writes to the resource keep the types.                              *)
LEMMA ResourceWriteType ==
  ASSUME TypeOK, AddFinalizer \/ RemoveFinalizer \/ UpdateStatus
  PROVE  TypeOK'
  <1>1. ResourceTypeOK' /\ api' \in ObjectRecords
    BY OperatorWriteType DEF TypeOK, AddFinalizer, RemoveFinalizer, UpdateStatus
  <1>2. ServerTypeOK'
    BY DEF AddFinalizer, RemoveFinalizer, UpdateStatus, serverVars, TypeOK,
           ServerTypeOK
  <1>3. kept' \in BOOLEAN
    BY SpecType DEF TypeOK, AddFinalizer, RemoveFinalizer, UpdateStatus
  <1>4. RunTypeOK' /\ (UNCHANGED faults \/ Fault)
    <2>1. CASE Result /\ (UNCHANGED faults \/ Fault)
      BY <2>1, ResultType
    <2>2. CASE /\ AddFinalizer
               /\ pc' = "create" /\ res' = api'
               /\ UNCHANGED <<seen, todo, who, adds, removes, faults>>
      BY <1>1, <2>2 DEF TypeOK, RunTypeOK, PCs
    <2>3. CASE res' = api' /\ StartPrivileges /\ UNCHANGED faults
      BY <1>1, <2>3, SpecType DEF StartPrivileges, TypeOK, RunTypeOK, PCs
    <2> QED
      BY <2>1, <2>2, <2>3
      DEF AddFinalizer, RemoveFinalizer, UpdateStatus, Reply
  <1>5. faults' \in Nat
    BY <1>4, FaultType DEF TypeOK
  <1> QED
    BY <1>1, <1>2, <1>3, <1>4, <1>5, TypeParts

(* The statements that change the schema make a schema of it.              *)
Statement ==
    \/ DropSchema \/ CreateSchema \/ AlterSchemaOwner
    \/ GrantPrivilege \/ RevokePrivilege

LEMMA StatementType ==
  ASSUME TypeOK, Statement
  PROVE  ServerTypeOK'
  <1> USE DEF TypeOK
  <1>1. CASE DropSchema \/ CreateSchema
    BY <1>1, SchemaType
    DEF DropSchema, CreateSchema, NoSchema, ServerTypeOK
  <1>2. CASE AlterSchemaOwner
    <2> DEFINE new == res.spec.owner
               moved == [r \in Owners |->
                           IF r = schema.owner THEN {}
                           ELSE IF r = new THEN schema.grants[new]
                                                  \union schema.grants[schema.owner]
                           ELSE schema.grants[r]]
    <2>1. \/ schema' = schema
          \/ schema' = [schema EXCEPT !.owner = new, !.grants = moved]
      BY <1>2 DEF AlterSchemaOwner
    <2>2. new \in Owners
      BY <1>2, SpecType DEF AlterSchemaOwner, AlterOwner, Owners
    <2>3. moved \in [Owners -> SUBSET Privileges]
      BY <2>2 DEF SchemaRecords
    <2>4. UNCHANGED <<database, roles>>
      BY <1>2 DEF AlterSchemaOwner
    <2> HIDE DEF moved, new
    <2> QED
      BY <2>1, <2>2, <2>3, <2>4 DEF SchemaRecords, ServerTypeOK
  <1>3. CASE GrantPrivilege \/ RevokePrivilege
    <2>1. PICK privs \in SUBSET Privileges : SetGrants(privs)
      <3>1. \A r \in Roles : schema.grants[r] \subseteq Privileges
        BY DEF SchemaRecords, Owners
      <3>2. \A privs : SetGrants(privs) => who \in Roles
        BY DEF SetGrants
      <3>3. CASE GrantPrivilege
        <4>1. PICK p \in adds : SetGrants(schema.grants[who] \union {p})
          BY <3>3 DEF GrantPrivilege
        <4> QED
          BY <3>1, <3>2, <4>1
      <3>4. CASE RevokePrivilege
        <4>1. PICK p \in removes : SetGrants(schema.grants[who] \ {p})
          BY <3>4 DEF RevokePrivilege
        <4> QED
          BY <3>1, <3>2, <4>1
      <3> QED
        BY <1>3, <3>3, <3>4
    <2>2. \/ schema' = schema
          \/ schema' = [schema EXCEPT !.grants[who] = privs] /\ who \in Owners
      BY <2>1 DEF SetGrants, Owners
    <2>3. who \in Owners
             => [schema.grants EXCEPT ![who] = privs]
                  \in [Owners -> SUBSET Privileges]
      BY DEF SchemaRecords
    <2>4. UNCHANGED <<database, roles>>
      BY <1>3 DEF GrantPrivilege, RevokePrivilege
    <2> QED
      BY <2>2, <2>3, <2>4 DEF SchemaRecords, ServerTypeOK
  <1> QED
    BY <1>1, <1>2, <1>3 DEF Statement

(* The runs that they leave have their types too.                          *)
LEMMA StatementsType ==
  ASSUME TypeOK, Statement
  PROVE  TypeOK'
  <1>1. ServerTypeOK'
    BY StatementType
  <1>2. UNCHANGED apiVars
    BY DEF Statement, DropSchema, CreateSchema, AlterSchemaOwner,
           GrantPrivilege, RevokePrivilege
  <1>3. ResourceTypeOK' /\ kept' \in BOOLEAN
    BY <1>2 DEF TypeOK, ResourceTypeOK, apiVars
  <1>4. CASE Result /\ Fault
    BY <1>1, <1>3, <1>4, ResultType, FaultType, TypeParts
  <1>5. CASE /\ pc' \in PCs
             /\ pc' \in {"privileges", "edges"} => pc = pc'
             /\ UNCHANGED <<res, seen, todo, who, faults>>
             /\ adds' \subseteq adds /\ removes' \subseteq removes
    <2>1. RunTypeOK' /\ faults' \in Nat
      BY <1>5 DEF TypeOK, RunTypeOK
    <2> QED
      BY <1>1, <1>3, <2>1, TypeParts
  <1> QED
    BY <1>4, <1>5
    DEF Statement, DropSchema, CreateSchema, AlterSchemaOwner,
        GrantPrivilege, RevokePrivilege, Reply, Goto, PCs, TypeOK

(* The steps that only move the run keep the types.                        *)
LEMMA LocalType ==
  ASSUME TypeOK, UNCHANGED <<apiVars, serverVars>>, RunTypeOK',
         UNCHANGED faults \/ Fault
  PROVE  TypeOK'
  <1>1. ResourceTypeOK' /\ kept' \in BOOLEAN /\ ServerTypeOK'
    BY DEF apiVars, serverVars, TypeOK, ResourceTypeOK, ServerTypeOK
  <1>2. faults' \in Nat
    BY FaultType DEF TypeOK
  <1> QED
    BY <1>1, <1>2, TypeParts

(* Every step keeps the types.                                             *)
LEMMA TypeStep == TypeOK /\ [Next]_vars => TypeOK'
  <1> SUFFICES ASSUME TypeOK, [Next]_vars PROVE TypeOK'
    OBVIOUS
  <1> USE DEF TypeOK
  <1>1. CASE Environment
    BY <1>1, EnvironmentType
  <1>2. CASE Deliver
    BY <1>2, DeliverType DEF Deliver, serverVars, runVars
  <1>3. CASE AddFinalizer \/ RemoveFinalizer \/ UpdateStatus
    BY <1>3, ResourceWriteType
  <1>4. CASE Statement
    BY <1>4, StatementsType
  <1>5. CASE Fetch
    <2>1. RunTypeOK'
      BY <1>5 DEF Fetch, RunTypeOK, PCs, ResourceTypeOK
    <2> QED
      BY <1>5, <2>1, LocalType DEF Fetch
  <1>6. CASE QuerySchema
    <2>1. seen' \in [here : BOOLEAN, owner : Owners]
      BY <1>6 DEF QuerySchema, Unread, Owners, SchemaRecords
    <2>2. RunTypeOK'
      BY <1>6, <2>1 DEF QuerySchema, AfterQuery, RunTypeOK, PCs
    <2> QED
      BY <1>6, <2>2, LocalType DEF QuerySchema
  <1>7. CASE AlreadyCreated \/ OwnerKept
    <2>1. RunTypeOK'
      BY <1>7 DEF AlreadyCreated, OwnerKept, Goto, RunTypeOK, PCs
    <2> QED
      BY <1>7, <2>1, LocalType DEF AlreadyCreated, OwnerKept
  <1>8. CASE AlreadySucceeded
    <2>1. RunTypeOK'
      BY <1>8, SpecType DEF AlreadySucceeded, StartPrivileges, RunTypeOK, PCs
    <2> QED
      BY <1>8, <2>1, LocalType DEF AlreadySucceeded
  <1>9. CASE ReadPrivileges
    <2>1. PICK r \in todo \intersect roles : who' = r /\ Compare(r)
      BY <1>9 DEF ReadPrivileges
    <2>2. Allowed(r) \subseteq Privileges
      BY DEF Allowed, SchemaRecords, Owners
    <2>3. res.spec.privs[r] \subseteq Privileges
      BY <1>9, SpecType DEF ReadPrivileges
    <2>4. /\ adds' \in SUBSET Privileges /\ removes' \in SUBSET Privileges
          /\ who' \in Roles \union {NoOwner}
      BY <2>1, <2>2, <2>3 DEF Compare
    <2>5. RunTypeOK'
      BY <1>9, <2>4 DEF ReadPrivileges, RunTypeOK, PCs
    <2> QED
      BY <1>9, <2>5, LocalType DEF ReadPrivileges
  <1>10. CASE RoleDone
    <2>1. RunTypeOK'
      BY <1>10 DEF RoleDone, RunTypeOK, PCs
    <2> QED
      BY <1>10, <2>1, LocalType DEF RoleDone
  <1>11. CASE AlreadyReleased \/ PrivilegesDone \/ Refuse \/ CallFails
    <2>1. /\ UNCHANGED <<apiVars, serverVars>> /\ Result
          /\ UNCHANGED faults \/ Fault
      BY <1>11 DEF AlreadyReleased, PrivilegesDone, Refuse, CallFails
    <2> QED
      BY <2>1, ResultType, LocalType
  <1>12. CASE Crash
    <2>1. /\ ResourceTypeOK' /\ ServerTypeOK' /\ kept' \in BOOLEAN
          /\ RunTypeOK' /\ Fault
      BY <1>12, ResultType
      DEF Crash, Relist, ResourceTypeOK, ServerTypeOK, serverVars
    <2> QED
      BY <2>1, FaultType, TypeParts
  <1>13. CASE UNCHANGED vars
    BY <1>13 DEF vars, apiVars, serverVars, runVars, ResourceTypeOK
  <1> QED
    BY <1>1, <1>2, <1>3, <1>4, <1>5, <1>6, <1>7, <1>8, <1>9, <1>10, <1>11,
       <1>12, <1>13
    DEF Next, Reconcile, Deletion, Creation, ReconcilePrivileges, Statement

(* Type correctness of every variable of SchemaReconciler; no schema       *)
(* without its database, and no role is looked at that the run's copy of   *)
(* the spec does not list.                                                 *)
THEOREM TypeCorrect == Spec => []TypeOK
  BY TypeInit, TypeStep, PTL DEF Spec

-----------------------------------------------------------------------------
(* SchemaReconciler implements HeldResource: every step is a step of one   *)
(* of its actions, seen through Stage, or changes nothing there.           *)

(* Both modules have the same resource.                                    *)
LEMMA SameResource ==
  /\ ChangeResource => Held!ChangeResource
  /\ Elsewhere => Held!Elsewhere
  /\ DeliverResource => Held!DeliverResource
  /\ Relist => Held!Relist
  /\ WriteFinalizer => Held!WriteFinalizer
  /\ WriteRelease => Held!WriteRelease
  /\ WriteStatus => Held!WriteStatus
  /\ Current(res) => Held!Current(res)
  BY DEF ChangeResource, SubmitResource, EditResource, DeleteResource,
         ReleaseOther, Elsewhere, Spend, DeliverResource, Relist,
         WriteFinalizer, WriteRelease, WriteStatus, Current, Write, Removed,
         NextVersion, NextUid,
         Held!ChangeResource, Held!SubmitResource, Held!EditResource,
         Held!DeleteResource, Held!ReleaseOther, Held!Elsewhere, Held!Spend,
         Held!DeliverResource, Held!Relist, Held!WriteFinalizer,
         Held!WriteRelease, Held!WriteStatus, Held!Current, Held!Write,
         Held!Removed, Held!NextVersion, Held!NextUid

HeldStep == [Held!HeldNext]_(Held!heldVars)

(* A member of every role sees every schema.                               *)
LEMMA AllSeen ==
  ASSUME TypeOK, Roles \subseteq Members
  PROVE  Visible <=> schema.here
  BY DEF TypeOK, SchemaRecords, Visible, Rights, Owners

(* A run that ends for whatever reason, a crash aside.                     *)
LEMMA EndStep ==
  ASSUME Result, UNCHANGED apiVars, schema'.here = schema.here, pc # "idle"
  PROVE  HeldStep
  <1>1. Stage # "idle" /\ Stage' = "idle" /\ res' = NoObject
    BY DEF Stage, Result
  <1>2. Held!EndRun
    BY <1>1 DEF apiVars, Held!EndRun, Held!End, NoObject, Held!NoObject
  <1> QED
    BY <1>2 DEF HeldStep, Held!HeldNext

(* A run that goes on within its stage, whatever it does to an existing    *)
(* schema.                                                                 *)
LEMMA QuietHeldStep ==
  ASSUME UNCHANGED <<apiVars, res>>, schema'.here = schema.here,
         Stage' = Stage
  PROVE  HeldStep
  BY DEF HeldStep, Held!heldVars, apiVars

(* What others do.                                                         *)
LEMMA EnvironmentStep ==
  ASSUME TypeOK, Environment
  PROVE  HeldStep
  <1>1. UNCHANGED <<view, res, kept, Stage>>
    BY DEF Environment, Change, UseSchema, AdminAlterSchema, AdminDropSchema,
           DropDatabase, CreateDatabase, AdminChangeRoles, OperatorIdle,
           runVars, Stage
  <1>2. CASE Change
    BY <1>1, <1>2, SameResource
    DEF Change, serverVars, HeldStep, Held!HeldNext, Held!Change
  <1>3. CASE Elsewhere /\ schema'.here = schema.here
    BY <1>1, <1>3, SameResource DEF HeldStep, Held!HeldNext, Held!Other
  <1>4. CASE Elsewhere /\ schema.here /\ schema'.here = FALSE
    BY <1>1, <1>4, SameResource DEF HeldStep, Held!HeldNext, Held!Disappear
  <1>5. CASE UseSchema \/ AdminAlterSchema \/ CreateDatabase
               \/ AdminChangeRoles
    <2>1. schema'.here = schema.here /\ Elsewhere
      BY <1>5, SchemasAssumption
      DEF UseSchema, AdminAlterSchema, CreateDatabase, AdminChangeRoles,
          TypeOK, SchemaRecords
    <2> QED
      BY <1>3, <2>1
  <1>6. CASE AdminDropSchema \/ DropDatabase
    <2>1. Elsewhere /\ schema'.here = FALSE
      BY <1>6 DEF AdminDropSchema, DropDatabase, NoSchema
    <2>2. schema.here \in BOOLEAN
      BY DEF TypeOK, SchemaRecords
    <2> QED
      BY <1>3, <1>4, <2>1, <2>2
  <1> QED
    BY <1>2, <1>5, <1>6 DEF Environment

(* The operator's writes to the resource.                                  *)
LEMMA ResourceWriteStep ==
  ASSUME AddFinalizer \/ RemoveFinalizer \/ UpdateStatus
  PROVE  HeldStep
  <1>1. NoObject = Held!NoObject
    BY DEF NoObject, Held!NoObject
  <1>2. Result => Stage' = "idle" /\ res' = NoObject
    BY DEF Result, Stage
  <1>3. CASE AddFinalizer
    <2>1. /\ Stage = "finalizer" /\ schema' = schema
          /\ (Stage' = "live" /\ res' = api')
                \/ (Stage' = "idle" /\ res' = NoObject)
      BY <1>2, <1>3 DEF AddFinalizer, Reply, Stage, serverVars
    <2>2. Held!AddFinalizer
      BY <1>1, <1>3, <2>1, SameResource
      DEF AddFinalizer, Held!AddFinalizer, Held!End
    <2> QED
      BY <2>2 DEF HeldStep, Held!HeldNext
  <1>4. CASE RemoveFinalizer
    <2>1. /\ Stage = "release" /\ schema' = schema
          /\ Stage' = "idle" /\ res' = NoObject
      BY <1>2, <1>4 DEF RemoveFinalizer, Reply, Stage, serverVars
    <2>2. Held!RemoveFinalizer
      BY <1>1, <1>4, <2>1, SameResource
      DEF RemoveFinalizer, Held!RemoveFinalizer, Held!End
    <2> QED
      BY <2>2 DEF HeldStep, Held!HeldNext
  <1>5. CASE UpdateStatus
    <2>1. /\ Stage = "live" /\ schema' = schema
          /\ (Stage' = "live" /\ res' = api')
                \/ (Stage' = "idle" /\ res' = NoObject)
      BY <1>2, <1>5
      DEF UpdateStatus, StartPrivileges, Reply, Stage, serverVars
    <2>2. Held!UpdateStatus
      BY <1>1, <1>5, <2>1, SameResource
      DEF UpdateStatus, Held!UpdateStatus, Held!End
    <2> QED
      BY <2>2 DEF HeldStep, Held!HeldNext
  <1> QED
    BY <1>3, <1>4, <1>5

(* The statements.                                                         *)
LEMMA StatementStep ==
  ASSUME TypeOK, Statement
  PROVE  HeldStep
  <1>1. NoObject = Held!NoObject
    BY DEF NoObject, Held!NoObject
  <1>2. UNCHANGED apiVars
    BY DEF Statement, DropSchema, CreateSchema, AlterSchemaOwner,
           GrantPrivilege, RevokePrivilege
  <1>3. Result => Stage' = "idle" /\ res' = NoObject
    BY DEF Result, Stage
  <1>4. CASE CreateSchema
    <2>1. /\ Stage = "live" /\ ~schema.here /\ schema'.here = TRUE
          /\ (Stage' = "live" /\ res' = res)
                \/ (Stage' = "idle" /\ res' = NoObject)
      BY <1>3, <1>4 DEF CreateSchema, NewSchema, Reply, Goto, Stage
    <2> QED
      BY <1>1, <1>2, <2>1
      DEF apiVars, HeldStep, Held!HeldNext, Held!Provision, Held!GoOnOrEnd,
          Held!End
  <1>5. CASE DropSchema
    <2>1. /\ Stage = "leaving" /\ schema.here /\ schema'.here = FALSE
          /\ (Stage' = "release" /\ res' = res)
                \/ (Stage' = "idle" /\ res' = NoObject)
      BY <1>3, <1>5 DEF DropSchema, NoSchema, Reply, Goto, Stage
    <2> QED
      BY <1>1, <1>2, <2>1
      DEF apiVars, HeldStep, Held!HeldNext, Held!Drop, Held!GoOnOrEnd,
          Held!End
  <1>6. CASE AlterSchemaOwner \/ GrantPrivilege \/ RevokePrivilege
    <2>1. schema'.here = schema.here
      BY <1>6
      DEF AlterSchemaOwner, GrantPrivilege, RevokePrivilege, SetGrants,
          TypeOK, SchemaRecords
    <2>2. (Stage' = Stage /\ res' = res) \/ Result
      BY <1>6
      DEF AlterSchemaOwner, GrantPrivilege, RevokePrivilege, Reply, Goto,
          Stage
    <2>3. pc # "idle"
      BY <1>6 DEF AlterSchemaOwner, GrantPrivilege, RevokePrivilege
    <2> QED
      BY <1>2, <2>1, <2>2, <2>3, EndStep, QuietHeldStep
  <1> QED
    BY <1>4, <1>5, <1>6 DEF Statement

(* Every step of the system but one: the frame has no run that takes a     *)
(* schema for gone that it only cannot see.                                *)
UnseenRelease ==
    /\ pc = "query" /\ pc' = "release"
    /\ res.del /\ res.fin
    /\ schema.here /\ ~Visible
    /\ UNCHANGED <<apiVars, serverVars, res>>

LEMMA HeldStepHolds ==
  ASSUME TypeOK, [Next]_vars
  PROVE  HeldStep \/ UnseenRelease
  <1>1. CASE Environment
    BY <1>1, EnvironmentStep
  <1>2. CASE Deliver
    BY <1>2, SameResource
    DEF Deliver, serverVars, runVars, Stage, HeldStep, Held!HeldNext,
        Held!Deliver
  <1>3. CASE Fetch
    <2>1. Stage = "idle" /\ Stage' = "query"
      BY <1>3 DEF Fetch, Stage
    <2> QED
      BY <1>3, <2>1
      DEF Fetch, apiVars, serverVars, HeldStep, Held!HeldNext, Held!Fetch
  <1>4. CASE QuerySchema
    <2>1. CASE Visible <=> schema.here
      <3>1. Stage = "query" /\ Stage' = Held!AfterQuery
        BY <1>4, <2>1 DEF QuerySchema, AfterQuery, Held!AfterQuery, Stage
      <3> QED
        BY <1>4, <3>1
        DEF QuerySchema, apiVars, serverVars, HeldStep, Held!HeldNext,
            Held!Query
    <2>2. CASE ~res.del \/ res.spec.keep
      <3>1. Stage = "query" /\ Stage' = Held!AfterQuery
        BY <1>4, <2>2 DEF QuerySchema, AfterQuery, Held!AfterQuery, Stage
      <3> QED
        BY <1>4, <3>1
        DEF QuerySchema, apiVars, serverVars, HeldStep, Held!HeldNext,
            Held!Query
    <2>3. CASE /\ ~(Visible <=> schema.here)
               /\ res.del /\ ~res.spec.keep
      <3>1. schema.here /\ ~Visible
        BY <2>3 DEF Visible
      <3> QED
        BY <1>4, <2>3, <3>1 DEF QuerySchema, AfterQuery, UnseenRelease
    <2> QED
      BY <2>1, <2>2, <2>3
  <1>5. CASE AddFinalizer \/ RemoveFinalizer \/ UpdateStatus
    BY <1>5, ResourceWriteStep
  <1>6. CASE Statement
    BY <1>6, StatementStep
  <1>7. CASE AlreadyCreated \/ OwnerKept \/ AlreadySucceeded
               \/ ReadPrivileges \/ RoleDone
    BY <1>7, QuietHeldStep
    DEF AlreadyCreated, OwnerKept, AlreadySucceeded, StartPrivileges,
        ReadPrivileges, RoleDone, Goto, serverVars, Stage
  <1>8. CASE AlreadyReleased \/ PrivilegesDone \/ Refuse \/ CallFails
    <2>1. UNCHANGED <<apiVars, schema>> /\ Result /\ pc # "idle"
      BY <1>8
      DEF AlreadyReleased, PrivilegesDone, Refuse, Refused, CallFails,
          serverVars
    <2> QED
      BY <2>1, EndStep
  <1>9. CASE Crash
    <2>1. Stage' = "idle" /\ res' = Held!NoObject
      BY <1>9 DEF Crash, Result, Stage, NoObject, Held!NoObject
    <2> QED
      BY <1>9, <2>1, SameResource
      DEF Crash, serverVars, HeldStep, Held!HeldNext, Held!Restart, Held!End
  <1>10. CASE UNCHANGED vars
    BY <1>10, QuietHeldStep DEF vars, serverVars, runVars, Stage
  <1> QED
    BY <1>1, <1>2, <1>3, <1>4, <1>5, <1>6, <1>7, <1>8, <1>9, <1>10
    DEF Next, Reconcile, Deletion, Creation, ReconcilePrivileges, Statement

(* The system starts as the frame does.                                    *)
LEMMA HeldStart == Init => Held!HeldInit
  <1> SUFFICES ASSUME Init PROVE Held!HeldInit
    OBVIOUS
  <1>1. schema.here \in BOOLEAN
    BY TypeInit DEF TypeOK, SchemaRecords
  <1> QED
    BY <1>1
    DEF Init, Idle, ResourceInit, NoObject, Stage, Held!HeldInit,
        Held!ResourceInit, Held!NoObject

(* Whatever a run does to the schema and wherever it fails, an operator    *)
(* that sees its schemas stays within the frame.                           *)
THEOREM SchemaImplementsHeld ==
  ASSUME Roles \subseteq Members
  PROVE  Spec => ImplementsHeldResource
  <1>1. TypeOK /\ [Next]_vars => [Held!HeldNext]_(Held!heldVars)
    BY HeldStepHolds, AllSeen DEF HeldStep, UnseenRelease
  <1> QED
    BY TypeCorrect, HeldStart, <1>1, PTL
    DEF Spec, ImplementsHeldResource, Held!HeldSpec

-----------------------------------------------------------------------------
(* What the frame gives.                                                   *)

(* Such an operator leaves no schema behind at all, does not drop one      *)
(* whose resource nobody asked to delete, and keeps the promise of         *)
(* ManagedObject.                                                          *)
THEOREM SchemaIsManaged ==
  ASSUME Roles \subseteq Members
  PROVE  Spec => /\ []Held!NoOrphan
                 /\ Held!NoLiveDrop
                 /\ Held!ImplementsManagedObject
  <1>1. Held!HeldSpec => []Held!NoOrphan
    BY KeepAssumption, SpecsNotEmpty, EditsAssumption, Held!ObjectsAreHeld
  <1>2. Held!HeldSpec => Held!NoLiveDrop
    BY KeepAssumption, SpecsNotEmpty, EditsAssumption,
       Held!LiveObjectsSurvive
  <1>3. Held!HeldSpec => Held!ImplementsManagedObject
    BY KeepAssumption, SpecsNotEmpty, EditsAssumption, Held!HeldImplements
  <1> QED
    BY SchemaImplementsHeld, <1>1, <1>2, <1>3, PTL DEF ImplementsHeldResource

-----------------------------------------------------------------------------
(* What holds whatever the operator is a member of.                        *)

(* The resource, the informer's copies and the run agree even when a run   *)
(* takes a schema for gone that it only cannot see: that part of the       *)
(* frame's invariant does not speak of the schema.                         *)
LEMMA CopiesAgree == Spec => [](TypeOK /\ Held!CopiesInv)
  <1>1. TypeOK => Held!HeldTypeOK
    BY DEF TypeOK, ResourceTypeOK, ObjectRecords, SchemaRecords, PCs, Stage,
           Held!HeldTypeOK, Held!ResourceTypeOK, Held!ObjectRecords,
           Held!Stages
  <1>2. Init => Held!CopiesInv
    <2> SUFFICES ASSUME Init PROVE Held!CopiesInv
      OBVIOUS
    <2>1. Held!ResourceInit /\ res = Held!NoObject /\ Stage = "idle"
      BY HeldStart DEF Held!HeldInit
    <2> QED
      BY <2>1, KeepAssumption, SpecsNotEmpty, EditsAssumption,
         Held!CopiesInvInit
  <1>3. ASSUME TypeOK, Held!CopiesInv, [Next]_vars
        PROVE  Held!CopiesInv'
    <2>1. CASE HeldStep
      BY <1>1, <1>3, <2>1, KeepAssumption, SpecsNotEmpty, EditsAssumption,
         Held!CopiesInvStep
      DEF HeldStep
    <2>2. CASE UnseenRelease
      <3>1. /\ Stage \in Held!BeforeWrite
            /\ UNCHANGED <<api, view, news, kept, res>>
        BY <2>2
        DEF UnseenRelease, apiVars, Stage, Held!BeforeWrite
      <3>2. Held!RunStage'
        BY <2>2 DEF UnseenRelease, Stage, Held!RunStage
      <3> QED
        BY <1>1, <1>3, <3>1, <3>2, KeepAssumption, SpecsNotEmpty,
           EditsAssumption, Held!RunMoves
    <2> QED
      BY <1>3, <2>1, <2>2, HeldStepHolds
  <1> QED
    BY TypeCorrect, <1>2, <1>3, PTL DEF Spec

(* The operator's DROP SCHEMA is the only step that makes a schema go,     *)
(* administrators aside, who spend an edit.                                *)
LEMMA WhoDropsSchema ==
  ASSUME TypeOK, [Next]_vars, schema.here, ~schema'.here, edits' = edits
  PROVE  pc = "drop" /\ Rights /\ Stage = "leaving"
  <1>1. edits \in Nat /\ schema'.here # schema.here
    BY DEF TypeOK, ResourceTypeOK
  <1>2. ~Elsewhere
    BY <1>1 DEF Elsewhere, Spend
  <1>3. schema' # schema
    BY <1>1
  <1>4. ~(AlterSchemaOwner \/ GrantPrivilege \/ RevokePrivilege)
    BY <1>1
    DEF AlterSchemaOwner, GrantPrivilege, RevokePrivilege, SetGrants,
        TypeOK, SchemaRecords
  <1>5. ~CreateSchema
    BY DEF CreateSchema
  <1>6. DropSchema
    BY <1>2, <1>3, <1>4, <1>5
    DEF Next, Environment, Change, UseSchema, AdminAlterSchema,
        AdminDropSchema, DropDatabase, CreateDatabase, AdminChangeRoles,
        Deliver, Reconcile, Fetch, QuerySchema, AlreadyReleased,
        AddFinalizer, Deletion, RemoveFinalizer, Creation, AlreadyCreated,
        OwnerKept, UpdateStatus, AlreadySucceeded, ReconcilePrivileges,
        ReadPrivileges, RoleDone, PrivilegesDone, Refuse, CallFails, Crash,
        serverVars, vars
  <1> QED
    BY <1>6 DEF DropSchema, Stage

(* A schema that was there before its resource, or was kept, is not        *)
(* dropped by the operator, whether it is a member of its owner or not and *)
(* however the schema comes in and out of its sight.                       *)
THEOREM KeptSchemasSurvive == Spec => KeptSurvives
  <1>1. ASSUME TypeOK, Held!CopiesInv, [Next]_vars,
               kept, schema.here, ~schema'.here
        PROVE  edits' # edits
    <2>1. SUFFICES ASSUME edits' = edits PROVE FALSE
      OBVIOUS
    <2>2. Stage = "leaving"
      BY <1>1, <2>1, WhoDropsSchema
    <2> QED
      BY <1>1, <2>2, KeepAssumption, SpecsNotEmpty, EditsAssumption,
         Held!LeavingIsOurs
  <1>2. TypeOK /\ Held!CopiesInv /\ [Next]_vars
          => [kept /\ schema.here
                => (schema.here)' \/ edits' # edits]_(Held!heldVars)
    BY <1>1
  <1> QED
    BY CopiesAgree, <1>2, PTL DEF Spec, KeptSurvives, Held!KeptSurvives

(* What administrators make of the schema is out of the operator's sight:  *)
(* they hand it to a role that the operator is no member of, and leave     *)
(* nothing that it may do in it.                                           *)
HandedAway ==
    \A s \in AdminSchemas :
      /\ s.owner \notin Members \union {Operator}
      /\ s.public = {}
      /\ \A r \in Members \union {Operator} : s.grants[r] = {}

(* A run that lets the resource go has found the schema gone or unseen,    *)
(* unless it is to be kept, and nobody has brought it back into sight.     *)
UnseenOrKept == pc = "release" => res.spec.keep \/ ~Visible

LeftInv == UnseenOrKept /\ OnlyUnseenLeft

(* The operator's writes to the resource keep LeftInv.                     *)
LEMMA LeftWrite ==
  ASSUME TypeOK, Held!CopiesInv, LeftInv,
         AddFinalizer \/ RemoveFinalizer \/ UpdateStatus
  PROVE  LeftInv'
  <1> USE DEF LeftInv, UnseenOrKept, OnlyUnseenLeft
  <1>1. schema' = schema /\ (Visible' <=> Visible) /\ pc' # "release"
    BY DEF AddFinalizer, RemoveFinalizer, UpdateStatus, serverVars, Reply,
           Result, StartPrivileges, Visible, Rights
  <1>2. api \in ObjectRecords
    BY DEF TypeOK, ResourceTypeOK
  <1>3. CASE AddFinalizer
    BY <1>1, <1>2, <1>3
    DEF AddFinalizer, WriteFinalizer, Write, Current, ObjectRecords
  <1>4. CASE RemoveFinalizer
    BY <1>1, <1>4 DEF RemoveFinalizer
  <1>5. CASE UpdateStatus
    BY <1>1, <1>2, <1>5
    DEF UpdateStatus, WriteStatus, Write, Current, ObjectRecords
  <1> QED
    BY <1>3, <1>4, <1>5

(* So do the statements: all but DROP SCHEMA are sent for a live resource. *)
LEMMA LeftStatement ==
  ASSUME TypeOK, Held!CopiesInv, LeftInv, Statement
  PROVE  LeftInv'
  <1> USE DEF LeftInv, UnseenOrKept, OnlyUnseenLeft
  <1>1. UNCHANGED apiVars
    BY DEF Statement, DropSchema, CreateSchema, AlterSchemaOwner,
           GrantPrivilege, RevokePrivilege
  <1>2. CASE DropSchema
    <2>1. ~schema'.here
      BY <1>2 DEF DropSchema, NoSchema
    <2> QED
      BY <2>1 DEF Visible
  <1>3. CASE ~DropSchema
    <2>1. Stage = "live" /\ pc' # "release"
      BY <1>3
      DEF Statement, CreateSchema, AlterSchemaOwner, GrantPrivilege,
          RevokePrivilege, Reply, Goto, Result, Stage
    <2>2. api.here /\ api.fin
      BY <2>1, KeepAssumption, SpecsNotEmpty, EditsAssumption,
         Held!LiveIsHeld
    <2> QED
      BY <1>1, <2>1, <2>2 DEF apiVars
  <1> QED
    BY <1>2, <1>3

(* What others do keeps LeftInv: the resource keeps its finalizer, and the *)
(* schema goes, stays as visible as it was, or goes out of sight.          *)
LEMMA LeftEnvironment ==
  ASSUME TypeOK, Held!CopiesInv, LeftInv, HandedAway, Environment
  PROVE  LeftInv'
  <1> USE DEF LeftInv, UnseenOrKept, OnlyUnseenLeft
  <1>1. UNCHANGED <<pc, res, kept>>
    BY DEF Environment, Change, UseSchema, AdminAlterSchema, AdminDropSchema,
           DropDatabase, CreateDatabase, AdminChangeRoles, OperatorIdle,
           runVars
  <1>2. api.here /\ api.fin => api'.here /\ api'.fin
    <2>1. CASE ChangeResource
      BY <2>1
      DEF ChangeResource, SubmitResource, EditResource, DeleteResource,
          ReleaseOther, Write, TypeOK, ResourceTypeOK, ObjectRecords
    <2>2. CASE Elsewhere
      BY <2>2 DEF Elsewhere
    <2> QED
      BY <2>1, <2>2
      DEF Environment, Change, UseSchema, AdminAlterSchema, AdminDropSchema,
          DropDatabase, CreateDatabase, AdminChangeRoles
  <1>3. /\ Visible' => Visible
        /\ schema'.here => schema.here
    <2>1. CASE UNCHANGED schema
      BY <2>1 DEF Visible, Rights
    <2>2. CASE UseSchema
      BY <2>2 DEF UseSchema, Visible, Rights, TypeOK, SchemaRecords
    <2>3. CASE AdminAlterSchema
      <3>1. schema' \in AdminSchemas /\ schema.here
        BY <2>3 DEF AdminAlterSchema
      <3> QED
        BY <3>1 DEF HandedAway, Visible, Rights
    <2>4. CASE AdminDropSchema \/ DropDatabase
      <3>1. ~schema'.here
        BY <2>4 DEF AdminDropSchema, DropDatabase, NoSchema
      <3> QED
        BY <3>1 DEF Visible
    <2> QED
      BY <2>1, <2>2, <2>3, <2>4
      DEF Environment, Change, serverVars, CreateDatabase, AdminChangeRoles
  <1> QED
    BY <1>1, <1>2, <1>3

(* Every step keeps LeftInv.                                               *)
LEMMA LeftStep ==
  ASSUME TypeOK, Held!CopiesInv, LeftInv, HandedAway, [Next]_vars
  PROVE  LeftInv'
  <1>1. CASE Environment
    BY <1>1, LeftEnvironment
  <1>2. CASE AddFinalizer \/ RemoveFinalizer \/ UpdateStatus
    BY <1>2, LeftWrite
  <1>3. CASE Statement
    BY <1>3, LeftStatement
  <1>4. CASE QuerySchema
    BY <1>4
    DEF QuerySchema, AfterQuery, apiVars, serverVars, LeftInv, UnseenOrKept,
        OnlyUnseenLeft, Visible, Rights
  <1>5. CASE /\ UNCHANGED <<api, kept, serverVars>>
             /\ pc' # "release" \/ UNCHANGED <<pc, res>>
    BY <1>5
    DEF serverVars, LeftInv, UnseenOrKept, OnlyUnseenLeft, Visible, Rights
  <1>6. CASE Deliver \/ Fetch \/ AlreadyReleased \/ AlreadyCreated \/ OwnerKept
               \/ AlreadySucceeded \/ ReadPrivileges \/ RoleDone
               \/ PrivilegesDone \/ Refuse \/ CallFails \/ Crash
               \/ UNCHANGED vars
    BY <1>5, <1>6
    DEF Deliver, DeliverResource, Fetch, AlreadyReleased, AlreadyCreated,
        OwnerKept, AlreadySucceeded, StartPrivileges, ReadPrivileges,
        RoleDone, PrivilegesDone, Refuse, CallFails, Crash, Result, Goto,
        apiVars, runVars, vars
  <1> QED
    BY <1>1, <1>2, <1>3, <1>4, <1>6
    DEF Next, Reconcile, Deletion, Creation, ReconcilePrivileges, Statement

(* So it holds throughout.                                                *)
LEMMA LeftHolds ==
  ASSUME HandedAway
  PROVE  Spec => []LeftInv
  <1>1. Init => LeftInv
    BY DEF Init, Idle, LeftInv, UnseenOrKept, OnlyUnseenLeft
  <1>2. TypeOK /\ Held!CopiesInv /\ LeftInv /\ [Next]_vars => LeftInv'
    BY LeftStep
  <1> QED
    BY CopiesAgree, <1>1, <1>2, PTL DEF Spec

(* Nothing is left behind that the operator sees, except on purpose,       *)
(* though the operator is a member of some roles only, its own runs hand   *)
(* the schema to others, and administrators take it out of sight at any    *)
(* moment.                                                                 *)
THEOREM OnlyUnseenIsLeft ==
  ASSUME HandedAway
  PROVE  Spec => []OnlyUnseenLeft
  <1>1. LeftInv => OnlyUnseenLeft
    BY DEF LeftInv
  <1> QED
    BY LeftHolds, <1>1, PTL

(* There too, no live resource loses its schema, whatever an earlier       *)
(* resource of the name has left behind and however stale the informer is. *)
THEOREM LiveSchemasSurvive ==
  ASSUME HandedAway
  PROVE  Spec => LiveSurvives
  <1>1. ASSUME TypeOK, Held!CopiesInv, LeftInv, [Next]_vars,
               schema.here, ~schema'.here, edits' = edits
        PROVE  api.del
    <2>1. Stage = "leaving" /\ Visible
      BY <1>1, WhoDropsSchema DEF Visible
    <2>2. ~kept /\ (api.fin => api.del)
      BY <1>1, <2>1, KeepAssumption, SpecsNotEmpty, EditsAssumption,
         Held!LeavingIsOurs
    <2> QED
      BY <1>1, <2>1, <2>2 DEF LeftInv, OnlyUnseenLeft
  <1>2. TypeOK /\ Held!CopiesInv /\ LeftInv /\ [Next]_vars
          => [schema.here /\ api.here /\ ~api.del
                => (schema.here)' \/ edits' # edits]_(Held!heldVars)
    BY <1>1
  <1> QED
    BY CopiesAgree, LeftHolds, <1>2, PTL
    DEF Spec, LiveSurvives, Held!NoLiveDrop

-----------------------------------------------------------------------------
(* Every statement takes the schema nearer to the spec.                    *)

(* What is left to do for a role is what the spec lists for it, and        *)
(* nothing it lists is left to be undone.                                  *)
DiffsWanted ==
    pc = "edges" => /\ who \in DOMAIN res.spec.privs
                    /\ adds \subseteq res.spec.privs[who]
                    /\ removes \intersect res.spec.privs[who] = {}

LEMMA DiffsStep ==
  ASSUME TypeOK, DiffsWanted, [Next]_vars
  PROVE  DiffsWanted'
  <1>1. CASE ReadPrivileges
    <2>1. PICK r \in todo \intersect roles : who' = r /\ Compare(r)
      BY <1>1 DEF ReadPrivileges
    <2>2. /\ pc = "privileges" /\ UNCHANGED res
          /\ r \in DOMAIN res.spec.privs
      BY <1>1 DEF ReadPrivileges, TypeOK
    <2> QED
      BY <2>1, <2>2 DEF Compare, DiffsWanted
  <1>2. CASE GrantPrivilege \/ RevokePrivilege
    <2>1. \/ pc' = "idle"
          \/ /\ UNCHANGED <<pc, res, who>>
             /\ adds' \subseteq adds /\ removes' \subseteq removes
      BY <1>2 DEF GrantPrivilege, RevokePrivilege, Reply, Result
    <2> QED
      BY <2>1 DEF DiffsWanted
  <1>3. CASE Environment \/ Deliver \/ UNCHANGED vars
    <2>1. UNCHANGED <<pc, res, who, adds, removes>>
      BY <1>3
      DEF Environment, Change, UseSchema, AdminAlterSchema, AdminDropSchema,
          DropDatabase, CreateDatabase, AdminChangeRoles, OperatorIdle,
          Deliver, vars, runVars
    <2> QED
      BY <2>1 DEF DiffsWanted
  <1>4. CASE \/ Fetch \/ QuerySchema \/ AlreadyReleased \/ AddFinalizer
             \/ Deletion \/ Creation \/ UpdateStatus \/ AlreadySucceeded
             \/ RoleDone \/ PrivilegesDone \/ Refuse \/ CallFails \/ Crash
    <2>1. pc' # "edges"
      BY <1>4
      DEF Fetch, QuerySchema, AfterQuery, AlreadyReleased, AddFinalizer,
          Deletion, DropSchema, RemoveFinalizer, Creation, CreateSchema,
          AlreadyCreated, AlterSchemaOwner, OwnerKept, UpdateStatus,
          AlreadySucceeded, StartPrivileges, RoleDone, PrivilegesDone,
          Refuse, CallFails, Crash, Reply, Result, Goto
    <2> QED
      BY <2>1 DEF DiffsWanted
  <1> QED
    BY <1>1, <1>2, <1>3, <1>4 DEF Next, Reconcile, ReconcilePrivileges

(* The statements that change a schema that stays.                         *)
LEMMA WhoAlters ==
  ASSUME TypeOK, [Next]_vars, edits' = edits, schema.here, schema'.here
  PROVE  \/ UNCHANGED schema
         \/ AlterSchemaOwner \/ GrantPrivilege \/ RevokePrivilege
  <1>1. ~Elsewhere
    BY DEF Elsewhere, Spend, TypeOK, ResourceTypeOK
  <1>2. ~DropSchema
    BY DEF DropSchema, NoSchema
  <1>3. ~CreateSchema
    BY DEF CreateSchema
  <1> QED
    BY <1>1, <1>2, <1>3
    DEF Next, Environment, Change, UseSchema, AdminAlterSchema,
        AdminDropSchema, DropDatabase, CreateDatabase, AdminChangeRoles,
        Deliver, Reconcile, Fetch, QuerySchema, AlreadyReleased,
        AddFinalizer, Deletion, RemoveFinalizer, Creation, AlreadyCreated,
        OwnerKept, UpdateStatus, AlreadySucceeded, ReconcilePrivileges,
        ReadPrivileges, RoleDone, PrivilegesDone, Refuse, CallFails, Crash,
        vars, serverVars

(* What one of them may do to the schema.                                  *)
Nearer ==
    /\ schema'.owner \in {schema.owner, res.spec.owner}
    /\ schema'.owner = schema.owner =>
         \A r \in Owners :
           Towards(WantedOf(r), schema.grants[r], schema'.grants[r])

(* Whatever administrators make of the schema while a run is under way,    *)
(* and whatever the operator may see of it and do to it, the run's         *)
(* statements take it nearer to the spec the run acts on, or leave it as   *)
(* near.                                                                   *)
THEOREM StatementsGoTowardsSpec == Spec => OnlyTowardsSpec
  <1>1. Init => DiffsWanted
    BY DEF Init, Idle, DiffsWanted
  <1>2. TypeOK /\ DiffsWanted /\ [Next]_vars => DiffsWanted'
    BY DiffsStep
  <1>3. ASSUME TypeOK, DiffsWanted, [Next]_vars, edits' = edits,
               schema.here, schema'.here
        PROVE  Nearer
    <2>1. CASE UNCHANGED schema
      BY <2>1 DEF Nearer, Towards
    <2>2. CASE AlterSchemaOwner
      <3>1. \/ schema' = schema
            \/ /\ res.spec.owner # schema.owner
               /\ \E moved : schema' = [schema EXCEPT !.owner = res.spec.owner,
                                                      !.grants = moved]
        BY <2>2 DEF AlterSchemaOwner
      <3>2. \/ schema' = schema
            \/ schema'.owner = res.spec.owner /\ schema'.owner # schema.owner
        BY <1>3, <3>1 DEF TypeOK, SchemaRecords
      <3> QED
        BY <2>1, <3>2 DEF Nearer
    <2>3. CASE GrantPrivilege \/ RevokePrivilege
      <3>1. /\ who \in DOMAIN res.spec.privs
            /\ adds \subseteq res.spec.privs[who]
            /\ removes \intersect res.spec.privs[who] = {}
        BY <1>3, <2>3 DEF GrantPrivilege, RevokePrivilege, DiffsWanted
      <3>2. \/ schema' = schema
            \/ \E p \in adds : schema' =
                 [schema EXCEPT !.grants[who] = schema.grants[who] \union {p}]
            \/ \E p \in removes : schema' =
                 [schema EXCEPT !.grants[who] = schema.grants[who] \ {p}]
        BY <2>3 DEF GrantPrivilege, RevokePrivilege, SetGrants
      <3>3. /\ schema'.owner = schema.owner
            /\ \A r \in Owners \ {who} : schema'.grants[r] = schema.grants[r]
            /\ who \in Owners =>
                 \/ schema'.grants[who] = schema.grants[who]
                 \/ \E p \in adds :
                      schema'.grants[who] = schema.grants[who] \union {p}
                 \/ \E p \in removes :
                      schema'.grants[who] = schema.grants[who] \ {p}
        BY <1>3, <3>2 DEF TypeOK, SchemaRecords
      <3>4. WantedOf(who) = res.spec.privs[who]
        BY <3>1 DEF WantedOf
      <3>5. ASSUME NEW r \in Owners
            PROVE  Towards(WantedOf(r), schema.grants[r], schema'.grants[r])
        <4>1. CASE r = who
          BY <3>1, <3>3, <3>4, <4>1 DEF Towards
        <4>2. CASE r # who
          BY <3>3, <4>2 DEF Towards
        <4> QED
          BY <4>1, <4>2
      <3> QED
        BY <3>3, <3>5 DEF Nearer
    <2> QED
      BY <1>3, <2>1, <2>2, <2>3, WhoAlters
  <1>4. TypeOK /\ DiffsWanted /\ [Next]_vars
          => [schema.here /\ schema'.here /\ edits' = edits => Nearer]_vars
    BY <1>3
  <1> QED
    BY TypeCorrect, <1>1, <1>2, <1>4, PTL DEF Spec, OnlyTowardsSpec, Nearer

=============================================================================
