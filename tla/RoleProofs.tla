----------------------------- MODULE RoleProofs -----------------------------
(***************************************************************************)
(* Theorems about RoleReconciler, for every value of its constants.        *)
(***************************************************************************)
EXTENDS RoleProperties, ResourceProofs

-----------------------------------------------------------------------------
(* Type correctness.                                                       *)

(* What the specs are made of.                                             *)
LEMMA SpecType ==
  ASSUME NEW object \in ObjectRecords
  PROVE  /\ object.spec.opts \in SUBSET Options
         /\ object.spec.groups \in SUBSET Groups
         /\ object.spec.keep \in BOOLEAN
  BY SpecsAssumption DEF ObjectRecords, SpecRecords

(* ALTER ROLE leaves a role (role.go:183-197).                             *)
LEMMA AlterType ==
  ASSUME TypeOK, AlterRole
  PROVE  role' \in RoleRecords
  <1> DEFINE opts == (role.opts \ (seen.opts \ res.spec.opts))
                        \union (res.spec.opts \ seen.opts)
             text == IF pw = Empty THEN role.pw ELSE pw
  <1>1. opts \in SUBSET Options
    BY SpecType DEF TypeOK, RoleRecords
  <1>2. text \in MaybeText
    BY DEF TypeOK, RoleRecords, MaybeText
  <1>3. role' = [role EXCEPT !.opts = opts, !.pw = text]
    BY DEF AlterRole
  <1> HIDE DEF opts, text
  <1> QED
    BY <1>1, <1>2, <1>3 DEF TypeOK, RoleRecords

(* The end of a run leaves its variables in their types.                   *)
LEMMA ResultType ==
  Result => /\ pc' \in PCs
            /\ res' \in ObjectRecords
            /\ seen' \in [here : BOOLEAN, opts : SUBSET Options]
            /\ pw' \in Values
            /\ todo' \in SUBSET Databases
            /\ revokes' \in SUBSET Groups
            /\ grants' \in SUBSET Groups
  BY NoObjectType DEF Result, PCs, Unread, Values

(* Nothing changed but what a run remembers: it ended.                     *)
LEMMA EndedType ==
  ASSUME TypeOK, Result, UNCHANGED <<worldVars, viewVars, edits>>,
         role' \in RoleRecords, pwCache' \in MaybeText, UNCHANGED kept,
         UNCHANGED faults \/ Fault
  PROVE  TypeOK'
  BY ResultType DEF TypeOK, ResourceTypeOK, worldVars, viewVars, Fault

(* The initial values have their types.                                    *)
LEMMA TypeInit == Init => TypeOK
  <1> SUFFICES ASSUME Init PROVE TypeOK
    OBVIOUS
  <1>1. role \in RoleRecords /\ kept \in BOOLEAN
    <2>1. NoRole \in RoleRecords
      BY DEF NoRole, RoleRecords, MaybeText
    <2> QED
      BY <2>1, RolesAssumption DEF Init, RoleRecords
  <1>2. out \in SecretRecords /\ outView \in SecretRecords
    BY DEF Init, NoSecret, SecretRecords, MaybeText
  <1>3. seen \in [here : BOOLEAN, opts : SUBSET Options]
    BY DEF Init, Unread
  <1> QED
    BY <1>1, <1>2, <1>3, NoObjectType, TextAssumption
    DEF Init, ResourceInit, TypeOK, ResourceTypeOK, Values, MaybeText, PCs

(* What users and administrators do keeps the types.                       *)
LEMMA EnvironmentType ==
  ASSUME TypeOK, Environment
  PROVE  TypeOK'
  <1> USE DEF TypeOK
  <1>1. CASE Change
    BY <1>1, ChangeType DEF Change, OperatorIdle, runVars
  <1>2. CASE EditSource
    BY <1>2, ElsewhereType, TextAssumption
    DEF EditSource, OperatorIdle, runVars
  <1>3. CASE EditSecret
    <2>1. out' \in SecretRecords
      BY <1>3, TextAssumption DEF EditSecret, SecretRecords
    <2> QED
      BY <1>3, <2>1, ElsewhereType DEF EditSecret, OperatorIdle, runVars
  <1>4. CASE DeleteSecret
    BY <1>4, ElsewhereType
    DEF DeleteSecret, OperatorIdle, runVars, NoSecret, SecretRecords, MaybeText
  <1>5. CASE AdminAlterRole
    BY <1>5, ElsewhereType, RolesAssumption
    DEF AdminAlterRole, OperatorIdle, runVars
  <1>6. CASE AdminDropRole
    BY <1>6, ElsewhereType
    DEF AdminDropRole, OperatorIdle, runVars, NoRole, RoleRecords, MaybeText
  <1>7. CASE ChangePrivileges
    <2>1. role' \in RoleRecords
      BY <1>7 DEF ChangePrivileges, RoleRecords
    <2> QED
      BY <1>7, <2>1, ElsewhereType DEF ChangePrivileges, OperatorIdle, runVars
  <1>8. CASE ChangeHeir
    BY <1>8, ElsewhereType DEF ChangeHeir, OperatorIdle, runVars
  <1> QED
    BY <1>1, <1>2, <1>3, <1>4, <1>5, <1>6, <1>7, <1>8 DEF Environment

(* Privileges that come and go leave the rest of the role as it is.        *)
LEMMA PrivilegesOnly ==
  ASSUME TypeOK, ChangePrivileges
  PROVE  /\ role'.here = role.here /\ role'.opts = role.opts
         /\ role'.pw = role.pw /\ role'.groups = role.groups
  BY DEF ChangePrivileges, TypeOK, RoleRecords

(* The writes to the resource keep the types.                              *)
LEMMA ResourceWriteType ==
  ASSUME TypeOK, AddFinalizer \/ RemoveFinalizer \/ UpdateStatus
  PROVE  TypeOK'
  <1> USE DEF TypeOK
  <1>1. CASE AddFinalizer
    <2>1. ResourceTypeOK' /\ api' \in ObjectRecords
      BY <1>1, OperatorWriteType DEF AddFinalizer
    <2>2. \/ /\ res' = api' /\ pc' \in PCs
             /\ UNCHANGED <<faults, seen, pw, todo, revokes, grants, pwCache>>
          \/ ReplyLost
      BY <1>1 DEF AddFinalizer, Replied, PCs
    <2>3. /\ kept' \in BOOLEAN
          /\ UNCHANGED <<out, input, heir, outView, role>>
      BY <1>1 DEF AddFinalizer
    <2> QED
      BY <2>1, <2>2, <2>3, ResultType DEF ReplyLost, Fault
  <1>2. CASE RemoveFinalizer
    <2>1. ResourceTypeOK'
      BY <1>2, OperatorWriteType DEF RemoveFinalizer
    <2>2. kept' \in BOOLEAN
      BY <1>2, SpecType DEF RemoveFinalizer
    <2>3. /\ Result /\ UNCHANGED <<out, input, heir, outView, role, pwCache>>
          /\ faults' \in Nat
      BY <1>2 DEF RemoveFinalizer, Replied, ReplyLost, Fault
    <2> QED
      BY <2>1, <2>2, <2>3, ResultType
  <1>3. CASE UpdateStatus
    <2>1. ResourceTypeOK'
      BY <1>3, OperatorWriteType DEF UpdateStatus
    <2>2. /\ Result /\ UNCHANGED <<out, input, heir, outView, role, pwCache>>
          /\ UNCHANGED kept /\ faults' \in Nat
      BY <1>3 DEF UpdateStatus, Replied, ReplyLost, Fault
    <2> QED
      BY <2>1, <2>2, ResultType
  <1> QED
    BY <1>1, <1>2, <1>3

(* Every step keeps the types.                                             *)
LEMMA TypeStep == TypeOK /\ [Next]_vars => TypeOK'
  <1> SUFFICES ASSUME TypeOK, [Next]_vars PROVE TypeOK'
    OBVIOUS
  <1> USE DEF TypeOK
  <1>1. CASE Environment
    BY <1>1, EnvironmentType
  <1>2. CASE Deliver
    BY <1>2, DeliverType DEF Deliver, runVars
  <1>3. CASE DeliverSecret
    BY <1>3 DEF DeliverSecret, worldVars, runVars, ResourceTypeOK
  <1>4. CASE Fetch
    BY <1>4
    DEF Fetch, worldVars, viewVars, RetrievedPasswords, Values, MaybeText,
        SecretRecords, PCs, ResourceTypeOK
  <1>5. CASE QueryRole
    BY <1>5
    DEF QueryRole, worldVars, viewVars, AfterQuery, PCs, RoleRecords,
        ResourceTypeOK
  <1>6. CASE AddFinalizer \/ RemoveFinalizer \/ UpdateStatus
    BY <1>6, ResourceWriteType
  <1>7. CASE ReassignOwned
    BY <1>7, ResultType
    DEF ReassignOwned, worldVars, viewVars, Replied, ReplyLost, Fault,
        RoleRecords, PCs, ResourceTypeOK
  <1>8. CASE DropRole
    BY <1>8, ResultType
    DEF DropRole, worldVars, viewVars, Replied, ReplyLost, Fault,
        RoleRecords, PCs, NoRole, MaybeText, ResourceTypeOK
  <1>9. CASE CreateRole
    BY <1>9, ResultType, OptionsAssumption, SpecType
    DEF CreateRole, worldVars, viewVars, Replied, ReplyLost, Fault,
        RoleRecords, PCs, MaybeText, Values, Goto, ResourceTypeOK
  <1>10. CASE AlterRole
    <2>1. role' \in RoleRecords
      BY <1>10, AlterType
    <2> QED
      BY <1>10, ResultType, <2>1
      DEF AlterRole, worldVars, viewVars, Replied, ReplyLost, Fault, PCs,
          MaybeText, Values, Goto, ResourceTypeOK
  <1>11. CASE NoUpdate \/ MembershipDone \/ SkipSecret
    BY <1>11
    DEF NoUpdate, MembershipDone, SkipSecret, worldVars, viewVars, Goto, PCs,
        ResourceTypeOK
  <1>12. CASE ReadMembership
    BY <1>12, SpecType
    DEF ReadMembership, worldVars, viewVars, GetRoleMembership, PCs,
        RoleRecords, ResourceTypeOK
  <1>13. CASE RevokeMembership
    BY <1>13, ResultType
    DEF RevokeMembership, worldVars, viewVars, Replied, ReplyLost, Fault,
        RoleRecords, ResourceTypeOK
  <1>14. CASE GrantMembership
    BY <1>14, ResultType
    DEF GrantMembership, worldVars, viewVars, Replied, ReplyLost, Fault,
        RoleRecords, ResourceTypeOK
  <1>15. CASE WriteSecret
    BY <1>15, ResultType, TextAssumption
    DEF WriteSecret, viewVars, Replied, ReplyLost, Fault, Goto, PCs,
        SecretRecords, DesiredSecretPassword, MaybeText, ResourceTypeOK
  <1>16. CASE AlreadyReleased \/ AlreadySucceeded \/ Refuse \/ CallFails
    BY <1>16, EndedType
    DEF AlreadyReleased, AlreadySucceeded, Refuse, CallFails
  <1>17. CASE Crash
    BY <1>17, NoObjectType
    DEF Crash, Relist, worldVars, Fault, Unread, PCs, Values, MaybeText,
        ResourceTypeOK
  <1>18. CASE UNCHANGED vars
    BY <1>18 DEF vars, worldVars, viewVars, runVars, ResourceTypeOK
  <1> QED
    BY <1>1, <1>2, <1>3, <1>4, <1>5, <1>6, <1>7, <1>8, <1>9, <1>10, <1>11,
       <1>12, <1>13, <1>14, <1>15, <1>16, <1>17, <1>18
    DEF Next, Reconcile, Deletion, Creation, Membership, Export

(* Type correctness of every variable of RoleReconciler.                   *)
THEOREM TypeCorrect == Spec => []TypeOK
  BY TypeInit, TypeStep, PTL DEF Spec

-----------------------------------------------------------------------------
(* RoleReconciler implements HeldResource: every step is a step of one of  *)
(* its actions, seen through Stage, or changes nothing there.              *)

(* Both modules have the same resource.                                    *)
LEMMA SameResource ==
  /\ ChangeResource => Held!ChangeResource
  /\ Elsewhere => Held!Elsewhere
  /\ DeliverResource => Held!DeliverResource
  /\ Relist => Held!Relist
  /\ WriteFinalizer => Held!WriteFinalizer
  /\ WriteRelease => Held!WriteRelease
  /\ WriteStatus => Held!WriteStatus
  /\ Current(res) => Held!Current(res)
  BY DEF ChangeResource, SubmitResource, EditResource, DeleteResource,
         ReleaseOther, Elsewhere, Spend, DeliverResource, Relist,
         WriteFinalizer, WriteRelease, WriteStatus, Current, Write, Removed,
         NextVersion, NextUid,
         Held!ChangeResource, Held!SubmitResource, Held!EditResource,
         Held!DeleteResource, Held!ReleaseOther, Held!Elsewhere, Held!Spend,
         Held!DeliverResource, Held!Relist, Held!WriteFinalizer,
         Held!WriteRelease, Held!WriteStatus, Held!Current, Held!Write,
         Held!Removed, Held!NextVersion, Held!NextUid

HeldStep == [Held!HeldNext]_(Held!heldVars)

(* A run that ends for whatever reason, a crash aside.                     *)
LEMMA EndStep ==
  ASSUME Result, UNCHANGED <<api, view, news, edits, kept>>,
         role'.here = role.here, pc # "idle"
  PROVE  HeldStep
  <1>1. Stage # "idle" /\ Stage' = "idle" /\ res' = NoObject
    BY DEF Stage, Result
  <1>2. Held!EndRun
    BY <1>1 DEF Held!EndRun, Held!End, NoObject, Held!NoObject
  <1> QED
    BY <1>2 DEF HeldStep, Held!HeldNext

(* A run that goes on within its stage, whatever it does to an existing    *)
(* role.                                                                   *)
LEMMA QuietHeldStep ==
  ASSUME UNCHANGED <<api, view, news, edits, kept, res>>,
         role'.here = role.here, Stage' = Stage
  PROVE  HeldStep
  BY DEF HeldStep, Held!heldVars

(* What others do.                                                         *)
LEMMA EnvironmentStep ==
  ASSUME TypeOK, Environment
  PROVE  HeldStep
  <1>1. UNCHANGED <<view, res, kept, Stage>>
    BY DEF Environment, Change, EditSource, EditSecret, DeleteSecret,
           AdminAlterRole, AdminDropRole, ChangePrivileges, ChangeHeir,
           OperatorIdle, runVars, Stage
  <1>2. CASE Change
    BY <1>1, <1>2, SameResource
    DEF Change, HeldStep, Held!HeldNext, Held!Change
  <1>3. CASE \/ EditSource \/ EditSecret \/ DeleteSecret \/ AdminAlterRole
             \/ ChangePrivileges \/ ChangeHeir
    <2>1. role'.here = role.here /\ Elsewhere
      BY <1>3, RolesAssumption, PrivilegesOnly
      DEF EditSource, EditSecret, DeleteSecret, AdminAlterRole,
          ChangePrivileges, ChangeHeir
    <2> QED
      BY <1>1, <2>1, SameResource DEF HeldStep, Held!HeldNext, Held!Other
  <1>4. CASE AdminDropRole
    <2>1. role.here /\ role'.here = FALSE /\ Elsewhere
      BY <1>4 DEF AdminDropRole, NoRole
    <2> QED
      BY <1>1, <2>1, SameResource DEF HeldStep, Held!HeldNext, Held!Disappear
  <1> QED
    BY <1>2, <1>3, <1>4 DEF Environment

(* The operator's writes to the resource.                                  *)
LEMMA ResourceWriteStep ==
  ASSUME AddFinalizer \/ RemoveFinalizer \/ UpdateStatus
  PROVE  HeldStep
  <1>1. NoObject = Held!NoObject
    BY DEF NoObject, Held!NoObject
  <1>2. Result => Stage' = "idle" /\ res' = NoObject
    BY DEF Result, Stage
  <1>3. CASE AddFinalizer
    <2>1. /\ Stage = "finalizer" /\ role' = role
          /\ (Stage' = "live" /\ res' = api')
                \/ (Stage' = "idle" /\ res' = NoObject)
      BY <1>2, <1>3 DEF AddFinalizer, ReplyLost, Stage
    <2>2. Held!AddFinalizer
      BY <1>1, <1>3, <2>1, SameResource
      DEF AddFinalizer, Held!AddFinalizer, Held!End
    <2> QED
      BY <2>2 DEF HeldStep, Held!HeldNext
  <1>4. CASE RemoveFinalizer
    <2>1. /\ Stage = "release" /\ role' = role
          /\ Stage' = "idle" /\ res' = NoObject
      BY <1>2, <1>4 DEF RemoveFinalizer, ReplyLost, Stage
    <2>2. Held!RemoveFinalizer
      BY <1>1, <1>4, <2>1, SameResource
      DEF RemoveFinalizer, Held!RemoveFinalizer, Held!End
    <2> QED
      BY <2>2 DEF HeldStep, Held!HeldNext
  <1>5. CASE UpdateStatus
    <2>1. /\ Stage = "live" /\ role' = role
          /\ Stage' = "idle" /\ res' = NoObject
      BY <1>2, <1>5 DEF UpdateStatus, ReplyLost, Stage
    <2>2. Held!UpdateStatus
      BY <1>1, <1>5, <2>1, SameResource
      DEF UpdateStatus, Held!UpdateStatus, Held!End
    <2> QED
      BY <2>2 DEF HeldStep, Held!HeldNext
  <1> QED
    BY <1>3, <1>4, <1>5

(* CREATE ROLE and DROP ROLE.                                              *)
LEMMA RoleStep ==
  ASSUME TypeOK, CreateRole \/ DropRole
  PROVE  HeldStep
  <1>1. NoObject = Held!NoObject
    BY DEF NoObject, Held!NoObject
  <1>2. UNCHANGED <<api, view, news, kept, edits>>
    BY DEF CreateRole, DropRole, worldVars, viewVars
  <1>3. ReplyLost => Stage' = "idle" /\ res' = NoObject
    BY DEF ReplyLost, Result, Stage
  <1>4. CASE CreateRole
    <2>1. /\ Stage = "live" /\ ~role.here /\ role'.here = TRUE
          /\ (Stage' = "live" /\ res' = res)
                \/ (Stage' = "idle" /\ res' = NoObject)
      BY <1>3, <1>4 DEF CreateRole, Goto, Stage
    <2> QED
      BY <1>1, <1>2, <2>1
      DEF HeldStep, Held!HeldNext, Held!Provision, Held!GoOnOrEnd, Held!End
  <1>5. CASE DropRole
    <2>1. /\ Stage = "leaving" /\ role.here /\ role'.here = FALSE
          /\ (Stage' = "release" /\ res' = res)
                \/ (Stage' = "idle" /\ res' = NoObject)
      BY <1>3, <1>5 DEF DropRole, Droppable, NoRole, Stage
    <2> QED
      BY <1>1, <1>2, <2>1
      DEF HeldStep, Held!HeldNext, Held!Drop, Held!GoOnOrEnd, Held!End
  <1> QED
    BY <1>4, <1>5

(* The statements about a role that stays.                                 *)
LEMMA StatementStep ==
  ASSUME TypeOK,
         ReassignOwned \/ AlterRole \/ RevokeMembership \/ GrantMembership
  PROVE  HeldStep
  <1>1. role'.here = role.here
    BY DEF ReassignOwned, AlterRole, RevokeMembership, GrantMembership,
           TypeOK, RoleRecords
  <1>2. UNCHANGED <<api, view, news, kept, edits>> /\ pc # "idle"
    BY DEF ReassignOwned, AlterRole, RevokeMembership, GrantMembership,
           worldVars, viewVars
  <1>3. (Stage' = Stage /\ res' = res) \/ Result
    BY DEF ReassignOwned, AlterRole, RevokeMembership, GrantMembership, Goto,
           ReplyLost, Stage
  <1> QED
    BY <1>1, <1>2, <1>3, EndStep, QuietHeldStep

(* Every step of the system.                                               *)
LEMMA HeldStepHolds ==
  ASSUME TypeOK, [Next]_vars
  PROVE  HeldStep
  <1>1. CASE Environment
    BY <1>1, EnvironmentStep
  <1>2. CASE Deliver
    BY <1>2, SameResource
    DEF Deliver, runVars, Stage, HeldStep, Held!HeldNext, Held!Deliver
  <1>3. CASE Fetch
    <2>1. Stage = "idle" /\ Stage' = "query"
      BY <1>3 DEF Fetch, Stage
    <2> QED
      BY <1>3, <2>1
      DEF Fetch, worldVars, viewVars, HeldStep, Held!HeldNext, Held!Fetch
  <1>4. CASE QueryRole
    <2>1. Stage = "query" /\ Stage' = Held!AfterQuery
      BY <1>4 DEF QueryRole, AfterQuery, Held!AfterQuery, Stage
    <2> QED
      BY <1>4, <2>1
      DEF QueryRole, worldVars, viewVars, HeldStep, Held!HeldNext, Held!Query
  <1>5. CASE AddFinalizer \/ RemoveFinalizer \/ UpdateStatus
    BY <1>5, ResourceWriteStep
  <1>6. CASE CreateRole \/ DropRole
    BY <1>6, RoleStep
  <1>7. CASE ReassignOwned \/ AlterRole \/ RevokeMembership \/ GrantMembership
    BY <1>7, StatementStep
  <1>8. CASE NoUpdate \/ ReadMembership \/ MembershipDone \/ SkipSecret
    BY <1>8, QuietHeldStep
    DEF NoUpdate, ReadMembership, MembershipDone, SkipSecret, Goto, worldVars,
        viewVars, Stage
  <1>9. CASE WriteSecret
    <2>1. UNCHANGED <<api, view, news, kept, edits, role>> /\ pc # "idle"
      BY <1>9 DEF WriteSecret, viewVars
    <2>2. (Stage' = Stage /\ res' = res) \/ Result
      BY <1>9 DEF WriteSecret, Goto, ReplyLost, Stage
    <2> QED
      BY <2>1, <2>2, EndStep, QuietHeldStep
  <1>10. CASE AlreadyReleased \/ AlreadySucceeded \/ Refuse \/ CallFails
    <2>1. /\ UNCHANGED <<api, view, news, kept, edits, role>> /\ Result
          /\ pc # "idle"
      BY <1>10
      DEF AlreadyReleased, AlreadySucceeded, Refuse, Refused, CallFails,
          worldVars, viewVars
    <2> QED
      BY <2>1, EndStep
  <1>11. CASE Crash
    <2>1. Stage' = "idle" /\ res' = Held!NoObject
      BY <1>11 DEF Crash, Stage, NoObject, Held!NoObject
    <2> QED
      BY <1>11, <2>1, SameResource
      DEF Crash, worldVars, HeldStep, Held!HeldNext, Held!Restart, Held!End
  <1>12. CASE DeliverSecret \/ UNCHANGED vars
    BY <1>12, QuietHeldStep
    DEF DeliverSecret, vars, worldVars, viewVars, runVars, Stage
  <1> QED
    BY <1>1, <1>2, <1>3, <1>4, <1>5, <1>6, <1>7, <1>8, <1>9, <1>10, <1>11,
       <1>12
    DEF Next, Reconcile, Deletion, Creation, Membership, Export

(* Whatever a run does to the role and wherever it fails, the reconciler   *)
(* stays within the frame, for every set of specs and options, number of   *)
(* edits, crashes and failures.                                            *)
THEOREM RoleImplementsHeld == Spec => ImplementsHeldResource
  <1>1. Init => Held!HeldInit
    <2> SUFFICES ASSUME Init PROVE Held!HeldInit
      OBVIOUS
    <2>1. role.here \in BOOLEAN
      BY TypeInit DEF TypeOK, RoleRecords
    <2> QED
      BY <2>1
      DEF Init, ResourceInit, NoObject, Stage, Held!HeldInit,
          Held!ResourceInit, Held!NoObject
  <1>2. TypeOK /\ [Next]_vars => [Held!HeldNext]_(Held!heldVars)
    BY HeldStepHolds DEF HeldStep
  <1> QED
    BY TypeCorrect, <1>1, <1>2, PTL
    DEF Spec, ImplementsHeldResource, Held!HeldSpec

(* Every role on the server is held by a resource's finalizer, was there   *)
(* before its resource, or was kept on purpose.                            *)
THEOREM RolesAreHeld == Spec => []NoOrphan
  <1>1. Held!HeldSpec => []Held!NoOrphan
    BY KeepAssumption, SpecsNotEmpty, EditsAssumption, Held!ObjectsAreHeld
  <1> QED
    BY RoleImplementsHeld, <1>1, PTL DEF ImplementsHeldResource, NoOrphan

(* The operator drops neither a role that belongs to nobody nor one whose  *)
(* resource nobody asked to delete.                                        *)
THEOREM WantedRolesSurvive == Spec => NoUnwantedDrop
  <1>1. Held!HeldSpec => Held!KeptSurvives
    BY KeepAssumption, SpecsNotEmpty, EditsAssumption,
       Held!KeptObjectsSurvive
  <1>2. Held!HeldSpec => Held!NoLiveDrop
    BY KeepAssumption, SpecsNotEmpty, EditsAssumption,
       Held!LiveObjectsSurvive
  <1> QED
    BY RoleImplementsHeld, <1>1, <1>2, PTL
    DEF ImplementsHeldResource, NoUnwantedDrop

(* Through the frame, the reconciler keeps the promise of ManagedObject.   *)
THEOREM RoleIsManaged == Spec => Held!ImplementsManagedObject
  <1>1. Held!HeldSpec => Held!ImplementsManagedObject
    BY KeepAssumption, SpecsNotEmpty, EditsAssumption, Held!HeldImplements
  <1> QED
    BY RoleImplementsHeld, <1>1, PTL DEF ImplementsHeldResource

-----------------------------------------------------------------------------
(* The password cache.                                                     *)

(* Nobody but the operator assigns passwords.                              *)
LEMMA OthersAssignNoPassword ==
  ASSUME TypeOK, Environment, AdminRoles = {}
  PROVE  \/ ~role'.here
         \/ role'.here = role.here /\ role'.pw = role.pw
  <1>1. CASE AdminDropRole
    BY <1>1 DEF AdminDropRole, NoRole
  <1>2. CASE ChangePrivileges
    BY <1>2, PrivilegesOnly
  <1>3. CASE ~AdminDropRole /\ ~ChangePrivileges
    BY <1>3 DEF Environment, Change, EditSource, EditSecret, DeleteSecret,
                AdminAlterRole, ChangeHeir
  <1> QED
    BY <1>1, <1>2, <1>3

(* A step that does not touch the role or the cache, drops the role, or    *)
(* loses the cache cannot make them disagree; the two statements that set  *)
(* a password set the cache to the same.                                   *)
LEMMA CacheStep ==
  ASSUME TypeOK, CacheCoherent, [Next]_vars, ~LostReplies, AdminRoles = {}
  PROVE  CacheCoherent'
  <1> USE DEF CacheCoherent
  <1>1. CASE UNCHANGED <<role, pwCache>>
    BY <1>1
  <1>2. CASE Environment
    <2>1. UNCHANGED pwCache
      BY <1>2 DEF Environment, Change, EditSource, EditSecret, DeleteSecret,
                  AdminAlterRole, AdminDropRole, ChangePrivileges,
                  ChangeHeir, OperatorIdle
    <2>2. \/ ~role'.here
          \/ role'.here = role.here /\ role'.pw = role.pw
      BY <1>2, OthersAssignNoPassword
    <2> QED
      BY <2>1, <2>2
  <1>3. CASE ReassignOwned \/ RevokeMembership \/ GrantMembership
    <2>1. role'.pw = role.pw /\ role'.here = role.here
      BY <1>3 DEF ReassignOwned, RevokeMembership, GrantMembership, TypeOK,
                  RoleRecords
    <2>2. UNCHANGED pwCache
      BY <1>3 DEF ReassignOwned, RevokeMembership, GrantMembership, ReplyLost
    <2> QED
      BY <2>1, <2>2
  <1>4. CASE DropRole
    BY <1>4 DEF DropRole, ReplyLost, NoRole
  <1>5. CASE CreateRole \/ AlterRole
    <2>1. pwCache' = pw
      BY <1>5 DEF CreateRole, AlterRole, ReplyLost
    <2>2. pw # Empty => role'.pw = pw
      <3>1. CASE CreateRole
        BY <3>1 DEF CreateRole
      <3>2. CASE AlterRole
        BY <3>2 DEF AlterRole, TypeOK, RoleRecords
      <3> QED
        BY <1>5, <3>1, <3>2
    <2> QED
      BY <2>1, <2>2, TextAssumption
  <1>6. CASE Crash
    BY <1>6, TextAssumption DEF Crash, Values
  <1>7. CASE \/ Deliver \/ DeliverSecret \/ Fetch \/ QueryRole
             \/ AlreadyReleased \/ AddFinalizer \/ RemoveFinalizer
             \/ NoUpdate \/ ReadMembership \/ MembershipDone
             \/ Export \/ Refuse \/ CallFails \/ UNCHANGED vars
    <2>1. UNCHANGED <<role, pwCache>>
      BY <1>7
      DEF Deliver, DeliverSecret, Fetch, QueryRole, AlreadyReleased,
          AddFinalizer, RemoveFinalizer, NoUpdate, ReadMembership,
          MembershipDone, Export, SkipSecret, WriteSecret, UpdateStatus,
          AlreadySucceeded, Refuse, CallFails, ReplyLost, vars
    <2> QED
      BY <2>1
  <1> QED
    BY <1>2, <1>3, <1>4, <1>5, <1>6, <1>7
    DEF Next, Reconcile, Deletion, Creation, Membership

(* Unless a reply is lost or an administrator changes the password, the    *)
(* cached password of a role is the one it has: comparing with the cache   *)
(* (controller:261) is as good as comparing with the server.               *)
THEOREM CacheIsCoherent ==
  ASSUME ~LostReplies, AdminRoles = {}
  PROVE  Spec => []CacheCoherent
  <1>1. Init => CacheCoherent
    BY TextAssumption DEF Init, CacheCoherent, Values
  <1>2. TypeOK /\ CacheCoherent /\ [Next]_vars => CacheCoherent'
    BY CacheStep
  <1> QED
    BY TypeCorrect, <1>1, <1>2, PTL DEF Spec

-----------------------------------------------------------------------------
(* What status.succeeded says.                                             *)

(* The role has the options that the run's copy of the spec asks for.      *)
HasOptions ==
    /\ role.here
    /\ res.spec.opts \subseteq role.opts
    /\ role.opts \subseteq res.spec.opts \union DefaultOptions

(* What the run has read is still so, and what it has done is there.       *)
RunKnows ==
    /\ pc \in {"finalizer", "apply"} =>
         seen.here = role.here /\ (role.here => seen.opts = role.opts)
    /\ pc \in {"members", "edges", "secret", "status"} => HasOptions
    /\ pc = "edges" => /\ revokes = role.groups \ res.spec.groups
                       /\ grants = res.spec.groups \ role.groups
    /\ pc \in {"secret", "status"} => role.groups = res.spec.groups

(* A run that ends forgets what it knows.                                  *)
LEMMA EndKnows == pc' = "idle" => RunKnows'
  BY DEF RunKnows

(* The statements about the options.                                       *)
LEMMA OptionsKnown ==
  ASSUME TypeOK, RunKnows, CreateRole \/ AlterRole \/ NoUpdate
  PROVE  RunKnows'
  <1>1. pc' = "idle" \/ (pc' = "members" /\ UNCHANGED <<res, seen>>)
    BY DEF CreateRole, AlterRole, NoUpdate, Goto, ReplyLost, Result
  <1>2. SUFFICES ASSUME pc' = "members", UNCHANGED <<res, seen>>
                 PROVE  HasOptions'
    BY <1>1, EndKnows DEF RunKnows
  <1>3. CASE CreateRole
    BY <1>2, <1>3 DEF CreateRole, HasOptions
  <1>4. CASE AlterRole
    <2>1. role.here /\ seen.opts = role.opts
      BY <1>4 DEF AlterRole, RunKnows
    <2>2. /\ role'.here
          /\ role'.opts = (role.opts \ (seen.opts \ res.spec.opts))
                             \union (res.spec.opts \ seen.opts)
      BY <1>4, <2>1 DEF AlterRole, TypeOK, RoleRecords
    <2> QED
      BY <1>2, <2>1, <2>2 DEF HasOptions
  <1>5. CASE NoUpdate
    BY <1>2, <1>5 DEF NoUpdate, NeedUpdate, RunKnows, HasOptions
  <1> QED
    BY <1>3, <1>4, <1>5

(* The statements about memberships.                                       *)
LEMMA GroupsKnown ==
  ASSUME TypeOK, RunKnows, Membership, ~NameNeedsQuotes
  PROVE  RunKnows'
  <1>1. CASE ReadMembership
    BY <1>1
    DEF ReadMembership, GetRoleMembership, RunKnows, HasOptions
  <1>2. CASE RevokeMembership \/ GrantMembership
    <2>1. pc' = "idle" \/ (pc' = "edges" /\ UNCHANGED res)
      BY <1>2 DEF RevokeMembership, GrantMembership, ReplyLost, Result
    <2>2. SUFFICES ASSUME pc' = "edges", UNCHANGED res
                   PROVE  RunKnows'
      BY <2>1, EndKnows
    <2>3. pc = "edges" /\ HasOptions
      BY <1>2 DEF RevokeMembership, GrantMembership, RunKnows
    <2>4. role'.here = role.here /\ role'.opts = role.opts
      BY <1>2 DEF RevokeMembership, GrantMembership, TypeOK, RoleRecords
    <2>5. HasOptions'
      BY <2>2, <2>3, <2>4 DEF HasOptions
    <2>6. /\ revokes' = role'.groups \ res.spec.groups
          /\ grants' = res.spec.groups \ role'.groups
      <3>1. CASE RevokeMembership
        <4>1. PICK g \in revokes :
                /\ role' = [role EXCEPT !.groups = @ \ {g}]
                /\ revokes' = revokes \ {g} /\ grants' = grants
          BY <3>1, <2>2 DEF RevokeMembership, ReplyLost, Result
        <4>2. role'.groups = role.groups \ {g}
          BY <4>1 DEF TypeOK, RoleRecords
        <4> QED
          BY <2>3, <4>1, <4>2 DEF RunKnows
      <3>2. CASE GrantMembership
        <4>1. PICK g \in grants :
                /\ role' = [role EXCEPT !.groups = @ \union {g}]
                /\ grants' = grants \ {g} /\ revokes' = revokes
          BY <3>2, <2>2 DEF GrantMembership, ReplyLost, Result
        <4>2. role'.groups = role.groups \union {g}
          BY <4>1 DEF TypeOK, RoleRecords
        <4> QED
          BY <2>3, <4>1, <4>2 DEF RunKnows
      <3> QED
        BY <1>2, <3>1, <3>2
    <2> QED
      BY <2>2, <2>5, <2>6 DEF RunKnows
  <1>3. CASE MembershipDone
    BY <1>3 DEF MembershipDone, Goto, RunKnows, HasOptions
  <1> QED
    BY <1>1, <1>2, <1>3 DEF Membership

(* Only a run that reports sets status.succeeded.                          *)
LEMMA WhoReports ==
  ASSUME TypeOK, [Next]_vars, api'.ok /\ ~api.ok
  PROVE  UpdateStatus
  <1>1. api' # api
    OBVIOUS
  <1>2. CASE Environment
    <2>1. Change
      BY <1>1, <1>2
      DEF Environment, EditSource, EditSecret, DeleteSecret, AdminAlterRole,
          AdminDropRole, ChangePrivileges, ChangeHeir, Elsewhere
    <2>2. api \in ObjectRecords /\ ChangeResource
      BY <2>1 DEF Change, TypeOK, ResourceTypeOK
    <2>3. CASE SubmitResource
      BY <2>3 DEF SubmitResource, Write
    <2>4. CASE EditResource
      BY <1>1, <2>2, <2>4 DEF EditResource, Write, ObjectRecords
    <2>5. CASE DeleteResource \/ ReleaseOther
      BY <2>2, <2>5
      DEF DeleteResource, ReleaseOther, Write, Removed, ObjectRecords
    <2> QED
      BY <2>2, <2>3, <2>4, <2>5 DEF ChangeResource
  <1>3. CASE AddFinalizer \/ RemoveFinalizer
    <2>1. ~api'.ok
      BY <1>3
      DEF AddFinalizer, RemoveFinalizer, WriteFinalizer, WriteRelease, Write,
          Removed, TypeOK, ResourceTypeOK, ObjectRecords
    <2> QED
      BY <2>1
  <1>4. CASE \/ Deliver \/ DeliverSecret \/ Fetch \/ QueryRole
             \/ AlreadyReleased \/ ReassignOwned \/ DropRole
             \/ Creation \/ Membership \/ SkipSecret \/ WriteSecret
             \/ AlreadySucceeded \/ Refuse \/ CallFails \/ Crash
             \/ UNCHANGED vars
    <2>1. UNCHANGED api
      BY <1>4
      DEF Deliver, DeliverResource, DeliverSecret, Fetch, QueryRole,
          AlreadyReleased, ReassignOwned, DropRole, Creation, CreateRole,
          AlterRole, NoUpdate, Membership, ReadMembership,
          RevokeMembership, GrantMembership, MembershipDone, SkipSecret,
          WriteSecret, AlreadySucceeded, Refuse, CallFails, Crash, worldVars,
          vars
    <2> QED
      BY <1>1, <2>1
  <1> QED
    BY <1>2, <1>3, <1>4 DEF Next, Reconcile, Deletion, Export

(* What the run knows stays true, step by step.                            *)
LEMMA RunKnowsStep ==
  ASSUME TypeOK, RunKnows, [Next]_vars,
         ~AdminDrops, AdminRoles = {}, ~NameNeedsQuotes
  PROVE  RunKnows'
  <1>1. CASE Creation
    BY <1>1, OptionsKnown DEF Creation
  <1>2. CASE Membership
    BY <1>2, GroupsKnown
  <1>3. CASE Environment \/ Deliver \/ DeliverSecret \/ UNCHANGED vars
    <2>1. UNCHANGED <<pc, res, seen, revokes, grants>>
      BY <1>3
      DEF Environment, Change, EditSource, EditSecret, DeleteSecret,
          AdminAlterRole, AdminDropRole, ChangePrivileges, ChangeHeir,
          OperatorIdle, Deliver, DeliverSecret, vars, runVars
    <2>2. /\ role'.here = role.here /\ role'.opts = role.opts
          /\ role'.groups = role.groups
      BY <1>3, PrivilegesOnly
      DEF Environment, Change, EditSource, EditSecret, DeleteSecret,
          AdminAlterRole, AdminDropRole, ChangeHeir, Deliver,
          DeliverSecret, vars
    <2> QED
      BY <2>1, <2>2 DEF RunKnows, HasOptions
  <1>4. CASE QueryRole
    <2>1. pc' \in {"finalizer", "apply", "release", "reassign", "drop"}
      BY <1>4 DEF QueryRole, AfterQuery
    <2>2. /\ UNCHANGED role
          /\ seen' = [here |-> role.here, opts |-> role.opts]
      BY <1>4 DEF QueryRole
    <2> QED
      BY <2>1, <2>2 DEF RunKnows
  <1>5. CASE AddFinalizer
    <2>1. pc' = "idle" \/ (pc' = "apply" /\ UNCHANGED <<role, seen>>)
      BY <1>5 DEF AddFinalizer, ReplyLost, Result
    <2> QED
      BY <1>5, <2>1, EndKnows DEF AddFinalizer, RunKnows
  <1>6. CASE SkipSecret \/ WriteSecret
    <2>1. \/ pc' = "idle"
          \/ pc = "secret" /\ pc' = "status" /\ UNCHANGED <<role, res>>
      BY <1>6 DEF SkipSecret, WriteSecret, Goto, ReplyLost, Result
    <2> QED
      BY <2>1, EndKnows DEF RunKnows, HasOptions
  <1>7. CASE Fetch \/ Deletion
    <2>1. pc' \in {"idle", "query", "reassign", "drop", "release"}
      BY <1>7
      DEF Fetch, Deletion, ReassignOwned, DropRole, RemoveFinalizer,
          ReplyLost, Result
    <2> QED
      BY <2>1 DEF RunKnows
  <1>8. CASE \/ AlreadyReleased \/ UpdateStatus \/ AlreadySucceeded
             \/ Refuse \/ CallFails \/ Crash
    <2>1. pc' = "idle"
      BY <1>8
      DEF AlreadyReleased, UpdateStatus, AlreadySucceeded, Refuse, CallFails,
          Crash, ReplyLost, Result
    <2> QED
      BY <2>1, EndKnows
  <1> QED
    BY <1>1, <1>2, <1>3, <1>4, <1>5, <1>6, <1>7, <1>8
    DEF Next, Reconcile, Export

(* Where only the operator changes the role, status.succeeded is only ever *)
(* set for a version of the spec that PostgreSQL has, whatever replies and *)
(* processes were lost before.                                             *)
THEOREM StatusIsTruthful ==
  ASSUME ~AdminDrops, AdminRoles = {}, ~NameNeedsQuotes
  PROVE  Spec => StatusTruthful
  <1>1. Init => RunKnows
    BY DEF Init, RunKnows
  <1>2. TypeOK /\ RunKnows /\ [Next]_vars => RunKnows'
    BY RunKnowsStep
  <1>3. Held!HeldSpec => [](Held!HeldTypeOK /\ Held!HoldInv)
    BY KeepAssumption, SpecsNotEmpty, EditsAssumption, Held!HeldInvariance
  <1>4. ASSUME TypeOK, RunKnows, Held!HoldInv, [Next]_vars,
               api'.ok /\ ~api.ok
        PROVE  /\ role.here
               /\ api.spec.opts \subseteq role.opts
               /\ role.opts \subseteq api.spec.opts \union DefaultOptions
               /\ role.groups = api.spec.groups
    <2>1. UpdateStatus
      BY <1>4, WhoReports
    <2>2. Current(res) /\ pc = "status"
      BY <2>1 DEF UpdateStatus
    <2>3. res = api
      BY <1>4, <2>2
      DEF Held!HoldInv, Held!CopiesInv, Held!VersionsAgree, Stage,
          Current
    <2> QED
      BY <1>4, <2>2, <2>3 DEF RunKnows, HasOptions
  <1>5. TypeOK /\ RunKnows /\ Held!HoldInv /\ [Next]_vars
          => [api'.ok /\ ~api.ok =>
                /\ role.here
                /\ api.spec.opts \subseteq role.opts
                /\ role.opts \subseteq api.spec.opts \union DefaultOptions
                /\ role.groups = api.spec.groups]_vars
    BY <1>4
  <1> QED
    BY TypeCorrect, RoleImplementsHeld, <1>1, <1>2, <1>3, <1>5, PTL
    DEF Spec, ImplementsHeldResource, StatusTruthful

-----------------------------------------------------------------------------
(* Every statement goes towards the spec, whoever alters the role between. *)

(* No membership that a run is about to revoke is wanted, and all that it  *)
(* is about to grant are, whatever the role has by now.                    *)
EdgesWanted ==
    pc = "edges" => /\ revokes \intersect res.spec.groups = {}
                    /\ grants \subseteq res.spec.groups

LEMMA EdgesStep ==
  ASSUME EdgesWanted, [Next]_vars
  PROVE  EdgesWanted'
  <1>1. CASE ReadMembership
    BY <1>1 DEF ReadMembership, EdgesWanted
  <1>2. CASE RevokeMembership \/ GrantMembership
    <2>1. \/ pc' = "idle"
          \/ /\ pc = "edges" /\ UNCHANGED res
             /\ revokes' \subseteq revokes /\ grants' \subseteq grants
      BY <1>2 DEF RevokeMembership, GrantMembership, ReplyLost, Result
    <2> QED
      BY <2>1 DEF EdgesWanted
  <1>3. CASE \/ Environment \/ Deliver \/ DeliverSecret \/ UNCHANGED vars
    <2>1. UNCHANGED <<pc, res, revokes, grants>>
      BY <1>3
      DEF Environment, Change, EditSource, EditSecret, DeleteSecret,
          AdminAlterRole, AdminDropRole, ChangePrivileges, ChangeHeir,
          OperatorIdle, Deliver, DeliverSecret, vars, runVars
    <2> QED
      BY <2>1 DEF EdgesWanted
  <1>4. CASE \/ Fetch \/ QueryRole \/ AlreadyReleased \/ AddFinalizer
             \/ Deletion \/ Creation \/ MembershipDone \/ Export \/ Refuse
             \/ CallFails \/ Crash
    <2>1. pc' # "edges"
      BY <1>4
      DEF Fetch, QueryRole, AfterQuery, AlreadyReleased, AddFinalizer,
          Deletion, ReassignOwned, DropRole, RemoveFinalizer, Creation,
          CreateRole, AlterRole, NoUpdate, MembershipDone, Export,
          SkipSecret, WriteSecret, UpdateStatus, AlreadySucceeded, Refuse,
          CallFails, Crash, ReplyLost, Result, Goto
    <2> QED
      BY <2>1 DEF EdgesWanted
  <1> QED
    BY <1>1, <1>2, <1>3, <1>4 DEF Next, Reconcile, Membership

(* The statements that change a role that stays.                           *)
LEMMA WhoAlters ==
  ASSUME TypeOK, [Next]_vars, edits' = edits, role.here, role'.here
  PROVE  \/ UNCHANGED role
         \/ ReassignOwned \/ AlterRole \/ RevokeMembership \/ GrantMembership
  <1>1. ~Elsewhere
    BY DEF Elsewhere, Spend, TypeOK, ResourceTypeOK
  <1>2. ~DropRole
    BY DEF DropRole, NoRole
  <1>3. ~CreateRole
    BY DEF CreateRole
  <1> QED
    BY <1>1, <1>2, <1>3
    DEF Next, Environment, Change, EditSource, EditSecret, DeleteSecret,
        AdminAlterRole, AdminDropRole, ChangePrivileges, ChangeHeir,
        Deliver, DeliverSecret, Reconcile,
        Fetch, QueryRole, AlreadyReleased, AddFinalizer, Deletion,
        RemoveFinalizer, Creation, NoUpdate, Membership, ReadMembership,
        MembershipDone, Export, SkipSecret, WriteSecret, UpdateStatus,
        AlreadySucceeded, Refuse, CallFails, Crash, vars

(* Whatever administrators make of the role while a run is under way, the  *)
(* run's statements take the role nearer to the spec it acts on, or leave  *)
(* it as near.                                                             *)
THEOREM StatementsGoTowardsSpec == Spec => OnlyTowardsSpec
  <1>1. Init => EdgesWanted
    BY DEF Init, EdgesWanted
  <1>2. EdgesWanted /\ [Next]_vars => EdgesWanted'
    BY EdgesStep
  <1>3. ASSUME TypeOK, EdgesWanted, [Next]_vars, edits' = edits,
               role.here, role'.here
        PROVE  /\ Towards(res.spec.opts, role.opts, role'.opts)
               /\ Towards(res.spec.groups, role.groups, role'.groups)
    <2> USE DEF Towards
    <2>1. CASE UNCHANGED role
      BY <2>1
    <2>2. CASE ReassignOwned
      <3>1. role'.opts = role.opts /\ role'.groups = role.groups
        BY <2>2 DEF ReassignOwned, TypeOK, RoleRecords
      <3> QED
        BY <3>1
    <2>3. CASE AlterRole
      <3>1. /\ role'.groups = role.groups
            /\ role'.opts = (role.opts \ (seen.opts \ res.spec.opts))
                               \union (res.spec.opts \ seen.opts)
        BY <2>3 DEF AlterRole, TypeOK, RoleRecords
      <3> QED
        BY <3>1
    <2>4. CASE RevokeMembership
      <3>1. PICK g \in revokes : role' = [role EXCEPT !.groups = @ \ {g}]
        BY <2>4 DEF RevokeMembership
      <3>2. role'.opts = role.opts /\ role'.groups = role.groups \ {g}
        BY <3>1 DEF TypeOK, RoleRecords
      <3> QED
        BY <1>3, <2>4, <3>2 DEF RevokeMembership, EdgesWanted
    <2>5. CASE GrantMembership
      <3>1. PICK g \in grants : role' = [role EXCEPT !.groups = @ \union {g}]
        BY <2>5 DEF GrantMembership
      <3>2. role'.opts = role.opts /\ role'.groups = role.groups \union {g}
        BY <3>1 DEF TypeOK, RoleRecords
      <3> QED
        BY <1>3, <2>5, <3>2 DEF GrantMembership, EdgesWanted
    <2> QED
      BY <1>3, <2>1, <2>2, <2>3, <2>4, <2>5, WhoAlters
  <1>4. TypeOK /\ EdgesWanted /\ [Next]_vars
          => [role.here /\ role'.here /\ edits' = edits =>
                /\ Towards(res.spec.opts, role.opts, role'.opts)
                /\ Towards(res.spec.groups, role.groups, role'.groups)]_vars
    BY <1>3
  <1> QED
    BY TypeCorrect, <1>1, <1>2, <1>4, PTL DEF Spec, OnlyTowardsSpec

-----------------------------------------------------------------------------
(* The exported Secret.                                                    *)

(* Every resource asks for it, and nothing else gives a password.          *)
OnlyExported ==
    \A s \in Specs : s.export /\ ~s.source /\ ~s.override

(* A run's password is the Secret's, if there is one, whether it was read  *)
(* from the informer's copy or, where that lags behind the operator's own  *)
(* write, from the cache.  Until there is one, it is that of the cache.    *)
SecretKnown ==
    /\ out.here => out.pw \in Passwords
    /\ pwCache \in Passwords \union {None}
    /\ pc # "idle" => pw \in Passwords
    /\ out.here /\ pc # "idle" => pw = out.pw
    /\ out.here /\ outView # out => pwCache = out.pw
    /\ outView.here => out.here /\ outView.pw = out.pw
    /\ pc \in {"members", "edges", "secret", "status"} => pwCache = pw
    /\ ~out.here /\ pwCache # None /\ pc # "idle" => pw = pwCache

(* It is the role's password, too: the Secret's, or, until there is one,   *)
(* the cache's, though replies were lost.                                  *)
RoleKnown ==
    /\ CredentialsWork
    /\ role.here /\ ~out.here /\ pwCache # None => role.pw = pwCache

(* A run that ends, or fails, knows no more.                               *)
LEMMA EndSecret ==
  ASSUME SecretKnown, UNCHANGED <<out, outView, pwCache>>, pc' = "idle"
  PROVE  SecretKnown'
  BY DEF SecretKnown

(* Steps of a run that leave its password alone.                           *)
LEMMA OnSecret ==
  ASSUME SecretKnown, UNCHANGED <<out, outView, pwCache, pw>>, pc # "idle",
         pc' \in {"members", "edges", "secret", "status"} =>
            \/ pc \in {"members", "edges", "secret", "status"}
            \/ pwCache = pw
  PROVE  SecretKnown'
  BY DEF SecretKnown

(* What a run knows of the password stays true, step by step.              *)
LEMMA SecretStep ==
  ASSUME TypeOK, SecretKnown, [Next]_vars, OnlyExported, OutEdits = {}
  PROVE  SecretKnown'
  <1>1. CASE Environment \/ Deliver \/ UNCHANGED vars
    <2>1. UNCHANGED <<out, outView, pwCache, pw, pc>>
      BY <1>1
      DEF Environment, Change, EditSource, EditSecret, DeleteSecret,
          AdminAlterRole, AdminDropRole, ChangePrivileges, ChangeHeir,
          OperatorIdle, Deliver, runVars, viewVars, worldVars, vars
    <2> QED
      BY <2>1 DEF SecretKnown
  <1>2. CASE DeliverSecret
    <2>1. outView' = out /\ UNCHANGED <<out, pwCache, pw, pc>>
      BY <1>2 DEF DeliverSecret, runVars, worldVars
    <2> QED
      BY <2>1 DEF SecretKnown
  <1>3. CASE Fetch
    <2>1. /\ pw' \in RetrievedPasswords(view.spec)
          /\ pc = "idle" /\ pc' = "query"
          /\ UNCHANGED <<out, outView, pwCache>>
      BY <1>3 DEF Fetch, worldVars, viewVars
    <2>2. view.spec.export /\ ~view.spec.source
      BY DEF TypeOK, ResourceTypeOK, ObjectRecords, OnlyExported
    <2>3. pw' \in IF outView.here THEN {outView.pw} \ {None}
                  ELSE IF pwCache # None THEN {pwCache} ELSE Passwords
      BY <2>1, <2>2 DEF RetrievedPasswords
    <2>4. None \notin Passwords
      BY TextAssumption DEF Values
    <2>5. /\ pw' \in Passwords
          /\ out.here => pw' = out.pw
          /\ ~out.here /\ pwCache # None => pw' = pwCache
      BY <2>3, <2>4 DEF SecretKnown
    <2> QED
      BY <2>1, <2>5 DEF SecretKnown
  <1>4. CASE QueryRole \/ AddFinalizer \/ ReassignOwned \/ DropRole
    <2>1. UNCHANGED <<out, outView, pwCache>> /\ pc # "idle"
      BY <1>4 DEF QueryRole, AddFinalizer, ReassignOwned, DropRole, ReplyLost,
                  worldVars, viewVars
    <2>2. \/ pc' = "idle"
          \/ /\ UNCHANGED pw
             /\ pc' \notin {"members", "edges", "secret", "status"}
      BY <1>4 DEF QueryRole, AddFinalizer, ReassignOwned, DropRole, ReplyLost,
                  Result, AfterQuery
    <2> QED
      BY <2>1, <2>2, EndSecret, OnSecret
  <1>5. CASE AlreadyReleased \/ RemoveFinalizer \/ UpdateStatus
             \/ AlreadySucceeded \/ Refuse \/ CallFails
    BY <1>5, EndSecret
    DEF AlreadyReleased, RemoveFinalizer, UpdateStatus, AlreadySucceeded,
        Refuse, CallFails, ReplyLost, Result, worldVars, viewVars
  <1>6. CASE CreateRole \/ AlterRole
    <2>1. UNCHANGED <<out, outView>> /\ pc = "apply"
      BY <1>6 DEF CreateRole, AlterRole, worldVars, viewVars
    <2>2. \/ pwCache' = pw /\ pc' = "members" /\ UNCHANGED pw
          \/ UNCHANGED pwCache /\ pc' = "idle"
      BY <1>6 DEF CreateRole, AlterRole, ReplyLost, Result, Goto
    <2> QED
      BY <2>1, <2>2 DEF SecretKnown
  <1>7. CASE NoUpdate
    <2>1. /\ pc = "apply" /\ pc' = "members" /\ pw = Cached
          /\ UNCHANGED <<out, outView, pwCache, pw>>
      BY <1>7 DEF NoUpdate, NeedUpdate, Goto, worldVars, viewVars
    <2>2. pwCache = pw
      BY <2>1, TextAssumption DEF SecretKnown, Cached
    <2> QED
      BY <2>1, <2>2, OnSecret
  <1>8. CASE Membership \/ SkipSecret
    <2>1. UNCHANGED <<out, outView, pwCache>>
      BY <1>8 DEF Membership, ReadMembership, RevokeMembership,
                  GrantMembership, MembershipDone, SkipSecret, ReplyLost,
                  worldVars, viewVars
    <2>2. \/ pc' = "idle"
          \/ pc \in {"members", "edges", "secret"} /\ UNCHANGED pw
      BY <1>8 DEF Membership, ReadMembership, RevokeMembership,
                  GrantMembership, MembershipDone, SkipSecret, ReplyLost,
                  Result, Goto
    <2> QED
      BY <2>1, <2>2, EndSecret, OnSecret
  <1>9. CASE WriteSecret
    <2>1. /\ outView = out /\ pc = "secret"
          /\ UNCHANGED <<outView, pwCache>>
          /\ out' = [here |-> TRUE, pw |-> pw, clean |-> TRUE]
          /\ pc' = "idle" \/ (pc' = "status" /\ UNCHANGED pw)
      BY <1>9 DEF WriteSecret, DesiredSecretPassword, ReplyLost, Result, Goto,
                  viewVars, TypeOK, ObjectRecords, OnlyExported
    <2> QED
      BY <2>1 DEF SecretKnown
  <1>10. CASE Crash
    BY <1>10 DEF Crash, SecretKnown, worldVars
  <1> QED
    BY <1>1, <1>2, <1>3, <1>4, <1>5, <1>6, <1>7, <1>8, <1>9, <1>10
    DEF Next, Reconcile, Deletion, Creation, Export

(* The steps that change the role's password, the Secret or the cache.     *)
LEMMA RoleKnownStep ==
  ASSUME TypeOK, SecretKnown, RoleKnown, [Next]_vars, OnlyExported,
         OutEdits = {}, AdminRoles = {}
  PROVE  RoleKnown'
  <1> USE DEF RoleKnown, CredentialsWork
  <1>1. CASE UNCHANGED <<role, out, pwCache>>
    BY <1>1
  <1>2. CASE CreateRole \/ AlterRole
    <2>1. pw \in Passwords /\ (out.here => pw = out.pw)
          /\ (~out.here /\ pwCache # None => pw = pwCache)
      BY <1>2 DEF SecretKnown, CreateRole, AlterRole
    <2>2. role'.pw = pw
      <3>1. CASE CreateRole
        BY <2>1, <3>1, TextAssumption DEF CreateRole
      <3>2. CASE AlterRole
        BY <2>1, <3>2, TextAssumption DEF AlterRole, TypeOK, RoleRecords
      <3> QED
        BY <1>2, <3>1, <3>2
    <2>3. UNCHANGED out /\ (pwCache' = pw \/ UNCHANGED pwCache)
      BY <1>2 DEF CreateRole, AlterRole, ReplyLost, worldVars
    <2> QED
      BY <2>1, <2>2, <2>3
  <1>3. CASE WriteSecret
    <2>1. /\ pc = "secret" /\ UNCHANGED role
          /\ out' = [here |-> TRUE, pw |-> pw, clean |-> TRUE]
      BY <1>3 DEF WriteSecret, DesiredSecretPassword, TypeOK, ObjectRecords,
                  OnlyExported
    <2>2. pwCache = pw /\ pw # None /\ (out.here => pw = out.pw)
      BY <2>1, TextAssumption DEF SecretKnown, Values
    <2> QED
      BY <2>1, <2>2
  <1>4. CASE ReassignOwned \/ RevokeMembership \/ GrantMembership
    <2>1. role'.pw = role.pw /\ role'.here = role.here
      BY <1>4 DEF ReassignOwned, RevokeMembership, GrantMembership, TypeOK,
                  RoleRecords
    <2>2. UNCHANGED <<out, pwCache>>
      BY <1>4 DEF ReassignOwned, RevokeMembership, GrantMembership,
                  ReplyLost, worldVars
    <2> QED
      BY <2>1, <2>2
  <1>5. CASE DropRole
    <2>1. ~role'.here
      BY <1>5 DEF DropRole, NoRole
    <2> QED
      BY <2>1
  <1>6. CASE Environment
    <2>1. UNCHANGED <<out, pwCache>>
      BY <1>6
      DEF Environment, Change, EditSource, EditSecret, DeleteSecret,
          AdminAlterRole, AdminDropRole, ChangePrivileges, ChangeHeir,
          OperatorIdle
    <2>2. \/ ~role'.here
          \/ role'.here = role.here /\ role'.pw = role.pw
      BY <1>6, OthersAssignNoPassword
    <2> QED
      BY <2>1, <2>2
  <1>7. CASE Crash
    BY <1>7 DEF Crash, worldVars
  <1>8. CASE \/ Deliver \/ DeliverSecret \/ Fetch \/ QueryRole
             \/ AlreadyReleased \/ AddFinalizer \/ RemoveFinalizer
             \/ NoUpdate \/ ReadMembership \/ MembershipDone
             \/ SkipSecret \/ UpdateStatus \/ AlreadySucceeded
             \/ Refuse \/ CallFails \/ UNCHANGED vars
    <2>1. UNCHANGED <<role, out, pwCache>>
      BY <1>8
      DEF Deliver, DeliverSecret, Fetch, QueryRole, AlreadyReleased,
          AddFinalizer, RemoveFinalizer, NoUpdate, ReadMembership,
          MembershipDone, SkipSecret, UpdateStatus, AlreadySucceeded,
          Refuse, CallFails, ReplyLost, worldVars, vars
    <2> QED
      BY <1>1, <2>1
  <1> QED
    BY <1>2, <1>3, <1>4, <1>5, <1>6, <1>7, <1>8
    DEF Next, Reconcile, Deletion, Creation, Membership, Export

(* Where users leave the exported Secret alone and nobody else sets the    *)
(* role's password, the Secret's opens the role whenever both are there:   *)
(* whatever replies and processes are lost, however far the informer lags  *)
(* behind, and however often the role is dropped and created again.        *)
THEOREM CredentialsAlwaysWork ==
  ASSUME OnlyExported, OutEdits = {}, AdminRoles = {}
  PROVE  Spec => []CredentialsWork
  <1>1. Init => SecretKnown /\ RoleKnown
    BY DEF Init, NoSecret, SecretKnown, RoleKnown, CredentialsWork
  <1>2. TypeOK /\ SecretKnown /\ [Next]_vars => SecretKnown'
    BY SecretStep
  <1>3. TypeOK /\ SecretKnown /\ RoleKnown /\ [Next]_vars => RoleKnown'
    BY RoleKnownStep
  <1>4. RoleKnown => CredentialsWork
    BY DEF RoleKnown
  <1> QED
    BY TypeCorrect, <1>1, <1>2, <1>3, <1>4, PTL DEF Spec

=============================================================================
