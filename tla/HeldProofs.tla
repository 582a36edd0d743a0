----------------------------- MODULE HeldProofs -----------------------------
(***************************************************************************)
(* Theorems about HeldResource, for every set of specs and any number of   *)
(* edits.                                                                  *)
(***************************************************************************)
EXTENDS HeldResource, ResourceProofs

-----------------------------------------------------------------------------
(* Type correctness.                                                       *)

(* Initially the types are right.                                          *)
LEMMA HeldTypeInit == HeldInit => HeldTypeOK
  BY NoObjectType DEF HeldInit, ResourceInit, HeldTypeOK, ResourceTypeOK, Stages

(* Every step keeps the types.                                             *)
LEMMA HeldTypeStep == HeldTypeOK /\ [HeldNext]_heldVars => HeldTypeOK'
  <1> SUFFICES ASSUME HeldTypeOK, [HeldNext]_heldVars PROVE HeldTypeOK'
    OBVIOUS
  <1> USE DEF HeldTypeOK
  <1>1. CASE Change
    BY <1>1, ChangeType DEF Change
  <1>2. CASE Other
    BY <1>2 DEF Other, Elsewhere, Spend, ResourceTypeOK
  <1>3. CASE Disappear
    <2>1. ResourceTypeOK' /\ res' \in ObjectRecords /\ stage' \in Stages
      BY <1>3 DEF Disappear, Elsewhere, Spend, ResourceTypeOK
    <2>2. remote' = FALSE /\ kept' = kept
      BY <1>3 DEF Disappear
    <2> QED
      BY <2>1, <2>2
  <1>4. CASE Deliver
    BY <1>4 DEF Deliver, DeliverResource, ResourceTypeOK
  <1>5. CASE Fetch
    BY <1>5 DEF Fetch, ResourceTypeOK, Stages
  <1>6. CASE Query
    BY <1>6 DEF Query, AfterQuery, ResourceTypeOK, Stages
  <1>7. CASE AddFinalizer
    <2>1. api' \in ObjectRecords /\ news' = news \union {api'}
      BY <1>7, WriteType DEF AddFinalizer, ResourceTypeOK
    <2> QED
      BY <1>7, <2>1, NoObjectType
      DEF AddFinalizer, End, ResourceTypeOK, Stages
  <1>8. CASE Provision
    BY <1>8, NoObjectType DEF Provision, GoOnOrEnd, End, ResourceTypeOK, Stages
  <1>9. CASE Drop
    BY <1>9, NoObjectType DEF Drop, GoOnOrEnd, End, ResourceTypeOK, Stages
  <1>10. CASE RemoveFinalizer
    <2>1. api' \in ObjectRecords /\ news' = news \union {api'}
      BY <1>10, WriteType DEF RemoveFinalizer, ResourceTypeOK
    <2>2. res.spec.keep \in BOOLEAN
      BY KeepAssumption DEF ObjectRecords
    <2> QED
      BY <1>10, <2>1, <2>2, NoObjectType
      DEF RemoveFinalizer, End, ResourceTypeOK, Stages
  <1>11. CASE UpdateStatus
    <2>1. api' \in ObjectRecords /\ news' = news \union {api'}
      BY <1>11, WriteType DEF UpdateStatus, ResourceTypeOK
    <2> QED
      BY <1>11, <2>1, NoObjectType
      DEF UpdateStatus, End, ResourceTypeOK, Stages
  <1>12. CASE EndRun
    BY <1>12, NoObjectType DEF EndRun, End, ResourceTypeOK, Stages
  <1>13. CASE Restart
    BY <1>13, NoObjectType DEF Restart, Relist, End, ResourceTypeOK, Stages
  <1>14. CASE UNCHANGED heldVars
    BY <1>14 DEF heldVars, ResourceTypeOK
  <1> QED
    BY <1>1, <1>2, <1>3, <1>4, <1>5, <1>6, <1>7, <1>8, <1>9, <1>10, <1>11,
       <1>12, <1>13, <1>14
    DEF HeldNext

(* Type correctness of the shared frame.                                   *)
THEOREM HeldTypeCorrect == HeldSpec => []HeldTypeOK
  BY HeldTypeInit, HeldTypeStep, PTL DEF HeldSpec

-----------------------------------------------------------------------------
(* CopiesInv is inductive.                                                 *)

(* Steps that touch neither the resource nor its copies keep CopiesInv,    *)
(* whether the run goes on within its stage or ends.                       *)
LEMMA QuietCopies ==
  ASSUME HeldTypeOK, CopiesInv,
         UNCHANGED <<api, view, news, kept>>,
         stage' = "idle" \/ UNCHANGED <<res, stage>>
  PROVE  CopiesInv'
  BY DEF HeldTypeOK, CopiesInv, VersionsAgree, SameIncarnation, DeletionSticks,
         FinalizerHolds, RunStage, KeepRemembered, BeforeWrite, Copies

(* So do the steps of a run that has not written to the resource, and goes *)
(* where its copy says.                                                    *)
LEMMA RunMoves ==
  ASSUME HeldTypeOK, CopiesInv,
         UNCHANGED <<api, view, news, kept, res>>,
         stage \in BeforeWrite, RunStage'
  PROVE  CopiesInv'
  BY DEF HeldTypeOK, CopiesInv, VersionsAgree, SameIncarnation, DeletionSticks,
         FinalizerHolds, KeepRemembered, BeforeWrite, Copies

(* A user's or another controller's write to the resource keeps CopiesInv. *)
LEMMA ForeignWrite ==
  ASSUME HeldTypeOK, CopiesInv,
         UNCHANGED <<view, kept, stage, res>>,
         api' \in ObjectRecords, news' = news \union {api'},
         api'.rv = api.rv + 1,
         api'.fin = api.fin,
         api.fin => api'.here,
         \/ /\ api'.uid = api.uid
            /\ api'.here => api.here /\ (api.del => api'.del)
         \/ api'.uid = api.uid + 1 /\ ~api.here
  PROVE  CopiesInv'
  BY DEF HeldTypeOK, ResourceTypeOK, CopiesInv, VersionsAgree,
         SameIncarnation, DeletionSticks, FinalizerHolds, RunStage,
         KeepRemembered, BeforeWrite, Copies, ObjectRecords

(* The writes of users and other controllers are of that kind.             *)
LEMMA ChangeHolds ==
  ASSUME HeldTypeOK, CopiesInv, Change
  PROVE  CopiesInv' /\ api'.fin = api.fin /\ (api.fin => api'.here)
  <1>0. /\ api \in ObjectRecords /\ api' \in ObjectRecords
        /\ news' = news \union {api'}
        /\ UNCHANGED <<view, kept, stage, res>>
    BY WriteType DEF Change, HeldTypeOK, ResourceTypeOK
  <1>1. CASE SubmitResource
    <2>1. ~api.fin /\ ~api.here
      BY <1>0, <1>1
      DEF SubmitResource, CopiesInv, FinalizerHolds, ObjectRecords
    <2>2. api'.rv = api.rv + 1 /\ api'.uid = api.uid + 1 /\ ~api'.fin
      BY <1>1 DEF SubmitResource, Write, NextUid, NextVersion
    <2>3. api'.fin = api.fin
      BY <1>0, <2>1, <2>2 DEF ObjectRecords
    <2> QED
      BY <1>0, <2>1, <2>2, <2>3, ForeignWrite
  <1>2. CASE EditResource
    <2>1. PICK s \in Specs : Write([api EXCEPT !.spec = s, !.rv = NextVersion])
      BY <1>2 DEF EditResource
    <2>2. /\ api'.rv = api.rv + 1 /\ api'.uid = api.uid
          /\ api'.here = api.here /\ api'.fin = api.fin /\ api'.del = api.del
      BY <1>0, <2>1 DEF Write, NextVersion, ObjectRecords
    <2>3. api.here
      BY <1>2 DEF EditResource
    <2> QED
      BY <1>0, <2>2, <2>3, ForeignWrite
  <1>3. CASE DeleteResource
    <2>1. /\ api'.rv = api.rv + 1 /\ api'.uid = api.uid
          /\ api'.fin = api.fin /\ (api.fin => api'.here)
          /\ api'.here => api'.del
          /\ api.here
      BY <1>0, <1>3
      DEF DeleteResource, Write, NextVersion, Removed, ObjectRecords
    <2> QED
      BY <1>0, <2>1, ForeignWrite
  <1>4. CASE ReleaseOther
    <2>1. /\ api'.rv = api.rv + 1 /\ api'.uid = api.uid
          /\ api'.fin = api.fin /\ (api.fin => api'.here)
          /\ api'.here => api'.del
          /\ api.here
      BY <1>0, <1>4
      DEF ReleaseOther, Write, NextVersion, Removed, ObjectRecords
    <2> QED
      BY <1>0, <2>1, ForeignWrite
  <1> QED
    BY <1>1, <1>2, <1>3, <1>4 DEF Change, ChangeResource

(* An accepted Update from a run that has not written yet: the run and the *)
(* informer both have the API server's version.                            *)
LEMMA AcceptedIsCurrent ==
  ASSUME HeldTypeOK, CopiesInv, Current(res), stage \in BeforeWrite
  PROVE  view = api /\ res = api /\ news = {}
  BY DEF Current, HeldTypeOK, ResourceTypeOK, ObjectRecords, CopiesInv,
         VersionsAgree, Copies

(* Putting the finalizer on keeps CopiesInv.                               *)
LEMMA AddFinalizerHolds ==
  ASSUME HeldTypeOK, CopiesInv, AddFinalizer
  PROVE  CopiesInv' /\ api'.here /\ api'.fin
  <1>1. view = api /\ res = api /\ news = {}
    BY AcceptedIsCurrent DEF AddFinalizer, BeforeWrite
  <1>2. /\ api'.rv = api.rv + 1 /\ api'.uid = api.uid /\ api'.here
        /\ api'.fin /\ ~api'.del /\ ~api.del
    BY <1>1
    DEF AddFinalizer, WriteFinalizer, Write, Current, NextVersion, HeldTypeOK,
        ResourceTypeOK, ObjectRecords, CopiesInv, RunStage
  <1>3. view' = view /\ kept' = FALSE /\ news' = {api'}
    BY <1>1, WriteType DEF AddFinalizer, HeldTypeOK, ResourceTypeOK
  <1>4. (stage' = "live" /\ res' = api') \/ stage' = "idle"
    BY DEF AddFinalizer, End
  <1>5. VersionsAgree' /\ SameIncarnation' /\ DeletionSticks'
    BY <1>1, <1>2, <1>3, <1>4
    DEF HeldTypeOK, ResourceTypeOK, VersionsAgree, SameIncarnation,
        DeletionSticks, BeforeWrite, Copies, ObjectRecords
  <1>6. FinalizerHolds' /\ RunStage' /\ KeepRemembered'
    BY <1>1, <1>2, <1>3, <1>4
    DEF FinalizerHolds, RunStage, KeepRemembered, BeforeWrite, Copies
  <1> QED
    BY <1>2, <1>5, <1>6 DEF CopiesInv

(* Taking the finalizer off keeps CopiesInv: the copies that stay behind   *)
(* are of a resource being deleted, with keepOnDelete if the object is now *)
(* nobody's.                                                               *)
LEMMA RemoveFinalizerHolds ==
  ASSUME HeldTypeOK, CopiesInv, RemoveFinalizer
  PROVE  CopiesInv'
  <1>1. /\ view = api /\ res = api /\ news = {}
        /\ api.fin /\ api.del /\ api.here
    BY AcceptedIsCurrent
    DEF RemoveFinalizer, Current, BeforeWrite, CopiesInv, RunStage
  <1>2. /\ api'.rv = api.rv + 1 /\ api'.uid = api.uid /\ ~api'.fin
        /\ api'.here => api'.del
    BY <1>1
    DEF RemoveFinalizer, WriteRelease, Write, Removed, NextVersion,
        HeldTypeOK, ResourceTypeOK, ObjectRecords
  <1>3. /\ view' = view /\ kept' = api.spec.keep
        /\ stage' = "idle" /\ news' = {api'}
    BY <1>1, WriteType
    DEF RemoveFinalizer, End, HeldTypeOK, ResourceTypeOK
  <1>4. VersionsAgree' /\ SameIncarnation' /\ DeletionSticks'
    BY <1>1, <1>2, <1>3
    DEF HeldTypeOK, ResourceTypeOK, VersionsAgree, SameIncarnation,
        DeletionSticks, BeforeWrite, Copies, ObjectRecords
  <1>5. FinalizerHolds' /\ RunStage'
    BY <1>1, <1>2, <1>3 DEF FinalizerHolds, RunStage, Copies
  <1>6. KeepRemembered'
    BY <1>1, <1>2, <1>3 DEF KeepRemembered, BeforeWrite, Copies
  <1> QED
    BY <1>4, <1>5, <1>6 DEF CopiesInv

(* The status write keeps CopiesInv, and the finalizer.                    *)
LEMMA UpdateStatusHolds ==
  ASSUME HeldTypeOK, CopiesInv, UpdateStatus
  PROVE  CopiesInv' /\ api'.here /\ api'.fin
  <1>0. api \in ObjectRecords /\ view \in ObjectRecords
    BY DEF HeldTypeOK, ResourceTypeOK
  <1>1. /\ api'.rv = api.rv + 1 /\ api'.uid = api.uid
        /\ api'.here = api.here /\ api'.fin = api.fin /\ api'.del = api.del
    BY <1>0 DEF UpdateStatus, WriteStatus, Write, NextVersion, ObjectRecords
  <1>2. /\ UNCHANGED <<view, kept>> /\ stage = "live"
        /\ (stage' = "live" /\ res' = api') \/ stage' = "idle"
        /\ api' \in ObjectRecords /\ news' = news \union {api'}
    BY <1>0, WriteType DEF UpdateStatus, End
  <1>3. res = api
    BY <1>2 DEF UpdateStatus, Current, CopiesInv, VersionsAgree
  <1>4. api.here /\ api.fin /\ ~api.del /\ ~kept
    BY <1>2, <1>3 DEF CopiesInv, RunStage, FinalizerHolds
  <1>5. VersionsAgree' /\ SameIncarnation'
    BY <1>0, <1>1, <1>2
    DEF HeldTypeOK, ResourceTypeOK, CopiesInv, VersionsAgree, SameIncarnation,
        BeforeWrite, Copies, ObjectRecords
  <1>6. DeletionSticks' /\ FinalizerHolds'
    BY <1>0, <1>1, <1>2, <1>4
    DEF CopiesInv, SameIncarnation, DeletionSticks, FinalizerHolds, Copies
  <1>7. RunStage' /\ KeepRemembered'
    BY <1>1, <1>2, <1>4 DEF RunStage, KeepRemembered
  <1> QED
    BY <1>1, <1>4, <1>5, <1>6, <1>7 DEF CopiesInv

(* A stage that only a live resource's run has is under the finalizer.     *)
LEMMA LiveIsHeld ==
  ASSUME CopiesInv, stage = "live"
  PROVE  api.here /\ api.fin /\ ~kept
  BY DEF CopiesInv, RunStage, FinalizerHolds

(* Every step of the frame keeps CopiesInv, whatever becomes of the        *)
(* PostgreSQL object.                                                      *)
LEMMA CopiesInvStep ==
  ASSUME HeldTypeOK, CopiesInv, [HeldNext]_heldVars
  PROVE  CopiesInv'
  <1>1. CASE Change
    BY <1>1, ChangeHolds
  <1>2. CASE Other \/ Disappear
    BY <1>2, QuietCopies DEF Other, Disappear, Elsewhere
  <1>3. CASE Deliver
    BY <1>3
    DEF Deliver, DeliverResource, HeldTypeOK, ResourceTypeOK, CopiesInv,
        VersionsAgree, SameIncarnation, DeletionSticks, FinalizerHolds,
        RunStage, KeepRemembered, BeforeWrite, Copies, ObjectRecords
  <1>4. CASE Fetch
    BY <1>4
    DEF Fetch, HeldTypeOK, ResourceTypeOK, CopiesInv, VersionsAgree,
        SameIncarnation, DeletionSticks, FinalizerHolds, RunStage,
        KeepRemembered, BeforeWrite, Copies, ObjectRecords
  <1>5. CASE Query
    <2>1. RunStage' /\ stage \in BeforeWrite
      BY <1>5 DEF Query, AfterQuery, RunStage, BeforeWrite
    <2> QED
      BY <1>5, <2>1, RunMoves DEF Query
  <1>6. CASE AddFinalizer
    BY <1>6, AddFinalizerHolds
  <1>7. CASE Provision
    <2>1. stage' = "idle" \/ UNCHANGED <<res, stage>>
      BY <1>7 DEF Provision, GoOnOrEnd, End
    <2> QED
      BY <1>7, <2>1, QuietCopies DEF Provision
  <1>8. CASE Drop
    <2>1. CASE stage' = "release" /\ UNCHANGED res
      <3>1. RunStage' /\ stage \in BeforeWrite
        BY <1>8, <2>1 DEF Drop, CopiesInv, RunStage, BeforeWrite
      <3> QED
        BY <1>8, <2>1, <3>1, RunMoves DEF Drop
    <2>2. CASE stage' = "idle"
      BY <1>8, <2>2, QuietCopies DEF Drop
    <2> QED
      BY <1>8, <2>1, <2>2 DEF Drop, GoOnOrEnd, End
  <1>9. CASE RemoveFinalizer
    BY <1>9, RemoveFinalizerHolds
  <1>10. CASE UpdateStatus
    BY <1>10, UpdateStatusHolds
  <1>11. CASE EndRun
    BY <1>11, QuietCopies DEF EndRun, End
  <1>12. CASE Restart
    BY <1>12
    DEF Restart, Relist, End, HeldTypeOK, ResourceTypeOK, CopiesInv,
        VersionsAgree, SameIncarnation, DeletionSticks, FinalizerHolds,
        RunStage, KeepRemembered, BeforeWrite, Copies, ObjectRecords
  <1>13. CASE UNCHANGED heldVars
    BY <1>13, QuietCopies DEF heldVars
  <1> QED
    BY <1>1, <1>2, <1>3, <1>4, <1>5, <1>6, <1>7, <1>8, <1>9, <1>10, <1>11,
       <1>12, <1>13
    DEF HeldNext

(* The initial state has no copies.                                        *)
LEMMA CopiesInvInit ==
  ASSUME ResourceInit, res = NoObject, stage = "idle"
  PROVE  CopiesInv
  BY DEF ResourceInit, NoObject, CopiesInv, VersionsAgree, SameIncarnation,
         DeletionSticks, FinalizerHolds, RunStage, KeepRemembered,
         BeforeWrite, Copies

-----------------------------------------------------------------------------
(* HoldInv is inductive.                                                   *)

(* What it adds to CopiesInv.                                              *)
LEMMA ObjectStep ==
  ASSUME HeldTypeOK, HoldInv, [HeldNext]_heldVars
  PROVE  ReleasedRightly' /\ NoOrphan'
  <1> USE DEF HoldInv, ReleasedRightly, NoOrphan
  <1>1. CASE Change
    <2>1. api'.fin = api.fin /\ (api.fin => api'.here)
      BY <1>1, ChangeHolds
    <2> QED
      BY <1>1, <2>1 DEF Change
  <1>2. CASE Other \/ Deliver \/ Fetch \/ EndRun \/ Restart
               \/ UNCHANGED heldVars
    BY <1>2
    DEF Other, Elsewhere, Deliver, DeliverResource, Fetch, EndRun, Restart,
        End, heldVars
  <1>3. CASE Disappear
    BY <1>3 DEF Disappear
  <1>4. CASE Query
    BY <1>4 DEF Query, AfterQuery
  <1>5. CASE AddFinalizer
    <2>1. api'.here /\ api'.fin
      BY <1>5, AddFinalizerHolds
    <2> QED
      BY <1>5, <2>1 DEF AddFinalizer, End
  <1>6. CASE Provision
    BY <1>6, LiveIsHeld DEF Provision, GoOnOrEnd, End
  <1>7. CASE Drop
    BY <1>7 DEF Drop, GoOnOrEnd, End
  <1>8. CASE RemoveFinalizer
    BY <1>8 DEF RemoveFinalizer, End
  <1>9. CASE UpdateStatus
    <2>1. api'.here /\ api'.fin
      BY <1>9, UpdateStatusHolds
    <2> QED
      BY <1>9, <2>1 DEF UpdateStatus, End
  <1> QED
    BY <1>1, <1>2, <1>3, <1>4, <1>5, <1>6, <1>7, <1>8, <1>9 DEF HeldNext

(* HoldInv holds initially.                                                *)
LEMMA HoldInvInit == HeldInit => HoldInv
  BY CopiesInvInit DEF HeldInit, HoldInv, ReleasedRightly, NoOrphan

(* Every step keeps HoldInv.                                               *)
LEMMA HoldInvStep ==
  ASSUME HeldTypeOK, HoldInv, [HeldNext]_heldVars
  PROVE  HoldInv'
  BY CopiesInvStep, ObjectStep DEF HoldInv

(* Resource, informer and run agree in every reachable state.              *)
THEOREM HeldInvariance == HeldSpec => [](HeldTypeOK /\ HoldInv)
  <1>1. HeldTypeOK /\ HoldInv /\ [HeldNext]_heldVars => HoldInv'
    BY HoldInvStep
  <1> QED
    BY HeldTypeCorrect, HoldInvInit, <1>1, PTL DEF HeldSpec

(* Every PostgreSQL object is held by a finalizer, was there before its    *)
(* resource, or was kept on purpose.                                       *)
THEOREM ObjectsAreHeld == HeldSpec => []NoOrphan
  <1>1. HoldInv => NoOrphan
    BY DEF HoldInv
  <1> QED
    BY HeldInvariance, <1>1, PTL

-----------------------------------------------------------------------------
(* Who drops an object.                                                    *)

(* A run that is about to drop the object does not find it to be nobody's, *)
(* and if the finalizer is still there the deletion is pending.            *)
LEMMA LeavingIsOurs ==
  ASSUME CopiesInv, stage = "leaving"
  PROVE  ~kept /\ (api.fin => api.here /\ api.del)
  BY DEF CopiesInv, SameIncarnation, DeletionSticks, FinalizerHolds, RunStage,
         KeepRemembered, BeforeWrite, Copies

(* So it drops the object while the deletion of the resource that holds it *)
(* is pending.                                                             *)
LEMMA LeavingIsWanted ==
  ASSUME HoldInv, stage = "leaving", remote
  PROVE  api.here /\ api.fin /\ api.del /\ ~kept
  BY LeavingIsOurs DEF HoldInv, NoOrphan

(* Only Drop and administrators make it go, and administrators spend an    *)
(* edit.                                                                   *)
LEMMA WhoDrops ==
  ASSUME HeldTypeOK, [HeldNext]_heldVars, remote, ~remote', edits' = edits
  PROVE  Drop
  <1>1. ~Elsewhere
    BY DEF Elsewhere, Spend, HeldTypeOK, ResourceTypeOK
  <1>2. ~UNCHANGED remote
    OBVIOUS
  <1>3. ~Provision
    BY DEF Provision
  <1> QED
    BY <1>1, <1>2, <1>3
    DEF HeldNext, Change, Other, Disappear, Deliver, Fetch, Query,
        AddFinalizer, RemoveFinalizer, UpdateStatus, EndRun, Restart, heldVars

(* An object that belongs to nobody is never dropped by the operator.      *)
THEOREM KeptObjectsSurvive == HeldSpec => KeptSurvives
  <1>1. HeldTypeOK /\ HoldInv /\ [HeldNext]_heldVars
          => [kept /\ remote => remote' \/ edits' # edits]_heldVars
    BY WhoDrops, LeavingIsWanted DEF Drop
  <1> QED
    BY HeldInvariance, <1>1, PTL DEF HeldSpec, KeptSurvives

(* The object of a resource nobody asked to delete is never dropped.       *)
THEOREM LiveObjectsSurvive == HeldSpec => NoLiveDrop
  <1>1. HeldTypeOK /\ HoldInv /\ [HeldNext]_heldVars
          => [remote /\ api.here /\ ~api.del
                => remote' \/ edits' # edits]_heldVars
    BY WhoDrops, LeavingIsWanted DEF Drop
  <1> QED
    BY HeldInvariance, <1>1, PTL DEF HeldSpec, NoLiveDrop

-----------------------------------------------------------------------------
(* HeldResource implements ManagedObject: every step is a step of one of   *)
(* its actions, seen through Phase, or changes nothing there.              *)
AbsStep == [Managed!ObjectNext]_(Managed!absVars)

(* A step that touches neither the resource nor the object.                *)
LEMMA QuietAbsStep ==
  ASSUME UNCHANGED <<api, remote, edits>>
  PROVE  AbsStep
  BY DEF AbsStep, Managed!absVars, Phase

(* The writes of users and other controllers.                              *)
LEMMA ChangeAbsStep ==
  ASSUME HeldTypeOK, HeldTypeOK', Change
  PROVE  AbsStep
  <1>0. /\ api \in ObjectRecords /\ api' \in ObjectRecords
        /\ api.spec.keep \in BOOLEAN /\ api'.spec.keep \in BOOLEAN
        /\ remote' = remote
    BY KeepAssumption DEF HeldTypeOK, ResourceTypeOK, ObjectRecords, Change
  <1>1. CASE SubmitResource
    <2>1. /\ ~api.here /\ api'.here /\ ~api'.fin /\ ~api'.del
          /\ edits' = edits + 1
      BY <1>1 DEF SubmitResource, Write, Spend
    <2>2. Managed!Submit
      BY <2>1, <1>0 DEF Managed!Submit, Managed!Act, Phase
    <2> QED
      BY <2>2 DEF AbsStep, Managed!ObjectNext
  <1>2. CASE EditResource
    <2>1. /\ api'.here = api.here /\ api'.fin = api.fin /\ api'.del = api.del
          /\ edits' = edits + 1
      BY <1>2, <1>0 DEF EditResource, Write, Spend, ObjectRecords
    <2>2. Managed!Edit
      BY <2>1, <1>0 DEF Managed!Edit, Managed!Act, Phase
    <2> QED
      BY <2>2 DEF AbsStep, Managed!ObjectNext
  <1>3. CASE DeleteResource
    <2>1. /\ api.here /\ ~api.del /\ api'.spec = api.spec
          /\ IF api.fin THEN api'.here /\ api'.fin /\ api'.del
                       ELSE ~api'.here \/ (api'.del /\ ~api'.fin)
          /\ edits' = edits + 1
      BY <1>3, <1>0 DEF DeleteResource, Write, Removed, Spend, ObjectRecords
    <2>2. Managed!Delete
      BY <2>1, <1>0 DEF Managed!Delete, Managed!Act, Phase
    <2> QED
      BY <2>2 DEF AbsStep, Managed!ObjectNext
  <1>4. CASE ReleaseOther
    <2>1. /\ api.here /\ api.del /\ api'.spec = api.spec
          /\ IF api.fin THEN api'.here /\ api'.fin /\ api'.del
                       ELSE ~api'.here
          /\ edits' = edits
      BY <1>4, <1>0 DEF ReleaseOther, Write, Removed, ObjectRecords
    <2>2. UNCHANGED Managed!absVars
      BY <2>1, <1>0 DEF Managed!absVars, Phase
    <2> QED
      BY <2>2 DEF AbsStep
  <1> QED
    BY <1>1, <1>2, <1>3, <1>4 DEF Change, ChangeResource

(* The operator's writes.                                                  *)
LEMMA WriteAbsStep ==
  ASSUME HeldTypeOK, HoldInv, AddFinalizer \/ RemoveFinalizer \/ UpdateStatus
  PROVE  AbsStep
  <1>0. /\ api \in ObjectRecords
        /\ remote' = remote /\ edits' = edits
    BY DEF HeldTypeOK, ResourceTypeOK, AddFinalizer, RemoveFinalizer,
           UpdateStatus
  <1>1. CASE AddFinalizer
    <2>1. api.here /\ ~api.fin /\ ~api.del
      BY <1>1, AcceptedIsCurrent
      DEF AddFinalizer, BeforeWrite, Current, HoldInv, CopiesInv, RunStage
    <2>2. api'.here /\ api'.fin /\ ~api'.del /\ api'.spec = api.spec
      BY <1>1, <1>0, <2>1
      DEF AddFinalizer, WriteFinalizer, Write, ObjectRecords
    <2>3. Managed!Hold
      BY <2>1, <2>2, <1>0 DEF Managed!Hold, Phase
    <2> QED
      BY <2>3 DEF AbsStep, Managed!ObjectNext
  <1>2. CASE RemoveFinalizer
    <2>1. /\ res = api /\ api.here /\ api.fin /\ api.del
          /\ ~remote \/ api.spec.keep
      BY <1>2, AcceptedIsCurrent
      DEF RemoveFinalizer, BeforeWrite, Current, HoldInv, CopiesInv, RunStage,
          ReleasedRightly
    <2>2. /\ ~api'.here \/ (api'.del /\ ~api'.fin)
          /\ api'.spec = api.spec
      BY <1>2, <1>0, <2>1
      DEF RemoveFinalizer, WriteRelease, Write, Removed, ObjectRecords
    <2>3. Managed!Release
      BY <2>1, <2>2, <1>0 DEF Managed!Release, Phase
    <2> QED
      BY <2>3 DEF AbsStep, Managed!ObjectNext
  <1>3. CASE UpdateStatus
    <2>1. /\ api'.here = api.here /\ api'.fin = api.fin /\ api'.del = api.del
          /\ api'.spec = api.spec
      BY <1>3, <1>0 DEF UpdateStatus, WriteStatus, Write, ObjectRecords
    <2>2. UNCHANGED Managed!absVars
      BY <2>1, <1>0 DEF Managed!absVars, Phase
    <2> QED
      BY <2>2 DEF AbsStep
  <1> QED
    BY <1>1, <1>2, <1>3

(* Every step of the frame.                                                *)
LEMMA AbsStepHolds ==
  ASSUME HeldTypeOK, HeldTypeOK', HoldInv, [HeldNext]_heldVars
  PROVE  AbsStep
  <1>1. CASE Change
    BY <1>1, ChangeAbsStep
  <1>2. CASE Other \/ Disappear
    <2>1. api' = api /\ edits' = edits + 1 /\ api.spec.keep \in BOOLEAN
      BY <1>2, KeepAssumption
      DEF Other, Disappear, Elsewhere, Spend, HeldTypeOK, ResourceTypeOK,
          ObjectRecords
    <2>2. (remote' = remote) \/ (remote /\ remote' = FALSE)
      BY <1>2 DEF Other, Disappear
    <2>3. Managed!Edit \/ Managed!Vanish
      BY <2>1, <2>2 DEF Managed!Edit, Managed!Vanish, Managed!Act, Phase
    <2> QED
      BY <2>3 DEF AbsStep, Managed!ObjectNext
  <1>3. CASE AddFinalizer \/ RemoveFinalizer \/ UpdateStatus
    BY <1>3, WriteAbsStep
  <1>4. CASE Provision
    <2>1. api.here /\ api.fin
      BY <1>4, LiveIsHeld DEF Provision, HoldInv
    <2>2. ~remote /\ remote' = TRUE /\ UNCHANGED <<api, edits>>
      BY <1>4 DEF Provision
    <2>3. Managed!Provision
      BY <2>1, <2>2 DEF Managed!Provision, Phase
    <2> QED
      BY <2>3 DEF AbsStep, Managed!ObjectNext
  <1>5. CASE Drop
    <2>1. api.here /\ api.fin /\ api.del
      BY <1>5, LeavingIsWanted DEF Drop
    <2>2. remote /\ remote' = FALSE /\ UNCHANGED <<api, edits>>
      BY <1>5 DEF Drop
    <2>3. Managed!Drop
      BY <2>1, <2>2 DEF Managed!Drop, Phase
    <2> QED
      BY <2>3 DEF AbsStep, Managed!ObjectNext
  <1>6. CASE Deliver \/ Fetch \/ Query \/ EndRun \/ Restart
               \/ UNCHANGED heldVars
    BY <1>6, QuietAbsStep
    DEF Deliver, DeliverResource, Fetch, Query, EndRun, Restart, heldVars
  <1> QED
    BY <1>1, <1>2, <1>3, <1>4, <1>5, <1>6 DEF HeldNext

(* The frame implements ManagedObject, however late the informer and       *)
(* wherever runs end.                                                      *)
THEOREM HeldImplements == HeldSpec => ImplementsManagedObject
  <1>1. HeldInit => Managed!ObjectInit
    <2> SUFFICES ASSUME HeldInit PROVE Managed!ObjectInit
      OBVIOUS
    <2>1. api.here = FALSE /\ api.spec.keep \in BOOLEAN
      BY NoObjectType, KeepAssumption
      DEF HeldInit, ResourceInit, NoObject, ObjectRecords
    <2>2. remote \in BOOLEAN /\ edits = 0
      BY DEF HeldInit, ResourceInit
    <2> QED
      BY <2>1, <2>2 DEF Managed!ObjectInit, Phase
  <1>2. HeldTypeOK /\ HeldTypeOK' /\ HoldInv /\ [HeldNext]_heldVars
          => [Managed!ObjectNext]_(Managed!absVars)
    BY AbsStepHolds DEF AbsStep
  <1> QED
    BY HeldInvariance, <1>1, <1>2, PTL
    DEF HeldSpec, ImplementsManagedObject, Managed!ObjectSpec

=============================================================================
