--------------------------- MODULE ResourceProofs ---------------------------
(***************************************************************************)
(* Lemmas about Resource that the proofs of every reconciler cite.         *)
(***************************************************************************)
EXTENDS Resource, TLAPS

(* The types of the values the steps build.                                *)

(* The resource that is not there is a resource's record.                  *)
LEMMA NoObjectType == NoObject \in ObjectRecords
  <1>1. \E s \in Specs : TRUE
    BY SpecsNotEmpty
  <1>2. (CHOOSE s \in Specs : TRUE) \in Specs
    BY <1>1
  <1> QED
    BY <1>2 DEF NoObject, ObjectRecords

(* Versions and uids stay natural numbers.                                 *)
LEMMA VersionType ==
  api \in ObjectRecords => NextVersion \in Nat /\ NextUid \in Nat
  BY DEF ObjectRecords, NextVersion, NextUid

(* What is left of a removed resource is a resource's record.              *)
LEMMA RemovedType == api \in ObjectRecords => Removed \in ObjectRecords
  BY VersionType DEF ObjectRecords, Removed

(* The actions that write to the resource write a resource and announce it *)
(* to the informer.                                                        *)
LEMMA WriteType ==
  ASSUME api \in ObjectRecords,
         ChangeResource \/ WriteFinalizer \/ WriteRelease \/ WriteStatus
  PROVE  api' \in ObjectRecords /\ news' = news \union {api'}
  <1>1. CASE SubmitResource
    BY <1>1, VersionType, EditsAssumption
    DEF SubmitResource, Write, ObjectRecords
  <1>2. CASE EditResource
    <2>1. PICK s \in Specs : Write([api EXCEPT !.spec = s, !.rv = NextVersion])
      BY <1>2 DEF EditResource
    <2> QED
      BY <2>1, VersionType DEF Write, ObjectRecords
  <1>3. CASE DeleteResource
    BY <1>3, VersionType, RemovedType DEF DeleteResource, Write, ObjectRecords
  <1>4. CASE ReleaseOther
    BY <1>4, VersionType, RemovedType DEF ReleaseOther, Write, ObjectRecords
  <1>5. CASE WriteFinalizer
    BY <1>5, VersionType DEF WriteFinalizer, Write, ObjectRecords
  <1>6. CASE WriteRelease
    BY <1>6, VersionType, RemovedType DEF WriteRelease, Write, ObjectRecords
  <1>7. CASE WriteStatus
    BY <1>7, VersionType DEF WriteStatus, Write, ObjectRecords
  <1> QED
    BY <1>1, <1>2, <1>3, <1>4, <1>5, <1>6, <1>7 DEF ChangeResource

(* What others do to the resource, in one place: the types, and what stays.*)
LEMMA ChangeType ==
  ASSUME ResourceTypeOK, ChangeResource, UNCHANGED view
  PROVE  ResourceTypeOK'
  <1>1. api' \in ObjectRecords /\ news' = news \union {api'}
    BY WriteType DEF ResourceTypeOK
  <1>2. edits' = edits + 1 \/ edits' = edits
    <2>1. Spend => edits' = edits + 1
      BY DEF Spend
    <2> QED
      BY <2>1, Zenon
      DEF ChangeResource, SubmitResource, EditResource, DeleteResource,
          ReleaseOther
  <1> QED
    BY <1>1, <1>2 DEF ResourceTypeOK

(* The informer's copies keep their types.                                 *)
LEMMA DeliverType ==
  ASSUME ResourceTypeOK, DeliverResource
  PROVE  ResourceTypeOK'
  BY DEF ResourceTypeOK, DeliverResource

(* What others do elsewhere counts as one of their acts.                   *)
LEMMA ElsewhereType ==
  ASSUME ResourceTypeOK, Elsewhere, UNCHANGED view
  PROVE  ResourceTypeOK'
  BY DEF ResourceTypeOK, Elsewhere, Spend

(* The operator's writes keep the types.                                   *)
LEMMA OperatorWriteType ==
  ASSUME ResourceTypeOK, WriteFinalizer \/ WriteRelease \/ WriteStatus,
         UNCHANGED <<view, edits>>
  PROVE  ResourceTypeOK' /\ api' \in ObjectRecords
  <1>1. api' \in ObjectRecords /\ news' = news \union {api'}
    BY WriteType DEF ResourceTypeOK
  <1> QED
    BY <1>1 DEF ResourceTypeOK

=============================================================================
