---------------------------- MODULE HeldResource ----------------------------
(***************************************************************************)
(* How the three reconcilers keep the promise of ManagedObject: with a     *)
(* finalizer, an informer that may lag behind the API server, and runs     *)
(* that end anywhere.  It is the frame of all three Reconcile functions,   *)
(* whatever they do to the PostgreSQL object in between.                   *)
(*                                                                         *)
(*   stage  "idle"       no run                                            *)
(*          "query"      the run has its copy, res, of the resource        *)
(*          "finalizer"  it has to put the finalizer on                    *)
(*          "leaving"    it is about to drop the PostgreSQL object         *)
(*          "release"    it has to take the finalizer off                  *)
(*          "live"       it creates or updates the PostgreSQL object       *)
(***************************************************************************)
EXTENDS Resource

VARIABLES
    res, stage,
    remote,  \* the PostgreSQL object exists
    kept     \* it belongs to nobody: it was there before the resource, or
             \* outlived one with keepOnDelete

heldVars == <<api, view, news, edits, res, stage, remote, kept>>

Stages == {"idle", "query", "finalizer", "leaving", "release", "live"}

HeldTypeOK ==
    /\ ResourceTypeOK
    /\ res \in ObjectRecords
    /\ stage \in Stages
    /\ remote \in BOOLEAN
    /\ kept \in BOOLEAN

HeldInit ==
    /\ ResourceInit
    /\ res = NoObject
    /\ stage = "idle"
    /\ remote \in BOOLEAN
    /\ kept = remote

-----------------------------------------------------------------------------
End ==
    /\ stage' = "idle"
    /\ res' = NoObject

(* The run goes on where it is, or its call failed and it ends.            *)
GoOnOrEnd(next) == (stage' = next /\ UNCHANGED res) \/ End

Change ==
    /\ ChangeResource
    /\ UNCHANGED <<view, res, stage, remote, kept>>

Other ==
    /\ Elsewhere
    /\ UNCHANGED <<view, res, stage, remote, kept>>

(* Somebody else drops the PostgreSQL object. *)
Disappear ==
    /\ Elsewhere
    /\ remote
    /\ remote' = FALSE
    /\ UNCHANGED <<view, res, stage, kept>>

Deliver ==
    /\ DeliverResource
    /\ UNCHANGED <<res, stage, remote, kept>>

Fetch ==
    /\ stage = "idle"
    /\ view.here
    /\ res' = view
    /\ stage' = "query"
    /\ UNCHANGED <<api, view, news, edits, remote, kept>>

(* The PostgreSQL object is looked up, and the branches on                 *)
(* deletionTimestamp, finalizer and keepOnDelete are taken.                *)
(* Mutant: keepOnDelete is not looked at.                                  *)
KeepIgnored ==
    IF ~res.del THEN (IF res.fin THEN "live" ELSE "finalizer")
    ELSE IF ~remote THEN "release"
    ELSE "leaving"

AfterQuery ==
    IF ~res.del THEN (IF res.fin THEN "live" ELSE "finalizer")
    ELSE IF ~remote \/ res.spec.keep THEN "release"
    ELSE "leaving"

Query ==
    /\ stage = "query"
    /\ ~res.del \/ res.fin
    /\ stage' = AfterQuery
    /\ UNCHANGED <<api, view, news, edits, res, remote, kept>>

(* From here on the PostgreSQL object is the resource's.                   *)
AddFinalizer ==
    /\ stage = "finalizer"
    /\ Current(res)
    /\ WriteFinalizer
    /\ kept' = FALSE
    /\ \/ stage' = "live" /\ res' = api'
       \/ End
    /\ UNCHANGED <<view, edits, remote>>

Provision ==
    /\ stage = "live"
    /\ ~remote
    /\ remote' = TRUE
    /\ GoOnOrEnd("live")
    /\ UNCHANGED <<api, view, news, edits, kept>>

Drop ==
    /\ stage = "leaving"
    /\ remote
    /\ remote' = FALSE
    /\ GoOnOrEnd("release")
    /\ UNCHANGED <<api, view, news, edits, kept>>

(* Only keepOnDelete leaves a PostgreSQL object behind.                    *)
RemoveFinalizer ==
    /\ stage = "release"
    /\ Current(res)
    /\ WriteRelease
    /\ kept' = res.spec.keep
    /\ End
    /\ UNCHANGED <<view, edits, remote>>

UpdateStatus ==
    /\ stage = "live"
    /\ ~res.ok
    /\ Current(res)
    /\ WriteStatus
    /\ \/ stage' = "live" /\ res' = api'
       \/ End
    /\ UNCHANGED <<view, edits, remote, kept>>

(* A run ends, with or without an error.                                   *)
EndRun ==
    /\ stage # "idle"
    /\ End
    /\ UNCHANGED <<api, view, news, edits, remote, kept>>

Restart ==
    /\ Relist
    /\ End
    /\ UNCHANGED <<api, edits, remote, kept>>

HeldNext ==
    \/ Change \/ Other \/ Disappear \/ Deliver
    \/ Fetch \/ Query \/ AddFinalizer \/ Provision
    \/ Drop \/ RemoveFinalizer \/ UpdateStatus \/ EndRun \/ Restart

HeldSpec == HeldInit /\ [][HeldNext]_heldVars

-----------------------------------------------------------------------------
(* What it promises.                                                       *)

(* The abstract view of the state.  A resource that only another           *)
(* controller's finalizer holds is gone as far as the operator goes.       *)
Phase ==
    IF ~api.here \/ (api.del /\ ~api.fin) THEN "none"
    ELSE IF ~api.fin THEN "plain"
    ELSE IF ~api.del THEN "held"
    ELSE "leaving"

Managed == INSTANCE ManagedObject
             WITH object <- Phase, keep <- api.spec.keep, outside <- edits

(* The finalizer is on the resource before the PostgreSQL object is        *)
(* created, the object is dropped only while the deletion is pending, and  *)
(* the resource is let go only when the object is gone or its keepOnDelete *)
(* is set, however stale the copy that Reconcile acts on.                  *)
ImplementsManagedObject == Managed!ObjectSpec

(* No PostgreSQL object is left behind without a resource that will drop   *)
(* it: every one is held by a finalizer, was there before its resource, or *)
(* was released on purpose (keepOnDelete).                                 *)
NoOrphan == remote => (api.here /\ api.fin) \/ kept

(* An object that belongs to nobody is never dropped, neither by a stale   *)
(* run of the resource that released it nor by a new one that has not yet  *)
(* put its finalizer.  Administrators may drop it.                         *)
KeptSurvives == [][kept /\ remote => remote' \/ edits' # edits]_heldVars

(* While the resource is there and nobody asked for its deletion, the      *)
(* object is not dropped, even when a resource of the same name was        *)
(* deleted a moment ago and the informer still shows that one.             *)
NoLiveDrop ==
    [][remote /\ api.here /\ ~api.del => remote' \/ edits' # edits]_heldVars

-----------------------------------------------------------------------------
(* Why: an inductive invariant.                                            *)

BeforeWrite == {"query", "finalizer", "leaving", "release"}
Copies == news \union {view}

(* Copies of one version are the same.  A run that has not yet written to  *)
(* the resource knows a version no newer than the informer's.              *)
VersionsAgree ==
    /\ \A v \in Copies : v.rv <= api.rv /\ (v.rv = api.rv => v = api)
    /\ \A v \in news : v.rv > view.rv
    /\ stage # "idle" => res.rv <= api.rv /\ (res.rv = api.rv => res = api)
    /\ stage \in BeforeWrite =>
         res.rv <= view.rv /\ (res.rv = view.rv => res = view)

(* The finalizer ties the copies to one incarnation of the resource.       *)
SameIncarnation ==
    /\ \A v \in Copies : v.uid <= api.uid /\ (api.fin => v.uid = api.uid)
    /\ stage # "idle" => res.uid <= api.uid /\ (api.fin => res.uid = api.uid)

(* A deletion once seen is not taken back.                                 *)
DeletionSticks ==
    /\ \A v \in Copies : api.here /\ v.uid = api.uid /\ v.del => api.del
    /\ stage # "idle" /\ api.here /\ res.uid = api.uid /\ res.del => api.del

(* A live copy with the finalizer means the finalizer is still there: only *)
(* the operator takes it off, and only from a version being deleted.       *)
FinalizerHolds ==
    /\ api.fin => api.here /\ ~kept
    /\ \A v \in Copies : v.fin /\ ~v.del => api.fin
    /\ stage # "idle" /\ res.fin /\ ~res.del => api.fin

RunStage ==
    /\ stage = "live" => res.fin /\ ~res.del
    /\ stage = "finalizer" => ~res.fin /\ ~res.del
    /\ stage \in {"leaving", "release"} => res.fin /\ res.del
    /\ stage = "leaving" => ~res.spec.keep

(* While the object belongs to nobody, whatever copy still shows the       *)
(* finalizer says that the object was to be kept.                          *)
KeepRemembered ==
    kept =>
      /\ \A v \in Copies : v.fin => v.spec.keep
      /\ stage \in BeforeWrite /\ res.fin => res.spec.keep

(* The resource, its copies and the run agree, whatever becomes of the     *)
(* PostgreSQL object.                                                      *)
CopiesInv ==
    /\ VersionsAgree
    /\ SameIncarnation
    /\ DeletionSticks
    /\ FinalizerHolds
    /\ RunStage
    /\ KeepRemembered

ReleasedRightly == stage = "release" => ~remote \/ res.spec.keep

(* They agree, and the object with them.                                   *)
HoldInv ==
    /\ CopiesInv
    /\ ReleasedRightly
    /\ NoOrphan

=============================================================================
