------------------------------ MODULE Resource ------------------------------
(***************************************************************************)
(* One custom resource of the operator (PostgresRole, PostgresDatabase,    *)
(* PostgresSchema), as users, the API server and the operator's informer   *)
(* see it.                                                                 *)
(*                                                                         *)
(* rv is the API server's resource version, which grows with every write,  *)
(* and uid counts creations of the resource.                               *)
(***************************************************************************)
EXTENDS Naturals

CONSTANTS
    Specs,             \* the specs users write
    ForeignFinalizers, \* may resources have another controller's finalizer
    MaxEdits           \* bound on what users and administrators do

ASSUME KeepAssumption == \A s \in Specs : s.keep \in BOOLEAN
ASSUME SpecsNotEmpty == Specs # {}
ASSUME EditsAssumption ==
    /\ MaxEdits \in Nat
    /\ ForeignFinalizers \subseteq BOOLEAN

VARIABLES
    api,   \* the resource in the API server
    view,  \* the informer's copy
    news,  \* later versions, on their way to the informer
    edits  \* how often users and administrators have acted

ObjectRecords ==
    [here : BOOLEAN, uid : Nat, rv : Nat, spec : Specs,
     fin : BOOLEAN,   \* the operator's finalizer
     del : BOOLEAN,   \* deletionTimestamp is set
     other : BOOLEAN, \* another controller's finalizer
     ok  : BOOLEAN]   \* status.succeeded

NoObject == [here |-> FALSE, uid |-> 0, rv |-> 0,
             spec |-> CHOOSE s \in Specs : TRUE,
             fin |-> FALSE, del |-> FALSE, other |-> FALSE, ok |-> FALSE]

ResourceTypeOK ==
    /\ api \in ObjectRecords
    /\ view \in ObjectRecords
    /\ news \in SUBSET ObjectRecords
    /\ edits \in Nat

ResourceInit ==
    /\ api = NoObject
    /\ view = NoObject
    /\ news = {}
    /\ edits = 0

-----------------------------------------------------------------------------
(* Writes.  Each gives the resource a new version, every creation a new    *)
(* uid, and the API server's watch tells the informer.                     *)

NextVersion == api.rv + 1
NextUid == api.uid + 1

Write(object) ==
    /\ api' = object
    /\ news' = news \union {object}

(* The API server accepts an Update of the latest version only.            *)
(* Mutant: a Patch without the resource version instead.                   *)
NotVersioned(object) == api.here

Current(object) == api.here /\ api.rv = object.rv

(* The API server removes a resource that no finalizer holds.              *)
Removed == [api EXCEPT !.here = FALSE, !.fin = FALSE, !.del = FALSE,
                       !.other = FALSE, !.rv = NextVersion]

-----------------------------------------------------------------------------
(* Users and other controllers.  All but the last spend one of MaxEdits.   *)

Spend == edits < MaxEdits /\ edits' = edits + 1

SubmitResource ==
    /\ Spend
    /\ ~api.here
    /\ \E s \in Specs, other \in ForeignFinalizers :
         Write([here |-> TRUE, uid |-> NextUid, rv |-> NextVersion,
                spec |-> s, fin |-> FALSE, del |-> FALSE, other |-> other,
                ok |-> FALSE])

EditResource ==
    /\ Spend
    /\ api.here
    /\ \E s \in Specs \ {api.spec} :
         Write([api EXCEPT !.spec = s, !.rv = NextVersion])

DeleteResource ==
    /\ Spend
    /\ api.here /\ ~api.del
    /\ Write(IF api.fin \/ api.other
               THEN [api EXCEPT !.rv = NextVersion, !.del = TRUE]
               ELSE Removed)

(* The other controller lets go of a resource that is being deleted.       *)
ReleaseOther ==
    /\ api.here /\ api.del /\ api.other
    /\ Write(IF api.fin THEN [api EXCEPT !.rv = NextVersion, !.other = FALSE]
                        ELSE Removed)
    /\ UNCHANGED edits

ChangeResource ==
    SubmitResource \/ EditResource \/ DeleteResource \/ ReleaseOther

(* What others do elsewhere leaves the resource alone.                     *)
Elsewhere == Spend /\ UNCHANGED <<api, news>>

-----------------------------------------------------------------------------
(* The operator's writes.                                                  *)

WriteFinalizer == Write([api EXCEPT !.fin = TRUE, !.rv = NextVersion])

WriteRelease ==
    Write(IF api.other THEN [api EXCEPT !.fin = FALSE, !.rv = NextVersion]
                       ELSE Removed)

WriteStatus == Write([api EXCEPT !.ok = TRUE, !.rv = NextVersion])

-----------------------------------------------------------------------------
(* The informer.  Versions arrive in order; some are never seen by a run,  *)
(* and none older than one that was.                                       *)

DeliverResource ==
    /\ \E v \in news :
         /\ view' = v
         /\ news' = {n \in news : n.rv > v.rv}
    /\ UNCHANGED <<api, edits>>

(* A restarted operator lists the API server's present state.              *)
Relist ==
    /\ view' = api
    /\ news' = {}

=============================================================================
