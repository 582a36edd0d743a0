-------------------------- MODULE SchemaProperties --------------------------
(***************************************************************************)
(* What SchemaReconciler must and must not do.                             *)
(***************************************************************************)
EXTENDS SchemaReconciler

(* The frame that the three reconcilers share, with its theorems.          *)
Stage ==
    IF pc = "drop" THEN "leaving"
    ELSE IF pc \in {"create", "owner", "status", "privileges", "edges"}
      THEN "live"
    ELSE pc

Held == INSTANCE HeldProofs WITH stage <- Stage, remote <- schema.here

(* Refinement: as far as the operator sees its schemas, whatever a run     *)
(* does to the schema, and wherever it ends, it creates the schema only    *)
(* after the finalizer is on the resource, drops it only for a version     *)
(* that is being deleted and does not ask to keep it, and lets the         *)
(* resource go only after that (controller:93-124).                        *)
ImplementsHeldResource == Held!HeldSpec

(* A schema that nobody will ever drop is one that information_schema does *)
(* not show to the operator (schema.go:16): created under a finalizer and  *)
(* handed to a role that the operator is no member of, it is taken for     *)
(* gone when its resource is deleted.  Nothing else is left behind, and    *)
(* only keepOnDelete on purpose.  (An administrator who brings such a      *)
(* schema back into sight makes it one that is left behind and seen.)      *)
OnlyUnseenLeft ==
    schema.here => (api.here /\ api.fin) \/ kept \/ ~Visible

(* A schema that was there before its resource, or was kept, is not        *)
(* dropped by the operator even when it comes in and out of its sight      *)
(* (controller:188-195).                                                   *)
KeptSurvives == Held!KeptSurvives

(* As long as administrators bring no schema back into sight, one whose    *)
(* resource is there and is not being deleted is not dropped, though an    *)
(* unseen schema that an earlier resource of this name has left behind may *)
(* be there, and the informer may still show that resource's deletion      *)
(* (controller:93-124).                                                    *)
LiveSurvives == Held!NoLiveDrop

(* Every statement brings the schema nearer to the spec that the run has   *)
(* read, or leaves it as near, though administrators alter the schema      *)
(* between the run's reads and its statements (controller:207-286): it     *)
(* hands the schema to no owner and grants no privilege that the spec does *)
(* not ask for, revokes none that it does, and leaves alone what a role    *)
(* may do that the spec does not list, but for the privileges that move    *)
(* with the owner.                                                         *)
Towards(wanted, old, new) ==
    old \intersect wanted \subseteq new /\ new \subseteq old \union wanted

WantedOf(role) ==
    IF role \in DOMAIN res.spec.privs THEN res.spec.privs[role]
                                      ELSE schema.grants[role]

OnlyTowardsSpec ==
    [][schema.here /\ schema'.here /\ edits' = edits =>
         /\ schema'.owner \in {schema.owner, res.spec.owner}
         /\ schema'.owner = schema.owner =>
              \A r \in Owners :
                Towards(WantedOf(r), schema.grants[r], schema'.grants[r])]_vars

-----------------------------------------------------------------------------
(* Liveness.                                                               *)

(* A role's access is as declared, as far as the operator can see to it:   *)
(* what PUBLIC may do is out of its hands.                                 *)
Granted(role, privs) ==
    /\ privs \subseteq Allowed(role)
    /\ schema.grants[role] \subseteq privs

AsAsked(spec) ==
    /\ schema.here
    /\ spec.owner \in {NoOwner, schema.owner}
    /\ \A r \in DOMAIN spec.privs : Granted(r, spec.privs[r])

(* The database and every role are there, and the operator may do what it  *)
(* has to.                                                                 *)
Achievable(spec) ==
    /\ database
    /\ spec.owner \in (roles \intersect Settable) \union {NoOwner}
    /\ DOMAIN spec.privs \subseteq roles
    /\ schema.here => Rights

(* When users, administrators and faults come to rest, the schema of a     *)
(* live resource is as described, privileges included, though status comes *)
(* first (controller:135-152) and roles and database come and go.          *)
Converges ==
    <>[](api.here /\ ~api.del /\ api.spec.mine /\ Achievable(api.spec)
           => AsAsked(api.spec) /\ api.ok)

(* A deletion completes, unless the resource has moved to another          *)
(* instance, the schema is not empty, is not the operator's to drop, or    *)
(* its database is gone: the run queries it before anything else           *)
(* (controller:72-82), and fails for ever.                                 *)
DeletionHeld ==
    \/ ~api.spec.mine
    \/ ~database
    \/ Visible /\ ~api.spec.keep /\ (schema.used \/ ~Rights)

DeletionCompletes == <>[](api.fin /\ api.del => DeletionHeld)

=============================================================================
