------------------------- MODULE DatabaseProperties -------------------------
(***************************************************************************)
(* What DatabaseReconciler must and must not do.                           *)
(***************************************************************************)
EXTENDS DatabaseReconciler

(* The frame that the three reconcilers share, with its theorems.          *)
Stage ==
    IF pc \in {"connections", "drop"} THEN "leaving"
    ELSE IF pc \in {"create", "owner", "extensions", "exts", "privileges",
                    "edges", "status"} THEN "live"
    ELSE pc

Held == INSTANCE HeldProofs WITH stage <- Stage, remote <- db.here

(* Refinement: whatever a run does to the database, and wherever it ends,  *)
(* it creates the database only after the finalizer is on the resource,    *)
(* drops it only for a version that is being deleted and does not ask to   *)
(* keep it, and lets the resource go only after that (controller:68-99).   *)
ImplementsHeldResource == Held!HeldSpec

(* Clients are thrown out of the database (DropDatabaseConnections,        *)
(* controller:174) only while the deletion of the resource that holds it   *)
(* is pending, and never out of a database that belongs to nobody, however *)
(* stale the informer.                                                     *)
SessionsSafe ==
    [][sessions /\ ~sessions' =>
         \/ edits' # edits
         \/ api.here /\ api.del /\ api.fin /\ ~kept]_vars

(* A role's access is as declared, as far as the operator can see to it:   *)
(* what PUBLIC may do is out of its hands.                                 *)
Granted(role, privs) ==
    /\ privs \subseteq Allowed(role)
    /\ db.grants[role] \subseteq privs

AsAsked(spec) ==
    /\ db.here
    /\ spec.owner \in {NoOwner, db.owner}
    /\ db.exts = Listed(spec)
    /\ \A r \in DOMAIN spec.privs : Granted(r, spec.privs[r])

(* status.succeeded is set only when the owner, the extensions and every   *)
(* role's privileges are those of that version of the spec                 *)
(* (controller:105-131), unless an administrator interferes: handing the   *)
(* database to a new owner moves privileges that are compared later.       *)
StatusTruthful == [][api'.ok /\ ~api.ok => AsAsked(api.spec)]_vars

(* Every statement brings the database nearer to the spec that the run has *)
(* read, or leaves it as near, though administrators alter the database    *)
(* between the run's reads and its statements (controller:192-326): it     *)
(* neither installs, grants or hands over what the spec does not ask for   *)
(* nor takes what it does, and what a role may do that the spec does not   *)
(* list is left alone, but for the privileges that move with the owner.    *)
Towards(wanted, old, new) ==
    old \intersect wanted \subseteq new /\ new \subseteq old \union wanted

WantedOf(role) ==
    IF role \in DOMAIN res.spec.privs THEN res.spec.privs[role]
                                      ELSE db.grants[role]

OnlyTowardsSpec ==
    [][db.here /\ db'.here /\ edits' = edits =>
         /\ db'.owner \in {db.owner, res.spec.owner}
         /\ Towards(Listed(res.spec), db.exts, db'.exts)
         /\ db'.owner = db.owner =>
              \A r \in Owners :
                Towards(WantedOf(r), db.grants[r], db'.grants[r])]_vars

-----------------------------------------------------------------------------
(* Liveness.                                                               *)

(* CREATE EXTENSION is sent in the order of the list and without CASCADE   *)
(* (controller:256-269): what an extension requires must be listed before  *)
(* it, or be listed and there.                                             *)
Installable(spec) ==
    \A i \in DOMAIN spec.exts : spec.exts[i] \notin db.exts =>
      \A e \in Requires[spec.exts[i]] :
        \E j \in DOMAIN spec.exts :
          spec.exts[j] = e /\ (j < i \/ e \in db.exts)

(* Every role is there, the extensions can be installed as they are        *)
(* listed, and none that has to go is one that another still requires.     *)
Achievable(spec) ==
    /\ spec.owner \in roles \union {NoOwner}
    /\ DOMAIN spec.privs \subseteq roles
    /\ Installable(spec)
    /\ \A e \in db.exts \ Listed(spec) : Removable(e)

(* When users, administrators and faults come to rest, the database of a   *)
(* live resource is as described, as long as the default pool is not used  *)
(* up.                                                                     *)
Converges ==
    <>[](api.here /\ ~api.del /\ api.spec.mine /\ Achievable(api.spec)
           /\ Free => AsAsked(api.spec) /\ api.ok)

(* A deletion completes, unless the resource has moved to another          *)
(* instance, clients stay connected that the resource asks to preserve     *)
(* (controller:173-186), or the default pool is used up (see               *)
(* ConnectionsDropped below): the operator's own pool for the database     *)
(* does not stand in the way for ever, and a session opened between the    *)
(* two statements only delays it.                                          *)
DeletionHeld ==
    \/ ~api.spec.mine
    \/ ~Free
    \/ sessions /\ api.spec.preserve /\ ~api.spec.keep

DeletionCompletes == <>[](api.fin /\ api.del => DeletionHeld)

-----------------------------------------------------------------------------
(* What the documentation says and the code does not do.                   *)

(* "By default, the operator will drop all connections on deletion."       *)
(* (configure_database_postgresdatabase.md:130).  DropDatabaseConnections  *)
(* never returns its connection to the pool: after as many attempts as the *)
(* pool has connections no call of the operator is answered any more.      *)
ConnectionsDropped ==
    <>[](api.here /\ api.del /\ api.spec.mine /\ ~api.spec.keep
           /\ ~api.spec.preserve => ~sessions)

=============================================================================
