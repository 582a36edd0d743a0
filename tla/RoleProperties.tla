--------------------------- MODULE RoleProperties ---------------------------
(***************************************************************************)
(* What RoleReconciler must and must not do.                               *)
(***************************************************************************)
EXTENDS RoleReconciler

(* The frame that the three reconcilers share, with its theorems.          *)
Stage ==
    IF pc \in {"reassign", "drop"} THEN "leaving"
    ELSE IF pc \in {"apply", "members", "edges", "secret", "status"} THEN "live"
    ELSE pc

Held == INSTANCE HeldProofs WITH stage <- Stage, remote <- role.here

(* Refinement: whatever a run does to the role, and wherever it ends, it   *)
(* creates the role only after the finalizer is on the resource, drops it  *)
(* only for a version that is being deleted and does not ask to keep it,   *)
(* and lets the resource go only after that (controller:72-139).           *)
ImplementsHeldResource == Held!HeldSpec

(* So: no role is left behind without a resource that will drop it, unless *)
(* it was there before its resource or was released on purpose             *)
(* (keepOnDelete, controller:205).                                         *)
NoOrphan == Held!NoOrphan

(* A role that belongs to nobody is never dropped by the operator, and     *)
(* neither is one whose resource is there and is not being deleted         *)
(* (controller:115-126, 205), however stale the informer.                  *)
NoUnwantedDrop == Held!KeptSurvives /\ Held!NoLiveDrop

(* A cached password is the role's password: the cache may let the         *)
(* reconciler skip ALTER ROLE (controller:261) only when it is not needed. *)
(* It outlives the role's deletion and the resource's re-creation.         *)
CacheCoherent ==
    pwCache \in Passwords /\ role.here => role.pw = pwCache

(* status.succeeded is set only for a version of the spec that PostgreSQL  *)
(* has: every option asked for, no other than CREATE ROLE's defaults, and  *)
(* exactly the memberships asked for (controller:145-171).                 *)
StatusTruthful ==
    [][api'.ok /\ ~api.ok =>
         /\ role.here
         /\ api.spec.opts \subseteq role.opts
         /\ role.opts \subseteq api.spec.opts \union DefaultOptions
         /\ role.groups = api.spec.groups]_vars

(* Whoever reads the exported Secret can log in: whenever the Secret and   *)
(* the role are both there, the password is the same, as long as the       *)
(* Secret is where the password comes from.  It holds while the password   *)
(* is known to the Secret alone (a crash loses the cache), while the       *)
(* informer has not seen the Secret, after a lost reply, and when the role *)
(* is created again, by the old resource or a new one, beside the Secret   *)
(* of the old one (controller:475-505 and 385-437).                        *)
CredentialsWork == role.here /\ out.here => out.pw = role.pw

(* Every statement brings the role nearer to the spec that the run has     *)
(* read, or leaves it as near: ALTER ROLE, GRANT and REVOKE set nothing    *)
(* that is not wanted and take nothing that is, though administrators      *)
(* alter the role between the run's reads and its statements               *)
(* (controller:270-279 and 289-336).                                       *)
Towards(wanted, old, new) ==
    old \intersect wanted \subseteq new /\ new \subseteq old \union wanted

OnlyTowardsSpec ==
    [][role.here /\ role'.here /\ edits' = edits =>
         /\ Towards(res.spec.opts, role.opts, role'.opts)
         /\ Towards(res.spec.groups, role.groups, role'.groups)]_vars

-----------------------------------------------------------------------------
(* Liveness.                                                               *)

(* The reconciler can bring any role to these options.                     *)
Achievable(spec) == spec.opts \union DefaultOptions \subseteq OperatorOptions

Readable == RetrievedPasswords(api.spec) # {}

(* The password that is read is empty.  An empty password is not assigned  *)
(* (role.go:165), but it is cached and exported, and an exported one is    *)
(* read back in every run, also when passwordFromSecret is gone: the role  *)
(* keeps the password it has, which the exported Secret does not say.      *)
Blank == RetrievedPasswords(api.spec) = {Empty}

(* Everything the spec asks for is there, and the exported Secret opens    *)
(* the role.  A role whose name PostgreSQL quotes finds no memberships to  *)
(* revoke (role_membership.go:11).                                         *)
InSync ==
    /\ role.here
    /\ role.opts = api.spec.opts
    /\ api.spec.groups \subseteq role.groups
    /\ role.groups \subseteq api.spec.groups \/ NameNeedsQuotes
    /\ api.spec.source /\ ~Blank => role.pw = input
    /\ api.spec.export => out.here
    /\ api.spec.export /\ ~api.spec.override /\ ~Blank => out.pw = role.pw
    /\ api.ok

(* When users, administrators and faults come to rest, a live resource     *)
(* whose password can be read ends up with the role it describes.          *)
Converges ==
    <>[](api.here /\ ~api.del /\ api.spec.mine /\ Achievable(api.spec)
           /\ Readable => InSync)

(* A deletion completes, unless the password cannot be read (controller:81 *)
(* runs before the deletion branch), the resource has moved to another     *)
(* instance, or PostgreSQL refuses: it drops no role that has privileges   *)
(* on something (controller:233), which REASSIGN OWNED does not take away, *)
(* nor one that owns objects nobody reassigns, and the role that is to     *)
(* have them may be missing (controller:224).                              *)
DeletionHeld ==
    \/ ~api.spec.mine
    \/ ~Readable
    \/ /\ role.here /\ ~api.spec.keep
       /\ \/ role.privs
          \/ api.spec.reassign /\ ~heir
          \/ ~api.spec.reassign /\ role.owns # {}

DeletionCompletes == <>[](api.fin /\ api.del => DeletionHeld)

-----------------------------------------------------------------------------
(* What the documentation says and the code does not do.  Each is refuted  *)
(* by a run of its own.                                                    *)

(* "the operator will read the password from the key `password` in the     *)
(* Secret `myrole-password` and assign it to the role"                     *)
(* (configure_role_postgresrole.md:117), also after a reply was lost.      *)
PasswordAssigned ==
    <>[](api.here /\ ~api.del /\ api.spec.source /\ input \in Passwords =>
           role.here /\ role.pw = input)

(* "`.Password`: the role's password" (configure_role_postgresrole.md:162) *)
(* and "you can also override the default fields" (:195): in the end the   *)
(* Secret holds what the template makes of the role's password.  The       *)
(* reconciler reads the rendered text back as the next password.           *)
TemplateRendersPassword ==
    <>[](api.here /\ ~api.del /\ api.spec.override =>
           role.here /\ out.here /\ out.pw = Rendered[role.pw])

=============================================================================
