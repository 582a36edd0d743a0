--------------------------- MODULE RoleReconciler ---------------------------
(***************************************************************************)
(* internal/controller/postgresrole_controller.go with the statements of   *)
(* internal/postgresql/role.go and role_membership.go, for one PostgresRole*)
(* resource: one worker reconciles it again and again, from an informer's  *)
(* possibly stale copy, against a PostgreSQL server and an API server that *)
(* other people change at the same time.                                   *)
(*                                                                         *)
(* One action is one call that leaves the process (SQL statement, API      *)
(* request) with the local computation up to the next one.  Reads of the   *)
(* informer's store are local and belong to the action they feed.          *)
(*                                                                         *)
(* Abstractions.                                                           *)
(*  - A spec is one of a small set of records.  The seven role options are *)
(*    the members of a set, the instance annotation is the field "mine".   *)
(*  - A template that renders the Secret's PGPASSWORD itself is the field  *)
(*    "override" with the function Rendered; the Secret's label and its    *)
(*    other keys are one field, "clean".                                   *)
(*  - A failed call is retried by the work queue: the run ends, and the    *)
(*    next one starts from the beginning (as does the periodic requeue).   *)
(*  - A Secret's version is its content.                                   *)
(*  - The operator may drop the roles it manages: it is a superuser, or has *)
(*    them with ADMIN OPTION, as CREATE ROLE gives its caller.             *)
(***************************************************************************)
EXTENDS Resource

CONSTANTS
    Options,          \* the boolean options of a PostgreSQL role
    DefaultOptions,   \* those CREATE ROLE sets when it is not told about them
    OperatorOptions,  \* those of the operator's own role
    Passwords,        \* non-empty passwords
    Empty,            \* the empty password
    None,             \* no password, no such key
    Groups,           \* roles one may be a member of
    Databases,        \* databases of the server
    Rendered,         \* what a template that sets PGPASSWORD makes of one
    Inputs,           \* what the Secret of passwordFromSecret may hold
    OutEdits,         \* what users may write into the exported Secret;
                      \* {}: they leave it alone
    PreExisting,      \* roles that may be on the server before the resource
    AdminRoles,       \* what an administrator may turn the role into
    NameNeedsQuotes,  \* PostgreSQL quotes the role's name when printing it
    LostReplies,      \* a statement may take effect though its reply is lost
    AdminDrops,       \* administrators drop the role
    AccessChanges,    \* privileges of the role, and the role that is to get
                      \* its objects, come and go
    MaxFaults         \* bound on failed calls and crashes

Values    == Passwords \union {Empty}
MaybeText == Values \union {None}

SpecRecords ==
    [opts     : SUBSET Options,
     groups   : SUBSET Groups,
     keep     : BOOLEAN,   \* keepOnDelete
     reassign : BOOLEAN,   \* onDelete.reassignOwnedTo is set
     source   : BOOLEAN,   \* passwordFromSecret is set
     export   : BOOLEAN,   \* secretName is set
     override : BOOLEAN,   \* secretTemplate has the key PGPASSWORD
     mine     : BOOLEAN]   \* IsManagedByOperatorInstance holds

RoleRecords ==
    [here   : BOOLEAN,
     opts   : SUBSET Options,
     pw     : MaybeText,
     groups : SUBSET Groups,
     owns   : SUBSET Databases,  \* where it owns objects
     privs  : BOOLEAN]           \* objects of others grant it privileges

ASSUME SpecsAssumption == Specs \subseteq SpecRecords
ASSUME RolesAssumption ==
    /\ PreExisting \subseteq {r \in RoleRecords : r.here}
    /\ AdminRoles \subseteq {r \in RoleRecords : r.here}
ASSUME OptionsAssumption ==
    /\ DefaultOptions \subseteq Options
    /\ OperatorOptions \subseteq Options
ASSUME TextAssumption ==
    /\ Empty \notin Passwords
    /\ None \notin Values
    /\ Passwords # {}
    /\ Rendered \in [Values -> Values]
    /\ Inputs \subseteq MaybeText
    /\ Inputs # {}
    /\ OutEdits \subseteq MaybeText
ASSUME BoundsAssumption ==
    /\ MaxFaults \in Nat
    /\ Databases # {}
    /\ NameNeedsQuotes \in BOOLEAN
    /\ LostReplies \in BOOLEAN
    /\ AdminDrops \in BOOLEAN
    /\ AccessChanges \in BOOLEAN

SecretRecords == [here : BOOLEAN, pw : MaybeText, clean : BOOLEAN]

PCs == {"idle", "query", "finalizer", "reassign", "drop", "release",
        "apply", "members", "edges", "secret", "status"}

VARIABLES
    \* the API server
    out,       \* the Secret named by secretName
    input,     \* the password in the Secret of passwordFromSecret, or None
    \* the operator's informer
    outView,   \* its copy of out
    \* PostgreSQL
    role,
    heir,      \* the role named by onDelete.reassignOwnedTo is there, and the
               \* operator may give it the objects
    \* the operator's process
    pwCache,   \* CacheRolePasswords[spec.name], or None
    pc,        \* the call the run makes next
    res,       \* the run's copy of the resource
    seen,      \* what GetRole returned
    pw,        \* the desired password
    todo,      \* databases left for REASSIGN OWNED
    revokes, grants,
    \* bookkeeping
    kept,      \* the role belongs to nobody: it was there before the
               \* resource, or outlived one with keepOnDelete
    faults

runVars    == <<pc, res, seen, pw, todo, revokes, grants>>
worldVars  == <<api, out, input, heir>>
viewVars   == <<view, news, outView>>
vars       == <<worldVars, viewVars, role, pwCache, runVars, kept, edits,
                faults>>

NoRole   == [here |-> FALSE, opts |-> {}, pw |-> None, groups |-> {},
             owns |-> {}, privs |-> FALSE]
NoSecret == [here |-> FALSE, pw |-> None, clean |-> FALSE]
Unread   == [here |-> FALSE, opts |-> {}]

TypeOK ==
    /\ ResourceTypeOK
    /\ res \in ObjectRecords
    /\ out \in SecretRecords
    /\ outView \in SecretRecords
    /\ input \in MaybeText
    /\ role \in RoleRecords
    /\ heir \in BOOLEAN
    /\ seen \in [here : BOOLEAN, opts : SUBSET Options]
    /\ pwCache \in MaybeText
    /\ pw \in Values
    /\ pc \in PCs
    /\ todo \in SUBSET Databases
    /\ revokes \in SUBSET Groups
    /\ grants \in SUBSET Groups
    /\ kept \in BOOLEAN
    /\ faults \in Nat

Init ==
    /\ ResourceInit
    /\ res = NoObject
    /\ out = NoSecret
    /\ outView = NoSecret
    /\ input \in Inputs
    /\ role \in PreExisting \union {NoRole}
    /\ kept = role.here
    /\ heir = TRUE
    /\ seen = Unread
    /\ pwCache = None
    /\ pw = Empty
    /\ pc = "idle"
    /\ todo = {}
    /\ revokes = {}
    /\ grants = {}
    /\ faults = 0

-----------------------------------------------------------------------------
(* Users and administrators.                                               *)

OperatorIdle == UNCHANGED <<view, outView, pwCache, runVars, kept, faults>>

Change ==
    /\ ChangeResource
    /\ UNCHANGED <<out, input, role, heir>>
    /\ OperatorIdle

EditSource ==
    /\ Elsewhere
    /\ input' \in Inputs \ {input}
    /\ UNCHANGED <<out, role, heir>>
    /\ OperatorIdle

(* A user changes the exported Secret's password or drops the key.         *)
EditSecret ==
    /\ Elsewhere
    /\ out.here
    /\ \E p \in OutEdits \ {out.pw} :
         out' = [out EXCEPT !.pw = p, !.clean = FALSE]
    /\ UNCHANGED <<input, role, heir>>
    /\ OperatorIdle

DeleteSecret ==
    /\ Elsewhere
    /\ OutEdits # {}
    /\ out.here
    /\ out' = NoSecret
    /\ UNCHANGED <<input, role, heir>>
    /\ OperatorIdle

(* An administrator alters the role, or objects change owner.              *)
AdminAlterRole ==
    /\ Elsewhere
    /\ role.here
    /\ role' \in AdminRoles \ {role}
    /\ UNCHANGED <<out, input, heir>>
    /\ OperatorIdle

AdminDropRole ==
    /\ Elsewhere
    /\ AdminDrops
    /\ role.here
    /\ role' = NoRole
    /\ UNCHANGED <<out, input, heir>>
    /\ OperatorIdle

(* Others grant the role privileges on their objects or revoke them: the   *)
(* database and schema reconcilers do, for privilegesByRole.               *)
ChangePrivileges ==
    /\ Elsewhere
    /\ AccessChanges
    /\ role.here
    /\ role' = [role EXCEPT !.privs = ~@]
    /\ UNCHANGED <<out, input, heir>>
    /\ OperatorIdle

(* The role that is to get the objects is dropped or created, or the       *)
(* operator becomes a member of it or ceases to be one.                    *)
ChangeHeir ==
    /\ Elsewhere
    /\ AccessChanges
    /\ heir' = ~heir
    /\ UNCHANGED <<out, input, role>>
    /\ OperatorIdle

Environment ==
    \/ Change
    \/ EditSource \/ EditSecret \/ DeleteSecret
    \/ AdminAlterRole \/ AdminDropRole
    \/ ChangePrivileges \/ ChangeHeir

-----------------------------------------------------------------------------
(* The informers catch up.                                                 *)

Deliver ==
    /\ DeliverResource
    /\ UNCHANGED <<out, input, heir, outView, role, pwCache, runVars, kept,
                   faults>>

DeliverSecret ==
    /\ outView # out
    /\ outView' = out
    /\ UNCHANGED <<worldVars, view, news, role, pwCache, runVars, kept, edits,
                   faults>>

-----------------------------------------------------------------------------
(* How a run ends: an error goes to the rate limiter, success asks for a   *)
(* requeue after the interval; either way Reconcile is called again.       *)

Result ==
    /\ pc' = "idle"
    /\ res' = NoObject
    /\ seen' = Unread
    /\ pw' = Empty
    /\ todo' = {} /\ revokes' = {} /\ grants' = {}

Fault == faults < MaxFaults /\ faults' = faults + 1

(* The statement's or request's effect has happened.  Its reply arrives    *)
(* and the run goes on, or it is lost and the run ends with an error.      *)
Replied == UNCHANGED faults
ReplyLost == LostReplies /\ Fault /\ Result /\ UNCHANGED pwCache

(* Mutants of RetrievedPasswords: a missing key of the source Secret is no *)
(* error; the exported Secret is not read back.                            *)
KeyUnchecked(spec) ==
    IF spec.source THEN {input}
    ELSE IF spec.export /\ outView.here THEN {outView.pw} \ {None}
    ELSE IF pwCache # None THEN {pwCache}
    ELSE Passwords

NotReadBack(spec) ==
    IF spec.source THEN {input} \ {None}
    ELSE IF pwCache # None THEN {pwCache}
    ELSE Passwords

(* retrieveRolePassword: the passwords it may return; none on an error.    *)
RetrievedPasswords(spec) ==
    IF spec.source THEN {input} \ {None}
    ELSE IF spec.export /\ outView.here THEN {outView.pw} \ {None}
    ELSE IF pwCache # None THEN {pwCache}
    ELSE Passwords  \* generatePassword

(* Get, IsManagedByOperatorInstance and retrieveRolePassword.  When one of *)
(* them ends the run, nothing has changed.                                 *)
Fetch ==
    /\ pc = "idle"
    /\ view.here /\ view.spec.mine
    /\ pw' \in RetrievedPasswords(view.spec)
    /\ res' = view
    /\ pc' = "query"
    /\ UNCHANGED <<worldVars, viewVars, role, pwCache, seen, todo, revokes,
                   grants, kept, edits, faults>>

(* Mutants of AfterQuery: the role is created before the finalizer is put; *)
(* a role that is gone is dropped again.                                   *)
FinalizerSkipped ==
    IF ~res.del THEN "apply"
    ELSE IF ~role.here \/ res.spec.keep THEN "release"
    ELSE IF res.spec.reassign THEN "reassign"
    ELSE "drop"

DroppedTwice ==
    IF ~res.del THEN (IF res.fin THEN "apply" ELSE "finalizer")
    ELSE IF res.spec.keep THEN "release"
    ELSE IF res.spec.reassign /\ role.here THEN "reassign"
    ELSE "drop"

(* GetRole for the role (the operator's own role does not change), and the *)
(* branch on deletionTimestamp, the finalizer and reconcileOnDeletion's    *)
(* early returns.                                                          *)
AfterQuery ==
    IF ~res.del THEN (IF res.fin THEN "apply" ELSE "finalizer")
    ELSE IF ~role.here \/ res.spec.keep THEN "release"
    ELSE IF res.spec.reassign THEN "reassign"
    ELSE "drop"

(* Mutant: deletion goes ahead for a resource that was never ours.         *)
ForeignDropped ==
    /\ pc = "query"
    /\ pc' = AfterQuery
    /\ seen' = [here |-> role.here, opts |-> role.opts]
    /\ todo' = IF AfterQuery = "reassign" THEN Databases ELSE {}
    /\ UNCHANGED <<worldVars, viewVars, role, pwCache, res, pw, revokes,
                   grants, kept, edits, faults>>

QueryRole ==
    /\ pc = "query"
    /\ ~res.del \/ res.fin
    /\ pc' = AfterQuery
    /\ seen' = [here |-> role.here, opts |-> role.opts]
    /\ todo' = IF AfterQuery = "reassign" THEN Databases ELSE {}
    /\ UNCHANGED <<worldVars, viewVars, role, pwCache, res, pw, revokes,
                   grants, kept, edits, faults>>

(* Somebody else's finalizer holds the resource: nothing to do.            *)
AlreadyReleased ==
    /\ pc = "query"
    /\ res.del /\ ~res.fin
    /\ Result
    /\ UNCHANGED <<worldVars, viewVars, role, pwCache, kept, edits, faults>>

(* AddFinalizer and Update.  From here on the role is the resource's.      *)
AddFinalizer ==
    /\ pc = "finalizer"
    /\ Current(res)
    /\ WriteFinalizer
    /\ kept' = FALSE
    /\ \/ /\ Replied
          /\ res' = api'
          /\ pc' = "apply"
          /\ UNCHANGED <<seen, pw, todo, revokes, grants, pwCache>>
       \/ ReplyLost
    /\ UNCHANGED <<out, input, heir, view, outView, role, edits>>

-----------------------------------------------------------------------------
(* reconcileOnDeletion.                                                    *)

(* EnsurePGPoolExists and REASSIGN OWNED in one of the databases, whether   *)
(* or not the role owns something there.  Its privileges stay.             *)
ReassignOwned ==
    /\ pc = "reassign"
    /\ role.here /\ heir
    /\ \E d \in todo :
         /\ role' = [role EXCEPT !.owns = @ \ {d}]
         /\ \/ /\ Replied
               /\ todo' = todo \ {d}
               /\ pc' = IF todo = {d} THEN "drop" ELSE "reassign"
               /\ UNCHANGED <<res, seen, pw, revokes, grants, pwCache>>
            \/ ReplyLost
    /\ UNCHANGED <<worldVars, viewVars, kept, edits>>

(* PostgreSQL refuses to drop a role that owns something or that has       *)
(* privileges on something.                                                *)
Droppable == role.here /\ role.owns = {} /\ ~role.privs

DropRole ==
    /\ pc = "drop"
    /\ Droppable
    /\ role' = NoRole
    /\ \/ /\ Replied
          /\ pc' = "release"
          /\ UNCHANGED <<res, seen, pw, todo, revokes, grants, pwCache>>
       \/ ReplyLost
    /\ UNCHANGED <<worldVars, viewVars, kept, edits>>

(* RemoveFinalizer and Update.  Only keepOnDelete leaves a role behind.     *)
RemoveFinalizer ==
    /\ pc = "release"
    /\ Current(res)
    /\ WriteRelease
    /\ kept' = res.spec.keep
    /\ \/ Replied /\ Result /\ UNCHANGED pwCache
       \/ ReplyLost
    /\ UNCHANGED <<out, input, heir, view, outView, role, edits>>

-----------------------------------------------------------------------------
(* reconcileOnCreation.                                                    *)

Differ(a, b) == (a \ b) \union (b \ a)

(* generateRoleOptionsString: every option that changes must be one of the *)
(* operator's own.                                                         *)
Permitted(from, to) == Differ(from, to) \subseteq OperatorOptions

Cached == IF pwCache = None THEN Empty ELSE pwCache  \* a missing map entry

(* Mutants: one of the two comparisons is missing.                         *)
OnlyOptions  == seen.opts # res.spec.opts
OnlyPassword == pw # Cached

NeedUpdate == pw # Cached \/ seen.opts # res.spec.opts

Goto(label) ==
    /\ pc' = label
    /\ UNCHANGED <<res, seen, pw, todo, revokes, grants>>

(* CREATE ROLE, told only about the options that are set.                  *)
CreateRole ==
    /\ pc = "apply"
    /\ ~seen.here /\ ~role.here
    /\ Permitted({}, res.spec.opts)
    /\ role' = [here   |-> TRUE,
                opts   |-> res.spec.opts \union DefaultOptions,
                pw     |-> IF pw = Empty THEN None ELSE pw,
                groups |-> {},
                owns   |-> {},
                privs  |-> FALSE]
    /\ \/ Replied /\ pwCache' = pw /\ Goto("members")
       \/ ReplyLost
    /\ UNCHANGED <<worldVars, viewVars, kept, edits>>

(* Mutant: the password is sent only with other options.                   *)
PasswordUnsent ==
    /\ pc = "apply"
    /\ seen.here /\ NeedUpdate /\ role.here
    /\ Permitted(seen.opts, res.spec.opts)
    /\ role' = [role EXCEPT
                  !.opts = (@ \ (seen.opts \ res.spec.opts))
                              \union (res.spec.opts \ seen.opts),
                  !.pw   = IF pw = Empty \/ seen.opts = res.spec.opts
                             THEN @ ELSE pw]
    /\ \/ Replied /\ pwCache' = pw /\ Goto("members")
       \/ ReplyLost
    /\ UNCHANGED <<worldVars, viewVars, kept, edits>>

(* ALTER ROLE, told only about the options that differ from those read.    *)
AlterRole ==
    /\ pc = "apply"
    /\ seen.here /\ NeedUpdate /\ role.here
    /\ Permitted(seen.opts, res.spec.opts)
    /\ role' = [role EXCEPT
                  !.opts = (@ \ (seen.opts \ res.spec.opts))
                              \union (res.spec.opts \ seen.opts),
                  !.pw   = IF pw = Empty THEN @ ELSE pw]
    /\ \/ Replied /\ pwCache' = pw /\ Goto("members")
       \/ ReplyLost
    /\ UNCHANGED <<worldVars, viewVars, kept, edits>>

NoUpdate ==
    /\ pc = "apply"
    /\ seen.here /\ ~NeedUpdate
    /\ Goto("members")
    /\ UNCHANGED <<worldVars, viewVars, role, pwCache, kept, edits, faults>>

-----------------------------------------------------------------------------
(* reconcileRoleMembership.                                                *)

(* member::regrole::text quotes a name that needs it, spec.name does not.  *)
GetRoleMembership == IF NameNeedsQuotes \/ ~role.here THEN {} ELSE role.groups

(* Mutant: memberships nobody asks for are not revoked.                    *)
NeverRevoked ==
    /\ pc = "members"
    /\ revokes' = {}
    /\ grants' = res.spec.groups \ GetRoleMembership
    /\ pc' = "edges"
    /\ UNCHANGED <<worldVars, viewVars, role, pwCache, res, seen, pw, todo,
                   kept, edits, faults>>

(* Mutant: what the role has is revoked before the rest is granted.        *)
AllRevoked ==
    /\ pc = "members"
    /\ revokes' = GetRoleMembership
    /\ grants' = res.spec.groups \ GetRoleMembership
    /\ pc' = "edges"
    /\ UNCHANGED <<worldVars, viewVars, role, pwCache, res, seen, pw, todo,
                   kept, edits, faults>>

ReadMembership ==
    /\ pc = "members"
    /\ revokes' = GetRoleMembership \ res.spec.groups
    /\ grants' = res.spec.groups \ GetRoleMembership
    /\ pc' = "edges"
    /\ UNCHANGED <<worldVars, viewVars, role, pwCache, res, seen, pw, todo,
                   kept, edits, faults>>

RevokeMembership ==
    /\ pc = "edges"
    /\ role.here
    /\ \E g \in revokes :
         /\ role' = [role EXCEPT !.groups = @ \ {g}]
         /\ \/ /\ Replied
               /\ revokes' = revokes \ {g}
               /\ UNCHANGED <<pc, res, seen, pw, todo, grants, pwCache>>
            \/ ReplyLost
    /\ UNCHANGED <<worldVars, viewVars, kept, edits>>

GrantMembership ==
    /\ pc = "edges"
    /\ revokes = {}
    /\ role.here
    /\ \E g \in grants :
         /\ role' = [role EXCEPT !.groups = @ \union {g}]
         /\ \/ /\ Replied
               /\ grants' = grants \ {g}
               /\ UNCHANGED <<pc, res, seen, pw, todo, revokes, pwCache>>
            \/ ReplyLost
    /\ UNCHANGED <<worldVars, viewVars, kept, edits>>

MembershipDone ==
    /\ pc = "edges"
    /\ revokes = {} /\ grants = {}
    /\ Goto("secret")
    /\ UNCHANGED <<worldVars, viewVars, role, pwCache, kept, edits, faults>>

-----------------------------------------------------------------------------
(* reconcileRoleSecret, then the status.                                   *)

DesiredSecretPassword == IF res.spec.override THEN Rendered[pw] ELSE pw

SecretUpToDate ==
    outView.here /\ outView.clean /\ outView.pw = DesiredSecretPassword

SkipSecret ==
    /\ pc = "secret"
    /\ ~res.spec.export \/ SecretUpToDate
    /\ Goto("status")
    /\ UNCHANGED <<worldVars, viewVars, role, pwCache, kept, edits, faults>>

(* Create when the informer has no Secret, Update when its Secret differs; *)
(* the API server refuses either when the informer's is not the latest.    *)
WriteSecret ==
    /\ pc = "secret"
    /\ res.spec.export /\ ~SecretUpToDate
    /\ outView = out
    /\ out' = [here |-> TRUE, pw |-> DesiredSecretPassword, clean |-> TRUE]
    /\ \/ Replied /\ Goto("status") /\ UNCHANGED pwCache
       \/ ReplyLost
    /\ UNCHANGED <<api, input, heir, viewVars, role, kept, edits>>

UpdateStatus ==
    /\ pc = "status"
    /\ ~res.ok
    /\ Current(res)
    /\ WriteStatus
    /\ \/ Replied /\ Result /\ UNCHANGED pwCache
       \/ ReplyLost
    /\ UNCHANGED <<out, input, heir, view, outView, role, kept, edits>>

AlreadySucceeded ==
    /\ pc = "status"
    /\ res.ok
    /\ Result
    /\ UNCHANGED <<worldVars, viewVars, role, pwCache, kept, edits, faults>>

-----------------------------------------------------------------------------
(* Runs that end early.                                                    *)

(* The server or the API refuses the call, whenever it would be made again *)
(* in this state.                                                          *)
Refused ==
    \/ pc \in {"finalizer", "release"} /\ ~Current(res)
    \/ pc = "status" /\ ~res.ok /\ ~Current(res)
    \/ pc = "reassign" /\ ~(role.here /\ heir)
    \/ pc = "edges" /\ ~role.here /\ revokes \union grants # {}
    \/ pc = "drop" /\ ~Droppable
    \/ pc = "apply" /\ ~seen.here
           /\ (role.here \/ ~Permitted({}, res.spec.opts))
    \/ pc = "apply" /\ seen.here /\ NeedUpdate
           /\ (~role.here \/ ~Permitted(seen.opts, res.spec.opts))
    \/ pc = "secret" /\ res.spec.export /\ ~SecretUpToDate
           /\ outView # out

Refuse ==
    /\ Refused
    /\ Result
    /\ UNCHANGED <<worldVars, viewVars, role, pwCache, kept, edits, faults>>

(* Any call may fail without effect: a timeout, a lost connection.         *)
CallFails ==
    /\ pc # "idle"
    /\ Fault
    /\ Result
    /\ UNCHANGED <<worldVars, viewVars, role, pwCache, kept, edits>>

(* The process dies.  A new one lists the API server and has no cache.     *)
Crash ==
    /\ Fault
    /\ Relist
    /\ outView' = out
    /\ pwCache' = None
    /\ pc' = "idle"
    /\ res' = NoObject
    /\ seen' = Unread
    /\ pw' = Empty
    /\ todo' = {} /\ revokes' = {} /\ grants' = {}
    /\ UNCHANGED <<worldVars, role, kept, edits>>

-----------------------------------------------------------------------------
Deletion == ReassignOwned \/ DropRole \/ RemoveFinalizer
Creation == CreateRole \/ AlterRole \/ NoUpdate
Membership ==
    ReadMembership \/ RevokeMembership \/ GrantMembership \/ MembershipDone
Export == SkipSecret \/ WriteSecret \/ UpdateStatus \/ AlreadySucceeded

(* What the operator does of its own accord.                               *)
Reconcile ==
    \/ Fetch \/ QueryRole \/ AlreadyReleased \/ AddFinalizer
    \/ Deletion \/ Creation \/ Membership \/ Export \/ Refuse

Next ==
    \/ Environment
    \/ Deliver \/ DeliverSecret
    \/ Reconcile
    \/ CallFails \/ Crash

Spec == Init /\ [][Next]_vars

(* The work queue calls Reconcile again after every run, with or without   *)
(* an error, and informers deliver.                                        *)
FairSpec ==
    /\ Spec
    /\ WF_vars(Reconcile)
    /\ WF_vars(Deliver)
    /\ WF_vars(DeliverSecret)

(* A requeue comes at the earliest after a second, by default after five   *)
(* minutes (main.go:72); an informer that lags behind its own operator's   *)
(* last write for ever is no behaviour of the system.                      *)
PromptSpec == FairSpec /\ <>[][Fetch => outView = out]_vars

=============================================================================
