# managed-postgres-operator in TLA+

Specifications of the operator in `src/`, model-checked with TLC and, where it
matters most, proved with TLAPS. `controller:N` below is a line of the
reconciler under discussion
(`src/internal/controller/postgres*_controller.go`).

## 1. Inventory

The operator watches three custom resources and makes a PostgreSQL server agree
with them. It keeps no state of its own on disk: what it knows is in the API
server, in PostgreSQL, and in two maps of the process.

| Part | State | Operations | Hard because |
|---|---|---|---|
| PostgresRole reconciler (`postgresrole_controller.go`, `role.go`, `role_membership.go`) | `CacheRolePasswords` | `Reconcile`: read the password, query the role, put the finalizer, CREATE/ALTER ROLE, memberships, exported Secret, status; or REASSIGN OWNED, DROP ROLE, take the finalizer off | the copy of the resource is stale; two Secrets, a cache and a generator are sources of one password; runs end anywhere |
| PostgresDatabase reconciler (`postgresdatabase_controller.go`, `database.go`) | none | `Reconcile`: query, finalizer, CREATE DATABASE, owner, extensions, privileges, status; or terminate connections, DROP DATABASE, finalizer | other clients are connected; so is the operator; a connection is lost with every deletion attempt; reads may be cut short |
| PostgresSchema reconciler (`postgresschema_controller.go`, `schema.go`) | none | the same shape, through the pool of the schema's database | needs the database; sees only the schemas that `information_schema` shows |
| Connection pools (`pool.go`) | `PGPools.Default`, the map `PGPools.Databases` | `EnsurePGPoolExists` | shared by three controllers without a lock; bounded |
| Operator instances (`utils.go`, `main.go`) | annotation, lease | `IsManagedByOperatorInstance`, `GetLeaderElectionID` | resources move between instances; an unnamed one takes all |
| Resource types (`api/v1alpha1`) | spec, `status.succeeded`, finalizers, deletionTimestamp | - | |
| Wiring (`cmd/main.go`) | pools, cache, requeue interval | start, restart | a restart forgets the cache |

How they interact. Users write resources and Secrets to the API server; its
watch feeds the informers, whose copies `Reconcile` reads; `Reconcile` writes
back with `Update` and `Status().Update`, which the API server refuses unless
they are of the latest version. One worker per controller reconciles one
resource at a time and, whatever the result, is called again: an error goes to
the rate limiter, success asks for `RequeueAfter`. Administrators and clients
use PostgreSQL at the same time. The three controllers share the default pool
and the map of database pools.

What makes each part correct:

- every reconciler: the PostgreSQL object is created only under the finalizer,
  dropped only on a pending deletion that does not ask to keep it, and the
  resource goes only after that; `succeeded` is not set too early; a live
  resource converges; a deletion completes or is held for a reason one can
  name;
- role: the cache may only spare statements that are not needed; the exported
  Secret says how to log in;
- database: clients are thrown out only on a pending deletion; the default pool
  does not run dry;
- schema: what the operator cannot see it may leave behind, and nothing else;
- pools: a run finds a pool or fails, whatever the other controllers do to the
  map, and the pools that are opened are few;
- instances: one operator at a time for a resource, and always one.

The behaviours that are hard to test are in `PROJECT.json` under `hazards`,
each at its line, with the properties that would catch it.

## 2. Modules

```
ManagedObject                 what a reconciler promises about one resource
     ^  Phase                 and its PostgreSQL object
HeldResource  --- Resource    how: finalizer, informer, runs that end anywhere
     ^  Stage        |
RoleProperties       |        role.here    for remote
DatabaseProperties   |        db.here      for remote
SchemaProperties     |        schema.here  for remote
     |               |
RoleReconciler ------+        every call of a run is an action
DatabaseReconciler --+
SchemaReconciler ----+

OperatorProperties
     |
Operators                     which process runs a reconciler for which
                              resource, and through which pools
```

| Module | What it is |
|---|---|
| `Resource` | One custom resource as users, the API server and an informer see it: create, edit, delete, foreign finalizers, versions, the operator's three writes, delivery and relisting. Extended by the frame and the reconcilers. |
| `ManagedObject` | Abstract specification: four phases of a resource, the object exists or not. No informer, no run. |
| `HeldResource` | The frame that the three `Reconcile` functions share, for any PostgreSQL object. `Phase` maps it to `ManagedObject`. |
| `RoleReconciler`, `RoleProperties` | The role reconciler and what it must do. `Stage` maps it to `HeldResource`. |
| `DatabaseReconciler`, `DatabaseProperties` | The same for the database. |
| `SchemaReconciler`, `SchemaProperties` | The same for the schema; its database and the roles come and go around it. |
| `Operators`, `OperatorProperties` | The operator's processes: instance names, leases, workers, and the map of pools that the workers of a process share. |
| `ResourceProofs`, `HeldProofs`, `RoleProofs`, `DatabaseProofs`, `SchemaProofs`, `OperatorProofs` | Theorems and proofs. |
| `MCHeld`, `MCRole`, `MCDatabase`, `MCSchema`, `MCOperators` | Values of the constants for TLC. |

### How state and actions correspond to the code

One action is one call that leaves the process (an SQL statement, a request to
the API server), with the local computation up to the next call. Reads of an
informer's store are local and belong to the action they feed: `Fetch` is
`Get`, the instance check and `retrieveRolePassword` together. The variable
`pc` names the call that comes next, `res` is the run's copy of the resource,
`seen` what `GetRole`, `GetDatabase` or `GetSchema` returned.

Each call has up to four outcomes: it takes effect and the run goes on; it
takes effect, the reply is lost and the run ends with an error (`ReplyLost`,
`Reply`); the other side refuses it in this state (`Refuse`, guarded by
`Refused`, the negations of the actions' guards); it fails without effect
(`CallFails`). `Crash` ends the process between any two calls. A run that ends
forgets everything (`Result`); only the cache, the pools, the API server and
PostgreSQL outlive it.

Variables and the code: `api` the resource in the API server, `view` and `news`
the informer's copy and what is on its way to it; `out`, `outView`, `input` the
exported Secret, the informer's copy of it and the password in the source
Secret; `pwCache` is `CacheRolePasswords[spec.name]`; `role` and `db` are the
rows of `pg_roles`, `pg_auth_members`, `pg_database`, `pg_extension` and the
database's ACL that the code reads or writes; what else keeps a role from being
dropped is `role.owns` and `role.privs`, and `heir` says that the role named by
`reassignOwnedTo` can take the objects over; `schema` is the row of
`pg_namespace`, of which `information_schema` shows the operator what `Visible`
says; `sessions` and `pool` the other clients' and the operator's connections
to the database; `leaked` counts the connections that `DropDatabaseConnections`
never gives back. `kept`, `edits` and `faults` are bookkeeping: the object
belongs to nobody (it was there before its resource, or outlived one with
`keepOnDelete`); how often users acted; how often a call failed.

`Operators` looks at the same runs from outside. A worker of a controller
begins a run for a resource that its informer's copy links to the process
(`Begin`), makes sure of the pools it needs one after another (`CheckPool`,
`OpenPool`, `InsertPool`) and uses each (`UsePool`). Looking up, opening and
inserting are steps of their own because `EnsurePGPoolExists` takes no lock. An
insertion that runs at the same time as another may get lost, and any access at
that time may end the process: Go leaves both open. A worker whose pool is gone
from the map calls a method of a nil interface; controller-runtime recovers
from the panic and the run has failed (`UseNil`). Processes start, wait for the
lease that `GetLeaderElectionID` names, lead, and die at any moment, of a
crash, a lost lease (`os.Exit(1)`, main.go:239) or a rolling update.

### Abstractions

- A spec is one of a small set of records. Role options are a set, the instance
  annotation is the field `mine`. `spec.name` is immutable (`XValidation` in
  the types), so it is no field.
- A `secretTemplate` that renders PGPASSWORD is the flag `override` with the
  function `Rendered`; other keys and the label of the Secret are one flag,
  `clean`.
- The reads of `GetDatabaseRolePrivileges` and of `GetSchemaRolePrivileges`
  (one per privilege) are one.
- `pg_extension` lists an extension after those it requires, otherwise in any
  order; `privilegesByRole` is a Go map and is gone through in any order.
- Roles are not members of one another in `DatabaseReconciler` and
  `SchemaReconciler`, and the listed ones are no superusers, so
  `has_database_privilege` and `has_schema_privilege` are the grant plus
  PUBLIC.
- In `RoleReconciler` the operator may drop the roles it manages: it is a
  superuser, or has them with ADMIN OPTION, as CREATE ROLE gives its caller.
- In `SchemaReconciler` the operator is a member of the roles `Members` and may
  make the roles `Settable` owners. A superuser, which the documentation
  configures (installation.md:18), is as good as a member of all.
- A lease runs out only after its holder has stopped: controller-runtime gives
  up renewing after 10 seconds and exits, the lease lasts 15. A process that is
  stalled for longer than that is outside the model.
- `GetLeaderElectionID` is one to one; its prefix of 14 characters and hash of
  32 bits are taken for the name.
- `pgxpool.NewWithConfig` opens no connection and does not fail.
- The informer skips versions but never goes back. A restarted operator lists
  the present state.

## 3. What is checked

TLC, all runs with `CHECK_DEADLOCK FALSE`: when no resource is there, the
bounds on edits and faults are spent and the informer has caught up, nothing is
left to do.

| Run | Question | Distinct states |
|---|---|---|
| `held` | Does the frame keep `ManagedObject`'s promise: the refinement, `HoldInv` (the inductive invariant), `KeptSurvives`, `NoLiveDrop`? | 114,758 |
| `role_password` | `CacheCoherent`: a cached password is the role's; `Converges`, for passwords and Secrets; `TypeOK` | 212,747 |
| `role_export` | `CredentialsWork`: the exported Secret's password is the role's whenever both are there; `StatusTruthful`: options and memberships are there when `succeeded` is set | 132,159 |
| `role_settles` | Does the role reconciler stay within the frame (`ImplementsHeldResource`); so `NoOrphan`, `NoUnwantedDrop`? `OnlyTowardsSpec`: no statement takes the role away from the spec; `Converges`, for options and memberships after outside changes; `DeletionCompletes`, or one of five reasons holds it | 336,424 |
| `database_access` | `StatusTruthful`: owner, extensions, privileges | 151,387 |
| `database_settles` | `ImplementsHeldResource`, `OnlyTowardsSpec`, `SessionsSafe`, `Converges`, `DeletionCompletes`, `TypeOK` | 456,553 |
| `schema_settles` | `ImplementsHeldResource`, where every schema is visible; `OnlyTowardsSpec`; `Converges`, though `succeeded` comes first; `DeletionCompletes`, or a reason holds it; `TypeOK` | 376,353 |
| `schema_unseen` | `OnlyUnseenLeft`: a schema that is left behind is one that `information_schema` hides; `KeptSurvives`: one that belongs to nobody is not dropped; `LiveSurvives`: nor is a live resource's, though another may have been left behind | 621,432 |
| `operators` | `OneOperator`: no two processes for one resource; `FindsItsOperator`: always one, whoever dies and whatever is linked anew; `PoolsBounded`: what the race for the map costs; `TypeOK` | 223,090 |

Each property has a mutant of the code (`PROJECT.json`, `mutants`) under which
its run fails: a `Patch` without a version instead of an `Update`, a finalizer
that comes too late, a comparison left out, and so on. They are definitions
next to the ones they change, marked "Mutant".

### Disagreements

Three runs check a sentence of the documentation and end with a counterexample.
`PROJECT.json`, `findings`, quotes each and names the line.

| Run | The sentence | The code |
|---|---|---|
| `doc_password` | the Secret's password is assigned | after a lost reply the cache can hide that it is not |
| `doc_template` | the template gets the role's password | it gets the text it rendered before |
| `doc_connections` | connections are dropped on deletion | each attempt loses a connection of the default pool, until none is left |

Others were met while modelling. The models do what the code does, and the
properties say so where they make room for it:

| Where | What the code does | Room in |
|---|---|---|
| role.go:56 | CREATE ROLE without `inherit` leaves INHERIT on (PostgreSQL's default); the status is set in the same run, the option corrected in the next | `StatusTruthful` of the role: `DefaultOptions` |
| role_membership.go:11 | a role whose name PostgreSQL quotes has no memberships to revoke | `InSync`: `NameNeedsQuotes` |
| postgresdatabase_controller.go:173 | `preserveConnectionsOnDelete` keeps the connections (the reference, index.md:35, says on `true` they are dropped) | `DeletionHeld` |
| database.go:82 | a connection that breaks while `pg_extension` is read ends the list | `TruncatedReads` is off where `StatusTruthful` is checked |
| role.go:165, postgresrole_controller.go:283 | an empty password is left out of ALTER ROLE, but cached and exported; an exported one is read back in every run, so that the Secret does not contain "all the information you need to log in" (configure_role_postgresrole.md:123), and none is generated (:101) when `passwordFromSecret` is removed | `InSync`: `Blank` |
| postgresrole_controller.go:233 | a role with privileges, such as `privilegesByRole` of a database or schema grants it, is not dropped, and REASSIGN OWNED leaves them; nor are its objects reassigned to a role that is missing (:224) | `DeletionHeld` |
| postgresdatabase_controller.go:256 | extensions are created in the order of the list and without CASCADE: one that is listed before an extension it requires is refused in every run (configure_database_postgresdatabase.md:83: "you can list them in the field `extensions`") | `Installable` in `Achievable` |
| postgresdatabase_controller.go:246 | an extension that another one requires is tried first, and refused, in every run | `Achievable` |
| postgresdatabase_controller.go:209 | an owner removed from the spec stays, and a database that was there keeps its owner when none is given (index.md:32: the operator's role is the owner then) | `AsAsked`: an owner that is given |
| postgresdatabase_controller.go:302, schema.go:90 | what a role may do through PUBLIC is revoked from the role, and stays | `Granted` |
| postgresschema_controller.go:135 | `succeeded` is set before the privileges are reconciled (index.md:139: "whether the schema has been successfully reconciled") | there is no `StatusTruthful` for the schema; `Converges` requires the privileges |
| schema.go:16 | a schema handed to a role that the operator is no member of looks absent: every run then tries to create it, and a deletion leaves it behind; a superuser, and thus the documented configuration, sees all | `OnlyUnseenLeft`, `Rights` in `Achievable` |
| postgresschema_controller.go:224 | without `owner` the schema belongs to the operator's role (index.md:123: "the owner will be the database's owner") | `AsAsked`: an owner that is given |
| postgresschema_controller.go:72 | a deletion opens and queries the database first; when that is gone the finalizer stays | `DeletionHeld` |
| utils.go:23 | an unnamed instance and one named `default` share a lease, so that one of them never works | `Alone` |
| main.go:100 | the environment variable is `OPERATOR_INSTANCE_NAME` (installation.md:56: `OPERATOR_INSTANCE`) | the model has names, however they are given |

### Bounds

`MaxEdits` bounds what users, clients and administrators do, `MaxFaults` the
failed calls, lost replies and crashes. The interesting histories are short:
orphaning takes a create, a delete and a failure; acting on a stale incarnation
takes create, delete, create (three edits) and a lagging informer;
keep-then-drop takes create with keep, delete, create, delete (four). `held`
allows five edits and any number of restarts; the runs of the reconcilers three
or four, with objects that are there before. Passwords: two suffice to differ.
Options: `inherit`, which CREATE ROLE sets by default, and one it does not.
Groups, roles and databases: two, so that one is done while the other is not;
one role where the question is about the object's own course, as in
`schema_settles`. Extensions: three, one required by another, one from the
template, listed in either order. `MaxConns` is 3 in `database_settles`: a
deletion that is tried twice, because a client came back between its two
statements, has a connection left, so `DeletionCompletes` must hold for it
without the excuse that the pool is used up; a third attempt, after a failed
call, drains the pool. It is 4, pgxpool's default minimum, in
`database_access`, where the pool does not run dry.

`operators` has two replicas of one operator, which compete for a lease, and
one process of another, a database and a schema in it, one link that moves and
two faults: a leader that dies and its successor that dies too, a lost
insertion and a death. A race needs two workers of one process on one database;
both controllers need the database `app`. In that run no operator is unnamed,
so `OneOperator` has no exception in it; `OneAtATime` proves it for all names.

Each run switches on the environment that its question needs: administrators
that alter roles, and privileges and heirs that come and go, in `role_settles`,
users that edit the exported Secret in `role_password`, administrators that
drop databases and roles in `schema_settles`, roles that come and go in
`database_access`. In `schema_unseen` administrators take schemas out of the
operator's sight and do not bring them back. In `role_password` replies are not
lost, because `doc_password` shows what a lost reply does to the cache; in
`role_export` nobody alters the role, because the code promises nothing about
changes made while it runs.

### Fairness

`FairSpec` is weak fairness of `Reconcile` (everything the operator does of its
own accord) and of the informers' deliveries. `Result` (controller:190) returns
either an error, which the rate limiter (controller:182-185) requeues after at
most `RequeueInterval`, or `RequeueAfter`: there is always a next call. For the
database also `PoolIdles`: pgxpool closes idle connections in the background.

`PromptSpec` adds that from some point on a run does not start before the
informer has seen the exported Secret as it is. The next run comes at the
earliest after a second, by default after five minutes (`main.go:72`), and an
informer that lags behind every one of them for ever is no behaviour of the
system. Under plain `FairSpec` the generated password and the Secret may chase
each other that way; `role_password` and `doc_template` need it, the other
liveness runs do not.

`Operators` has weak fairness per process and per worker: Kubernetes restarts a
process that is down (`Start`), a free lease is taken (`Acquire`), annotations
are delivered, leases of the dead run out (`Expire`), and a worker goes on with
its run or takes a resource. It has one resource of each kind, so that a worker
need not be fair between resources (the work queue is first in, first out).

The liveness properties of the reconcilers are of the form `<>[](...)`: faults
and edits are bounded, so every behaviour comes to rest, and what is claimed is
the state it rests in. `Achievable`, `Readable` and `DeletionHeld` name the
reasons for which the code waits for somebody else.

## 4. What is proved

TLAPS, for every set of specs, options, extensions, roles and databases and
every bound, from the named assumptions on constants (`KeepAssumption`,
`SpecsNotEmpty`, `EditsAssumption` of `Resource`; `SpecsAssumption`,
`NamesAssumption`, `DatabasesAssumption`, `BoundsAssumption`,
`RolesAssumption`, `OptionsAssumption`, `TextAssumption`, `SchemasAssumption`
of the reconcilers; `NamesAssumption`, `ResourcesAssumption`,
`LeasesAssumption`, `BoundsAssumption` of `Operators`). They say what the
values are made of and that default options are options, and that processes
which share a lease elect; TLC evaluates them in every run. Where a theorem
needs more it says so in its ASSUME.

The argument has eight parts.

1. **The frame** (`HeldProofs`). None of `NoOrphan`, `KeptSurvives`,
   `NoLiveDrop` is inductive: whether a drop is right depends on what the run's
   copy says, and why that copy may be trusted depends on the finalizer.
   `CopiesInv` says it in six parts, about the copies of the resource alone.
   Copies of one version are the same, and a run knows none newer than the
   informer (`VersionsAgree`); while the finalizer is on, all copies are of one
   incarnation (`SameIncarnation`); a deletion once seen is not taken back
   (`DeletionSticks`); a live copy with the finalizer means that the finalizer
   is still there (`FinalizerHolds`); each stage of a run agrees with its copy
   (`RunStage`); copies that outlive a kept object say that it was to be kept
   (`KeepRemembered`). `HoldInv` adds what relates them to the object: a run
   lets the resource go only when the object is gone or is to be kept
   (`ReleasedRightly`), and no object is left behind (`NoOrphan`).
   `CopiesInvStep` and `HeldInvariance` prove them, one case per action, one
   step per part. From them follow `ObjectsAreHeld`, `KeptObjectsSurvive`,
   `LiveObjectsSurvive` and the refinement `HeldImplements`.
2. **The reconcilers implement the frame** (`RoleImplementsHeld`,
   `DatabaseImplementsHeld`, `SchemaImplementsHeld`). Given their type
   correctness, every step is a step of the frame seen through `Stage`, or
   changes nothing there; the statements about passwords, options, extensions
   or privileges are stutters. For the schema this needs `Roles \subseteq
   Members`, that the operator is a member of every role or superuser:
   otherwise a schema may be out of sight, and the frame, whose query tells the
   truth, is not what the code does (`schema_unseen`; see part 4).
3. **So they inherit the theorems.** The modules of properties instantiate
   `HeldProofs`, so `RolesAreHeld`, `WantedRolesSurvive`,
   `WantedDatabasesSurvive`, `RoleIsManaged`, `DatabaseIsManaged` and
   `SchemaIsManaged` are the frame's theorems carried
   over. `SessionsAreSafe` adds to them that only `DropDatabaseConnections`
   throws clients out, which runs in the stage "leaving".
4. **Schemas out of sight** (`SchemaProofs`). Without `Roles \subseteq Members`
   the reconciler is the frame with one more step, `UnseenRelease`: a run lets
   the resource go though the schema is there. That step leaves the copies of
   the resource alone, which is why `CopiesInv` is kept apart: `CopiesAgree`
   carries it over with no assumption. It is enough for `KeptSchemasSurvive`.
   `OnlyUnseenIsLeft` and `LiveSchemasSurvive` rest on `LeftInv`: a run about
   to let the resource go found the schema gone, hidden or to be kept, and it
   still is. They assume `HandedAway`, that administrators who alter the schema
   hide it: one who brings back a schema that was left behind makes it one that
   is seen, and its deletion may then hit a resource that is live again.
5. **What a run knows.** `CacheIsCoherent` is inductive as it stands, given
   `TypeOK`, when no reply is lost and nobody else alters the role;
   `doc_password` shows what happens otherwise. `StatusIsTruthful`, of the role
   and of the database, needs `RunKnows`: for each place in a run, what has
   been read and is still so and what has been done and still is; for the
   database, for instance, that while one role's privileges are compared those
   of the roles before it are as asked, and that the old owner's have been
   moved already. A step of the operator carries the knowledge on; the
   theorem's assumptions exclude the administrators who would take it away.
   That the copy of the resource and the version in the API server are one when
   the status is accepted is `HoldInv` again. `CredentialsAlwaysWork` needs
   `SecretKnown`: a run's password is the exported Secret's, read from the
   informer's copy or, where that lags behind the operator's own write, from
   the cache; until there is a Secret it is the cache's, and `RoleKnown` says
   that this is the role's. So it is about specs that export the password and
   take it from nowhere else.
6. **What a statement may do** (`StatementsGoTowardsSpec`, of all three). That
   no statement takes the object away from the run's spec needs no assumption
   about administrators, faults or lists that are cut short. A statement is
   chosen by comparing the spec with what was read, perhaps long ago; the
   invariants `EdgesWanted` and `DiffsWanted` say what is true of the
   differences however old they are: what is to be added is in the spec, what
   is to be removed is not. Options, which ALTER ROLE sends all at once, need
   no invariant: the statement is the difference from what was read.
7. **One operator** (`OneAtATime`). `OneOperator` is not inductive: that only
   one of two replicas works is because only leaders work, on resources they
   read as theirs (`LeadersWork`), and a leader holds the lease of its name
   (`LeadersHold`), which only one can. The rest is about names: two named
   processes that read one annotation have one name, one name is one lease, and
   processes that share a lease elect (`LeasesAssumption`, which the Helm chart
   sees to).
8. **Few pools** (`FewPools`). That a process opens at most as many pools for a
   database as it has controllers, lost insertions aside, follows from
   `PoolsCounted`: while the database has no pool in the map, each that was
   opened is in the hands of a worker about to insert it, or lost; once it has
   one, only workers that had looked before will still open theirs. The proof
   counts workers with the theorems about finite sets.

TLC checks the same formulas on the small instances: `HoldInv`, the
refinements, `SessionsSafe`, `CacheCoherent`, both `StatusTruthful`, the three
`OnlyTowardsSpec`, `CredentialsWork`, `OnlyUnseenLeft`, `KeptSurvives`,
`LiveSurvives`, `OneOperator` and `PoolsBounded` are properties of the runs
above.

Only model-checked: liveness (`Converges`, `DeletionCompletes`,
`FindsItsOperator`), because TLAPS has no ENABLED, and the disagreements. Every
safety property of a passing run is a theorem.

## 5. Not modelled

- Two resources with one `spec.name`: nothing prevents them, and the code
  promises nothing about them. An administrator who creates the object while a
  run is about to (it is there before the resource, or it is the operator's).
- What becomes of the object when a resource moves to an instance that is
  connected to another server: it stays where it is. `Operators` says who
  reconciles, the reconcilers have one server (`mine` takes the resource away).
- A statement that is still under way in PostgreSQL when a new process starts;
  a leader stalled past its lease; a restarted informer that lists from a stale
  cache.
- The reconcilers composed with one another. What one does to the others is in
  their environments: roles and databases come and go (`AdminChangeRoles`,
  `DropDatabase`), a schema's reconciler holds sessions of its database
  (`OpenSession`), privileges that the others grant keep a role from being
  dropped (`ChangePrivileges` of the role; `AdminChangeRoles` of the others).
- Passwords that an administrator removes; wrong privileges of the operator's
  own role other than options; superusers and nested membership in privilege
  checks.
- Secrets that cannot be created because the namespace is going away, labels
  and keys other than PGPASSWORD one by one.
- Metrics, health checks, flags, Helm, generated deep copies.

## 6. Plan

Done: the frame; the three reconcilers; the operator's processes with their
leases and pools; the theorems of section 4.

Left, in this order:

1. Composition of the role and the database reconciler: a role that owns a
   database, both resources deleted, `REASSIGN OWNED` database by database.
2. Two resources with one name, as the environment of one another.
3. `Operators` with more databases than one, for `ReassignOwned`'s walk through
   all of them.
