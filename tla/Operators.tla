----------------------------- MODULE Operators -----------------------------
(***************************************************************************)
(* The operator's processes (cmd/main.go): which of them reconciles a      *)
(* resource (internal/utils/utils.go), and the pools that the controllers  *)
(* of one process share (internal/postgresql/pool.go).                     *)
(*                                                                         *)
(* A controller has one worker.  What its run does to PostgreSQL is in the *)
(* modules of the reconcilers; here a run makes sure of the pool of one    *)
(* database after another and uses it.                                     *)
(*                                                                         *)
(* Abstractions.                                                           *)
(*  - GetLeaderElectionID is one to one: names that agree in 14 characters *)
(*    and a hash of 32 bits are the same.                                  *)
(*  - A leader that cannot renew its lease exits before the lease runs out *)
(*    (controller-runtime: RenewDeadline of 10 s, LeaseDuration of 15 s).  *)
(*  - pgxpool.NewWithConfig does not connect, and does not fail.           *)
(***************************************************************************)
EXTENDS Naturals, FiniteSets

CONSTANTS
    Processes,
    Names,       \* instance names
    Unnamed,     \* the empty name; also: no annotation on a resource
    DefaultName, \* "default", which the lease of unnamed operators is called
    Name,        \* of every process: its flag or OPERATOR_INSTANCE_NAME
    Electing,    \* the processes started with --leader-elect
    Nobody,
    Controllers,
    Resources,
    Kind,        \* the controller of every resource
    Databases,
    Default,     \* the database that DATABASE_URL connects to
    FirstLinks,  \* how the resources may be annotated at first
    Needs,       \* the databases that a run for a resource connects to
    NoDatabase,
    MaxEdits,    \* bound on what users do
    MaxFaults    \* bound on deaths, failed calls and lost insertions

InstanceNames == Names \union {Unnamed}
Leases == Names \union {DefaultName}

(* GetLeaderElectionID.  Mutant: the same for all.                         *)
OneLease(name) == DefaultName

LeaseID(name) == IF name = Unnamed THEN DefaultName ELSE name

ASSUME NamesAssumption ==
    /\ Unnamed \notin Names
    /\ Name \in [Processes -> InstanceNames]
    /\ Electing \subseteq Processes
    /\ Nobody \notin Processes
ASSUME ResourcesAssumption ==
    /\ Kind \in [Resources -> Controllers]
    /\ FirstLinks \subseteq [Resources -> InstanceNames]
    /\ Needs \in [Resources -> SUBSET Databases]
    /\ Default \in Databases
    /\ NoDatabase \notin Databases
ASSUME BoundsAssumption == MaxEdits \in Nat /\ MaxFaults \in Nat
(* Processes that would use one lease use it: the Helm chart passes        *)
(* --leader-elect to all of its replicas.                                  *)
ASSUME LeasesAssumption ==
    \A p, q \in Processes :
      p # q /\ LeaseID(Name[p]) = LeaseID(Name[q]) => {p, q} \subseteq Electing

VARIABLES
    \* Kubernetes
    link,   \* the instance annotation of every resource
    lease,  \* who holds the lease
    \* the processes
    up,
    view,   \* the informer's copy of the annotations
    pools,  \* the keys of PGPools.Databases
    opened, \* how many pools were opened for a database
    job,    \* what every controller's worker is at
    edits, faults

procVars == <<up, view, pools, opened, job>>
vars     == <<link, lease, procVars, edits, faults>>

Jobs ==
    [at   : {"idle", "check", "open", "insert", "use"},
     what : Resources \union {Nobody},
     seen : InstanceNames,            \* the annotation that it has read
     todo : SUBSET Databases,         \* databases still to connect to
     db   : Databases \union {NoDatabase}]

NoJob == [at |-> "idle", what |-> Nobody, seen |-> Unnamed, todo |-> {},
          db |-> NoDatabase]

TypeOK ==
    /\ link \in [Resources -> InstanceNames]
    /\ lease \in [Leases -> Processes \union {Nobody}]
    /\ up \in [Processes -> {"down", "waiting", "leading"}]
    /\ view \in [Processes -> [Resources -> InstanceNames]]
    /\ pools \in [Processes -> SUBSET Databases]
    /\ opened \in [Processes -> [Databases -> Nat]]
    /\ job \in [Processes -> [Controllers -> Jobs]]
    /\ \A p \in Processes : \A c \in Controllers :
         job[p][c].at \in {"open", "insert", "use"} => job[p][c].db \in job[p][c].todo
    /\ edits \in Nat
    /\ faults \in Nat

NoJobs == [c \in Controllers |-> NoJob]
NotOpened == [d \in Databases |-> 0]

Init ==
    /\ link \in FirstLinks
    /\ lease = [n \in Leases |-> Nobody]
    /\ up = [p \in Processes |-> "down"]
    /\ view = [p \in Processes |-> [r \in Resources |-> Unnamed]]
    /\ pools = [p \in Processes |-> {}]
    /\ opened = [p \in Processes |-> NotOpened]
    /\ job = [p \in Processes |-> NoJobs]
    /\ edits = 0
    /\ faults = 0

Fault == faults < MaxFaults /\ faults' = faults + 1

-----------------------------------------------------------------------------
(* Users link a resource to another operator.                              *)
Link(r) ==
    /\ edits < MaxEdits /\ edits' = edits + 1
    /\ \E n \in InstanceNames \ {link[r]} : link' = [link EXCEPT ![r] = n]
    /\ UNCHANGED <<lease, procVars, faults>>

Deliver(p, r) ==
    /\ up[p] # "down"
    /\ view[p][r] # link[r]
    /\ view' = [view EXCEPT ![p][r] = link[r]]
    /\ UNCHANGED <<link, lease, up, pools, opened, job, edits, faults>>

-----------------------------------------------------------------------------
(* Processes.                                                              *)

(* main: the map has the default pool under its database's name, and the   *)
(* manager starts.                                                         *)
Start(p) ==
    /\ up[p] = "down"
    /\ up' = [up EXCEPT ![p] = IF p \in Electing THEN "waiting" ELSE "leading"]
    /\ view' = [view EXCEPT ![p] = link]
    /\ pools' = [pools EXCEPT ![p] = {Default}]
    /\ UNCHANGED <<link, lease, opened, job, edits, faults>>

Acquire(p) ==
    /\ up[p] = "waiting"
    /\ lease[LeaseID(Name[p])] = Nobody
    /\ lease' = [lease EXCEPT ![LeaseID(Name[p])] = p]
    /\ up' = [up EXCEPT ![p] = "leading"]
    /\ UNCHANGED <<link, view, pools, opened, job, edits, faults>>

(* A process that restarts does so under another identity.                 *)
Expire(n) ==
    /\ lease[n] # Nobody
    /\ up[lease[n]] # "leading"
    /\ lease' = [lease EXCEPT ![n] = Nobody]
    /\ UNCHANGED <<link, procVars, edits, faults>>

(* A crash, a lease that is lost (mgr.Start fails, os.Exit(1)), or a       *)
(* rolling update; whatever its workers were at.                           *)
Exit(p) ==
    /\ Fault
    /\ up' = [up EXCEPT ![p] = "down"]
    /\ view' = [view EXCEPT ![p] = [r \in Resources |-> Unnamed]]
    /\ pools' = [pools EXCEPT ![p] = {}]
    /\ opened' = [opened EXCEPT ![p] = NotOpened]
    /\ job' = [job EXCEPT ![p] = NoJobs]
    /\ UNCHANGED <<link, lease, edits>>

Die(p) == up[p] # "down" /\ Exit(p)

-----------------------------------------------------------------------------
(* Reconcile.                                                              *)

(* IsManagedByOperatorInstance.  Mutant: resources without an annotation   *)
(* are everybody's.                                                        *)
UnlinkedToo(annotation, name) ==
    annotation \in {name, Unnamed} \/ name = Unnamed

IsManaged(annotation, name) == annotation = name \/ name = Unnamed

Work(p, c, next) ==
    /\ job' = [job EXCEPT ![p][c] = next]
    /\ UNCHANGED <<link, lease, up, view, edits>>

Begin(p, r) ==
    LET c == Kind[r]
    IN  /\ up[p] = "leading"
        /\ job[p][c].at = "idle"
        /\ IsManaged(view[p][r], Name[p])
        /\ Work(p, c, [at |-> "check", what |-> r, seen |-> view[p][r],
                       todo |-> Needs[r], db |-> NoDatabase])
        /\ UNCHANGED <<pools, opened, faults>>

(* EnsurePGPoolExists looks the database up in the map.                    *)
(* Mutant: it does not.                                                    *)
NotLookedUp(p, d) == "open"

LookUp(p, d) == IF d \in pools[p] THEN "use" ELSE "open"

CheckPool(p, c) ==
    /\ job[p][c].at = "check"
    /\ \E d \in job[p][c].todo :
         Work(p, c, [job[p][c] EXCEPT !.at = LookUp(p, d), !.db = d])
    /\ UNCHANGED <<pools, opened, faults>>

(* It opens a pool, and starts to assign it to the map ...                 *)
OpenPool(p, c) ==
    /\ job[p][c].at = "open"
    /\ opened' = [opened EXCEPT ![p][job[p][c].db] = @ + 1]
    /\ Work(p, c, [job[p][c] EXCEPT !.at = "insert"])
    /\ UNCHANGED <<pools, faults>>

(* Another worker of the process is assigning to the map.  Neither takes a *)
(* lock.                                                                   *)
Racing(p, c) == \E other \in Controllers \ {c} : job[p][other].at = "insert"

(* ... and is done.  Of two assignments at a time one may be lost.         *)
InsertPool(p, c) ==
    /\ job[p][c].at = "insert"
    /\ \/ pools' = [pools EXCEPT ![p] = @ \union {job[p][c].db}]
          /\ UNCHANGED faults
       \/ Racing(p, c) /\ Fault /\ UNCHANGED pools
    /\ Work(p, c, [job[p][c] EXCEPT !.at = "use"])
    /\ UNCHANGED <<opened>>

(* A statement through the pool that the map has now.  Mutant: it is sent  *)
(* again.                                                                  *)
UsedAgain(p, c) ==
    /\ job[p][c].at = "use"
    /\ job[p][c].db \in pools[p]
    /\ Work(p, c, [job[p][c] EXCEPT !.todo = @ \ {job[p][c].db}])
    /\ UNCHANGED <<pools, opened, faults>>

UsePool(p, c) ==
    /\ job[p][c].at = "use"
    /\ job[p][c].db \in pools[p]
    /\ Work(p, c, [job[p][c] EXCEPT !.at = "check", !.db = NoDatabase,
                                    !.todo = @ \ {job[p][c].db}])
    /\ UNCHANGED <<pools, opened, faults>>

(* There is none: the nil pool panics, controller-runtime recovers, and    *)
(* the run has failed.                                                     *)
UseNil(p, c) ==
    /\ job[p][c].at = "use"
    /\ job[p][c].db \notin pools[p]
    /\ Work(p, c, NoJob)
    /\ UNCHANGED <<pools, opened, faults>>

(* The Go runtime notices an access to a map that is being written, and    *)
(* ends the process (concurrent map read and map write).                   *)
MapRace(p, c) ==
    /\ Racing(p, c)
    /\ \/ job[p][c].at = "check" /\ job[p][c].todo # {}
       \/ job[p][c].at \in {"open", "insert", "use"}
    /\ Exit(p)

Finish(p, c) ==
    /\ job[p][c].at = "check"
    /\ job[p][c].todo = {}
    /\ Work(p, c, NoJob)
    /\ UNCHANGED <<pools, opened, faults>>

Fail(p, c) ==
    /\ job[p][c].at # "idle"
    /\ Fault
    /\ Work(p, c, NoJob)
    /\ UNCHANGED <<pools, opened>>

-----------------------------------------------------------------------------
Reconcile(p, c) ==
    \/ CheckPool(p, c) \/ OpenPool(p, c) \/ InsertPool(p, c)
    \/ UsePool(p, c) \/ UseNil(p, c) \/ Finish(p, c)

Next ==
    \/ \E r \in Resources : Link(r)
    \/ \E n \in Leases : Expire(n)
    \/ \E p \in Processes :
         \/ Start(p) \/ Acquire(p) \/ Die(p)
         \/ \E r \in Resources : Deliver(p, r) \/ Begin(p, r)
         \/ \E c \in Controllers :
              Reconcile(p, c) \/ MapRace(p, c) \/ Fail(p, c)

Spec == Init /\ [][Next]_vars

(* Kubernetes restarts processes, delivers annotations and lets leases run *)
(* out; a worker takes a resource whenever it has none, and goes on with   *)
(* its run.  (Of several resources of one kind each would also have its    *)
(* turn, the work queue being first in, first out; the instances have one  *)
(* of each kind and need no more than this.)                               *)
FairSpec ==
    /\ Spec
    /\ WF_vars(\E n \in Leases : Expire(n))
    /\ \A p \in Processes :
         /\ WF_vars(Start(p) \/ Acquire(p) \/ \E r \in Resources : Deliver(p, r))
         /\ \A c \in Controllers :
              WF_vars(Reconcile(p, c) \/ \E r \in Resources : Kind[r] = c /\ Begin(p, r))

=============================================================================
