--------------------------- MODULE OperatorProofs ---------------------------
(***************************************************************************)
(* Theorems about Operators, for every value of its constants: any number  *)
(* of processes, names, resources and databases.                           *)
(***************************************************************************)
EXTENDS OperatorProperties, FiniteSetTheorems, TLAPS

(* A leader that was elected holds the lease of its name.                  *)
LeadersHold ==
    \A p \in Electing : up[p] = "leading" => lease[LeaseID(Name[p])] = p

(* Only leaders work, and only on resources that they read as theirs.      *)
LeadersWork ==
    \A p \in Processes : \A c \in Controllers :
      job[p][c].at # "idle"
        => up[p] = "leading" /\ IsManaged(job[p][c].seen, Name[p])

IInv == TypeOK /\ LeadersHold /\ LeadersWork

(* A worker that names its database still has to connect to it.            *)
Shaped(j) == j.at \in {"open", "insert", "use"} => j.db \in j.todo

-----------------------------------------------------------------------------
(* The job of a worker that has none.                                      *)
LEMMA NoJobType ==
  /\ NoJob \in Jobs /\ Shaped(NoJob) /\ NoJob.at = "idle"
  /\ NoJobs \in [Controllers -> Jobs]
  BY DEF NoJob, NoJobs, Jobs, InstanceNames, Shaped

(* Every process has a lease.                                              *)
LEMMA LeaseType == \A p \in Processes : LeaseID(Name[p]) \in Leases
  BY NamesAssumption DEF LeaseID, Leases, InstanceNames

(* The type invariant gives every job its type.                            *)
LEMMA JobType ==
  ASSUME TypeOK, NEW p \in Processes, NEW c \in Controllers
  PROVE  job[p][c] \in Jobs /\ Shaped(job[p][c])
  BY DEF TypeOK, Shaped

LEMMA FaultType ==
  ASSUME faults \in Nat, UNCHANGED faults \/ Fault
  PROVE  faults' \in Nat
  BY DEF Fault

LEMMA InitIInv == Init => IInv
  <1> SUFFICES ASSUME Init PROVE IInv
    OBVIOUS
  <1>1. \A p \in Processes : \A c \in Controllers : job[p][c] = NoJob
    BY DEF Init, NoJobs
  <1>2. job \in [Processes -> [Controllers -> Jobs]]
    BY NoJobType DEF Init
  <1>3. Unnamed \in InstanceNames /\ NotOpened \in [Databases -> Nat]
    BY DEF InstanceNames, NotOpened
  <1>4. TypeOK
    BY <1>1, <1>2, <1>3, NoJobType, ResourcesAssumption
    DEF Init, TypeOK, Shaped
  <1>5. LeadersHold
    BY NamesAssumption DEF Init, LeadersHold
  <1>6. LeadersWork
    BY <1>1, NoJobType DEF LeadersWork
  <1> QED
    BY <1>4, <1>5, <1>6 DEF IInv

-----------------------------------------------------------------------------
(* A worker's step.                                                        *)
LEMMA WorkStep ==
  ASSUME IInv, NEW p \in Processes, NEW c \in Controllers,
         NEW next \in Jobs, Work(p, c, next), Shaped(next),
         next.at # "idle" => /\ up[p] = "leading"
                             /\ IsManaged(next.seen, Name[p]),
         pools' \in [Processes -> SUBSET Databases],
         opened' \in [Processes -> [Databases -> Nat]],
         faults' \in Nat
  PROVE  IInv'
  <1> USE DEF IInv
  <1>1. job' \in [Processes -> [Controllers -> Jobs]]
    BY DEF TypeOK, Work
  <1>2. /\ job'[p][c] = next
        /\ \A q \in Processes : \A d \in Controllers :
             q # p \/ d # c => job'[q][d] = job[q][d]
    BY DEF TypeOK, Work
  <1>3. TypeOK'
    BY <1>1, <1>2 DEF TypeOK, Work, Shaped
  <1>4. LeadersHold'
    BY DEF LeadersHold, Work
  <1>5. LeadersWork'
    BY <1>2 DEF LeadersWork, Work
  <1> QED
    BY <1>3, <1>4, <1>5

(* A process that ends takes its workers with it.                          *)
LEMMA ExitStep ==
  ASSUME IInv, NEW p \in Processes, Exit(p)
  PROVE  IInv'
  <1> USE DEF IInv
  <1>1. Unnamed \in InstanceNames /\ NotOpened \in [Databases -> Nat]
    BY DEF InstanceNames, NotOpened
  <1>2. job' \in [Processes -> [Controllers -> Jobs]]
    BY NoJobType DEF TypeOK, Exit
  <1>3. \A q \in Processes : \A c \in Controllers :
          IF q = p THEN job'[q][c] = NoJob ELSE job'[q][c] = job[q][c]
    BY DEF TypeOK, Exit, NoJobs
  <1>4. faults' \in Nat
    BY FaultType DEF Exit, TypeOK
  <1>5. TypeOK'
    BY <1>1, <1>2, <1>3, <1>4, NoJobType DEF TypeOK, Exit, Shaped
  <1>6. LeadersHold'
    BY NamesAssumption DEF TypeOK, LeadersHold, Exit
  <1>7. LeadersWork'
    BY <1>3, NoJobType DEF TypeOK, LeadersWork, Exit
  <1> QED
    BY <1>5, <1>6, <1>7

(* The steps of Kubernetes, and of processes that start.                   *)
LEMMA OutsideStep ==
  ASSUME IInv,
         \/ \E r \in Resources : Link(r)
         \/ \E n \in Leases : Expire(n)
         \/ \E p \in Processes :
              Start(p) \/ Acquire(p) \/ \E r \in Resources : Deliver(p, r)
  PROVE  IInv'
  <1> USE DEF IInv
  <1>1. UNCHANGED <<job, opened, faults>>
    BY DEF Link, Expire, Start, Acquire, Deliver, procVars
  <1>2. CASE \E r \in Resources : Link(r)
    <2> PICK r \in Resources : Link(r)
      BY <1>2
    <2>1. link' \in [Resources -> InstanceNames] /\ edits' \in Nat
      BY DEF TypeOK, Link
    <2> QED
      BY <2>1, <1>1 DEF Link, procVars, TypeOK, LeadersHold, LeadersWork
  <1>3. CASE \E n \in Leases : Expire(n)
    <2> PICK n \in Leases : Expire(n)
      BY <1>3
    <2>1. TypeOK'
      BY <1>1 DEF Expire, procVars, TypeOK
    <2>2. LeadersHold'
      BY LeaseType, NamesAssumption DEF Expire, procVars, TypeOK, LeadersHold
    <2>3. LeadersWork'
      BY DEF Expire, procVars, LeadersWork
    <2> QED
      BY <2>1, <2>2, <2>3
  <1>4. CASE \E p \in Processes : Start(p)
    <2> PICK p \in Processes : Start(p)
      BY <1>4
    <2>1. TypeOK'
      BY <1>1, ResourcesAssumption DEF Start, TypeOK
    <2>2. LeadersHold'
      BY NamesAssumption DEF Start, TypeOK, LeadersHold
    <2>3. LeadersWork'
      BY <1>1 DEF Start, TypeOK, LeadersWork
    <2> QED
      BY <2>1, <2>2, <2>3
  <1>5. CASE \E p \in Processes : Acquire(p)
    <2> PICK p \in Processes : Acquire(p)
      BY <1>5
    <2>1. TypeOK'
      BY <1>1 DEF Acquire, TypeOK
    <2>2. LeadersHold'
      BY LeaseType, NamesAssumption DEF Acquire, TypeOK, LeadersHold
    <2>3. LeadersWork'
      BY <1>1 DEF Acquire, TypeOK, LeadersWork
    <2> QED
      BY <2>1, <2>2, <2>3
  <1>6. CASE \E p \in Processes : \E r \in Resources : Deliver(p, r)
    <2> PICK p \in Processes, r \in Resources : Deliver(p, r)
      BY <1>6
    <2>1. view' \in [Processes -> [Resources -> InstanceNames]]
      BY DEF Deliver, TypeOK
    <2> QED
      BY <1>1, <2>1 DEF Deliver, TypeOK, LeadersHold, LeadersWork
  <1> QED
    BY <1>2, <1>3, <1>4, <1>5, <1>6

(* The steps of a run.                                                     *)
LEMMA RunStep ==
  ASSUME IInv, NEW p \in Processes, NEW c \in Controllers,
         Reconcile(p, c) \/ MapRace(p, c) \/ Fail(p, c)
  PROVE  IInv'
  <1> DEFINE j == job[p][c]
  <1>1. j \in Jobs /\ Shaped(j)
    BY JobType DEF IInv
  <1>2. j.at # "idle" => up[p] = "leading" /\ IsManaged(j.seen, Name[p])
    BY DEF IInv, LeadersWork
  <1>3. /\ pools \in [Processes -> SUBSET Databases]
        /\ opened \in [Processes -> [Databases -> Nat]]
        /\ faults \in Nat
    BY DEF IInv, TypeOK
  <1>4. CASE CheckPool(p, c)
    <2>1. PICK d \in j.todo :
            Work(p, c, [j EXCEPT !.at = LookUp(p, d), !.db = d])
      BY <1>4 DEF CheckPool
    <2>2. /\ [j EXCEPT !.at = LookUp(p, d), !.db = d] \in Jobs
          /\ Shaped([j EXCEPT !.at = LookUp(p, d), !.db = d])
          /\ [j EXCEPT !.at = LookUp(p, d), !.db = d].seen = j.seen
      BY <1>1 DEF LookUp, Jobs, Shaped
    <2>3. j.at # "idle" /\ UNCHANGED <<pools, opened, faults>>
      BY <1>4 DEF CheckPool
    <2> QED
      BY <1>2, <1>3, <2>1, <2>2, <2>3, WorkStep
  <1>5. CASE OpenPool(p, c)
    <2>1. /\ [j EXCEPT !.at = "insert"] \in Jobs
          /\ Shaped([j EXCEPT !.at = "insert"])
          /\ [j EXCEPT !.at = "insert"].seen = j.seen
      BY <1>1, <1>5 DEF OpenPool, Jobs, Shaped
    <2>2. Work(p, c, [j EXCEPT !.at = "insert"]) /\ j.at # "idle"
      BY <1>5 DEF OpenPool
    <2>3. j.db \in Databases
      BY <1>1, <1>5 DEF OpenPool, Jobs, Shaped
    <2>4. opened' \in [Processes -> [Databases -> Nat]]
      BY <1>3, <1>5, <2>3 DEF OpenPool
    <2>5. UNCHANGED <<pools, faults>>
      BY <1>5 DEF OpenPool
    <2> QED
      BY <1>2, <1>3, <2>1, <2>2, <2>4, <2>5, WorkStep
  <1>6. CASE InsertPool(p, c)
    <2>1. /\ [j EXCEPT !.at = "use"] \in Jobs
          /\ Shaped([j EXCEPT !.at = "use"])
          /\ [j EXCEPT !.at = "use"].seen = j.seen
      BY <1>1, <1>6 DEF InsertPool, Jobs, Shaped
    <2>2. Work(p, c, [j EXCEPT !.at = "use"]) /\ j.at # "idle"
      BY <1>6 DEF InsertPool
    <2>3. j.db \in Databases
      BY <1>1, <1>6 DEF InsertPool, Jobs, Shaped
    <2>4. pools' \in [Processes -> SUBSET Databases]
      BY <1>3, <1>6, <2>3 DEF InsertPool
    <2>5. faults' \in Nat /\ UNCHANGED opened
      BY <1>3, <1>6, FaultType DEF InsertPool
    <2> QED
      BY <1>2, <1>3, <2>1, <2>2, <2>4, <2>5, WorkStep
  <1>7. CASE UsePool(p, c)
    <2> DEFINE next == [j EXCEPT !.at = "check", !.db = NoDatabase,
                                 !.todo = @ \ {j.db}]
    <2>1. next \in Jobs /\ Shaped(next) /\ next.seen = j.seen
      BY <1>1 DEF Jobs, Shaped
    <2>2. /\ Work(p, c, next) /\ j.at # "idle"
          /\ UNCHANGED <<pools, opened, faults>>
      BY <1>7 DEF UsePool
    <2> QED
      BY <1>2, <1>3, <2>1, <2>2, WorkStep
  <1>8. CASE UseNil(p, c) \/ Finish(p, c) \/ Fail(p, c)
    <2>1. Work(p, c, NoJob) /\ UNCHANGED <<pools, opened>>
      BY <1>8 DEF UseNil, Finish, Fail
    <2>2. faults' \in Nat
      BY <1>3, <1>8, FaultType DEF UseNil, Finish, Fail
    <2> QED
      BY <1>3, <2>1, <2>2, NoJobType, WorkStep
  <1>9. CASE MapRace(p, c)
    BY <1>9, ExitStep DEF MapRace
  <1> QED
    BY <1>4, <1>5, <1>6, <1>7, <1>8, <1>9 DEF Reconcile

LEMMA BeginStep ==
  ASSUME IInv, NEW p \in Processes, NEW r \in Resources, Begin(p, r)
  PROVE  IInv'
  <1> DEFINE c    == Kind[r]
             next == [at |-> "check", what |-> r, seen |-> view[p][r],
                      todo |-> Needs[r], db |-> NoDatabase]
  <1>1. c \in Controllers
    BY ResourcesAssumption
  <1>2. next \in Jobs /\ Shaped(next)
    BY ResourcesAssumption DEF IInv, TypeOK, Jobs, Shaped
  <1>3. /\ Work(p, c, next) /\ UNCHANGED <<pools, opened, faults>>
        /\ up[p] = "leading" /\ IsManaged(next.seen, Name[p])
    BY DEF Begin
  <1>4. /\ pools \in [Processes -> SUBSET Databases]
        /\ opened \in [Processes -> [Databases -> Nat]]
        /\ faults \in Nat
    BY DEF IInv, TypeOK
  <1> QED
    BY <1>1, <1>2, <1>3, <1>4, WorkStep

LEMMA NextIInv == IInv /\ [Next]_vars => IInv'
  <1> SUFFICES ASSUME IInv, [Next]_vars PROVE IInv'
    OBVIOUS
  <1>1. CASE UNCHANGED vars
    BY <1>1 DEF vars, procVars, IInv, TypeOK, LeadersHold, LeadersWork
  <1>2. CASE \E p \in Processes : Die(p)
    BY <1>2, ExitStep DEF Die
  <1>3. CASE \E p \in Processes : \E r \in Resources : Begin(p, r)
    BY <1>3, BeginStep
  <1>4. CASE \E p \in Processes : \E c \in Controllers :
               Reconcile(p, c) \/ MapRace(p, c) \/ Fail(p, c)
    BY <1>4, RunStep
  <1> QED
    BY <1>1, <1>2, <1>3, <1>4, OutsideStep DEF Next

LEMMA IInvHolds == Spec => []IInv
  BY InitIInv, NextIInv, PTL DEF Spec

-----------------------------------------------------------------------------
(* Every variable of the operator's processes keeps its type.              *)
THEOREM OperatorsTypeCorrect == Spec => []TypeOK
  <1>1. IInv => TypeOK
    BY DEF IInv
  <1> QED
    BY <1>1, IInvHolds, PTL

(* Of any number of replicas at most one works on a resource, and so does  *)
(* at most one of any number of named operators, as long as its annotation *)
(* reads the same to them.                                                 *)
THEOREM OneAtATime == Spec => []OneOperator
  <1>1. IInv => OneOperator
    <2> SUFFICES ASSUME IInv,
                        NEW p \in Processes, NEW q \in Processes,
                        NEW r \in Resources,
                        p # q, Busy(p, r), Busy(q, r),
                        job[p][Kind[r]].seen = job[q][Kind[r]].seen,
                        (Name[p] = Unnamed) = (Name[q] = Unnamed)
                 PROVE  FALSE
      BY DEF OneOperator
    <2>1. /\ up[p] = "leading" /\ IsManaged(job[p][Kind[r]].seen, Name[p])
          /\ up[q] = "leading" /\ IsManaged(job[q][Kind[r]].seen, Name[q])
      BY ResourcesAssumption DEF IInv, LeadersWork, Busy
    <2>2. Name[p] = Name[q]
      BY <2>1 DEF IsManaged
    <2>3. p \in Electing /\ q \in Electing
      BY <2>2, LeasesAssumption
    <2> QED
      BY <2>1, <2>2, <2>3 DEF IInv, LeadersHold
  <1> QED
    BY <1>1, IInvHolds, PTL

-----------------------------------------------------------------------------
(* How many pools are opened.                                              *)

In(j, d, place) == j.at = place /\ j.db = d

(* The workers of a process that are about to open, or to insert, a pool   *)
(* for the database.                                                       *)
At(p, d, place) == {c \in Controllers : In(job[p][c], d, place)}

(* As long as a database has no pool in the map, each that was opened is   *)
(* about to be inserted or got lost; from then on no worker starts to open *)
(* one.                                                                    *)
PoolsCounted ==
    \A p \in Processes : \A d \in Databases :
      IF d \in pools[p]
        THEN opened[p][d] + Cardinality(At(p, d, "open"))
               <= Cardinality(Controllers) + faults
        ELSE opened[p][d] <= Cardinality(At(p, d, "insert")) + faults

(* main puts the default database's pool there.                            *)
DefaultThere ==
    \A p \in Processes :
      /\ IF up[p] = "down" THEN pools[p] = {} ELSE Default \in pools[p]
      /\ opened[p][Default] = 0
      /\ \A c \in Controllers :
           job[p][c].at \in {"open", "insert"} => job[p][c].db # Default

PInv == IInv /\ PoolsCounted /\ DefaultThere

(* Workers can be counted.                                                 *)
LEMMA AtFinite ==
  ASSUME IsFiniteSet(Controllers), NEW p, NEW d, NEW place
  PROVE  /\ IsFiniteSet(At(p, d, place))
         /\ Cardinality(At(p, d, place)) \in Nat
         /\ Cardinality(At(p, d, place)) <= Cardinality(Controllers)
  <1>1. At(p, d, place) \in SUBSET Controllers
    BY DEF At
  <1> QED
    BY <1>1, FS_Subset, FS_CardinalityType

(* A worker is about to do one thing at a time.                            *)
LEMMA OpenOrInsert ==
  ASSUME IsFiniteSet(Controllers), NEW p, NEW d
  PROVE  Cardinality(At(p, d, "open")) + Cardinality(At(p, d, "insert"))
           <= Cardinality(Controllers)
  <1> DEFINE O == At(p, d, "open")
             I == At(p, d, "insert")
  <1>1. /\ IsFiniteSet(O) /\ IsFiniteSet(I)
        /\ Cardinality(O) \in Nat /\ Cardinality(I) \in Nat
    BY AtFinite
  <1>2. O \cap I = {} /\ O \cup I \in SUBSET Controllers
    BY DEF At, In
  <1>3. Cardinality(O \cup I) = Cardinality(O) + Cardinality(I)
    <2> HIDE DEF O, I
    <2>1. /\ Cardinality(O \cup I)
               = Cardinality(O) + Cardinality(I) - Cardinality(O \cap I)
          /\ Cardinality(O \cap I) = 0
      BY <1>1, <1>2, FS_Union, FS_EmptySet
    <2> QED
      BY <1>1, <2>1
  <1>4. Cardinality(O \cup I) <= Cardinality(Controllers)
    BY <1>2, FS_Subset
  <1> QED
    BY <1>3, <1>4

(* What one worker's step does to the counts.                              *)
LEMMA CountStep ==
  ASSUME TypeOK, IsFiniteSet(Controllers),
         NEW p \in Processes, NEW c \in Controllers,
         NEW next, Work(p, c, next),
         NEW q \in Processes, NEW d, NEW place
  PROVE  Cardinality(At(q, d, place)') =
           IF q # p THEN Cardinality(At(q, d, place))
           ELSE Cardinality(At(p, d, place))
                  - (IF In(job[p][c], d, place) THEN 1 ELSE 0)
                  + (IF In(next, d, place) THEN 1 ELSE 0)
  <1>1. /\ job'[p][c] = next
        /\ \A e \in Controllers : e # c => job'[p][e] = job[p][e]
        /\ q # p => job'[q] = job[q]
    BY DEF TypeOK, Work
  <1>2. CASE q # p
    BY <1>1, <1>2 DEF At
  <1>3. CASE q = p
    <2> DEFINE A == At(p, d, place)
    <2>1. At(p, d, place)' = IF In(next, d, place) THEN (A \ {c}) \cup {c}
                                                   ELSE A \ {c}
      BY <1>1 DEF At
    <2>2. c \in A <=> In(job[p][c], d, place)
      BY DEF At
    <2>3. IsFiniteSet(A) /\ Cardinality(A) \in Nat
      BY AtFinite
    <2> HIDE DEF A
    <2>4. /\ IsFiniteSet(A \ {c})
          /\ Cardinality(A \ {c}) = IF c \in A THEN Cardinality(A) - 1
                                               ELSE Cardinality(A)
      BY <2>3, FS_RemoveElement
    <2>5. Cardinality((A \ {c}) \cup {c}) = Cardinality(A \ {c}) + 1
      BY <2>4, FS_AddElement
    <2>6. Cardinality(At(p, d, place)') =
            Cardinality(A) - (IF In(job[p][c], d, place) THEN 1 ELSE 0)
                           + (IF In(next, d, place) THEN 1 ELSE 0)
      BY <2>1, <2>2, <2>3, <2>4, <2>5
    <2> QED
      BY <1>3, <2>6 DEF A
  <1> QED
    BY <1>2, <1>3

(* What PoolsCounted says of one database of one process.                  *)
Counted(p, d) ==
    IF d \in pools[p]
      THEN opened[p][d] + Cardinality(At(p, d, "open"))
             <= Cardinality(Controllers) + faults
      ELSE opened[p][d] <= Cardinality(At(p, d, "insert")) + faults

(* The other processes' counts stay as they are.                           *)
LEMMA OthersCounted ==
  ASSUME PInv, IsFiniteSet(Controllers), NEW p \in Processes,
         faults' \in Nat, faults' >= faults,
         NEW q \in Processes,
         UNCHANGED <<pools[q], opened[q], job[q]>>,
         NEW d \in Databases
  PROVE  Counted(q, d)'
  <1>1. \A place : At(q, d, place)' = At(q, d, place)
    BY DEF At
  <1>2. Counted(q, d)
    BY DEF PInv, PoolsCounted, Counted
  <1>3. /\ faults \in Nat /\ opened[q][d] \in Nat
        /\ Cardinality(Controllers) \in Nat
        /\ Cardinality(At(q, d, "open")) \in Nat
        /\ Cardinality(At(q, d, "insert")) \in Nat
    BY AtFinite, FS_CardinalityType DEF PInv, IInv, TypeOK
  <1> QED
    BY <1>1, <1>2, <1>3 DEF Counted

(* A worker's step keeps the counts if it does so for its own process.     *)
LEMMA WorkCounts ==
  ASSUME PInv, IsFiniteSet(Controllers),
         NEW p \in Processes, NEW c \in Controllers, NEW next,
         Work(p, c, next), up[p] = "leading",
         faults' \in Nat, faults' >= faults,
         \A q \in Processes : q # p => UNCHANGED <<pools[q], opened[q]>>,
         pools[p] \subseteq pools'[p],
         opened'[p][Default] = 0,
         next.at \in {"open", "insert"} => next.db # Default,
         \A d \in Databases : Counted(p, d)'
  PROVE  PoolsCounted' /\ DefaultThere'
  <1>1. /\ job'[p][c] = next
        /\ \A e \in Controllers : e # c => job'[p][e] = job[p][e]
        /\ \A q \in Processes : q # p => job'[q] = job[q]
    BY DEF PInv, IInv, TypeOK, Work
  <1>2. \A q \in Processes : \A d \in Databases : Counted(q, d)'
    BY <1>1, OthersCounted
  <1>3. DefaultThere'
    BY <1>1 DEF PInv, DefaultThere, Work
  <1> QED
    BY <1>2, <1>3 DEF PoolsCounted, Counted

(* A process that ends forgets its pools.                                  *)
LEMMA ExitCounts ==
  ASSUME PInv, IsFiniteSet(Controllers), NEW p \in Processes, Exit(p)
  PROVE  PoolsCounted' /\ DefaultThere'
  <1>1. faults' \in Nat /\ faults' >= faults
    BY DEF Exit, Fault, PInv, IInv, TypeOK
  <1>2. \A q \in Processes :
          /\ q # p => UNCHANGED <<pools[q], opened[q], job[q], up[q]>>
          /\ q = p => /\ pools'[q] = {} /\ opened'[q] = NotOpened
                      /\ job'[q] = NoJobs /\ up'[q] = "down"
    BY DEF Exit, PInv, IInv, TypeOK
  <1>3. ASSUME NEW d \in Databases PROVE Counted(p, d)'
    <2>1. opened'[p][d] = 0 /\ d \notin pools'[p]
      BY <1>2 DEF NotOpened
    <2>2. At(p, d, "insert")' = {}
      BY <1>2 DEF At, In, NoJobs, NoJob
    <2>3. Cardinality(At(p, d, "insert"))' = 0
      BY <2>2, FS_EmptySet
    <2> QED
      BY <1>1, <2>1, <2>3 DEF Counted
  <1>4. \A q \in Processes : \A d \in Databases : Counted(q, d)'
    BY <1>1, <1>2, <1>3, OthersCounted
  <1>5. DefaultThere'
    BY <1>2, ResourcesAssumption
    DEF PInv, DefaultThere, NoJobs, NoJob, NotOpened
  <1> QED
    BY <1>4, <1>5 DEF PoolsCounted, Counted

(* Kubernetes, and processes that start.                                   *)
LEMMA OutsideCounts ==
  ASSUME PInv, IsFiniteSet(Controllers),
         \/ \E r \in Resources : Link(r)
         \/ \E n \in Leases : Expire(n)
         \/ \E p \in Processes :
              Start(p) \/ Acquire(p) \/ \E r \in Resources : Deliver(p, r)
         \/ UNCHANGED vars
  PROVE  PoolsCounted' /\ DefaultThere'
  <1>1. UNCHANGED <<job, opened, faults>>
    BY DEF Link, Expire, Start, Acquire, Deliver, procVars, vars
  <1>2. \A p, d, place : At(p, d, place)' = At(p, d, place)
    BY <1>1 DEF At
  <1>3. CASE /\ UNCHANGED pools
             /\ \A p \in Processes : up'[p] = "down" <=> up[p] = "down"
    BY <1>1, <1>2, <1>3 DEF PInv, PoolsCounted, DefaultThere
  <1>4. CASE \E p \in Processes : Start(p)
    <2> PICK p \in Processes : Start(p)
      BY <1>4
    <2>1. /\ up[p] = "down" /\ up'[p] # "down"
          /\ pools[p] = {} /\ pools'[p] = {Default}
          /\ \A q \in Processes : q # p => UNCHANGED <<pools[q], up[q]>>
      BY DEF Start, PInv, IInv, TypeOK, DefaultThere
    <2>2. opened[p][Default] = 0 /\ Cardinality(At(p, Default, "open")) = 0
      <3>1. At(p, Default, "open") = {}
        BY DEF PInv, DefaultThere, At, In
      <3> QED
        BY <3>1, FS_EmptySet DEF PInv, DefaultThere
    <2>3. faults \in Nat /\ Cardinality(Controllers) \in Nat
      BY FS_CardinalityType DEF PInv, IInv, TypeOK
    <2>4. PoolsCounted'
      BY <1>1, <1>2, <2>1, <2>2, <2>3 DEF PInv, PoolsCounted
    <2>5. DefaultThere'
      BY <1>1, <2>1 DEF PInv, DefaultThere
    <2> QED
      BY <2>4, <2>5
  <1>5. CASE \E p \in Processes : Acquire(p)
    BY <1>3, <1>5 DEF Acquire, PInv, IInv, TypeOK
  <1> QED
    BY <1>3, <1>4, <1>5 DEF Link, Expire, Deliver, procVars, vars

(* The steps of a run.                                                     *)
LEMMA RunCounts ==
  ASSUME PInv, IsFiniteSet(Controllers),
         NEW p \in Processes, NEW c \in Controllers,
         Reconcile(p, c) \/ MapRace(p, c) \/ Fail(p, c)
  PROVE  PoolsCounted' /\ DefaultThere'
  <1> DEFINE j == job[p][c]
  <1>1. j \in Jobs /\ Shaped(j)
    BY JobType DEF PInv, IInv
  <1>2. j.at # "idle" => up[p] = "leading" /\ Default \in pools[p]
    BY DEF PInv, IInv, LeadersWork, DefaultThere
  <1>3. /\ pools \in [Processes -> SUBSET Databases]
        /\ opened \in [Processes -> [Databases -> Nat]]
        /\ faults \in Nat
        /\ TypeOK
    BY DEF PInv, IInv, TypeOK
  <1>4. /\ opened[p][Default] = 0
        /\ j.at \in {"open", "insert"} => j.db # Default
    BY DEF PInv, DefaultThere
  <1>5. /\ \A d \in Databases : Counted(p, d)
        /\ \A d : Cardinality(At(p, d, "open")) \in Nat
        /\ \A d : Cardinality(At(p, d, "insert")) \in Nat
        /\ \A d : Cardinality(At(p, d, "open"))
                    + Cardinality(At(p, d, "insert")) <= Cardinality(Controllers)
        /\ Cardinality(Controllers) \in Nat
    BY AtFinite, OpenOrInsert, FS_CardinalityType
    DEF PInv, PoolsCounted, Counted
  <1>6. ASSUME NEW next, Work(p, c, next), NEW d
        PROVE  /\ Cardinality(At(p, d, "open")') = Cardinality(At(p, d, "open"))
                    - (IF In(j, d, "open") THEN 1 ELSE 0)
                    + (IF In(next, d, "open") THEN 1 ELSE 0)
               /\ Cardinality(At(p, d, "insert")') = Cardinality(At(p, d, "insert"))
                    - (IF In(j, d, "insert") THEN 1 ELSE 0)
                    + (IF In(next, d, "insert") THEN 1 ELSE 0)
    BY <1>3, <1>6, CountStep
  <1>7. CASE CheckPool(p, c)
    <2>1. PICK e \in j.todo :
            Work(p, c, [j EXCEPT !.at = LookUp(p, e), !.db = e])
      BY <1>7 DEF CheckPool
    <2> DEFINE next == [j EXCEPT !.at = LookUp(p, e), !.db = e]
    <2>2. /\ next.at = (IF e \in pools[p] THEN "use" ELSE "open")
          /\ next.db = e /\ j.at = "check"
          /\ UNCHANGED <<pools, opened, faults>>
      BY <1>1, <1>7 DEF CheckPool, LookUp, Jobs
    <2>3. \A d \in Databases : Counted(p, d)'
      <3> TAKE d \in Databases
      <3>1. /\ ~In(j, d, "open") /\ ~In(j, d, "insert")
            /\ ~In(next, d, "insert")
            /\ In(next, d, "open") => d \notin pools[p]
        BY <2>2 DEF In
      <3> HIDE DEF next, j
      <3> QED
        BY <1>3, <1>5, <1>6, <2>1, <2>2, <3>1 DEF Counted, next
    <2>4. /\ Work(p, c, next) /\ up[p] = "leading"
          /\ next.at \in {"open", "insert"} => next.db # Default
      BY <1>2, <2>1, <2>2
    <2> HIDE DEF next
    <2> QED
      BY <1>3, <1>4, <2>2, <2>3, <2>4, WorkCounts
  <1>8. CASE OpenPool(p, c)
    <2> DEFINE next == [j EXCEPT !.at = "insert"]
    <2>1. /\ next.at = "insert" /\ next.db = j.db
          /\ j.at = "open" /\ j.db \in Databases
          /\ Work(p, c, next) /\ UNCHANGED <<pools, faults>>
      BY <1>1, <1>8 DEF OpenPool, Jobs, Shaped
    <2>2. /\ opened'[p][j.db] = opened[p][j.db] + 1
          /\ \A d \in Databases : d # j.db => opened'[p][d] = opened[p][d]
          /\ \A q \in Processes : q # p => opened'[q] = opened[q]
      BY <1>3, <1>8, <2>1 DEF OpenPool
    <2>3. \A d \in Databases : Counted(p, d)'
      <3> TAKE d \in Databases
      <3>1. /\ In(j, d, "open") <=> d = j.db
            /\ In(next, d, "insert") <=> d = j.db
            /\ ~In(j, d, "insert") /\ ~In(next, d, "open")
        BY <2>1 DEF In
      <3> HIDE DEF next, j
      <3> QED
        BY <1>3, <1>5, <1>6, <2>1, <2>2, <3>1 DEF Counted
    <2> HIDE DEF next
    <2> QED
      BY <1>2, <1>3, <1>4, <2>1, <2>2, <2>3, ResourcesAssumption, WorkCounts
  <1>9. CASE InsertPool(p, c)
    <2> DEFINE next == [j EXCEPT !.at = "use"]
    <2>1. /\ next.at = "use" /\ next.db = j.db
          /\ j.at = "insert" /\ j.db \in Databases
          /\ Work(p, c, next) /\ UNCHANGED opened
      BY <1>1, <1>9 DEF InsertPool, Jobs, Shaped
    <2>2. \/ /\ pools'[p] = pools[p] \cup {j.db} /\ UNCHANGED faults
             /\ \A q \in Processes : q # p => pools'[q] = pools[q]
          \/ UNCHANGED pools /\ faults' = faults + 1
      BY <1>3, <1>9 DEF InsertPool, Fault
    <2>3. \A d \in Databases : Counted(p, d)'
      <3> TAKE d \in Databases
      <3>1. /\ In(j, d, "insert") <=> d = j.db
            /\ ~In(j, d, "open") /\ ~In(next, d, "open")
            /\ ~In(next, d, "insert")
        BY <2>1 DEF In
      <3> HIDE DEF next, j
      <3> QED
        BY <1>3, <1>5, <1>6, <2>1, <2>2, <3>1 DEF Counted
    <2> HIDE DEF next
    <2> QED
      BY <1>2, <1>3, <1>4, <2>1, <2>2, <2>3, WorkCounts
  <1>10. ASSUME NEW next, Work(p, c, next), j.at # "idle",
                UNCHANGED <<pools, opened>>,
                next.at \notin {"open", "insert"},
                \/ j.at \notin {"open", "insert"} /\ UNCHANGED faults
                \/ faults' = faults + 1
         PROVE  PoolsCounted' /\ DefaultThere'
    <2>1. \A d \in Databases : Counted(p, d)'
      <3> TAKE d \in Databases
      <3>1. /\ ~In(next, d, "open") /\ ~In(next, d, "insert")
            /\ j.at \notin {"open", "insert"}
                 => ~In(j, d, "open") /\ ~In(j, d, "insert")
            /\ ~(In(j, d, "open") /\ In(j, d, "insert"))
        BY <1>10 DEF In
      <3> HIDE DEF j
      <3> QED
        BY <1>3, <1>5, <1>6, <1>10, <3>1 DEF Counted
    <2> QED
      BY <1>2, <1>3, <1>4, <1>10, <2>1, WorkCounts
  <1>11. CASE UsePool(p, c)
    <2> DEFINE next == [j EXCEPT !.at = "check", !.db = NoDatabase,
                                 !.todo = @ \ {j.db}]
    <2>1. next.at = "check"
      BY <1>1 DEF Jobs
    <2>2. /\ Work(p, c, next) /\ j.at = "use"
          /\ UNCHANGED <<pools, opened, faults>>
      BY <1>11 DEF UsePool
    <2> QED
      BY <2>1, <2>2, <1>10
  <1>12. CASE UseNil(p, c) \/ Finish(p, c) \/ Fail(p, c)
    <2>1. /\ Work(p, c, NoJob) /\ UNCHANGED <<pools, opened>>
          /\ j.at # "idle"
          /\ \/ j.at \notin {"open", "insert"} /\ UNCHANGED faults
             \/ faults' = faults + 1
      BY <1>12 DEF UseNil, Finish, Fail, Fault
    <2> QED
      BY <2>1, <1>10, NoJobType
  <1>13. CASE MapRace(p, c)
    BY <1>13, ExitCounts DEF MapRace
  <1> QED
    BY <1>7, <1>8, <1>9, <1>11, <1>12, <1>13 DEF Reconcile

LEMMA BeginCounts ==
  ASSUME PInv, IsFiniteSet(Controllers),
         NEW p \in Processes, NEW r \in Resources, Begin(p, r)
  PROVE  PoolsCounted' /\ DefaultThere'
  <1> DEFINE c    == Kind[r]
             next == [at |-> "check", what |-> r, seen |-> view[p][r],
                      todo |-> Needs[r], db |-> NoDatabase]
  <1>1. c \in Controllers
    BY ResourcesAssumption
  <1>2. /\ Work(p, c, next) /\ UNCHANGED <<pools, opened, faults>>
        /\ up[p] = "leading" /\ next.at = "check"
        /\ job[p][c].at = "idle"
    BY DEF Begin
  <1>3. faults \in Nat /\ opened[p][Default] = 0 /\ TypeOK
    BY DEF PInv, IInv, TypeOK, DefaultThere
  <1>4. \A d \in Databases : Counted(p, d)'
    <2> TAKE d \in Databases
    <2>1. /\ ~In(next, d, "open") /\ ~In(next, d, "insert")
          /\ ~In(job[p][c], d, "open") /\ ~In(job[p][c], d, "insert")
      BY <1>2 DEF In
    <2>2. Counted(p, d)
      BY DEF PInv, PoolsCounted, Counted
    <2>3. /\ Cardinality(At(p, d, "open")) \in Nat
          /\ Cardinality(At(p, d, "insert")) \in Nat
      BY AtFinite
    <2> HIDE DEF next, c
    <2>4. /\ Cardinality(At(p, d, "open")') = Cardinality(At(p, d, "open"))
          /\ Cardinality(At(p, d, "insert")') = Cardinality(At(p, d, "insert"))
      BY <1>1, <1>2, <1>3, <2>1, <2>3, CountStep
    <2> QED
      BY <1>2, <2>2, <2>4 DEF Counted
  <1> HIDE DEF next, c
  <1> QED
    BY <1>1, <1>2, <1>3, <1>4, WorkCounts

LEMMA NextPInv ==
  ASSUME PInv, [Next]_vars, IsFiniteSet(Controllers)
  PROVE  PInv'
  <1>1. IInv'
    BY NextIInv DEF PInv
  <1>2. CASE \E p \in Processes : Die(p)
    BY <1>1, <1>2, ExitCounts DEF Die, PInv
  <1>3. CASE \E p \in Processes : \E r \in Resources : Begin(p, r)
    BY <1>1, <1>3, BeginCounts DEF PInv
  <1>4. CASE \E p \in Processes : \E c \in Controllers :
               Reconcile(p, c) \/ MapRace(p, c) \/ Fail(p, c)
    BY <1>1, <1>4, RunCounts DEF PInv
  <1>5. CASE \/ \E r \in Resources : Link(r)
             \/ \E n \in Leases : Expire(n)
             \/ \E p \in Processes :
                  Start(p) \/ Acquire(p) \/ \E r \in Resources : Deliver(p, r)
             \/ UNCHANGED vars
    BY <1>1, <1>5, OutsideCounts DEF PInv
  <1> QED
    BY <1>2, <1>3, <1>4, <1>5 DEF Next

LEMMA InitPInv == ASSUME IsFiniteSet(Controllers) PROVE Init => PInv
  <1> SUFFICES ASSUME Init PROVE PInv
    OBVIOUS
  <1>1. IInv
    BY InitIInv
  <1>2. \A p \in Processes : /\ pools[p] = {} /\ opened[p] = NotOpened
                             /\ up[p] = "down" /\ job[p] = NoJobs
    BY DEF Init
  <1>3. PoolsCounted
    <2> SUFFICES ASSUME NEW p \in Processes, NEW d \in Databases
                 PROVE  opened[p][d] <= Cardinality(At(p, d, "insert")) + faults
      BY <1>2 DEF PoolsCounted
    <2> QED
      BY <1>2, AtFinite DEF Init, NotOpened
  <1>4. DefaultThere
    BY <1>2, ResourcesAssumption DEF DefaultThere, NotOpened, NoJobs, NoJob
  <1> QED
    BY <1>1, <1>3, <1>4 DEF PInv

(* However many controllers race for the map, a process opens no more      *)
(* pools for a database than it has controllers, lost insertions aside,    *)
(* and none for the default one.                                           *)
THEOREM FewPools ==
  ASSUME IsFiniteSet(Controllers)
  PROVE  Spec => []PoolsBounded
  <1>1. PInv => PoolsBounded
    <2> SUFFICES ASSUME PInv, NEW p \in Processes, NEW d \in Databases
                 PROVE  opened[p][d] <= Cardinality(Controllers) + faults
      BY DEF PInv, DefaultThere, PoolsBounded
    <2>1. /\ opened[p][d] \in Nat /\ faults \in Nat
          /\ Cardinality(Controllers) \in Nat
          /\ Cardinality(At(p, d, "open")) \in Nat
          /\ Cardinality(At(p, d, "insert")) \in Nat
          /\ Cardinality(At(p, d, "insert")) <= Cardinality(Controllers)
      BY AtFinite, FS_CardinalityType DEF PInv, IInv, TypeOK
    <2> QED
      BY <2>1 DEF PInv, PoolsCounted
  <1>2. PInv /\ [Next]_vars => PInv'
    BY NextPInv
  <1> QED
    BY InitPInv, <1>1, <1>2, PTL DEF Spec

=============================================================================
