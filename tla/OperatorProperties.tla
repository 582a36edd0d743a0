------------------------- MODULE OperatorProperties -------------------------
(***************************************************************************)
(* What the operator's processes owe to each other.                        *)
(***************************************************************************)
EXTENDS Operators

Busy(p, r) == job[p][Kind[r]].at # "idle" /\ job[p][Kind[r]].what = r

(* Two processes work on one resource at a time only when its annotation   *)
(* has changed between the two runs' reads (utils.go:10), or when one of   *)
(* them is unnamed and takes every resource: the replicas of one operator  *)
(* exclude each other by their lease (utils.go:22, main.go:166), whoever   *)
(* dies and restarts.                                                      *)
OneOperator ==
    \A p, q \in Processes : \A r \in Resources :
      p # q /\ Busy(p, r) /\ Busy(q, r)
        => \/ job[p][Kind[r]].seen # job[q][Kind[r]].seen
           \/ (Name[p] = Unnamed) # (Name[q] = Unnamed)

(* Looking a pool up and inserting it are two steps (pool.go:29-48), and   *)
(* three controllers take them at a time: a pool that is overwritten is    *)
(* never closed.  Still a process opens no more pools for a database than  *)
(* it has controllers, apart from insertions that got lost, and none for   *)
(* the default database, whose pool main put there.                        *)
PoolsBounded ==
    \A p \in Processes :
      /\ opened[p][Default] = 0
      /\ \A d \in Databases :
           opened[p][d] <= Cardinality(Controllers) + faults

(* An unnamed operator and one that is named "default" compete for one     *)
(* lease (utils.go:23).                                                    *)
Alone(name) == ~ \E p, q \in Processes : Name[p] = Unnamed /\ Name[q] = DefaultName
                                         /\ name = DefaultName

(* A run for the resource that has got all of its pools.                   *)
Served(p, r) == Busy(p, r) /\ job[p][Kind[r]].at = "check"
                           /\ job[p][Kind[r]].todo = {}

(* When users and faults come to rest, a resource that is linked to an     *)
(* operator is reconciled again and again by one of its processes (or by   *)
(* an unnamed one), and by no other: a process that dies hands its lease   *)
(* on, and a resource that is linked to another operator leaves the first. *)
Settled(r) == (\E p \in Processes : Name[p] = link[r]) /\ Alone(link[r])

FindsItsOperator ==
    \A r \in Resources :
      /\ []<>(Settled(r) => \E p \in Processes :
                              Served(p, r) /\ Name[p] \in {link[r], Unnamed})
      /\ <>[](Settled(r) => \A p \in Processes :
                              Busy(p, r) => Name[p] \in {link[r], Unnamed})

=============================================================================
