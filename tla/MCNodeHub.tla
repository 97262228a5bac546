----------------------------- MODULE MCNodeHub -----------------------------
(* Instances of NodeHub for TLC. *)
EXTENDS NodeHub, TLC

CONSTANTS i1, i2, m1, m2, n1, n2, c1, c2, c3

OneInstance == {i1}
TwoInstances == {i1, i2}
OneMachine == {m1}
TwoMachines == {m1, m2}
OneNode == {n1}
OneConn == {c1}
TwoConns == {c1, c2}
Empty == {}

Redis == [coordinated |-> TRUE, instances |-> Instances, legacy |-> {}, roles |-> {},
          faults |-> {}, edits |-> 0, fronts |-> Instances, desks |-> Instances]

Local == [Redis EXCEPT !.coordinated = FALSE, !.instances = {i1}, !.fronts = {i1}, !.desks = {i1},
                       !.roles = {"admin", "reconcile"}]

\* One process without Redis whose administrators reassign nodes; two that share Redis, being
\* drained; two that share Redis, with everything going wrong.
LiveDeployments ==
  { [Local EXCEPT !.edits = 1],
    [Redis EXCEPT !.legacy = Nodes, !.faults = {"drain", "credential"}],
    [Redis EXCEPT !.faults = {"redis", "expiry", "loss", "crash"}] }

\* Plans of different age meet on a process without Redis (request and ticker), and on the
\* instance of an agent whose administrators work on the other one (event and ticker); there
\* events get lost.  With one assignment all plans agree, and every call to Redis may fail.
Syncing == [Redis EXCEPT !.roles = {"admin", "event", "reconcile"}, !.fronts = {i1}]

SyncDeployments ==
  { [Local EXCEPT !.faults = {"drain"}, !.edits = 3],
    [Syncing EXCEPT !.desks = {i2}, !.faults = {"loss"}, !.edits = 2],
    [Syncing EXCEPT !.faults = {"redis", "loss"}, !.edits = 1] }

PlainDeployment == {Redis}

\* Connection ids are random and interchangeable, and so are the panel instances.
Symmetry == Permutations(Conns) \cup Permutations(Instances)
=============================================================================
