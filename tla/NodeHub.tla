------------------------------- MODULE NodeHub -------------------------------
(***************************************************************************)
(* Node connections: the websocket hub of every panel instance             *)
(* (internal/httpapi/websocket.go) and the ownership leases it keeps in    *)
(* Redis (internal/nodecoord/redis.go).                                    *)
(*                                                                         *)
(* An agent connects for a machine and the nodes the database assigns to   *)
(* it, or, the legacy protocol, for a single node.  A connection claims    *)
(* its keys in Redis, enters the hub of its instance, verifies that the    *)
(* claim still stands, and then reports the devices of its nodes until it  *)
(* is closed; leaving, it withdraws from the hub, releases its keys and    *)
(* clears the devices of the nodes it released.  Administrators reassign   *)
(* nodes, and three kinds of thread of an instance bring a connection's    *)
(* node set up to date.  In a deployment that is not coordinated (one      *)
(* instance, no Redis) the hub alone decides.                              *)
(*                                                                         *)
(* A Redis script is one step; so is a section under the hub's mutex.      *)
(* close() only makes the connection's reader stop, so the closing of the  *)
(* connections a step replaces is part of that step.                       *)
(***************************************************************************)
EXTENDS Integers, Sequences, FiniteSets

CONSTANTS
  Instances,    \* panel processes
  Machines,     \* machine ids
  Nodes,        \* node ids
  Conns,        \* connection ids; bound: connections in a behaviour
  Deployments,  \* how the panel may be deployed, and what may happen to it
  MaxQueue,     \* with "loss": what Redis buffers for a subscriber
  None

ASSUME HubConstants ==
  /\ None \notin Machines \cup Nodes \cup Conns
  /\ Machines \cap Nodes = {}
  /\ MaxQueue \in Nat
  /\ \A d \in Deployments :
       /\ d.coordinated \in BOOLEAN             \* XBOARD_NODE_COORDINATION_MODE = redis
       /\ d.instances \subseteq Instances
       /\ d.coordinated \/ \E i \in Instances : d.instances = {i}
       /\ d.fronts \subseteq d.instances         \* bound: where agents connect ...
       /\ d.desks \subseteq d.instances          \* ... and where administrators work
       /\ d.legacy \subseteq Nodes               \* nodes whose agent uses the legacy protocol
       /\ d.roles \subseteq {"admin", "event", "reconcile"}  \* threads that synchronise node sets
       /\ d.coordinated /\ "admin" \in d.roles => "event" \in d.roles
       /\ d.faults \subseteq {"drain", "redis", "expiry", "loss", "crash", "credential"}
       /\ d.edits \in Nat                       \* bound: assignments by administrators

Keys == Machines \cup Nodes
Threads == {"admin", "event", "reconcile"}

VARIABLES
  conf,      \* database: the machine a node is assigned to
  devices,   \* node -> connection whose device snapshot is stored
  owner,     \* Redis: key -> connection holding the lease
  net,       \* Pub/Sub: events on their way to each instance
  hub,       \* instance -> key -> connection (wsHub.machines, wsHub.nodes)
  draining,  \* instance -> wsHub.draining
  conns,     \* the connections
  tasks,     \* instance -> role -> run of notifyMachineNodes
  edits,
  deployment \* the deployment of this behaviour

vars == <<conf, devices, owner, net, hub, draining, conns, tasks, edits, deployment>>

Coordinated == deployment.coordinated
Roles == deployment.roles
faults == deployment.faults

-----------------------------------------------------------------------------
Phases == {"unused", "upgraded", "claimed", "registered", "reading", "checked", "storing",
           "leaving", "releasing", "clearing", "withdrawing", "ended", "refused", "lost"}

\* contested: history, some other connection claimed or registered a key of this one.
Conn == [inst : Instances \cup {None}, machine : Machines \cup {None}, nodes : SUBSET Nodes,
         phase : Phases, closed : BOOLEAN, target : Nodes \cup {None},
         pending : SUBSET Nodes, todo : SUBSET Keys, released : SUBSET Nodes, contested : BOOLEAN]

NoConn == [inst |-> None, machine |-> None, nodes |-> {}, phase |-> "unused", closed |-> FALSE,
           target |-> None, pending |-> {}, todo |-> {}, released |-> {}, contested |-> FALSE]

Steps == {"idle", "purge", "start", "planned", "picked", "claimed", "releasing", "retrying"}

Task == [pc : Steps, machine : Machines \cup {None}, plan : SUBSET Nodes,
         conn : Conns \cup {None}, todo : SUBSET Nodes, released : SUBSET Nodes,
         failed : BOOLEAN, retry : BOOLEAN]

Idle == [pc |-> "idle", machine |-> None, plan |-> {}, conn |-> None,
         todo |-> {}, released |-> {}, failed |-> FALSE, retry |-> FALSE]

Event == [kind : {"replacement", "machine_nodes", "disconnect_machine"},
          keys : SUBSET Keys, conn : Conns \cup {None}]

\* The nodes ListMachineNodes serves a machine with.
NodesOf(m) == {n \in Nodes : conf[n] = m}

\* The keys a connection is responsible for.
Own(c) == conns[c].nodes \cup ({conns[c].machine} \ {None})

Owns(c) == \A k \in Own(c) : hub[conns[c].inst][k] = c

Holds(c, K) == \A k \in K : owner[k] = c

\* wsConnection.unregistered: set by unregisterAndClear.
Unregistered(c) == conns[c].phase \in {"releasing", "clearing", "ended"}

Over == {"unused", "ended", "refused", "lost"}
Served == {"reading", "checked", "storing"}
Live == {"registered", "reading", "checked", "storing", "leaving"}

\* Every connection of C is closed, and D learn that someone competes with them.
Marked(C, D) == [c \in Conns |-> [conns[c] EXCEPT !.closed = @ \/ c \in C,
                                                  !.contested = @ \/ c \in D]]

\* The other connections that are, or will be, responsible for a key of K.
Rivals(c, K) == {d \in Conns \ {c} : /\ conns[d].phase \notin Over \cup {"upgraded"}
                                     /\ (Own(d) \cup conns[d].todo) \cap K # {}}

\* A set of keys in the hands of c, and the keys K taken away from c.
Given(f, K, c) == [k \in Keys |-> IF k \in K THEN c ELSE f[k]]
Taken(f, K, c) == [k \in Keys |-> IF k \in K /\ f[k] = c THEN None ELSE f[k]]

\* Redis drops the events of a subscriber that is too far behind.
Full(events) == "loss" \in faults /\ Len(events) >= MaxQueue

\* Publish: an instance ignores the events it sent itself.
Sent(queue, i, e) == [j \in Instances |-> IF j = i \/ Full(queue[j]) THEN queue[j] ELSE Append(queue[j], e)]

Replacement(K, c) == [kind |-> "replacement", keys |-> K, conn |-> c]

Cleared(N) == [n \in Nodes |-> IF n \in N THEN None ELSE devices[n]]

-----------------------------------------------------------------------------
(* Handshake *)

\* beginConnection, authentication, the node snapshot and the upgrade.
Accept(c, i) ==
  /\ conns[c].phase = "unused"
  /\ i \in deployment.fronts
  /\ ~draining[i]
  /\ \/ \E m \in Machines :
          conns' = [conns EXCEPT ![c].inst = i, ![c].machine = m, ![c].nodes = NodesOf(m),
                                 ![c].phase = "upgraded"]
     \/ \E n \in deployment.legacy :
          conns' = [conns EXCEPT ![c].inst = i, ![c].nodes = {n}, ![c].phase = "upgraded"]
  /\ UNCHANGED <<conf, devices, owner, net, hub, draining, tasks, edits, deployment>>

RegistrationKey(c) == IF conns[c].machine # None THEN {conns[c].machine} ELSE conns[c].nodes

\* ClaimMachine or ClaimNode under the registration lock; a failed call may have run.
Claim(c) ==
  LET K == Own(c)
      i == conns[c].inst
      Taking(phase) ==
        /\ owner' = Given(owner, K, c)
        /\ net' = Sent(net, i, Replacement(K, c))
        /\ conns' = [Marked({}, Rivals(c, K)) EXCEPT ![c].phase = phase]
  IN
  /\ conns[c].phase = "upgraded"
  /\ \A d \in Conns : conns[d].phase = "claimed" /\ conns[d].inst = i
                        => RegistrationKey(d) # RegistrationKey(c)
  /\ \/ ~Coordinated /\ conns' = [conns EXCEPT ![c].phase = "claimed"] /\ UNCHANGED <<owner, net>>
     \/ Coordinated /\ Taking("claimed")
     \/ Coordinated /\ "redis" \in faults /\ Taking("refused")
     \/ /\ Coordinated /\ "redis" \in faults
        /\ conns' = [conns EXCEPT ![c].phase = "refused"]
        /\ UNCHANGED <<owner, net>>
  /\ UNCHANGED <<conf, devices, hub, draining, tasks, edits, deployment>>

\* register: the connection takes its keys in the hub and what it replaces is closed.
Register(c) ==
  LET i == conns[c].inst
      K == Own(c)
      old == {hub[i][k] : k \in K} \ {None, c}
  IN
  /\ conns[c].phase = "claimed"
  /\ ~draining[i]
  /\ hub' = [hub EXCEPT ![i] = Given(@, K, c)]
  /\ conns' = [Marked(old, Rivals(c, K)) EXCEPT ![c].phase = "registered"]
  /\ UNCHANGED <<conf, devices, owner, net, draining, tasks, edits, deployment>>

\* What releaseUnregisteredClaim gives back.
ClaimedKeys(c) == Own(c)

\* register refuses while draining; the claim is given back.
Withdraw(c) ==
  LET todo == IF Coordinated THEN ClaimedKeys(c) ELSE {}
  IN
  /\ conns[c].phase = "claimed"
  /\ draining[conns[c].inst]
  /\ conns' = [conns EXCEPT ![c].closed = TRUE, ![c].todo = todo,
                            ![c].phase = IF todo = {} THEN "ended" ELSE "withdrawing"]
  /\ UNCHANGED <<conf, devices, owner, net, hub, draining, tasks, edits, deployment>>

\* Mutant: the claim is trusted.
ClaimTrusted(c) == TRUE

\* OwnsNode, OwnsMachine or OwnsMachineAndNodes of a new connection.
ClaimStands(c) == Coordinated => Holds(c, Own(c))

\* The ownership check after registration, and for a legacy agent its credential again.
Verify(c) ==
  LET Refuse == /\ hub' = [hub EXCEPT ![conns[c].inst] = Taken(@, Own(c), c)]
                /\ conns' = [conns EXCEPT ![c].phase = "refused", ![c].closed = TRUE]
  IN
  /\ conns[c].phase = "registered"
  /\ \/ /\ ClaimStands(c)
        /\ conns' = [conns EXCEPT ![c].phase = "reading"]
        /\ UNCHANGED hub
     \/ (~ClaimStands(c) \/ (Coordinated /\ "redis" \in faults)) /\ Refuse
     \/ "credential" \in faults /\ conns[c].machine = None /\ Refuse
  /\ UNCHANGED <<conf, devices, owner, net, draining, tasks, edits, deployment>>

-----------------------------------------------------------------------------
(* A served connection *)

\* The agent hangs up, a write fails, a limit is exceeded or an administrator disconnects it.
Hangup(c) ==
  /\ conns[c].phase \in {"registered", "reading", "checked", "storing"}
  /\ ~conns[c].closed
  /\ conns' = [conns EXCEPT ![c].closed = TRUE]
  /\ UNCHANGED <<conf, devices, owner, net, hub, draining, tasks, edits, deployment>>

\* readLoop returns when the socket is closed.
Stop(c) ==
  /\ conns[c].phase = "reading"
  /\ conns[c].closed
  /\ conns' = [conns EXCEPT ![c].phase = "leaving"]
  /\ UNCHANGED <<conf, devices, owner, net, hub, draining, tasks, edits, deployment>>

\* What ownsIncomingMessage asks Redis about a report for n.
Lease(c, n) == {n} \cup ({conns[c].machine} \ {None})

\* readLoop and ownsIncomingMessage: a report is admitted by the hub and by Redis.
Receive(c, n) ==
  LET admitted == Owns(c) /\ n \in conns[c].nodes /\ (Coordinated => Holds(c, Lease(c, n)))
  IN
  /\ conns[c].phase = "reading"
  /\ ~conns[c].closed
  /\ \/ admitted /\ conns' = [conns EXCEPT ![c].phase = "checked", ![c].target = n]
     \/ /\ ~admitted \/ (Coordinated /\ "redis" \in faults)
        /\ conns' = [conns EXCEPT ![c].phase = "leaving", ![c].closed = TRUE]
  /\ UNCHANGED <<conf, devices, owner, net, hub, draining, tasks, edits, deployment>>

\* applyNodeReport: the database authorises the node; without Redis it stores the devices too.
Apply(c) ==
  LET n == conns[c].target
      linked == n \in conns[c].nodes /\ (conns[c].machine = None \/ conf[n] = conns[c].machine)
  IN
  /\ conns[c].phase = "checked"
  /\ \/ /\ linked
        /\ conns' = [conns EXCEPT ![c].phase = IF Coordinated THEN "storing" ELSE "reading",
                                  ![c].target = IF Coordinated THEN n ELSE None]
        /\ devices' = IF Coordinated THEN devices ELSE [devices EXCEPT ![n] = c]
     \/ /\ ~linked
        /\ conns' = [conns EXCEPT ![c].phase = "leaving", ![c].closed = TRUE, ![c].target = None]
        /\ UNCHANGED devices
  /\ UNCHANGED <<conf, owner, net, hub, draining, tasks, edits, deployment>>

\* ReplaceNodeDevices: with Redis the devices are stored after the database transaction.
StoreDevices(c) ==
  /\ conns[c].phase = "storing"
  /\ \/ /\ devices' = [devices EXCEPT ![conns[c].target] = c]
        /\ conns' = [conns EXCEPT ![c].phase = "reading", ![c].target = None]
     \/ /\ "redis" \in faults
        /\ conns' = [conns EXCEPT ![c].phase = "leaving", ![c].closed = TRUE, ![c].target = None]
        /\ UNCHANGED devices
  /\ UNCHANGED <<conf, owner, net, hub, draining, tasks, edits, deployment>>

-----------------------------------------------------------------------------
(* Leaving *)

\* Mutant: whatever the connection lists.
Listed(c) == Own(c)

\* The keys for which the hub still leads to the connection.
Current(c) == {k \in Own(c) : hub[conns[c].inst][k] = c}

\* unregisterAndClear, under the hub's mutex.  Without Redis the devices go in the same section.
Unregister(c) ==
  LET mine == Current(c)
      left == mine \cup conns[c].pending
  IN
  /\ conns[c].phase = "leaving"
  /\ hub' = [hub EXCEPT ![conns[c].inst] = Taken(@, mine, c)]
  /\ IF Coordinated
     THEN /\ conns' = [conns EXCEPT ![c].closed = TRUE, ![c].pending = {}, ![c].todo = left,
                                    ![c].phase = IF left = {} THEN "ended" ELSE "releasing"]
          /\ UNCHANGED devices
     ELSE /\ conns' = [conns EXCEPT ![c].closed = TRUE, ![c].phase = "ended"]
          /\ devices' = Cleared(mine)
  /\ UNCHANGED <<conf, owner, net, draining, tasks, edits, deployment>>

\* The next key of K to release: the nodes go before the machine.
Releasable(K) == {k \in K : k \in Machines => K = {k}}

\* releaseScript for key k of c; a call that fails may have run.
ReleaseKey(c, k) == owner' = Taken(owner, {k}, c)
ReleaseFails(c, k) == "redis" \in faults /\ (ReleaseKey(c, k) \/ UNCHANGED owner)

\* releasedNodes: what the release of k adds to the nodes to clear.
Freed(c, k) == IF owner[k] = c THEN {k} \cap Nodes ELSE {}

\* ReleaseNodeIfOwned and ReleaseMachineIfOwned of a connection on its way out.
Release(c) ==
  \E k \in Releasable(conns[c].todo) :
    LET todo == conns[c].todo \ {k}
        After(done) ==
          conns' = [conns EXCEPT
                      ![c].todo = todo,
                      ![c].released = IF todo = {} /\ conns[c].phase = "withdrawing" THEN {} ELSE done,
                      ![c].phase = IF todo # {} THEN @
                                   ELSE IF done = {} \/ @ = "withdrawing" THEN "ended" ELSE "clearing"]
    IN
    /\ conns[c].phase \in {"releasing", "withdrawing"}
    /\ \/ /\ ReleaseKey(c, k)
          /\ After(conns[c].released \cup Freed(c, k))
       \/ ReleaseFails(c, k) /\ After(conns[c].released)
    /\ UNCHANGED <<conf, devices, net, hub, draining, tasks, edits, deployment>>

\* clearDevices for the nodes that were released.
Clear(c) ==
  /\ conns[c].phase = "clearing"
  /\ \/ devices' = Cleared(conns[c].released)
     \/ "redis" \in faults /\ UNCHANGED devices
  /\ conns' = [conns EXCEPT ![c].phase = "ended", ![c].released = {}]
  /\ UNCHANGED <<conf, owner, net, hub, draining, tasks, edits, deployment>>

-----------------------------------------------------------------------------
(* Threads of an instance *)

Busy(i, r) == tasks[i][r].pc # "idle"

\* Mutant: only the lease the connection registered under is looked at.
RenewedFirst(c) == Holds(c, RegistrationKey(c))

\* renewScript: all leases of the connection or none.
Renewed(c) == Holds(c, Own(c))

\* renewConnections, for one connection of the batch: what was not renewed is closed.
NotRenewed(c) ==
  /\ Coordinated
  /\ conns[c].phase \in Live
  /\ ~conns[c].closed
  /\ \E k \in RegistrationKey(c) : hub[conns[c].inst][k] = c
  /\ ~Busy(conns[c].inst, "reconcile")
  /\ Owns(c)
  /\ conns' = [conns EXCEPT ![c].closed = TRUE]
  /\ UNCHANGED <<conf, devices, owner, net, hub, draining, tasks, edits, deployment>>

Renew(c) == ~Renewed(c) /\ NotRenewed(c)

RenewFails(c) == "redis" \in faults /\ NotRenewed(c)

\* A run of notifyMachineNodes for machine m begins on thread r of instance i.
Begin(i, r, m) == tasks' = [tasks EXCEPT ![i][r] = [Idle EXCEPT !.pc = "start", !.machine = m]]

\* The run ends; the one of an administrator's request tells the other instances.
End(i, r, queue) ==
  /\ tasks' = [tasks EXCEPT ![i][r] = Idle]
  /\ net' = IF r = "admin" /\ Coordinated
            THEN Sent(queue, i, [kind |-> "machine_nodes", keys |-> {tasks[i][r].machine},
                                 conn |-> None])
            ELSE queue

\* handleCoordinationEvent: the subscriber handles one event at a time.
HandleEvent(i) ==
  LET e == Head(net[i])
      targets == {hub[i][k] : k \in e.keys} \ {None, e.conn}
  IN
  /\ net[i] # <<>>
  /\ ~Busy(i, "event")
  /\ net' = [net EXCEPT ![i] = Tail(@)]
  /\ \/ /\ e.kind # "machine_nodes"
        /\ conns' = Marked(targets, {})
        /\ UNCHANGED tasks
     \/ /\ e.kind = "machine_nodes"
        /\ \E m \in e.keys : Begin(i, "event", m)
        /\ UNCHANGED conns
  /\ UNCHANGED <<conf, devices, owner, hub, draining, edits, deployment>>

\* Mutant: only nodes to be removed are looked for.
SameNodeIDsIncluded(c, m) == conns[c].nodes \subseteq NodesOf(m)

SameNodeIDs(c, m) == conns[c].nodes = NodesOf(m)

\* reconcileConnections finds a connection whose node set is not the database's.
Reconcile(i, m) ==
  /\ i \in deployment.instances /\ "reconcile" \in Roles
  /\ ~Busy(i, "reconcile")
  /\ ~draining[i]
  /\ hub[i][m] # None
  /\ ~SameNodeIDs(hub[i][m], m)
  /\ Begin(i, "reconcile", m)
  /\ UNCHANGED <<conf, devices, owner, net, hub, draining, conns, edits, deployment>>

\* assignNode: a node may be moved straight from another machine; only its new one is told.
AssignNode(i, n, m) ==
  /\ "admin" \in Roles
  /\ edits < deployment.edits
  /\ ~Busy(i, "admin")
  /\ conf[n] # m
  /\ conf' = [conf EXCEPT ![n] = m]
  /\ Begin(i, "admin", m)
  /\ edits' = edits + 1 /\ UNCHANGED deployment
  /\ UNCHANGED <<devices, owner, net, hub, draining, conns>>

\* unassignNode and setNodeEnabled(false): the node's devices are cleared before the run.
UnassignNode(i, n) ==
  /\ "admin" \in Roles
  /\ edits < deployment.edits
  /\ ~Busy(i, "admin")
  /\ conf[n] # None
  /\ conf' = [conf EXCEPT ![n] = None]
  /\ tasks' = [tasks EXCEPT ![i]["admin"] =
                  [Idle EXCEPT !.pc = "purge", !.machine = conf[n], !.released = {n}]]
  /\ edits' = edits + 1 /\ UNCHANGED deployment
  /\ UNCHANGED <<devices, owner, net, hub, draining, conns>>

\* ClearNodeDevices of the request.
Purge(i, r) ==
  /\ tasks[i][r].pc = "purge"
  /\ devices' = Cleared(tasks[i][r].released)
  /\ Begin(i, r, tasks[i][r].machine)
  /\ UNCHANGED <<conf, owner, net, hub, draining, conns, edits, deployment>>

\* machineSnapshots: the plan is read from the database before the connection is looked up.
Snapshot(i, r) ==
  /\ tasks[i][r].pc = "start"
  /\ tasks' = [tasks EXCEPT ![i][r].pc = "planned", ![i][r].plan = NodesOf(tasks[i][r].machine)]
  /\ UNCHANGED <<conf, devices, owner, net, hub, draining, conns, edits, deployment>>

Pick(i, r) ==
  LET c == hub[i][tasks[i][r].machine]
  IN
  /\ tasks[i][r].pc = "planned"
  /\ \/ c = None /\ End(i, r, net)
     \/ /\ c # None
        /\ tasks' = [tasks EXCEPT ![i][r].pc = IF Coordinated THEN "picked" ELSE "claimed",
                                  ![i][r].conn = c,
                                  ![i][r].todo = conns[c].nodes \ tasks[i][r].plan]
        /\ UNCHANGED net
  /\ UNCHANGED <<conf, devices, owner, hub, draining, conns, edits, deployment>>

\* ClaimMachineNodesIfOwned: the nodes are taken as long as the machine is the connection's.
ClaimNodes(i, r) ==
  LET t == tasks[i][r]
      K == {t.machine} \cup t.plan
      told == IF t.plan = {} THEN net ELSE Sent(net, i, Replacement(K, t.conn))
  IN
  /\ t.pc = "picked"
  /\ \/ /\ owner[t.machine] = t.conn
        /\ owner' = Given(owner, K, t.conn)
        /\ conns' = Marked({}, Rivals(t.conn, K))
        /\ tasks' = [tasks EXCEPT ![i][r].pc = "claimed"]
        /\ net' = told
     \/ /\ owner[t.machine] # t.conn \/ "redis" \in faults
        /\ conns' = Marked({t.conn}, {})
        /\ End(i, r, net)
        /\ UNCHANGED owner
     \/ /\ owner[t.machine] = t.conn /\ "redis" \in faults
        /\ owner' = Given(owner, K, t.conn)
        /\ conns' = Marked({t.conn}, Rivals(t.conn, K))
        /\ End(i, r, told)
  /\ UNCHANGED <<conf, devices, hub, draining, edits, deployment>>

\* Mutant: the connection found before the claim is used as it is.
StillThereAssumed(i, t) == TRUE

StillThere(i, t) == hub[i][t.machine] = t.conn

\* The section under the hub's mutex that installs the plan.
Install(i, r) ==
  LET t == tasks[i][r]
      c == t.conn
      old == {hub[i][n] : n \in t.plan} \ {None, c}
  IN
  /\ t.pc = "claimed"
  /\ \/ /\ ~StillThere(i, t)
        /\ conns' = Marked({c}, {})
        /\ End(i, r, net)
        /\ UNCHANGED hub
     \/ /\ StillThere(i, t)
        /\ hub' = [hub EXCEPT ![i] = Taken(Given(@, t.plan, c), t.todo, c)]
        /\ conns' = [Marked(old, Rivals(c, t.plan)) EXCEPT ![c].nodes = t.plan,
                                                           ![c].pending = @ \ t.plan]
        /\ tasks' = [tasks EXCEPT ![i][r].pc = "releasing",
                                  ![i][r].todo = IF Coordinated THEN @ ELSE {},
                                  ![i][r].released = IF Coordinated THEN {} ELSE t.todo]
        /\ UNCHANGED net
  /\ UNCHANGED <<conf, devices, owner, draining, edits, deployment>>

\* ReleaseNodeIfOwned for a node that was taken out; a failure is left to the connection.
ReleaseRemoved(i, r) ==
  \E n \in tasks[i][r].todo :
    LET t == tasks[i][r]
        c == t.conn
    IN
    /\ t.pc = "releasing"
    /\ \/ /\ ReleaseKey(c, n)
          /\ tasks' = [tasks EXCEPT ![i][r].todo = @ \ {n},
                                    ![i][r].released = IF owner[n] = c THEN @ \cup {n} ELSE @]
          /\ UNCHANGED conns
       \/ /\ ReleaseFails(c, n)
          /\ tasks' = [tasks EXCEPT ![i][r].todo = @ \ {n}, ![i][r].failed = TRUE,
                                    ![i][r].retry = @ \/ Unregistered(c)]
          /\ conns' = [conns EXCEPT ![c].pending = @ \cup {n}]
    /\ UNCHANGED <<conf, devices, net, hub, draining, edits, deployment>>

\* clearNodeDevices, then the connection is closed if a release failed, and cleaned up
\* here if it had left the hub before the failure was noted.
ClearRemoved(i, r) ==
  LET t == tasks[i][r]
      c == t.conn
  IN
  /\ t.pc = "releasing"
  /\ t.todo = {}
  /\ devices' = Cleared(t.released)
  /\ IF t.retry
     THEN /\ tasks' = [tasks EXCEPT ![i][r].pc = "retrying", ![i][r].released = {},
                                    ![i][r].todo = conns[c].pending]
          /\ conns' = [conns EXCEPT ![c].closed = TRUE, ![c].pending = {}]
          /\ UNCHANGED net
     ELSE /\ conns' = Marked(IF t.failed THEN {c} ELSE {}, {})
          /\ End(i, r, net)
  /\ UNCHANGED <<conf, owner, hub, draining, edits, deployment>>

\* unregisterAndClear again, for the releases that failed.
Retry(i, r) ==
  LET t == tasks[i][r]
  IN
  /\ t.pc = "retrying"
  /\ \/ /\ t.todo = {}
        /\ devices' = Cleared(t.released)
        /\ End(i, r, net)
        /\ UNCHANGED owner
     \/ \E n \in t.todo :
          /\ \/ /\ ReleaseKey(t.conn, n)
                /\ tasks' = [tasks EXCEPT ![i][r].todo = @ \ {n},
                                ![i][r].released = IF owner[n] = t.conn THEN @ \cup {n} ELSE @]
             \/ /\ ReleaseFails(t.conn, n)
                /\ tasks' = [tasks EXCEPT ![i][r].todo = @ \ {n}]
          /\ UNCHANGED <<devices, net>>
  /\ UNCHANGED <<conf, hub, draining, conns, edits, deployment>>

-----------------------------------------------------------------------------
(* Administration and failures *)

\* DisconnectMachine: the machine's lease is revoked, the others are told, the connection closed.
DisconnectMachine(i, m) ==
  /\ "admin" \in Roles
  /\ edits < deployment.edits
  /\ edits' = edits + 1 /\ UNCHANGED deployment
  /\ conns' = Marked({hub[i][m]} \ {None}, {})
  /\ \/ /\ Coordinated
        /\ owner' = [owner EXCEPT ![m] = None]
        /\ net' = Sent(net, i, [kind |-> "disconnect_machine", keys |-> {m}, conn |-> None])
     \/ (~Coordinated \/ "redis" \in faults) /\ UNCHANGED <<owner, net>>
  /\ UNCHANGED <<conf, devices, hub, draining, tasks>>

\* runUntil's shutdown: no connection is admitted any more and the present ones are closed.
Drain(i) ==
  /\ "drain" \in faults
  /\ ~draining[i]
  /\ ~Busy(i, "reconcile")
  /\ draining' = [draining EXCEPT ![i] = TRUE]
  /\ conns' = Marked({hub[i][k] : k \in Keys} \ {None}, {})
  /\ UNCHANGED <<conf, devices, owner, net, hub, tasks, edits, deployment>>

Emptied(i) ==
  /\ hub' = [hub EXCEPT ![i] = [k \in Keys |-> None]]
  /\ net' = [net EXCEPT ![i] = <<>>]
  /\ tasks' = [tasks EXCEPT ![i] = [r \in Threads |-> Idle]]
  /\ draining' = [draining EXCEPT ![i] = FALSE]

\* runHTTPServer has waited for the handlers and for every connection; the process is replaced.
Restart(i) ==
  /\ draining[i]
  /\ ~Busy(i, "admin")
  /\ \A c \in Conns : conns[c].inst = i => conns[c].phase \in Over
  /\ Emptied(i)
  /\ conns' = [c \in Conns |-> IF conns[c].inst = i THEN [conns[c] EXCEPT !.pending = {}] ELSE conns[c]]
  /\ UNCHANGED <<conf, devices, owner, edits, deployment>>

Crash(i) ==
  /\ "crash" \in faults
  /\ Emptied(i)
  /\ conns' = [c \in Conns |-> IF conns[c].inst # i THEN conns[c]
                               ELSE IF conns[c].phase \in Over THEN [conns[c] EXCEPT !.pending = {}]
                               ELSE [NoConn EXCEPT !.phase = "lost"]]
  /\ UNCHANGED <<conf, devices, owner, edits, deployment>>

\* The lease of a key runs out.
Expire(k) ==
  /\ "expiry" \in faults
  /\ owner[k] # None
  /\ owner' = [owner EXCEPT ![k] = None]
  /\ UNCHANGED <<conf, devices, net, hub, draining, conns, tasks, edits, deployment>>

\* Pub/Sub does not retain what a subscriber misses.
LoseEvent(i) ==
  /\ "loss" \in faults
  /\ net[i] # <<>>
  /\ net' = [net EXCEPT ![i] = Tail(@)]
  /\ UNCHANGED <<conf, devices, owner, hub, draining, conns, tasks, edits, deployment>>

-----------------------------------------------------------------------------
Init ==
  /\ conf \in [Nodes -> Machines \cup {None}]
  /\ devices = [n \in Nodes |-> None]
  /\ owner = [k \in Keys |-> None]
  /\ net = [i \in Instances |-> <<>>]
  /\ hub = [i \in Instances |-> [k \in Keys |-> None]]
  /\ draining = [i \in Instances |-> FALSE]
  /\ conns = [c \in Conns |-> NoConn]
  /\ tasks = [i \in Instances |-> [r \in Threads |-> Idle]]
  /\ edits = 0
  /\ deployment \in Deployments

Handshake(c) == (\E i \in deployment.instances : Accept(c, i)) \/ Claim(c) \/ Register(c) \/ Withdraw(c) \/ Verify(c)

Serve(c) == Hangup(c) \/ Stop(c) \/ (\E n \in Nodes : Receive(c, n)) \/ Apply(c) \/ StoreDevices(c)

Depart(c) == Unregister(c) \/ Release(c) \/ Clear(c)

Synchronise(i, r) == Purge(i, r) \/ Snapshot(i, r) \/ Pick(i, r) \/ ClaimNodes(i, r) \/ Install(i, r)
                       \/ ReleaseRemoved(i, r) \/ ClearRemoved(i, r) \/ Retry(i, r)

Administer(i) ==
  /\ i \in deployment.desks
  /\ \/ \E n \in Nodes, m \in Machines : AssignNode(i, n, m)
     \/ \E n \in Nodes : UnassignNode(i, n)
     \/ \E m \in Machines : DisconnectMachine(i, m)

Next ==
  \/ \E c \in Conns : Handshake(c) \/ Serve(c) \/ Depart(c) \/ Renew(c) \/ RenewFails(c)
  \/ \E i \in Instances, r \in Threads : Synchronise(i, r)
  \/ \E i \in Instances, m \in Machines : Reconcile(i, m)
  \/ \E i \in deployment.instances : HandleEvent(i) \/ LoseEvent(i) \/ Administer(i) \/ Drain(i) \/ Restart(i) \/ Crash(i)
  \/ \E k \in Keys : Expire(k)

Spec == Init /\ [][Next]_vars

\* The runtime schedules the goroutines of an instance: connections advance, ...
ConnectionsRun ==
  \A c \in Conns : /\ WF_vars(Claim(c) \/ Register(c) \/ Withdraw(c) \/ Verify(c))
                   /\ WF_vars(Stop(c) \/ Apply(c) \/ StoreDevices(c) \/ Depart(c))
                   /\ WF_vars(Renew(c))

\* ... some run of notifyMachineNodes goes on, and the ticker of runUntil looks at some
\* connection that is out of date.
ThreadsRun ==
  \A i \in Instances : /\ WF_vars(\E r \in Threads : Synchronise(i, r))
                       /\ WF_vars(\E m \in Machines : Reconcile(i, m))

ConnSpec == Spec /\ ConnectionsRun
FairSpec == ConnSpec /\ ThreadsRun

-----------------------------------------------------------------------------
TypeOK ==
  /\ conf \in [Nodes -> Machines \cup {None}]
  /\ devices \in [Nodes -> Conns \cup {None}]
  /\ owner \in [Keys -> Conns \cup {None}]
  /\ net \in [Instances -> Seq(Event)]
  /\ hub \in [Instances -> [Keys -> Conns \cup {None}]]
  /\ draining \in [Instances -> BOOLEAN]
  /\ conns \in [Conns -> Conn]
  /\ tasks \in [Instances -> [Threads -> Task]]
  /\ edits \in 0 .. deployment.edits
  /\ deployment \in Deployments

\* A connection that lost a lease while it is served will be told: the replacement event of
\* the claim that took the key is still on its way to its instance, or the claimer is about
\* to register in the same hub.  The check after register (websocket.go, webSocket) is what
\* makes this so: an event handled before registration finds nothing to close.
LossAnnounced ==
    \A c \in Conns : conns[c].phase \in Served /\ ~conns[c].closed =>
      \A k \in Own(c) :
        \/ owner[k] = c
        \/ \E x \in 1 .. Len(net[conns[c].inst]) :
              LET e == net[conns[c].inst][x]
              IN  e.kind = "replacement" /\ k \in e.keys /\ e.conn # c
        \/ \E d \in Conns \ {c} : /\ conns[d].inst = conns[c].inst /\ k \in Own(d)
                                  /\ conns[d].phase = "claimed"

\* A connection that was served, or turned away by a drain, and that
\* nobody competed with, leaves nothing behind: no lease, no entry of a hub, no device
\* snapshot.
NothingLeft ==
  \A c \in Conns : conns[c].phase = "ended" /\ ~conns[c].contested =>
    /\ \A k \in Keys : owner[k] # c /\ \A i \in Instances : hub[i][k] # c
    /\ \A n \in Nodes : devices[n] # c

\* While Redis works and no thread synchronises node sets, every lease is followed by the
\* connection that has it: lost ones are announced, and none outlives its connection.
LeasesFollowed ==
  Coordinated /\ Roles = {} /\ faults \subseteq {"drain", "credential"} => LossAnnounced /\ NothingLeft

\* A hub never leads to a connection that has left: not for a key the connection lists, and
\* not for its machine, however the runs of notifyMachineNodes interleave with departures.
LeadsToLive ==
  \A i \in Instances, k \in Keys :
    LET c == hub[i][k]
    IN  c # None /\ (k \in Machines \/ k \in Own(c)) => conns[c].inst = i /\ conns[c].phase \in Live

\* A release that failed is not forgotten: once the connection is gone, the run of
\* notifyMachineNodes that noted the failure is going to retry it (wsConnection.unregistered).
ReleasesRetried ==
  \A c \in Conns : conns[c].phase = "ended" /\ conns[c].pending # {} =>
    \E i \in Instances, r \in Threads :
      tasks[i][r].conn = c /\ tasks[i][r].pc = "releasing" /\ tasks[i][r].retry

\* What a connection that has left still has in the process: no entry of a hub, and a failed
\* release only while the run of notifyMachineNodes that retries it is under way.
HubLeadsToLive == LeadsToLive /\ ReleasesRetried

\* unregisterAndClear: "A reconnect cannot publish a new snapshot and then have it removed by
\* this stale close path": the last step of a departure keeps the device snapshot of every
\* other connection that is current for its node.
CloseFenced ==
  \A c, d \in Conns, n \in Nodes :
       /\ c # d /\ conns[c].phase \in {"leaving", "clearing"} /\ conns'[c].phase = "ended"
       /\ devices[n] = d /\ conns[d].phase \in Served /\ hub[conns[d].inst][n] = d
       => devices'[n] = d

StaleCloseFenced == [][CloseFenced]_vars

\* The same in a process that is not coordinated through Redis, where the hub's mutex covers
\* the whole path.
LocalCloseFenced == [][~Coordinated => CloseFenced]_vars

\* Whoever lost a lease is served no longer, even when the events about it are lost: the
\* renewal every minute finds out.
LostLeaseCloses ==
  \A c \in Conns : (Coordinated /\ conns[c].phase \in Served /\ ~Holds(c, Own(c))) ~> (conns[c].phase \notin Served)

\* Once administrators stop reassigning nodes, every connection's node set becomes, and stays,
\* the database's, although runs of notifyMachineNodes on a request, an event and the reconcile
\* ticker hold plans read between different assignments and the oldest may be installed last.
NodeSetsConverge ==
  <>[](\A i \in Instances, m \in Machines :
         hub[i][m] # None => conns[hub[i][m]].nodes = NodesOf(m))

=============================================================================
